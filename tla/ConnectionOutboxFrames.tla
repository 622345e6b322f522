----------------------- MODULE ConnectionOutboxFrames -----------------------
(***************************************************************************)
(* Proofs about what is queued where: an attachment's pending marker, its  *)
(* staged response and its events; the Welcome.                            *)
(***************************************************************************)
EXTENDS ConnectionOutboxProofs

(* Sequences of frames: a staged response in one, and there only once. *)
Holds(q, a) == \E i \in DOMAIN q : Staged(q[i], a)
Once(q, a)  == \A i, j \in DOMAIN q : Staged(q[i], a) /\ Staged(q[j], a) => i = j
EventsOf(q, k) == \A i \in DOMAIN q : q[i].kind = "event" /\ q[i].of = k
NoEvents(q) == \A i \in DOMAIN q : q[i].kind # "event"

(* What a queue holds after a frame was appended to it, *)
LEMMA AppendFrames ==
  ASSUME NEW S, NEW q \in Seq(S), NEW f \in S
  PROVE  /\ \A a : Holds(Append(q, f), a) <=> Holds(q, a) \/ Staged(f, a)
         /\ \A a : Once(q, a) /\ ~(Holds(q, a) /\ Staged(f, a)) => Once(Append(q, f), a)
         /\ \A k : EventsOf(q, k) /\ f.kind = "event" /\ f.of = k => EventsOf(Append(q, f), k)
         /\ NoEvents(q) /\ f.kind # "event" => NoEvents(Append(q, f))
<1> DEFINE r == Append(q, f)
<1>1. /\ DOMAIN q = 1 .. Len(q) /\ Len(q) \in Nat
      /\ DOMAIN r = 1 .. Len(q) + 1
      /\ \A i \in 1 .. Len(q) : r[i] = q[i]
      /\ r[Len(q) + 1] = f
  OBVIOUS
<1> DEFINE n == Len(q)
<1> HIDE DEF r, n
<1>2. /\ DOMAIN q = 1 .. n /\ n \in Nat
      /\ DOMAIN r = 1 .. n + 1
      /\ \A i \in 1 .. n : r[i] = q[i]
      /\ r[n + 1] = f
      /\ n + 1 \in 1 .. n + 1
      /\ \A i \in 1 .. n + 1 : i = n + 1 \/ i \in 1 .. n
      /\ \A i \in 1 .. n : i \in 1 .. n + 1
  BY <1>1 DEF n
<1>3. \A a : Holds(r, a) <=> Holds(q, a) \/ Staged(f, a)
  BY <1>2 DEF Holds
<1>4. \A a : Once(q, a) /\ ~(Holds(q, a) /\ Staged(f, a)) => Once(r, a)
  BY <1>2 DEF Once, Holds
<1>5. \A k : EventsOf(q, k) /\ f.kind = "event" /\ f.of = k => EventsOf(r, k)
  BY <1>2 DEF EventsOf
<1>6. NoEvents(q) /\ f.kind # "event" => NoEvents(r)
  BY <1>2 DEF NoEvents
<1> QED
  BY <1>3, <1>4, <1>5, <1>6 DEF r

(* after one of its frames was removed, *)
LEMMA RemoveFrames ==
  ASSUME NEW S, NEW q \in Seq(S), NEW i \in 1 .. Len(q), NEW r,
         r \in Seq(S), Len(r) = Len(q) - 1,
         \A j \in 1 .. Len(q) - 1 : r[j] = IF j < i THEN q[j] ELSE q[j + 1]
  PROVE  /\ \A a : Once(q, a) => Once(r, a)
         /\ \A a : Once(q, a) => (Holds(r, a) <=> Holds(q, a) /\ ~Staged(q[i], a))
         /\ \A k : EventsOf(q, k) => EventsOf(r, k)
         /\ NoEvents(q) => NoEvents(r)
<1>1. DOMAIN q = 1 .. Len(q) /\ DOMAIN r = 1 .. Len(r) /\ Len(q) \in Nat
  OBVIOUS
<1>2. \A j \in DOMAIN r :
        \E k \in DOMAIN q : r[j] = q[k] /\ k # i /\ k = IF j < i THEN j ELSE j + 1
  BY <1>1
<1>3. ASSUME NEW k \in DOMAIN q, k # i
      PROVE  \E j \in DOMAIN r : r[j] = q[k]
  <2>1. CASE k < i
    <3>1. k \in 1 .. Len(q) - 1
      BY <1>1, <2>1
    <3>2. r[k] = q[k]
      BY <2>1, <3>1
    <3> QED
      BY <1>1, <3>1, <3>2
  <2>2. CASE k > i
    <3>1. k - 1 \in 1 .. Len(q) - 1 /\ ~(k - 1 < i) /\ (k - 1) + 1 = k
      BY <1>1, <2>2
    <3>2. r[k - 1] = q[k]
      BY <3>1
    <3> QED
      BY <1>1, <3>1, <3>2
  <2> QED
    BY <1>1, <1>3, <2>1, <2>2
<1>4. \A a : Once(q, a) => Once(r, a)
  <2> SUFFICES ASSUME NEW a, Once(q, a), NEW j1 \in DOMAIN r, NEW j2 \in DOMAIN r,
                      Staged(r[j1], a), Staged(r[j2], a)
               PROVE  j1 = j2
    BY DEF Once
  <2>1. PICK k1 \in DOMAIN q : r[j1] = q[k1] /\ k1 = IF j1 < i THEN j1 ELSE j1 + 1
    BY <1>2
  <2>2. PICK k2 \in DOMAIN q : r[j2] = q[k2] /\ k2 = IF j2 < i THEN j2 ELSE j2 + 1
    BY <1>2
  <2>3. k1 = k2
    BY <2>1, <2>2 DEF Once
  <2> QED
    BY <1>1, <2>1, <2>2, <2>3
<1>5. ASSUME NEW a, Once(q, a)
      PROVE  Holds(r, a) <=> Holds(q, a) /\ ~Staged(q[i], a)
  <2>1. ASSUME Holds(r, a)
        PROVE  Holds(q, a) /\ ~Staged(q[i], a)
    BY <1>1, <1>2, <1>5, <2>1 DEF Holds, Once
  <2>2. ASSUME Holds(q, a), ~Staged(q[i], a)
        PROVE  Holds(r, a)
    BY <1>3, <2>2 DEF Holds
  <2> QED
    BY <2>1, <2>2
<1>6. \A k : EventsOf(q, k) => EventsOf(r, k)
  BY <1>2 DEF EventsOf
<1>7. NoEvents(q) => NoEvents(r)
  BY <1>2 DEF NoEvents
<1> QED
  BY <1>4, <1>5, <1>6, <1>7

(* after its first frame was popped, and *)
LEMMA TailFrames ==
  ASSUME NEW S, NEW q \in Seq(S), q # <<>>
  PROVE  /\ \A a : Once(q, a) => Once(Tail(q), a)
         /\ \A a : Once(q, a) => (Holds(Tail(q), a) <=> Holds(q, a) /\ ~Staged(Head(q), a))
         /\ \A k : EventsOf(q, k) => EventsOf(Tail(q), k)
         /\ NoEvents(q) => NoEvents(Tail(q))
<1> DEFINE r == Tail(q)
<1>1. 1 \in 1 .. Len(q) /\ Head(q) = q[1]
  OBVIOUS
<1>2. /\ r \in Seq(S) /\ Len(r) = Len(q) - 1
      /\ \A j \in 1 .. Len(r) : r[j] = q[j + 1]
  BY HeadTailProperties
<1> HIDE DEF r
<1>3. \A j \in 1 .. Len(q) - 1 : r[j] = IF j < 1 THEN q[j] ELSE q[j + 1]
  BY <1>2
<1>4. /\ \A a : Once(q, a) => Once(r, a)
      /\ \A a : Once(q, a) => (Holds(r, a) <=> Holds(q, a) /\ ~Staged(q[1], a))
      /\ \A k : EventsOf(q, k) => EventsOf(r, k)
      /\ NoEvents(q) => NoEvents(r)
  BY <1>1, <1>2, <1>3, RemoveFrames
<1> QED
  BY <1>1, <1>4 DEF r

(* after the staged response of an attachment was spliced out. *)
LEMMA UnstagedFrames ==
  ASSUME NEW S, NEW q \in Seq(S), NEW a, Once(q, a)
  PROVE  /\ ~Holds(Unstaged(q, a), a)
         /\ \A c : Once(q, c) => Once(Unstaged(q, a), c)
         /\ \A c : c # a /\ Once(q, c) => (Holds(Unstaged(q, a), c) <=> Holds(q, c))
         /\ NoEvents(q) => NoEvents(Unstaged(q, a))
<1> DEFINE r == Unstaged(q, a)
<1>0. DOMAIN q = 1 .. Len(q)
  OBVIOUS
<1>1. CASE r = q /\ \A i \in 1 .. Len(q) : ~Staged(q[i], a)
  BY <1>0, <1>1 DEF Holds
<1>2. ASSUME NEW i \in 1 .. Len(q), Staged(q[i], a), r = RemoveAt(q, i)
      PROVE  /\ ~Holds(r, a)
             /\ \A c : Once(q, c) => Once(r, c)
             /\ \A c : c # a /\ Once(q, c) => (Holds(r, c) <=> Holds(q, c))
             /\ NoEvents(q) => NoEvents(r)
  <2>1. /\ r \in Seq(S) /\ Len(r) = Len(q) - 1
        /\ \A j \in 1 .. Len(q) - 1 : r[j] = IF j < i THEN q[j] ELSE q[j + 1]
    BY <1>2, RemoveAtType
  <2> HIDE DEF r
  <2>2. /\ \A c : Once(q, c) => Once(r, c)
        /\ \A c : Once(q, c) => (Holds(r, c) <=> Holds(q, c) /\ ~Staged(q[i], c))
        /\ NoEvents(q) => NoEvents(r)
    BY <2>1, RemoveFrames
  <2>3. \A c : Staged(q[i], c) => c = a
    BY <1>2 DEF Staged
  <2> QED
    BY <1>2, <2>2, <2>3
<1> QED
  BY <1>1, <1>2, UnstagedIs

-----------------------------------------------------------------------------
(***************************************************************************)
(* A stream's lane holds its events and nothing else; replies are on the   *)
(* System lane or on the floor.  An attachment's response is staged at     *)
(* most once, and its marker is set exactly while it is.                   *)
(***************************************************************************)
Frames(b) ==
    /\ \A k \in Streams : EventsOf(b.lanes[k], k)
    /\ NoEvents(b.lanes[System]) /\ NoEvents(b.floor)
    /\ \A a \in Attachments :
         /\ Once(b.lanes[System], a) /\ Once(b.floor, a)
         /\ ~(Holds(b.lanes[System], a) /\ Holds(b.floor, a))
         /\ a \in b.pending <=> Holds(b.lanes[System], a) \/ Holds(b.floor, a)

SameFrames(b, c) == c.lanes = b.lanes /\ c.floor = b.floor /\ c.pending = b.pending

(* Frames depends on the lanes, the floor and the markers only. *)
LEMMA SameKeepsFrames ==
  ASSUME NEW b, NEW c, Frames(b), SameFrames(b, c)
  PROVE  Frames(c)
  BY DEF Frames, SameFrames

(* The kinds of streams are disjoint; System is no stream, Nobody no       *)
(* lane.                                                                   *)
LEMMA LaneKinds ==
  /\ System \in Lanes /\ System \notin Streams
  /\ Streams \subseteq Lanes /\ Attachments \subseteq Streams
  /\ Monitors \subseteq Streams /\ Looms \subseteq Streams
  /\ Attachments \cap Monitors = {} /\ Attachments \cap Looms = {}
  /\ Nobody \notin Lanes
  BY OutboxAssumption DEF Lanes, Streams, Ordered

(* Ticket operations and close move no frame. *)
LEMMA TicketsKeepFrames ==
  ASSUME NEW b \in BoxType, NEW s
  PROVE  /\ SameFrames(b, Fire(b)) /\ SameFrames(b, FireIfRoom(b))
         /\ SameFrames(b, DropTicket(b, s)) /\ SameFrames(b, DrainTicket(b, s))
         /\ SameFrames(b, CancelTicket(b, s)) /\ SameFrames(b, Close(b))
<1>1. \A c \in BoxType : SameFrames(c, Fire(c)) /\ SameFrames(c, FireIfRoom(c))
  BY DEF SameFrames, Fire, FireIfRoom, BoxType
<1>2. SameFrames(b, DropTicket(b, s))
  BY DEF SameFrames, DropTicket, BoxType
<1>3. SameFrames(b, DrainTicket(b, s))
  BY DEF SameFrames, DrainTicket, BoxType
<1>4. SameFrames(b, CancelTicket(b, s))
  BY <1>1, <1>2, DropTicketType DEF SameFrames, CancelTicket
<1>5. SameFrames(b, Close(b))
  BY DEF SameFrames, Close, BoxType
<1> QED
  BY <1>1, <1>2, <1>3, <1>4, <1>5

(* An admitted offer appends an event to its own lane. *)
LEMMA OfferedFrames ==
  ASSUME NEW b \in Good, Frames(b), NEW s \in Streams, NEW n \in Nat
  PROVE  /\ Frames(Offered(b, s, n))
         /\ Offered(b, s, n).pending = b.pending
         /\ \A k \in Lanes \ {s} : Offered(b, s, n).lanes[k] = b.lanes[k]
<1> DEFINE d == DropTicket(b, s)
           f == Frame("event", s, n)
           e == Enqueue(d, s, f)
<1>1. b \in BoxType /\ d \in BoxType /\ s \in Lanes /\ f \in FrameSet
  <2>1. "event" \in Kinds /\ s \in Lanes
    BY LaneKinds DEF Kinds
  <2> QED
    BY <2>1, DropTicketType, FrameType DEF Good
<1>2. e \in BoxType
  BY <1>1, EnqueueType
<1>3. SameFrames(b, d)
  BY <1>1, TicketsKeepFrames
<1>4. f.kind = "event" /\ f.of = s
  BY DEF Frame
<1> HIDE DEF d, f
<1>5. e.lanes = [d.lanes EXCEPT ![s] = Append(d.lanes[s], f)] /\ e.floor = d.floor
      /\ e.pending = d.pending
  BY <1>1 DEF Enqueue, BoxType
<1> HIDE DEF e
<1>6. b.lanes \in [Lanes -> Seq(FrameSet)] /\ b.lanes[s] \in Seq(FrameSet)
  BY <1>1, BoxFields
<1>7. /\ e.lanes[s] = Append(b.lanes[s], f)
      /\ \A k \in Lanes \ {s} : e.lanes[k] = b.lanes[k]
      /\ e.floor = b.floor /\ e.pending = b.pending
  BY <1>1, <1>3, <1>5, <1>6 DEF SameFrames
<1>8. EventsOf(Append(b.lanes[s], f), s)
  BY <1>1, <1>4, <1>6, AppendFrames DEF Frames
<1>9. Frames(e)
  BY <1>7, <1>8, LaneKinds DEF Frames
<1>10. Offered(b, s, n) = FireIfRoom(e) /\ SameFrames(e, FireIfRoom(e))
  BY <1>2, TicketsKeepFrames DEF Offered, d, e, f
<1> QED
  BY <1>7, <1>9, <1>10, SameKeepsFrames DEF SameFrames

(* A reply goes to the System lane or the floor; a response sets its       *)
(* marker.                                                                 *)
LEMMA PushFrames ==
  ASSUME NEW b \in Good, Frames(b), NEW f \in FrameSet, f.kind # "event",
         f.kind = "response" => f.of \notin b.pending
  PROVE  /\ Frames(Push(b, f))
         /\ Push(b, f).pending = IF f.kind = "response" THEN b.pending \cup {f.of} ELSE b.pending
         /\ \A k \in Streams : Push(b, f).lanes[k] = b.lanes[k]
<1> DEFINE m == Marked(b, f)
           g == [f EXCEPT !.floor = TRUE]
           c == Push(b, f)
           pending == IF f.kind = "response" THEN b.pending \cup {f.of} ELSE b.pending
<1>1. b \in BoxType /\ (f.kind = "response" => f.of \in Attachments)
  BY DEF Good, FrameSet
<1>2. m \in BoxType /\ m.lanes = b.lanes /\ m.floor = b.floor /\ m.pending = pending
  BY <1>1 DEF Marked, BoxType
<1>3. g \in FrameSet /\ g.kind = f.kind /\ g.of = f.of
  BY DEF FrameSet
<1>4. /\ b.lanes \in [Lanes -> Seq(FrameSet)] /\ b.lanes[System] \in Seq(FrameSet)
      /\ b.floor \in Seq(FrameSet)
  BY <1>1, BoxFields, LaneKinds
<1>5. \A a : (Staged(g, a) <=> Staged(f, a)) /\ (a \in pending <=> a \in b.pending \/ Staged(f, a))
  BY <1>3 DEF Staged
<1>6. \A a \in Attachments : Staged(f, a) =>
        ~Holds(b.lanes[System], a) /\ ~Holds(b.floor, a)
  BY DEF Frames, Staged
<1> HIDE DEF m, g, pending
<1>7. CASE OrdinaryAdmits(b, System, f.size)
  <2>1. /\ c.lanes = [m.lanes EXCEPT ![System] = Append(m.lanes[System], f)]
        /\ c.floor = m.floor /\ c.pending = m.pending
    <3>1. c = Enqueue(m, System, f)
      BY <1>7 DEF Push, m
    <3> QED
      BY <1>2, <3>1 DEF Enqueue, BoxType
  <2> HIDE DEF c
  <2>2. /\ c.lanes[System] = Append(b.lanes[System], f)
        /\ \A k \in Streams : c.lanes[k] = b.lanes[k]
        /\ c.floor = b.floor /\ c.pending = pending
    BY <1>2, <1>4, <2>1, LaneKinds
  <2>3. /\ \A a : Holds(c.lanes[System], a) <=> Holds(b.lanes[System], a) \/ Staged(f, a)
        /\ \A a : Once(b.lanes[System], a) /\ ~(Holds(b.lanes[System], a) /\ Staged(f, a))
                    => Once(c.lanes[System], a)
        /\ NoEvents(b.lanes[System]) => NoEvents(c.lanes[System])
    BY <1>4, <2>2, AppendFrames
  <2>4. Frames(c)
    BY <1>5, <1>6, <2>2, <2>3 DEF Frames
  <2> QED
    BY <2>2, <2>4 DEF c, pending
<1>8. CASE ~OrdinaryAdmits(b, System, f.size)
  <2>1. /\ c.lanes = m.lanes /\ c.pending = m.pending
        /\ c.floor = Append(m.floor, g)
    <3>1. c = [m EXCEPT !.floor = Append(@, g), !.floorInUse = 1]
      BY <1>8 DEF Push, m, g
    <3> QED
      BY <1>2, <3>1 DEF BoxType
  <2> HIDE DEF c
  <2>2. /\ c.lanes = b.lanes /\ c.pending = pending
        /\ c.floor = Append(b.floor, g)
    BY <1>2, <2>1
  <2>3. /\ \A a : Holds(c.floor, a) <=> Holds(b.floor, a) \/ Staged(g, a)
        /\ \A a : Once(b.floor, a) /\ ~(Holds(b.floor, a) /\ Staged(g, a))
                    => Once(c.floor, a)
        /\ NoEvents(b.floor) => NoEvents(c.floor)
    BY <1>3, <1>4, <2>2, AppendFrames
  <2>4. Frames(c)
    BY <1>5, <1>6, <2>2, <2>3 DEF Frames
  <2> QED
    BY <2>2, <2>4 DEF c, pending
<1> QED
  BY <1>7, <1>8

(* The marker goes with the frame that recv hands to the writer. *)
LEMMA FinishPopFields ==
  ASSUME NEW b \in BoxType, NEW f
  PROVE  /\ FinishPop(b, f).lanes = b.lanes
         /\ FinishPop(b, f).floor = b.floor
         /\ FinishPop(b, f).pending = IF f.kind = "response" THEN b.pending \ {f.of}
                                                            ELSE b.pending
<1> DEFINE c == [b EXCEPT !.pending = IF f.kind = "response" THEN @ \ {f.of} ELSE @,
                          !.welcomeQueued = @ /\ f.kind # "welcome"]
<1>1. /\ c \in BoxType /\ c.lanes = b.lanes /\ c.floor = b.floor
      /\ c.pending = IF f.kind = "response" THEN b.pending \ {f.of} ELSE b.pending
  BY DEF BoxType
<1>2. FinishPop(b, f) = Fire(c)
  BY DEF FinishPop
<1> HIDE DEF c
<1> QED
  BY <1>1, <1>2, TicketsKeepFrames DEF SameFrames

(* recv from the floor takes no event and clears the marker of a           *)
(* response.                                                               *)
LEMMA PopFloorFrames ==
  ASSUME NEW b \in Good, Frames(b), b.floor # <<>>
  PROVE  LET f == Head(b.floor)
             c == FinishPop([b EXCEPT !.floor = Tail(@)], f)
         IN  /\ Frames(c) /\ c.lanes = b.lanes
             /\ c.pending = IF f.kind = "response" THEN b.pending \ {f.of} ELSE b.pending
             /\ f.kind # "event"
<1> DEFINE f == Head(b.floor)
           t == [b EXCEPT !.floor = Tail(@)]
           c == FinishPop(t, f)
<1>1. b \in BoxType /\ b.floor \in Seq(FrameSet)
  BY BoxFields DEF Good
<1>2. t \in BoxType /\ t.lanes = b.lanes /\ t.pending = b.pending /\ t.floor = Tail(b.floor)
  BY <1>1, PopTypes DEF BoxType
<1>3. f.kind # "event"
  <2>1. 1 \in DOMAIN b.floor /\ f = b.floor[1]
    BY <1>1
  <2> QED
    BY <2>1 DEF Frames, NoEvents
<1> HIDE DEF t
<1>4. /\ c.lanes = t.lanes /\ c.floor = t.floor
      /\ c.pending = IF f.kind = "response" THEN t.pending \ {f.of} ELSE t.pending
  BY <1>2, FinishPopFields
<1>5. /\ \A a : Once(b.floor, a) => Once(Tail(b.floor), a)
      /\ \A a : Once(b.floor, a) =>
                  (Holds(Tail(b.floor), a) <=> Holds(b.floor, a) /\ ~Staged(f, a))
      /\ NoEvents(b.floor) => NoEvents(Tail(b.floor))
  BY <1>1, TailFrames
<1> HIDE DEF c, f
<1>6. \A a : Staged(f, a) <=> f.kind = "response" /\ f.of = a
  BY DEF Staged
<1>7. \A a : a \in c.pending <=> a \in b.pending /\ ~Staged(f, a)
  BY <1>2, <1>4, <1>6
<1>8. \A a \in Attachments : Staged(f, a) => Holds(b.floor, a)
  <2>1. 1 \in DOMAIN b.floor /\ f = b.floor[1]
    BY <1>1 DEF f
  <2> QED
    BY <2>1 DEF Holds
<1>9. Frames(c)
  BY <1>2, <1>4, <1>5, <1>7, <1>8 DEF Frames
<1> QED
  BY <1>2, <1>3, <1>4, <1>9 DEF c, f, t

(* The fields that a pop from a lane changes. *)
LEMMA PopLaneFields ==
  ASSUME NEW b \in Good, NEW k \in Lanes, b.lanes[k] # <<>>
  PROVE  /\ PopLane(b, k) \in BoxType
         /\ PopLane(b, k).lanes = [b.lanes EXCEPT ![k] = Tail(b.lanes[k])]
         /\ PopLane(b, k).floor = b.floor /\ PopLane(b, k).pending = b.pending
  BY PopTypes DEF Good, PopLane, BoxType

(* recv from a stream's lane takes an event of that stream; from the       *)
(* System lane it clears the marker of a response.                         *)
LEMMA PopLaneFrames ==
  ASSUME NEW b \in Good, Frames(b), NEW k \in Lanes, b.lanes[k] # <<>>
  PROVE  LET f == Head(b.lanes[k])
             c == FinishPop(PopLane(b, k), f)
         IN  /\ Frames(c)
             /\ c.pending = IF f.kind = "response" THEN b.pending \ {f.of} ELSE b.pending
             /\ \A j \in Lanes \ {k} : c.lanes[j] = b.lanes[j]
             /\ f.kind = "event" => k \in Streams /\ f.of = k
             /\ k \in Streams => f.kind = "event"
<1> DEFINE f == Head(b.lanes[k])
           t == PopLane(b, k)
           c == FinishPop(t, f)
           q == b.lanes[k]
<1>1. b \in BoxType /\ q \in Seq(FrameSet) /\ b.lanes \in [Lanes -> Seq(FrameSet)]
  BY BoxFields DEF Good
<1>2. /\ t \in BoxType /\ t.lanes = [b.lanes EXCEPT ![k] = Tail(q)]
      /\ t.floor = b.floor /\ t.pending = b.pending
  BY PopLaneFields
<1>3. 1 \in DOMAIN q /\ f = q[1] /\ q # <<>>
  BY <1>1
<1>4. k \in Streams \/ k = System
  BY DEF Lanes
<1> HIDE DEF t
<1>5. /\ c.lanes = t.lanes /\ c.floor = t.floor
      /\ c.pending = IF f.kind = "response" THEN t.pending \ {f.of} ELSE t.pending
  BY <1>2, FinishPopFields
<1>6. /\ \A a : Once(q, a) => Once(Tail(q), a)
      /\ \A a : Once(q, a) => (Holds(Tail(q), a) <=> Holds(q, a) /\ ~Staged(f, a))
      /\ \A j : EventsOf(q, j) => EventsOf(Tail(q), j)
      /\ NoEvents(q) => NoEvents(Tail(q))
  BY <1>1, <1>3, TailFrames
<1>7. /\ k \in Streams => f.kind = "event" /\ f.of = k
      /\ k = System => f.kind # "event"
  BY <1>3 DEF Frames, EventsOf, NoEvents
<1>8. \A a : Staged(f, a) => Holds(q, a)
  BY <1>3 DEF Holds
<1> HIDE DEF c, f
<1>9. /\ c.lanes[k] = Tail(q) /\ \A j \in Lanes \ {k} : c.lanes[j] = b.lanes[j]
      /\ c.floor = b.floor
  BY <1>1, <1>2, <1>5
<1>10. \A a : a \in c.pending <=> a \in b.pending /\ ~Staged(f, a)
  BY <1>2, <1>5 DEF Staged
<1>11. CASE k \in Streams
  <2>1. \A a : ~Staged(f, a)
    BY <1>7, <1>11 DEF Staged
  <2>2. Frames(c)
    BY <1>6, <1>9, <1>10, <1>11, <2>1, LaneKinds DEF Frames
  <2> QED
    BY <1>2, <1>5, <1>7, <1>9, <1>11, <2>2 DEF c, f, t
<1>12. CASE k = System
  <2>1. Frames(c)
    BY <1>6, <1>8, <1>9, <1>10, <1>12, LaneKinds DEF Frames
  <2> QED
    BY <1>2, <1>5, <1>7, <1>9, <1>12, <2>1, LaneKinds DEF c, f, t
<1> QED
  BY <1>4, <1>11, <1>12

(* The fields that dropping a lane changes. *)
LEMMA WithoutLaneFields ==
  ASSUME NEW b \in BoxType, NEW s \in Lanes
  PROVE  /\ WithoutLane(b, s) \in BoxType
         /\ WithoutLane(b, s).lanes = [b.lanes EXCEPT ![s] = <<>>]
         /\ WithoutLane(b, s).floor = b.floor /\ WithoutLane(b, s).pending = b.pending
  BY WithoutLaneType DEF WithoutLane, BoxType

(* Dropping a stream's lane leaves the other queues and the markers. *)
LEMMA WithoutLaneFrames ==
  ASSUME NEW b \in BoxType, Frames(b), NEW s \in Streams
  PROVE  /\ Frames(WithoutLane(b, s))
         /\ WithoutLane(b, s).lanes[s] = <<>>
         /\ \A k \in Lanes \ {s} : WithoutLane(b, s).lanes[k] = b.lanes[k]
<1> DEFINE c == WithoutLane(b, s)
<1>1. s \in Lanes /\ System # s /\ b.lanes \in [Lanes -> Seq(FrameSet)]
  BY LaneKinds, BoxFields
<1>2. /\ c.lanes = [b.lanes EXCEPT ![s] = <<>>]
      /\ c.floor = b.floor /\ c.pending = b.pending
  BY <1>1, WithoutLaneFields
<1> HIDE DEF c
<1>3. c.lanes[s] = <<>> /\ \A k \in Lanes \ {s} : c.lanes[k] = b.lanes[k]
  BY <1>1, <1>2
<1>4. EventsOf(<<>>, s)
  BY DEF EventsOf
<1>5. Frames(c)
  BY <1>1, <1>2, <1>3, <1>4, LaneKinds DEF Frames
<1> QED
  BY <1>3, <1>5 DEF c

(* purge_ordered empties one lane and no marker. *)
LEMMA PurgeOrderedFrames ==
  ASSUME NEW b \in Good, Frames(b), NEW s \in Streams
  PROVE  /\ Frames(PurgeOrdered(b, s))
         /\ PurgeOrdered(b, s).pending = b.pending
         /\ \A k \in Lanes \ {s} : PurgeOrdered(b, s).lanes[k] = b.lanes[k]
<1> DEFINE c == WithoutLane(b, s)
<1>1. b \in BoxType /\ s \in Lanes
  BY LaneKinds DEF Good
<1>2. c \in BoxType /\ Frames(c) /\ c.pending = b.pending
      /\ \A k \in Lanes \ {s} : c.lanes[k] = b.lanes[k]
  BY <1>1, WithoutLaneFields, WithoutLaneFrames
<1>3. PurgeOrdered(b, s) = b \/ PurgeOrdered(b, s) = FireIfRoom(c)
  BY DEF PurgeOrdered
<1> HIDE DEF c
<1>4. Frames(FireIfRoom(c)) /\ SameFrames(c, FireIfRoom(c))
  BY <1>2, TicketsKeepFrames, SameKeepsFrames
<1> QED
  BY <1>2, <1>3, <1>4 DEF SameFrames

(* purge empties the lane of an attachment and removes its marker          *)
(* together with its staged response.                                      *)
LEMMA PurgeFrames ==
  ASSUME NEW b \in Good, Frames(b), NEW a \in Attachments
  PROVE  /\ Frames(Purge(b, a))
         /\ Purge(b, a).pending = b.pending \ {a}
         /\ Purge(b, a).lanes[a] = <<>>
         /\ \A k \in Streams \ {a} : Purge(b, a).lanes[k] = b.lanes[k]
<1> DEFINE cleared  == WithoutLane(b, a)
           unmarked == [cleared EXCEPT !.pending = @ \ {a}]
           spliced  == IF a \in b.pending THEN Splice(unmarked, a) ELSE cleared
<1>1. b \in BoxType /\ a \in Streams /\ a \in Lanes
  BY LaneKinds DEF Good
<1>2. /\ cleared \in BoxType /\ Frames(cleared) /\ cleared.pending = b.pending
      /\ cleared.lanes[a] = <<>>
      /\ \A k \in Lanes \ {a} : cleared.lanes[k] = b.lanes[k]
      /\ cleared.floor = b.floor
  BY <1>1, WithoutLaneFields, WithoutLaneFrames
<1> HIDE DEF cleared
<1>3. /\ unmarked \in BoxType
      /\ unmarked.lanes = cleared.lanes /\ unmarked.floor = cleared.floor
      /\ unmarked.pending = cleared.pending \ {a}
  BY <1>2 DEF BoxType
<1> HIDE DEF unmarked
<1> DEFINE c == Splice(unmarked, a)
<1>4. /\ c \in BoxType
      /\ c.lanes = [unmarked.lanes EXCEPT ![System] = Unstaged(unmarked.lanes[System], a)]
      /\ c.floor = Unstaged(unmarked.floor, a)
      /\ c.pending = unmarked.pending
  <2>1. c \in BoxType
    BY <1>3, SpliceType
  <2>2. /\ c.lanes = [unmarked.lanes EXCEPT ![System] = Unstaged(unmarked.lanes[System], a)]
        /\ c.floor = Unstaged(unmarked.floor, a)
        /\ c.pending = unmarked.pending
    BY <1>3 DEF Splice, BoxType
  <2> QED
    BY <2>1, <2>2
<1> HIDE DEF c
<1> DEFINE q == cleared.lanes[System]
           p == cleared.floor
<1>5. q \in Seq(FrameSet) /\ p \in Seq(FrameSet) /\ cleared.lanes \in [Lanes -> Seq(FrameSet)]
  BY <1>2, BoxFields, LaneKinds
<1>6. /\ c.lanes[System] = Unstaged(q, a)
      /\ \A k \in Streams : c.lanes[k] = cleared.lanes[k]
      /\ c.floor = Unstaged(p, a)
      /\ c.pending = b.pending \ {a}
  BY <1>2, <1>3, <1>4, <1>5, LaneKinds
<1>7. /\ ~Holds(Unstaged(q, a), a)
      /\ \A e : Once(q, e) => Once(Unstaged(q, a), e)
      /\ \A e : e # a /\ Once(q, e) => (Holds(Unstaged(q, a), e) <=> Holds(q, e))
      /\ NoEvents(q) => NoEvents(Unstaged(q, a))
  BY <1>2, <1>5, UnstagedFrames DEF Frames
<1>8. /\ ~Holds(Unstaged(p, a), a)
      /\ \A e : Once(p, e) => Once(Unstaged(p, a), e)
      /\ \A e : e # a /\ Once(p, e) => (Holds(Unstaged(p, a), e) <=> Holds(p, e))
      /\ NoEvents(p) => NoEvents(Unstaged(p, a))
  BY <1>2, <1>5, UnstagedFrames DEF Frames
<1>9. Frames(c)
  BY <1>2, <1>6, <1>7, <1>8 DEF Frames
<1>10. /\ spliced \in BoxType /\ Frames(spliced) /\ spliced.pending = b.pending \ {a}
       /\ spliced.lanes[a] = <<>>
       /\ \A k \in Streams \ {a} : spliced.lanes[k] = b.lanes[k]
  BY <1>1, <1>2, <1>4, <1>6, <1>9, LaneKinds DEF c
<1>11. Purge(b, a) = spliced \/ Purge(b, a) = Fire(spliced)
  BY DEF Purge, cleared, unmarked
<1> HIDE DEF spliced
<1>12. Frames(Fire(spliced)) /\ SameFrames(spliced, Fire(spliced))
  BY <1>10, TicketsKeepFrames, SameKeepsFrames
<1> QED
  BY <1>10, <1>11, <1>12 DEF SameFrames

-----------------------------------------------------------------------------
(***************************************************************************)
(* The invariant.  An owned attachment has its response queued or already  *)
(* sent; one whose owner was taken for a purge is not owned again; and an  *)
(* attachment with queued events has been named.                           *)
(***************************************************************************)
Owners ==
    /\ \A a \in Attachments :
         /\ a \in box.pending => task[a].pc # "none"
         /\ a \in owned => a \in box.pending \/ a \in named
         /\ box.lanes[a] # <<>> => a \in named
         /\ writer.frame.kind = "event" /\ writer.frame.of = a => a \in named
         /\ task[a].pc \in {"purging", "telling"} => a \notin owned
         /\ task[a].pc = "telling" => box.lanes[a] = <<>>
    /\ \A s \in Streams \ Attachments : task[s].pc \notin {"leaving", "purging", "telling"}
    /\ conn.at \in {"detach", "answer"} => conn.of \notin owned
    /\ conn.at = "answer" => box.lanes[conn.of] = <<>>

FramesInv == TypeInv /\ Frames(box) /\ Owners

(* Move moves one task. *)
LEMMA MoveFacts ==
  ASSUME TasksOK, NEW s \in Streams, NEW pc, Move(s, pc)
  PROVE  task'[s].pc = pc /\ \A r \in Streams \ {s} : task'[r] = task[r]
<1> DEFINE t == [pc |-> pc,
                 size |-> IF pc \in {"confirm", "waiting"} THEN task[s].size ELSE 0]
<1>1. t.pc = pc /\ task' = [task EXCEPT ![s] = t]
  BY DEF Move
<1> HIDE DEF t
<1> QED
  BY <1>1 DEF TasksOK

(* So does setting it. *)
LEMMA SetFacts ==
  ASSUME TasksOK, NEW s \in Streams, NEW pc, NEW n,
         task' = [task EXCEPT ![s] = [pc |-> pc, size |-> n]]
  PROVE  task'[s].pc = pc /\ \A r \in Streams \ {s} : task'[r] = task[r]
<1> DEFINE t == [pc |-> pc, size |-> n]
<1>1. t.pc = pc /\ task' = [task EXCEPT ![s] = t]
  OBVIOUS
<1> HIDE DEF t
<1> QED
  BY <1>1 DEF TasksOK

(* What most steps leave alone. *)
QuietBox ==
    /\ Frames(box')
    /\ box'.pending = box.pending
    /\ \A a \in Attachments : box'.lanes[a] = box.lanes[a]
QuietTasks ==
    \A s \in Streams :
      \/ task'[s].pc = task[s].pc
      \/ task'[s].pc \notin {"none", "leaving", "purging", "telling"}
      \/ s \in Attachments /\ task'[s].pc = "leaving"
QuietConn ==
    \/ conn'.at \notin {"detach", "answer"}
    \/ conn'.at = conn.at /\ conn'.of = conn.of
QuietWriter == writer'.frame = writer.frame \/ writer'.frame.kind # "event"

(* A quiet step keeps the invariant. *)
LEMMA QuietStep ==
  ASSUME FramesInv, TypeInv', QuietBox, QuietTasks, QuietConn, QuietWriter,
         owned' \subseteq owned, named' = named
  PROVE  FramesInv'
<1>1. ASSUME NEW a \in Attachments
      PROVE  /\ a \in box'.pending => task'[a].pc # "none"
             /\ a \in owned' => a \in box'.pending \/ a \in named'
             /\ box'.lanes[a] # <<>> => a \in named'
             /\ writer'.frame.kind = "event" /\ writer'.frame.of = a => a \in named'
             /\ task'[a].pc \in {"purging", "telling"} => a \notin owned'
             /\ task'[a].pc = "telling" => box'.lanes[a] = <<>>
  BY LaneKinds DEF FramesInv, Owners, QuietBox, QuietTasks, QuietWriter
<1>2. \A s \in Streams \ Attachments : task'[s].pc \notin {"leaving", "purging", "telling"}
  BY DEF FramesInv, Owners, QuietTasks
<1>3. conn'.at \in {"detach", "answer"} => conn'.of \notin owned'
  BY DEF FramesInv, Owners, QuietConn
<1>4. conn'.at = "answer" => box'.lanes[conn'.of] = <<>>
  <2>1. conn.at = "answer" => conn.of \in Attachments
    BY DEF FramesInv, TypeInv, ConnOK, HandlerOK
  <2> QED
    BY <2>1 DEF FramesInv, Owners, QuietBox, QuietConn
<1> QED
  BY <1>1, <1>2, <1>3, <1>4 DEF FramesInv, Owners, QuietBox

(* A step that moves no frame is quiet for the outbox, *)
LEMMA SameIsQuiet ==
  ASSUME FramesInv, SameFrames(box, box')
  PROVE  QuietBox
  BY SameKeepsFrames DEF FramesInv, QuietBox, SameFrames

(* so is a reply that stages no response, *)
LEMMA PushIsQuiet ==
  ASSUME FramesInv, NEW f \in FrameSet, f.kind \notin {"event", "response"},
         box' = Push(box, f)
  PROVE  QuietBox
  BY PushFrames, LaneKinds DEF FramesInv, TypeInv, QuietBox

(* A reply of the connection task other than an attach response. *)
LEMMA ReplyIsQuiet ==
  ASSUME FramesInv, NEW kind \in Kinds \ {"event", "response"}, NEW of \in Lanes,
         kind = "watching" => of \in Monitors, NEW n \in ReplySizes,
         box' = Push(box, Frame(kind, of, n)) \/ SameFrames(box, box')
  PROVE  QuietBox
<1>1. n \in Nat
  BY OutboxAssumption
<1>2. Frame(kind, of, n) \in FrameSet /\ Frame(kind, of, n).kind = kind
  BY <1>1, FrameType DEF Frame
<1> QED
  BY <1>2, PushIsQuiet, SameIsQuiet

(* in particular a plain one. *)
LEMMA SystemReplyIsQuiet ==
  ASSUME FramesInv, NEW kind \in {"error", "welcome", "reply"}, NEW n \in ReplySizes,
         box' = Push(box, Frame(kind, System, n)) \/ SameFrames(box, box')
  PROVE  QuietBox
<1>1. kind \in Kinds \ {"event", "response"} /\ System \in Lanes /\ kind # "watching"
  BY LaneKinds DEF Kinds
<1> QED
  BY <1>1, ReplyIsQuiet

(* Leaving the select loop is quiet for the connection, *)
LEMMA LeaveIsQuiet ==
  ASSUME ConnOK, NEW failed, Leave(failed)
  PROVE  QuietConn
  BY DEF ConnOK, ConnType, Leave, QuietConn

(* so is the end of a baseline's delivery. *)
LEMMA DoneIsQuiet ==
  ASSUME ConnOK, NEW s, NEW ok, HandlerDone(s, ok)
  PROVE  QuietConn
  BY DEF ConnOK, ConnType, HandlerDone, QuietConn

(* A task that opens nothing and purges nothing is quiet, *)
LEMMA MoveIsQuiet ==
  ASSUME TasksOK, NEW s \in Streams,
         NEW pc, pc \notin {"none", "purging", "telling"},
         pc = "leaving" => s \in Attachments,
         Move(s, pc)
  PROVE  QuietTasks
<1>1. task'[s].pc = pc /\ \A r \in Streams \ {s} : task'[r] = task[r]
  BY MoveFacts
<1> QED
  BY <1>1 DEF QuietTasks

(* also when it is set directly. *)
LEMMA SetIsQuiet ==
  ASSUME TasksOK, NEW s \in Streams, NEW n,
         task' = [task EXCEPT ![s] = [pc |-> "busy", size |-> n]]
  PROVE  QuietTasks
<1>1. task'[s].pc = "busy" /\ \A r \in Streams \ {s} : task'[r] = task[r]
  BY SetFacts
<1> QED
  BY <1>1 DEF QuietTasks

(* An offer is admitted only for a stream that is owned and not pending. *)
LEMMA OfferStep ==
  ASSUME FramesInv, TypeInv', NEW s \in Streams, NEW n \in Nat, NEW ticketed,
         Sends(s, n, ticketed), box' = Offered(box, s, n), QuietTasks, QuietConn,
         UNCHANGED <<owned, named, writer>>
  PROVE  FramesInv'
<1>1. /\ Frames(box') /\ box'.pending = box.pending
      /\ \A k \in Lanes \ {s} : box'.lanes[k] = box.lanes[k]
  BY OfferedFrames DEF FramesInv, TypeInv
<1>2. s \in Attachments => s \in owned /\ s \in named
  BY DEF Sends, Refuses, Fits, FramesInv, Owners
<1>3. conn.at \in {"detach", "answer"} => conn.of \in Attachments
  BY DEF FramesInv, TypeInv, ConnOK, HandlerOK
<1>4. ASSUME NEW a \in Attachments
      PROVE  /\ a \in box'.pending => task'[a].pc # "none"
             /\ a \in owned' => a \in box'.pending \/ a \in named'
             /\ box'.lanes[a] # <<>> => a \in named'
             /\ writer'.frame.kind = "event" /\ writer'.frame.of = a => a \in named'
             /\ task'[a].pc \in {"purging", "telling"} => a \notin owned'
             /\ task'[a].pc = "telling" => box'.lanes[a] = <<>>
  BY <1>1, <1>2, LaneKinds DEF FramesInv, Owners, QuietTasks
<1>5. \A r \in Streams \ Attachments : task'[r].pc \notin {"leaving", "purging", "telling"}
  BY DEF FramesInv, Owners, QuietTasks
<1>6. conn'.at \in {"detach", "answer"} => conn'.of \notin owned'
  BY DEF FramesInv, Owners, QuietConn
<1>7. conn'.at = "answer" => box'.lanes[conn'.of] = <<>>
  BY <1>1, <1>2, <1>3, LaneKinds DEF FramesInv, Owners, QuietConn
<1> QED
  BY <1>1, <1>4, <1>5, <1>6, <1>7 DEF FramesInv, Owners

(* A refused offer keeps the invariant. *)
LEMMA RejectedFrames ==
  ASSUME FramesInv, TypeInv', NEW s \in Streams, Rejected(s)
  PROVE  FramesInv'
<1>1. box \in BoxType /\ TasksOK /\ ConnOK
  BY DEF FramesInv, TypeInv, Good
<1>2. SameFrames(box, box')
  <2> DEFINE c == CancelTicket(box, s)
  <2>1. c \in BoxType /\ SameFrames(box, c)
    BY <1>1, TicketTypes, TicketsKeepFrames
  <2>2. box' = c \/ box' = Close(c)
    BY DEF Rejected
  <2> HIDE DEF c
  <2>3. SameFrames(c, Close(c))
    BY <2>1, TicketsKeepFrames
  <2> QED
    BY <2>1, <2>2, <2>3 DEF SameFrames
<1>3. QuietTasks
  <2>1. (s \in Attachments /\ Move(s, "leaving")) \/ Move(s, "gone")
    BY DEF Rejected
  <2> QED
    BY <1>1, <2>1, MoveIsQuiet
<1>4. QuietConn
  <2>1. HandlerDone(s, FALSE) \/ conn' = conn
    BY DEF Rejected
  <2>2. CASE conn' = conn
    BY <2>2 DEF QuietConn
  <2> QED
    BY <1>1, <2>1, <2>2, DoneIsQuiet
<1>5. QuietWriter /\ owned' \subseteq owned /\ named' = named
  BY DEF Rejected, QuietWriter
<1> QED
  BY <1>2, <1>3, <1>4, <1>5, SameIsQuiet, QuietStep

(* A stream's own steps keep the invariant: an event is admitted only for  *)
(* an attachment that is owned, so already named or pending.               *)
LEMMA StreamingFrames ==
  ASSUME FramesInv, NEW s \in Streams, Streaming(s)
  PROVE  FramesInv'
<1>0. TypeInv' /\ TasksOK /\ ConnOK /\ box \in BoxType
  BY StreamingTypes DEF FramesInv, TypeInv, Good
<1>1. ASSUME NEW n \in EventSizes, Produce(s, n)
      PROVE  FramesInv'
  <2>1. n \in Nat
    BY OutboxAssumption
  <2>2. CASE /\ Sends(s, n, FALSE)
             /\ box' = Offered(box, s, n)
             /\ UNCHANGED <<task, owned, stopped, conn, reserve, writer, named, owed>>
    <3>1. QuietTasks /\ QuietConn
      BY <2>2 DEF QuietTasks, QuietConn
    <3> QED
      BY <1>0, <2>1, <2>2, <3>1, OfferStep
  <2>3. CASE /\ task' = [task EXCEPT ![s] = [pc |-> "busy", size |-> n]]
             /\ UNCHANGED <<box, owned, stopped, conn, reserve, writer, named, owed>>
    <3>1. QuietTasks
      BY <1>0, <2>3, SetIsQuiet
    <3>2. SameFrames(box, box') /\ QuietConn /\ QuietWriter
      BY <2>3 DEF SameFrames, QuietConn, QuietWriter
    <3> QED
      BY <1>0, <2>3, <3>1, <3>2, SameIsQuiet, QuietStep
  <2> QED
    BY <1>0, <1>1, <2>2, <2>3, RejectedFrames DEF Produce
<1>2. ASSUME TaskEnds(s)
      PROVE  FramesInv'
  <2>1. QuietTasks
    BY <1>0, <1>2, MoveIsQuiet DEF TaskEnds
  <2>2. SameFrames(box, box') /\ QuietConn /\ QuietWriter /\ owned' \subseteq owned
        /\ named' = named
    BY <1>2 DEF TaskEnds, SameFrames, QuietConn, QuietWriter
  <2> QED
    BY <1>0, <2>1, <2>2, SameIsQuiet, QuietStep
<1>3. ASSUME Stuck(s)
      PROVE  FramesInv'
  <2>1. QuietTasks
    BY <1>0, <1>3, MoveIsQuiet DEF Stuck
  <2>2. SameFrames(box, box')
    BY <1>0, <1>3, TicketsKeepFrames DEF Stuck
  <2>3. QuietConn /\ QuietWriter /\ owned' \subseteq owned /\ named' = named
    BY <1>3 DEF Stuck, QuietConn, QuietWriter
  <2> QED
    BY <1>0, <2>1, <2>2, <2>3, SameIsQuiet, QuietStep
<1> QED
  BY <1>1, <1>2, <1>3 DEF Streaming

(* The steps of a delivery keep the invariant; a lag purges only after     *)
(* the owner was taken.                                                    *)
LEMMA DeliveryFrames ==
  ASSUME FramesInv, NEW s \in Streams, Delivery(s)
  PROVE  FramesInv'
<1>0. TypeInv' /\ TasksOK /\ ConnOK /\ box \in BoxType /\ task[s].size \in Nat
  BY DeliveryTypes DEF FramesInv, TypeInv, Good, TasksOK, TaskType
<1>1. ASSUME TakeTicket(s) \/ Wake(s) \/ StopWaiting(s)
      PROVE  FramesInv'
  <2>1. QuietTasks
    BY <1>0, <1>1, MoveIsQuiet DEF TakeTicket, Wake, StopWaiting
  <2>2. SameFrames(box, box')
    <3>1. CASE Wake(s)
      BY <1>0, <3>1 DEF Wake, SameFrames, BoxType
    <3> QED
      BY <1>0, <1>1, <3>1, TicketsKeepFrames DEF TakeTicket, StopWaiting
  <2>3. QuietConn
    <3>1. HandlerDone(s, TRUE) \/ conn' = conn
      BY <1>1 DEF TakeTicket, Wake, StopWaiting
    <3>2. CASE conn' = conn
      BY <3>2 DEF QuietConn
    <3> QED
      BY <1>0, <3>1, <3>2, DoneIsQuiet
  <2>4. QuietWriter /\ owned' \subseteq owned /\ named' = named
    BY <1>1 DEF TakeTicket, Wake, StopWaiting, QuietWriter
  <2> QED
    BY <1>0, <2>1, <2>2, <2>3, <2>4, SameIsQuiet, QuietStep
<1>2. ASSUME Reoffer(s)
      PROVE  FramesInv'
  <2>1. CASE /\ Sends(s, task[s].size, TRUE)
             /\ box' = Offered(box, s, task[s].size)
             /\ Move(s, "idle")
             /\ HandlerDone(s, TRUE)
             /\ UNCHANGED <<owned, stopped, reserve, writer, named, owed>>
    <3>1. QuietTasks /\ QuietConn
      BY <1>0, <2>1, MoveIsQuiet, DoneIsQuiet
    <3> QED
      BY <1>0, <2>1, <3>1, OfferStep
  <2>2. CASE /\ Move(s, "waiting")
             /\ UNCHANGED <<box, owned, stopped, conn, reserve, writer, named, owed>>
    <3>1. QuietTasks
      BY <1>0, <2>2, MoveIsQuiet
    <3>2. SameFrames(box, box') /\ QuietConn /\ QuietWriter
      BY <2>2 DEF SameFrames, QuietConn, QuietWriter
    <3> QED
      BY <1>0, <2>2, <3>1, <3>2, SameIsQuiet, QuietStep
  <2> QED
    BY <1>0, <1>2, <2>1, <2>2, RejectedFrames DEF Reoffer
<1>3. ASSUME LagTake(s)
      PROVE  FramesInv'
  <2>1. s \in Attachments
    BY <1>3 DEF LagTake, FramesInv, Owners
  <2>2. /\ task'[s].pc = IF s \in owned THEN "purging" ELSE "gone"
        /\ \A r \in Streams \ {s} : task'[r] = task[r]
    BY <1>0, <1>3, MoveFacts DEF LagTake
  <2> QED
    BY <1>0, <1>3, <2>1, <2>2, LaneKinds DEF LagTake, FramesInv, Owners
<1>4. ASSUME LagPurge(s)
      PROVE  FramesInv'
  <2>1. s \in Attachments /\ s \notin owned
    BY <1>4 DEF LagPurge, FramesInv, Owners
  <2>2. task'[s].pc = "telling" /\ \A r \in Streams \ {s} : task'[r] = task[r]
    BY <1>0, <1>4, SetFacts DEF LagPurge
  <2>3. /\ Frames(box') /\ box'.pending = box.pending \ {s}
        /\ box'.lanes[s] = <<>>
        /\ \A k \in Streams \ {s} : box'.lanes[k] = box.lanes[k]
    BY <1>4, <2>1, PurgeFrames DEF LagPurge, FramesInv, TypeInv
  <2>4. conn.at \in {"detach", "answer"} => conn.of \in Attachments
    BY DEF FramesInv, TypeInv, ConnOK, HandlerOK
  <2> QED
    BY <1>0, <1>4, <2>1, <2>2, <2>3, <2>4, LaneKinds DEF LagPurge, FramesInv, Owners
<1>5. ASSUME NEW n \in ReplySizes, LagTell(s, n)
      PROVE  FramesInv'
  <2>1. \/ box' = Push(box, Frame("overloaded", s, n))
        \/ box' = Push(box, Frame("reply", System, n))
        \/ box' = box
    BY <1>5 DEF LagTell
  <2>2. /\ "overloaded" \in Kinds \ {"event", "response"}
        /\ "reply" \in Kinds \ {"event", "response"}
        /\ s \in Lanes /\ System \in Lanes
    BY LaneKinds DEF Kinds
  <2>3. box' = box => SameFrames(box, box')
    BY DEF SameFrames
  <2>4. QuietBox
    BY <2>1, <2>2, <2>3, ReplyIsQuiet
  <2>5. QuietTasks
    BY <1>0, <1>5, MoveIsQuiet DEF LagTell
  <2>6. QuietConn /\ QuietWriter /\ owned' \subseteq owned /\ named' = named
    BY <1>5 DEF LagTell, QuietConn, QuietWriter
  <2> QED
    BY <1>0, <2>4, <2>5, <2>6, QuietStep
<1> QED
  BY <1>1, <1>2, <1>3, <1>4, <1>5 DEF Delivery

(* The requests of the client keep the invariant. *)
LEMMA RequestFrames ==
  ASSUME FramesInv, Requests
  PROVE  FramesInv'
<1>0. TypeInv' /\ TypeInv /\ TasksOK /\ ConnOK /\ box \in BoxType /\ conn \in ConnType
  BY RequestTypes DEF FramesInv, TypeInv, Good, ConnOK
<1>1. ASSUME NEW n \in ReplySizes,
             Hello(n) \/ HelloFails(n) \/ Request(n) \/ Retire(n) \/ Droppable(n)
      PROVE  FramesInv'
  <2>1. \/ \E kind \in {"error", "welcome", "reply"} : box' = Push(box, Frame(kind, System, n))
        \/ box' = box \/ box' = Close(box)
    BY <1>1 DEF Hello, HelloFails, Request, Retire, Droppable, Overflows
  <2>2. box' = box \/ box' = Close(box) => SameFrames(box, box')
    BY <1>0, TicketsKeepFrames DEF SameFrames
  <2>3. QuietBox
    BY <2>1, <2>2, SystemReplyIsQuiet
  <2>4. QuietConn
    <3>1. CASE Hello(n)
      BY <1>0, <3>1 DEF Hello, ConnType, QuietConn
    <3>2. CASE conn' = Asked(conn)
      BY <1>0, <3>2 DEF Asked, ConnType, QuietConn
    <3>3. (\E failed \in BOOLEAN : Leave(failed)) \/ Hello(n) \/ conn' = Asked(conn)
      BY <1>1 DEF HelloFails, Request, Retire, Droppable, Overflows
    <3> QED
      BY <1>0, <3>1, <3>2, <3>3, LeaveIsQuiet
  <2>5. QuietTasks /\ QuietWriter /\ owned' \subseteq owned /\ named' = named
    BY <1>1 DEF Hello, HelloFails, Request, Retire, Droppable, QuietTasks, QuietWriter
  <2> QED
    BY <1>0, <2>3, <2>4, <2>5, QuietStep
<1>2. ASSUME NEW n \in ReplySizes, NEW a \in Attachments, Attach(a, n)
      PROVE  FramesInv'
  <2>1. CASE /\ Answer(Frame("response", a, n))
             /\ owned' = owned \cup {a}
             /\ Move(a, "idle")
    <3> DEFINE f == Frame("response", a, n)
    <3>1. f \in FrameSet /\ f.kind = "response" /\ f.of = a
      <4>1. "response" \in Kinds /\ a \in Lanes \cup {Nobody} /\ n \in Nat
        BY LaneKinds, OutboxAssumption DEF Kinds
      <4> QED
        BY <4>1, FrameType DEF Frame
    <3>2. box' = Push(box, f)
      BY <2>1 DEF Answer
    <3> HIDE DEF f
    <3>3. a \notin box.pending /\ task[a].pc = "none"
      BY <1>2 DEF Attach, FramesInv, Owners
    <3>4. /\ Frames(box') /\ box'.pending = box.pending \cup {a}
          /\ \A k \in Streams : box'.lanes[k] = box.lanes[k]
      BY <3>1, <3>2, <3>3, PushFrames DEF FramesInv, TypeInv
    <3>5. task'[a].pc = "idle" /\ \A r \in Streams \ {a} : task'[r] = task[r]
      BY <1>0, <2>1, MoveFacts, LaneKinds
    <3>6. conn'.at = "read"
      BY <1>0, <2>1 DEF Answer, ConnType
    <3>7. UNCHANGED <<writer, named>>
      BY <1>2 DEF Attach
    <3> QED
      BY <1>0, <2>1, <3>3, <3>4, <3>5, <3>6, <3>7, LaneKinds DEF FramesInv, Owners
  <2>2. CASE Overflows(n) /\ UNCHANGED <<owned, owed, task>>
    <3>1. QuietConn
      BY <1>0, <2>2, LeaveIsQuiet DEF Overflows
    <3>2. SameFrames(box, box') /\ QuietTasks /\ QuietWriter /\ named' = named
      BY <1>2, <2>2 DEF Attach, Overflows, SameFrames, QuietTasks, QuietWriter
    <3> QED
      BY <1>0, <2>2, <3>1, <3>2, SameIsQuiet, QuietStep
  <2> QED
    BY <1>2, <2>1, <2>2 DEF Attach
<1>3. ASSUME NEW a \in Attachments, Detach(a)
      PROVE  FramesInv'
  <2>1. conn'.at = "detach" /\ conn'.of = a
    BY <1>0, <1>3 DEF Detach, ConnType
  <2> QED
    BY <1>0, <1>3, <2>1 DEF Detach, FramesInv, Owners
<1>4. ASSUME NEW m \in Monitors, MonitorWatch(m)
      PROVE  FramesInv'
  <2>1. conn'.at = "watch" \/ conn'.at = "replace"
    BY <1>0, <1>4 DEF MonitorWatch, ConnType
  <2>2. QuietConn
    BY <2>1 DEF QuietConn
  <2>3. /\ SameFrames(box, box') /\ QuietTasks /\ QuietWriter
        /\ named' = named /\ owned' \subseteq owned
    BY <1>4 DEF MonitorWatch, SameFrames, QuietTasks, QuietWriter
  <2> QED
    BY <1>0, <2>2, <2>3, SameIsQuiet, QuietStep
<1>5. ASSUME NEW l \in Looms, NEW n \in EventSizes, LoomWatch(l, n)
      PROVE  FramesInv'
  <2>1. l \in Streams /\ n \in Nat
    BY LaneKinds, OutboxAssumption
  <2>2. UNCHANGED <<owned, named, writer>>
    BY <1>5 DEF LoomWatch
  <2>3. CASE Sends(l, n, FALSE) /\ box' = Offered(box, l, n) /\ Move(l, "idle") /\ UNCHANGED conn
    <3>1. QuietTasks /\ QuietConn
      BY <1>0, <2>1, <2>3, MoveIsQuiet DEF QuietConn
    <3> QED
      BY <1>0, <2>1, <2>2, <2>3, <3>1, OfferStep
  <2>4. CASE /\ task' = [task EXCEPT ![l] = [pc |-> "busy", size |-> n]]
             /\ conn' = [conn EXCEPT !.at = "baseline", !.of = l]
             /\ UNCHANGED box
    <3>1. QuietTasks
      BY <1>0, <2>1, <2>4, SetIsQuiet
    <3>2. conn'.at = "baseline"
      BY <1>0, <2>4 DEF ConnType
    <3>3. SameFrames(box, box') /\ QuietConn /\ QuietWriter
      BY <2>2, <2>4, <3>2 DEF SameFrames, QuietConn, QuietWriter
    <3> QED
      BY <1>0, <2>2, <3>1, <3>3, SameIsQuiet, QuietStep
  <2>5. CASE box' = Close(box) /\ Leave(TRUE) /\ Move(l, "gone")
    <3>1. QuietTasks /\ QuietConn /\ SameFrames(box, box')
      BY <1>0, <2>1, <2>5, MoveIsQuiet, LeaveIsQuiet, TicketsKeepFrames
    <3>2. QuietWriter
      BY <2>2 DEF QuietWriter
    <3> QED
      BY <1>0, <2>2, <3>1, <3>2, SameIsQuiet, QuietStep
  <2> QED
    BY <1>5, <2>3, <2>4, <2>5 DEF LoomWatch
<1>6. ASSUME Drain \/ PeerGone
      PROVE  FramesInv'
  <2>1. QuietConn
    BY <1>0, <1>6, LeaveIsQuiet DEF Drain, PeerGone
  <2>2. /\ SameFrames(box, box') /\ QuietTasks /\ QuietWriter
        /\ named' = named /\ owned' \subseteq owned
    BY <1>6 DEF Drain, PeerGone, SameFrames, QuietTasks, QuietWriter
  <2> QED
    BY <1>0, <2>1, <2>2, SameIsQuiet, QuietStep
<1> QED
  BY <1>1, <1>2, <1>3, <1>4, <1>5, <1>6 DEF Requests

(* The liveness tick keeps the invariant. *)
LEMMA BreachFrames ==
  ASSUME FramesInv, NEW n \in ReplySizes, Breach(n)
  PROVE  FramesInv'
  BY RequestFrames DEF Breach, Requests

(* The later steps of a request keep the invariant; a detach purges only   *)
(* after it took the owner.                                                *)
LEMMA HandlingFrames ==
  ASSUME FramesInv, Handling
  PROVE  FramesInv'
<1>0. TypeInv' /\ TypeInv /\ TasksOK /\ ConnOK /\ box \in BoxType /\ conn \in ConnType
  BY HandlingTypes DEF FramesInv, TypeInv, Good, ConnOK
<1>1. ASSUME DetachPurge
      PROVE  FramesInv'
  <2> DEFINE a == conn.of
  <2>1. a \in Attachments /\ a \notin owned
    BY <1>0, <1>1 DEF DetachPurge, ConnOK, HandlerOK, FramesInv, Owners
  <2>2. /\ Frames(box') /\ box'.pending = box.pending \ {a}
        /\ box'.lanes[a] = <<>>
        /\ \A k \in Streams \ {a} : box'.lanes[k] = box.lanes[k]
    BY <1>1, <2>1, PurgeFrames DEF DetachPurge, FramesInv, TypeInv
  <2>3. conn'.at = "answer" /\ conn'.of = a
    BY <1>0, <1>1 DEF DetachPurge, ConnType
  <2>4. UNCHANGED <<task, owned, named, writer>>
    BY <1>1 DEF DetachPurge
  <2> HIDE DEF a
  <2> QED
    BY <1>0, <2>1, <2>2, <2>3, <2>4, LaneKinds DEF FramesInv, Owners
<1>2. ASSUME NEW n \in ReplySizes, DetachAnswer(n)
      PROVE  FramesInv'
  <2>1. box' = Push(box, Frame("reply", System, n)) \/ SameFrames(box, box')
    BY <1>2 DEF DetachAnswer, Answer, Overflows, SameFrames
  <2>2. conn'.at = "read"
    BY <1>0, <1>2 DEF DetachAnswer, Answer, Overflows, Leave, ConnType
  <2>3. QuietBox /\ QuietConn
    BY <2>1, <2>2, SystemReplyIsQuiet DEF QuietConn
  <2>4. QuietTasks /\ QuietWriter /\ named' = named /\ owned' \subseteq owned
    BY <1>2 DEF DetachAnswer, QuietTasks, QuietWriter
  <2> QED
    BY <1>0, <2>3, <2>4, QuietStep
<1>3. ASSUME NEW n \in ReplySizes, OpenWatch(n)
      PROVE  FramesInv'
  <2>1. conn.of \in Monitors /\ conn.of \in Streams /\ conn.of \in Lanes
    BY <1>0, <1>3, LaneKinds DEF OpenWatch, ConnOK, HandlerOK
  <2>2. box' = Push(box, Frame("watching", conn.of, n)) \/ SameFrames(box, box')
    BY <1>3 DEF OpenWatch, Overflows, SameFrames
  <2>3. conn'.at = "read"
    BY <1>0, <1>3 DEF OpenWatch, Overflows, Leave, ConnType
  <2>4. "watching" \in Kinds \ {"event", "response"}
    BY DEF Kinds
  <2>5. QuietBox
    BY <2>1, <2>2, <2>4, ReplyIsQuiet
  <2>6. QuietConn
    BY <2>3 DEF QuietConn
  <2>7. QuietTasks
    <3>1. Move(conn.of, "idle") \/ task' = task
      BY <1>3 DEF OpenWatch
    <3>2. CASE task' = task
      BY <3>2 DEF QuietTasks
    <3> QED
      BY <1>0, <2>1, <3>1, <3>2, MoveIsQuiet
  <2>8. QuietWriter /\ named' = named /\ owned' \subseteq owned
    BY <1>3 DEF OpenWatch, QuietWriter
  <2> QED
    BY <1>0, <2>5, <2>6, <2>7, <2>8, QuietStep
<1>4. ASSUME ReplaceWatch
      PROVE  FramesInv'
  <2>1. conn.slot \in Monitors /\ conn.slot \in Streams /\ conn.slot \notin Attachments
    BY <1>0, <1>4, LaneKinds DEF ReplaceWatch, ConnOK, HandlerOK
  <2>2. /\ Frames(box') /\ box'.pending = box.pending
        /\ \A k \in Lanes \ {conn.slot} : box'.lanes[k] = box.lanes[k]
    BY <1>4, <2>1, PurgeOrderedFrames DEF ReplaceWatch, FramesInv, TypeInv
  <2>3. QuietBox
    BY <2>1, <2>2, LaneKinds DEF QuietBox
  <2>4. conn'.at = "watch"
    BY <1>0, <1>4 DEF ReplaceWatch, ConnType
  <2>5. QuietConn /\ QuietTasks /\ QuietWriter /\ named' = named /\ owned' \subseteq owned
    BY <1>4, <2>4 DEF ReplaceWatch, QuietConn, QuietTasks, QuietWriter
  <2> QED
    BY <1>0, <2>3, <2>5, QuietStep
<1> QED
  BY <1>1, <1>2, <1>3, <1>4 DEF Handling

(* The teardown keeps the invariant. *)
LEMMA TeardownFrames ==
  ASSUME FramesInv, Teardown
  PROVE  FramesInv'
<1>0. TypeInv' /\ TypeInv /\ ConnOK /\ box \in BoxType /\ conn \in ConnType
  BY TeardownTypes DEF FramesInv, TypeInv, Good, ConnOK
<1>1. ASSUME HubClose
      PROVE  FramesInv'
  <2>1. QuietBox
    <3>1. CASE conn.slot = Nobody
      BY <1>1, <3>1, SameIsQuiet DEF HubClose, SameFrames
    <3>2. CASE conn.slot # Nobody
      <4>1. conn.slot \in Streams /\ conn.slot \notin Attachments
        BY <1>0, <3>2, LaneKinds DEF ConnType
      <4>2. /\ Frames(box') /\ box'.pending = box.pending
            /\ \A k \in Lanes \ {conn.slot} : box'.lanes[k] = box.lanes[k]
        BY <1>1, <3>2, <4>1, PurgeOrderedFrames DEF HubClose, FramesInv, TypeInv
      <4> QED
        BY <4>1, <4>2, LaneKinds DEF QuietBox
    <3> QED
      BY <3>1, <3>2
  <2>2. conn'.at = conn.at /\ conn'.of = conn.of
    BY <1>0, <1>1 DEF HubClose, ConnType
  <2>3. QuietConn /\ QuietTasks /\ QuietWriter /\ named' = named /\ owned' \subseteq owned
    BY <1>1, <2>2 DEF HubClose, QuietConn, QuietTasks, QuietWriter
  <2> QED
    BY <1>0, <2>1, <2>3, QuietStep
<1>2. ASSUME CloseLane
      PROVE  FramesInv'
  <2>1. SameFrames(box, box')
    BY <1>0, <1>2, TicketsKeepFrames DEF CloseLane
  <2>2. conn'.at = conn.at /\ conn'.of = conn.of
    BY <1>0, <1>2 DEF CloseLane, ConnType
  <2>3. QuietWriter
    BY <1>0, <1>2 DEF CloseLane, QuietWriter, NoFrame, Frame, TypeInv, WritersOK, WriterType
  <2>4. QuietConn /\ QuietTasks /\ named' = named /\ owned' \subseteq owned
    BY <1>2, <2>2 DEF CloseLane, QuietConn, QuietTasks
  <2> QED
    BY <1>0, <2>1, <2>3, <2>4, SameIsQuiet, QuietStep
<1> QED
  BY <1>1, <1>2 DEF Teardown

(* recv: a response that leaves the queue names its attachment. *)
LEMMA RecvFrames ==
  ASSUME FramesInv, TypeInv', Recv
  PROVE  FramesInv'
<1>0. TypeInv /\ Frames(box) /\ box \in Good /\ box \in BoxType /\ writer \in WriterType
  BY DEF FramesInv, TypeInv, Good, WritersOK
<1>1. PICK f :
        /\ Frames(box')
        /\ box'.pending = IF f.kind = "response" THEN box.pending \ {f.of} ELSE box.pending
        /\ \A a \in Attachments : box'.lanes[a] # <<>> => box.lanes[a] # <<>>
        /\ f.kind = "event" /\ f.of \in Attachments => box.lanes[f.of] # <<>>
        /\ writer' = [writer EXCEPT !.pc = "writing", !.frame = f]
        /\ named' = IF f.kind \in {"response", "watching"} THEN named \cup {f.of} ELSE named
        /\ UNCHANGED <<task, owned, conn>>
  <2>1. CASE /\ FromFloor(box)
             /\ Popped([box EXCEPT !.floor = Tail(@)], Head(box.floor))
    <3>1. box.floor # <<>>
      BY <2>1 DEF FromFloor
    <3>2. /\ Frames(box') /\ box'.lanes = box.lanes
          /\ box'.pending = IF Head(box.floor).kind = "response"
                            THEN box.pending \ {Head(box.floor).of} ELSE box.pending
          /\ Head(box.floor).kind # "event"
      BY <1>0, <2>1, <3>1, PopFloorFrames DEF Popped
    <3> QED
      BY <2>1, <3>2 DEF Popped
  <2>2. ASSUME NEW k \in Lanes, FromLane(box, k),
               Popped(PopLane(box, k), Head(box.lanes[k]))
        PROVE  \E f :
                 /\ Frames(box')
                 /\ box'.pending = IF f.kind = "response" THEN box.pending \ {f.of}
                                                          ELSE box.pending
                 /\ \A a \in Attachments : box'.lanes[a] # <<>> => box.lanes[a] # <<>>
                 /\ f.kind = "event" /\ f.of \in Attachments => box.lanes[f.of] # <<>>
                 /\ writer' = [writer EXCEPT !.pc = "writing", !.frame = f]
                 /\ named' = IF f.kind \in {"response", "watching"} THEN named \cup {f.of}
                                                                   ELSE named
                 /\ UNCHANGED <<task, owned, conn>>
    <3> DEFINE f == Head(box.lanes[k])
    <3>1. box.lanes[k] # <<>>
      BY <1>0, <2>2, FromLaneHasFrame
    <3>2. /\ Frames(box')
          /\ box'.pending = IF f.kind = "response" THEN box.pending \ {f.of} ELSE box.pending
          /\ \A j \in Lanes \ {k} : box'.lanes[j] = box.lanes[j]
          /\ f.kind = "event" => f.of = k
      BY <1>0, <2>2, <3>1, PopLaneFrames DEF Popped
    <3>3. /\ writer' = [writer EXCEPT !.pc = "writing", !.frame = f]
          /\ named' = IF f.kind \in {"response", "watching"} THEN named \cup {f.of} ELSE named
          /\ UNCHANGED <<task, owned, conn>>
      BY <2>2 DEF Popped
    <3> HIDE DEF f
    <3>4. /\ \A a \in Attachments : box'.lanes[a] # <<>> => box.lanes[a] # <<>>
          /\ f.kind = "event" /\ f.of \in Attachments => box.lanes[f.of] # <<>>
      BY <3>1, <3>2, LaneKinds
    <3> QED
      BY <3>2, <3>3, <3>4
  <2> QED
    BY <2>1, <2>2 DEF Recv
<1>2. writer'.frame = f
  BY <1>0, <1>1 DEF WriterType
<1>3. named \subseteq named'
  BY <1>1
<1>4. \A a : a \in box.pending => a \in box'.pending \/ a \in named'
  BY <1>1
<1>5. \A a \in box'.pending : a \in box.pending
  BY <1>1
<1>6. conn.at = "answer" => conn.of \in Attachments
  BY <1>0 DEF TypeInv, ConnOK, HandlerOK
<1>7. ASSUME NEW a \in Attachments
      PROVE  /\ a \in box'.pending => task'[a].pc # "none"
             /\ a \in owned' => a \in box'.pending \/ a \in named'
             /\ box'.lanes[a] # <<>> => a \in named'
             /\ writer'.frame.kind = "event" /\ writer'.frame.of = a => a \in named'
             /\ task'[a].pc \in {"purging", "telling"} => a \notin owned'
             /\ task'[a].pc = "telling" => box'.lanes[a] = <<>>
  BY <1>1, <1>2, <1>3, <1>4, <1>5 DEF FramesInv, Owners
<1>8. /\ \A s \in Streams \ Attachments : task'[s].pc \notin {"leaving", "purging", "telling"}
      /\ conn'.at \in {"detach", "answer"} => conn'.of \notin owned'
      /\ conn'.at = "answer" => box'.lanes[conn'.of] = <<>>
  BY <1>1, <1>6 DEF FramesInv, Owners
<1> QED
  BY <1>1, <1>7, <1>8 DEF FramesInv, Owners

(* The writer keeps the invariant. *)
LEMMA WriterFrames ==
  ASSUME FramesInv, Scheduling \/ Writing \/ WriteFails
  PROVE  FramesInv'
<1>0. /\ TypeInv' /\ TypeInv /\ box \in BoxType /\ writer \in WriterType
      /\ writer.frame \in FrameSet /\ NoFrame.kind = "none"
  BY WriterTypes DEF FramesInv, TypeInv, Good, WritersOK, WriterType, NoFrame, Frame
<1>1. ASSUME \/ Look \/ FireNotice \/ SelectNotice \/ SelectClosed \/ AdoptNotice \/ Final
             \/ NoticeDone \/ RecvNone \/ WriteDone \/ WriteFails
      PROVE  FramesInv'
  <2>1. UNCHANGED <<task, owned, conn, named>>
    BY <1>1 DEF Look, FireNotice, SelectNotice, SelectClosed, AdoptNotice, Final, NoticeDone,
       RecvNone, WriteDone, WriteFails
  <2>2. SameFrames(box, box')
    <3>1. CASE box' = box
      BY <3>1 DEF SameFrames
    <3>2. CASE box' = [box EXCEPT !.closed = TRUE]
      BY <1>0, <3>2 DEF SameFrames, BoxType
    <3>3. CASE box' = Credit(box, writer.frame)
      <4> DEFINE f == writer.frame
                 c == IF f.floor THEN [box EXCEPT !.floorInUse = 0]
                                 ELSE [box EXCEPT !.bytes = Minus(@, f.size)]
      <4>1. Minus(box.bytes, f.size) \in Nat
        BY <1>0, MinusType DEF BoxType
      <4>2. c \in BoxType /\ SameFrames(box, c)
        BY <1>0, <4>1 DEF BoxType, SameFrames
      <4>3. box' = Fire(c)
        BY <3>3 DEF Credit
      <4> HIDE DEF c
      <4> QED
        BY <4>2, <4>3, TicketsKeepFrames DEF SameFrames
    <3>4. box' = box \/ box' = [box EXCEPT !.closed = TRUE] \/ box' = Credit(box, writer.frame)
      BY <1>1 DEF Look, FireNotice, SelectNotice, SelectClosed, AdoptNotice, Final, NoticeDone,
         RecvNone, WriteDone, WriteFails
    <3> QED
      BY <3>1, <3>2, <3>3, <3>4
  <2>3. QuietWriter
    BY <1>0, <1>1 DEF Look, FireNotice, SelectNotice, SelectClosed, AdoptNotice, Final,
       NoticeDone, RecvNone, WriteDone, WriteFails, QuietWriter, WriterType
  <2>4. QuietTasks /\ QuietConn
    BY <2>1 DEF QuietTasks, QuietConn
  <2> QED
    BY <1>0, <2>1, <2>2, <2>3, <2>4, SameIsQuiet, QuietStep
<1> QED
  BY <1>0, <1>1, RecvFrames DEF Scheduling, Writing

(* A new connection satisfies the invariant. *)
LEMMA FramesInitially ==
  ASSUME Init
  PROVE  FramesInv
<1>1. TypeInv
  BY TypeInitially
<1>2. /\ \A k \in Lanes : EmptyBox.lanes[k] = <<>>
      /\ EmptyBox.floor = <<>> /\ EmptyBox.pending = {}
  BY DEF EmptyBox
<1>3. \A a : Once(<<>>, a) /\ ~Holds(<<>>, a) /\ EventsOf(<<>>, a) /\ NoEvents(<<>>)
  BY DEF Once, Holds, EventsOf, NoEvents
<1>4. Frames(EmptyBox)
  BY <1>2, <1>3, LaneKinds DEF Frames
<1>5. \A s \in Streams : task[s].pc = "none"
  BY DEF Init
<1>6. Owners
  BY <1>2, <1>5, LaneKinds DEF Init, Owners, NoFrame, Frame
<1> QED
  BY <1>1, <1>4, <1>6 DEF Init, FramesInv

(* The invariant FramesInv: what each queue holds, and who owns an         *)
(* attachment whose frames are queued.                                     *)
THEOREM FramesInvariant == Spec => []FramesInv
<1>1. Init => FramesInv
  BY FramesInitially
<1>2. FramesInv /\ [Next]_vars => FramesInv'
  <2> SUFFICES ASSUME FramesInv, [Next]_vars
               PROVE  FramesInv'
    OBVIOUS
  <2>1. CASE UNCHANGED vars
    <3>1. TypeInv'
      BY TypeStep DEF FramesInv
    <3> QED
      BY <2>1, <3>1 DEF vars, FramesInv, Frames, Owners
  <2>2. CASE Next
    BY <2>1, <2>2, DeliveryFrames, StreamingFrames, RequestFrames, BreachFrames,
       HandlingFrames, TeardownFrames, WriterFrames DEF Next, Over
  <2> QED
    BY <2>1, <2>2
<1> QED
  BY <1>1, <1>2, PTL DEF Spec

(* PendingIsQueued: an attachment's marker is set exactly while its staged *)
(* response is queued, whichever of the System lane and the floor took it  *)
(* and whoever removes it (recv, a detach, a lag).                         *)
THEOREM MarkersAreExact == Spec => []PendingIsQueued
<1>1. FramesInv => PendingIsQueued
  BY DEF FramesInv, Frames, PendingIsQueued, StagedQueued, Holds
<1> QED
  BY <1>1, FramesInvariant, PTL

(* ResponseFirst: no event of an attachment is queued or written before    *)
(* the response that names it has left the queue.                          *)
THEOREM ResponsePrecedesEvents == Spec => []ResponseFirst
<1>1. FramesInv => ResponseFirst
  BY DEF FramesInv, Owners, ResponseFirst
<1> QED
  BY <1>1, FramesInvariant, PTL

(* NothingAfterPurge: after lag_and_detach or session_detach purged a lane *)
(* no admission recreates it.                                              *)
THEOREM PurgedLaneStaysEmpty == Spec => []NothingAfterPurge
<1>1. FramesInv => NothingAfterPurge
  BY DEF FramesInv, Owners, NothingAfterPurge
<1> QED
  BY <1>1, FramesInvariant, PTL

-----------------------------------------------------------------------------
(***************************************************************************)
(* The Welcome.  Until it is written it is the next frame to be popped, at *)
(* the head of the System lane or of the floor, or the frame in flight.    *)
(***************************************************************************)
HeadsWelcome(q) == q # <<>> /\ Head(q).kind = "welcome"
WelcomeNext(b) ==
    b.welcomeQueued /\ (HeadsWelcome(b.lanes[System]) \/ HeadsWelcome(b.floor))

(* Frames join behind the Welcome. *)
LEMMA AppendHeads ==
  ASSUME NEW S, NEW q \in Seq(S), NEW f \in S, HeadsWelcome(q)
  PROVE  HeadsWelcome(Append(q, f))
<1>1. q # <<>> /\ Head(q).kind = "welcome"
  BY DEF HeadsWelcome
<1>2. Append(q, f) # <<>> /\ Head(Append(q, f)) = Head(q)
  BY <1>1
<1> QED
  BY <1>1, <1>2 DEF HeadsWelcome

(* Splicing a response out leaves the Welcome where it is. *)
LEMMA UnstagedHeads ==
  ASSUME NEW S, NEW q \in Seq(S), NEW a, HeadsWelcome(q)
  PROVE  HeadsWelcome(Unstaged(q, a))
<1>1. CASE Unstaged(q, a) = q
  BY <1>1
<1>2. ASSUME NEW i \in 1 .. Len(q), Staged(q[i], a), Unstaged(q, a) = RemoveAt(q, i)
      PROVE  HeadsWelcome(Unstaged(q, a))
  <2> DEFINE r == RemoveAt(q, i)
  <2>1. /\ r \in Seq(S) /\ Len(r) = Len(q) - 1
        /\ \A j \in 1 .. Len(q) - 1 : r[j] = IF j < i THEN q[j] ELSE q[j + 1]
    BY RemoveAtType
  <2> HIDE DEF r
  <2>2. q[1].kind = "welcome" /\ q[i].kind = "response"
    BY <1>2 DEF HeadsWelcome, Staged
  <2>3. 1 < i
    BY <1>2, <2>2
  <2>4. 1 \in 1 .. Len(q) - 1 /\ r # <<>>
    BY <1>2, <2>1, <2>3
  <2>5. Head(r) = q[1]
    BY <2>1, <2>3, <2>4
  <2> QED
    BY <1>2, <2>2, <2>4, <2>5 DEF HeadsWelcome, r
<1> QED
  BY <1>1, <1>2, UnstagedIs

(* Ticket operations and close keep the mark of the Welcome. *)
LEMMA TicketsKeepWelcome ==
  ASSUME NEW b \in BoxType, NEW s
  PROVE  /\ Fire(b).welcomeQueued = b.welcomeQueued
         /\ FireIfRoom(b).welcomeQueued = b.welcomeQueued
         /\ DropTicket(b, s).welcomeQueued = b.welcomeQueued
         /\ DrainTicket(b, s).welcomeQueued = b.welcomeQueued
         /\ CancelTicket(b, s).welcomeQueued = b.welcomeQueued
         /\ Close(b).welcomeQueued = b.welcomeQueued
<1>1. \A c \in BoxType : /\ Fire(c).welcomeQueued = c.welcomeQueued
                         /\ FireIfRoom(c).welcomeQueued = c.welcomeQueued
  BY DEF Fire, FireIfRoom, BoxType
<1>2. /\ DropTicket(b, s).welcomeQueued = b.welcomeQueued
      /\ DrainTicket(b, s).welcomeQueued = b.welcomeQueued
      /\ Close(b).welcomeQueued = b.welcomeQueued
  BY DEF DropTicket, DrainTicket, Close, BoxType
<1>3. DropTicket(b, s) \in BoxType
  BY DropTicketType
<1> QED
  BY <1>1, <1>2, <1>3 DEF CancelTicket

(* So they keep it next, *)
LEMMA TicketsKeepNext ==
  ASSUME NEW b \in BoxType, NEW s, WelcomeNext(b)
  PROVE  /\ WelcomeNext(Fire(b)) /\ WelcomeNext(FireIfRoom(b))
         /\ WelcomeNext(DropTicket(b, s)) /\ WelcomeNext(DrainTicket(b, s))
         /\ WelcomeNext(CancelTicket(b, s)) /\ WelcomeNext(Close(b))
  BY TicketsKeepWelcome, TicketsKeepFrames DEF WelcomeNext, SameFrames

(* as does an admitted offer, *)
LEMMA OfferedKeepsNext ==
  ASSUME NEW b \in BoxType, NEW s \in Streams, NEW n \in Nat, WelcomeNext(b)
  PROVE  WelcomeNext(Offered(b, s, n))
<1> DEFINE d == DropTicket(b, s)
           f == Frame("event", s, n)
           e == Enqueue(d, s, f)
<1>1. d \in BoxType /\ WelcomeNext(d)
  BY DropTicketType, TicketsKeepNext
<1>2. s \in Lanes /\ f \in FrameSet /\ System \in Lanes /\ s # System
  <2>1. "event" \in Kinds /\ s \in Lanes
    BY LaneKinds DEF Kinds
  <2> QED
    BY <2>1, FrameType, LaneKinds
<1> HIDE DEF d, f
<1>3. e \in BoxType
  BY <1>1, <1>2, EnqueueType
<1>4. /\ e.lanes = [d.lanes EXCEPT ![s] = Append(d.lanes[s], f)]
      /\ e.floor = d.floor /\ e.welcomeQueued = d.welcomeQueued
  BY <1>1 DEF Enqueue, BoxType
<1>5. d.lanes \in [Lanes -> Seq(FrameSet)]
  BY <1>1, BoxFields
<1>6. e.lanes[System] = d.lanes[System]
  BY <1>2, <1>4, <1>5
<1>7. WelcomeNext(e)
  BY <1>1, <1>4, <1>6 DEF WelcomeNext
<1>8. Offered(b, s, n) = FireIfRoom(e)
  BY DEF Offered, d, e, f
<1> HIDE DEF e
<1> QED
  BY <1>3, <1>7, <1>8, TicketsKeepNext

(* and a reply; the Welcome itself is next when nothing was queued. *)
LEMMA PushKeepsNext ==
  ASSUME NEW b \in BoxType, NEW f \in FrameSet
  PROVE  /\ WelcomeNext(b) => WelcomeNext(Push(b, f))
         /\ f.kind = "welcome" /\ b.lanes[System] = <<>> /\ b.floor = <<>>
              => WelcomeNext(Push(b, f))
<1> DEFINE m == Marked(b, f)
           g == [f EXCEPT !.floor = TRUE]
           c == Push(b, f)
<1>1. /\ g \in FrameSet /\ g.kind = f.kind
      /\ (f.kind = "response" => f.of \in Attachments)
  BY DEF FrameSet
<1>2. /\ m \in BoxType /\ m.lanes = b.lanes /\ m.floor = b.floor
      /\ (b.welcomeQueued \/ f.kind = "welcome" => m.welcomeQueued)
  BY <1>1 DEF Marked, BoxType
<1>3. /\ b.lanes \in [Lanes -> Seq(FrameSet)] /\ b.floor \in Seq(FrameSet)
      /\ b.lanes[System] \in Seq(FrameSet) /\ System \in Lanes
  BY BoxFields, LaneKinds
<1>4. \A q \in Seq(FrameSet) : \A h \in FrameSet :
        /\ HeadsWelcome(q) => HeadsWelcome(Append(q, h))
        /\ q = <<>> /\ h.kind = "welcome" => HeadsWelcome(Append(q, h))
  <2>1. \A h : Head(Append(<<>>, h)) = h /\ Append(<<>>, h) # <<>>
    OBVIOUS
  <2> QED
    BY <2>1, AppendHeads DEF HeadsWelcome
<1> HIDE DEF m, g
<1>5. CASE OrdinaryAdmits(b, System, f.size)
  <2>1. c = Enqueue(m, System, f)
    BY <1>5 DEF Push, m
  <2>2. /\ c.lanes = [m.lanes EXCEPT ![System] = Append(m.lanes[System], f)]
        /\ c.floor = m.floor /\ c.welcomeQueued = m.welcomeQueued
    BY <1>2, <2>1 DEF Enqueue, BoxType
  <2> HIDE DEF c
  <2>3. c.lanes[System] = Append(b.lanes[System], f)
    BY <1>2, <1>3, <2>2
  <2>4. (WelcomeNext(b) => WelcomeNext(c))
        /\ (f.kind = "welcome" /\ b.lanes[System] = <<>> => WelcomeNext(c))
    BY <1>2, <1>3, <1>4, <2>2, <2>3 DEF WelcomeNext
  <2> QED
    BY <2>4 DEF c
<1>6. CASE ~OrdinaryAdmits(b, System, f.size)
  <2>1. c = [m EXCEPT !.floor = Append(@, g), !.floorInUse = 1]
    BY <1>6 DEF Push, m, g
  <2>2. /\ c.lanes = m.lanes /\ c.floor = Append(m.floor, g)
        /\ c.welcomeQueued = m.welcomeQueued
    BY <1>2, <2>1 DEF BoxType
  <2> HIDE DEF c
  <2>3. (WelcomeNext(b) => WelcomeNext(c))
        /\ (f.kind = "welcome" /\ b.floor = <<>> => WelcomeNext(c))
    BY <1>1, <1>2, <1>3, <1>4, <2>2 DEF WelcomeNext
  <2> QED
    BY <2>3 DEF c
<1> QED
  BY <1>5, <1>6

(* Purges leave the Welcome alone. *)
LEMMA PurgeKeepsNext ==
  ASSUME NEW b \in BoxType, NEW s \in Streams, WelcomeNext(b)
  PROVE  WelcomeNext(PurgeOrdered(b, s)) /\ WelcomeNext(Purge(b, s))
<1> DEFINE cleared  == WithoutLane(b, s)
           unmarked == [cleared EXCEPT !.pending = @ \ {s}]
           c        == Splice(unmarked, s)
           spliced  == IF s \in b.pending THEN c ELSE cleared
<1>1. s \in Lanes /\ System \in Lanes /\ s # System /\ b.lanes \in [Lanes -> Seq(FrameSet)]
  BY LaneKinds, BoxFields
<1>2. /\ cleared \in BoxType /\ cleared.lanes = [b.lanes EXCEPT ![s] = <<>>]
      /\ cleared.floor = b.floor /\ cleared.welcomeQueued = b.welcomeQueued
  BY <1>1, WithoutLaneType DEF WithoutLane, BoxType
<1> HIDE DEF cleared
<1>3. WelcomeNext(cleared)
  BY <1>1, <1>2 DEF WelcomeNext
<1>4. PurgeOrdered(b, s) = b \/ PurgeOrdered(b, s) = FireIfRoom(cleared)
  BY DEF PurgeOrdered, cleared
<1>5. WelcomeNext(PurgeOrdered(b, s))
  BY <1>2, <1>3, <1>4, TicketsKeepNext
<1>6. /\ unmarked \in BoxType /\ unmarked.lanes = cleared.lanes
      /\ unmarked.floor = cleared.floor /\ unmarked.welcomeQueued = cleared.welcomeQueued
  BY <1>2 DEF BoxType
<1> HIDE DEF unmarked
<1>7. c \in BoxType
  BY <1>6, SpliceType
<1>8. /\ c.lanes = [unmarked.lanes EXCEPT ![System] = Unstaged(unmarked.lanes[System], s)]
      /\ c.floor = Unstaged(unmarked.floor, s) /\ c.welcomeQueued = unmarked.welcomeQueued
  BY <1>6 DEF Splice, BoxType
<1> HIDE DEF c
<1>9. /\ unmarked.lanes \in [Lanes -> Seq(FrameSet)] /\ unmarked.floor \in Seq(FrameSet)
      /\ unmarked.lanes[System] \in Seq(FrameSet)
  BY <1>1, <1>6, BoxFields
<1>10. WelcomeNext(unmarked)
  BY <1>3, <1>6 DEF WelcomeNext
<1>11. c.lanes[System] = Unstaged(unmarked.lanes[System], s)
  BY <1>1, <1>8, <1>9
<1>12. WelcomeNext(c)
  BY <1>8, <1>9, <1>10, <1>11, UnstagedHeads DEF WelcomeNext
<1>13. spliced \in BoxType /\ WelcomeNext(spliced)
  BY <1>2, <1>3, <1>7, <1>12
<1>14. Purge(b, s) = spliced \/ Purge(b, s) = Fire(spliced)
  BY DEF Purge, cleared, unmarked, c
<1> HIDE DEF spliced
<1> QED
  BY <1>5, <1>13, <1>14, TicketsKeepNext

(***************************************************************************)
(* Before the handshake nothing is queued, no stream is open and the       *)
(* writer has found nothing to do; between the handshake and the end of    *)
(* the Welcome's write, the Welcome is next or in flight.                  *)
(***************************************************************************)
Untouched ==
    /\ ~conn.welcomed
    /\ \A k \in Lanes : box.lanes[k] = <<>>
    /\ box.floor = <<>> /\ ~box.closed /\ ~box.welcomeQueued
    /\ \A s \in Streams : task[s].pc = "none"
    /\ reserve.open /\ ~reserve.full
    /\ writer.pc \in {"look", "select", "lanes"} /\ ~Packed(writer.frame)

Idling  == WelcomeNext(box) /\ writer.pc \in {"look", "select", "lanes", "fire"}
                            /\ ~Packed(writer.frame)
Sending == writer.pc = "writing" /\ writer.frame.kind = "welcome"
Barred  ==
    (conn.welcomed /\ ~writer.welcomeWritten /\ writer.pc # "ended") => Idling \/ Sending

BarrierInv == FramesInv /\ (conn.pc = "hello" => Untouched) /\ Barred

(* A step after the handshake that is not the writer's. *)
LEMMA OutsideStep ==
  ASSUME BarrierInv, FramesInv', writer' = writer, conn'.welcomed = conn.welcomed,
         conn'.pc # "hello", WelcomeNext(box) => WelcomeNext(box')
  PROVE  BarrierInv'
  BY DEF BarrierInv, Barred, Idling, Sending

(* Leaving the select loop changes nothing of the handshake, *)
LEMMA LeaveHello ==
  ASSUME conn \in ConnType, NEW failed, Leave(failed)
  PROVE  conn'.welcomed = conn.welcomed /\ conn'.pc # "hello"
  BY DEF Leave, ConnType

(* nor does the end of a baseline's delivery. *)
LEMMA DoneHello ==
  ASSUME conn \in ConnType, conn.pc # "hello", NEW s, NEW ok, HandlerDone(s, ok)
  PROVE  conn'.welcomed = conn.welcomed /\ conn'.pc # "hello"
  BY DEF HandlerDone, ConnType

(* The deliveries run after the handshake and leave the Welcome next. *)
LEMMA StreamsBarred ==
  ASSUME BarrierInv, NEW s \in Streams, Delivery(s) \/ Streaming(s)
  PROVE  BarrierInv'
<1>0. /\ FramesInv' /\ TasksOK /\ box \in BoxType /\ conn \in ConnType
      /\ task[s].size \in Nat
  BY DeliveryFrames, StreamingFrames
     DEF BarrierInv, FramesInv, TypeInv, Good, ConnOK, TasksOK, TaskType
<1>1. task[s].pc # "none"
  BY DEF Delivery, Streaming, TakeTicket, Reoffer, Wake, StopWaiting, LagTake, LagPurge,
     LagTell, Produce, TaskEnds, Stuck
<1>2. conn.pc # "hello"
  BY <1>1 DEF BarrierInv, Untouched
<1>3. writer' = writer
  BY DEF Delivery, Streaming, TakeTicket, Reoffer, Wake, StopWaiting, LagTake, LagPurge,
     LagTell, Produce, TaskEnds, Stuck, Rejected
<1>4. conn' = conn \/ \E r \in Streams, ok \in BOOLEAN : HandlerDone(r, ok)
  BY DEF Delivery, Streaming, TakeTicket, Reoffer, Wake, StopWaiting, LagTake, LagPurge,
     LagTell, Produce, TaskEnds, Stuck, Rejected
<1>5. conn'.welcomed = conn.welcomed /\ conn'.pc # "hello"
  BY <1>0, <1>2, <1>4, DoneHello
<1>6. ASSUME WelcomeNext(box)
      PROVE  WelcomeNext(box')
  <2>1. CancelTicket(box, s) \in BoxType
    BY <1>0, TicketTypes
  <2>2. /\ WelcomeNext(CancelTicket(box, s)) /\ WelcomeNext(Close(CancelTicket(box, s)))
        /\ WelcomeNext(DrainTicket(box, s)) /\ WelcomeNext(Purge(box, s))
    BY <1>0, <1>6, <2>1, TicketsKeepNext, PurgeKeepsNext
  <2>3. \A n \in Nat : WelcomeNext(Offered(box, s, n))
    BY <1>0, <1>6, OfferedKeepsNext
  <2>4. CASE Streaming(s)
    <3>1. \/ \E n \in EventSizes : box' = Offered(box, s, n)
          \/ box' = box \/ box' = CancelTicket(box, s) \/ box' = Close(CancelTicket(box, s))
      BY <2>4 DEF Streaming, Produce, TaskEnds, Stuck, Rejected
    <3>2. EventSizes \subseteq Nat
      BY OutboxAssumption
    <3> QED
      BY <1>6, <2>2, <2>3, <3>1, <3>2
  <2>5. ASSUME NEW n \in ReplySizes, LagTell(s, n)
        PROVE  WelcomeNext(box')
    <3>1. \/ box' = Push(box, Frame("overloaded", s, n))
          \/ box' = Push(box, Frame("reply", System, n))
          \/ box' = box
      BY <2>5 DEF LagTell
    <3>2. /\ "overloaded" \in Kinds /\ "reply" \in Kinds /\ n \in Nat
          /\ s \in Lanes \cup {Nobody} /\ System \in Lanes \cup {Nobody}
      BY LaneKinds, OutboxAssumption DEF Kinds
    <3>3. Frame("overloaded", s, n) \in FrameSet /\ Frame("reply", System, n) \in FrameSet
      BY <3>2, FrameType
    <3> QED
      BY <1>0, <1>6, <3>1, <3>3, PushKeepsNext
  <2>6. CASE Wake(s)
    <3>1. /\ box'.lanes = box.lanes /\ box'.floor = box.floor
          /\ box'.welcomeQueued = box.welcomeQueued
      BY <1>0, <2>6 DEF Wake, BoxType
    <3> QED
      BY <1>6, <3>1 DEF WelcomeNext
  <2>7. CASE TakeTicket(s) \/ Reoffer(s) \/ StopWaiting(s) \/ LagTake(s) \/ LagPurge(s)
    <3>1. \/ box' = Offered(box, s, task[s].size) \/ box' = box
          \/ box' = CancelTicket(box, s) \/ box' = Close(CancelTicket(box, s))
          \/ box' = DrainTicket(box, s) \/ box' = Purge(box, s)
      BY <2>7 DEF TakeTicket, Reoffer, StopWaiting, LagTake, LagPurge, Rejected
    <3> QED
      BY <1>0, <1>6, <2>2, <2>3, <3>1
  <2> QED
    BY <2>4, <2>5, <2>6, <2>7 DEF Delivery
<1> QED
  BY <1>0, <1>3, <1>5, <1>6, OutsideStep

(* The Welcome is the first frame of a connection; whatever a request does *)
(* to the outbox leaves it next.                                           *)
LEMMA RequestsBarred ==
  ASSUME BarrierInv, Requests
  PROVE  BarrierInv'
<1>0. FramesInv' /\ box \in BoxType /\ conn \in ConnType
  BY RequestFrames DEF BarrierInv, FramesInv, TypeInv, Good, ConnOK
<1>1. \A kind \in {"error", "welcome", "reply"}, n \in ReplySizes :
        Frame(kind, System, n) \in FrameSet
  <2>1. ReplySizes \subseteq Nat /\ System \in Lanes \cup {Nobody}
        /\ {"error", "welcome", "reply"} \subseteq Kinds
    BY LaneKinds, OutboxAssumption DEF Kinds
  <2> QED
    BY <2>1, FrameType
<1>2. ASSUME NEW n \in ReplySizes, Hello(n)
      PROVE  BarrierInv'
  <2> DEFINE f == Frame("welcome", System, n)
  <2>1. f \in FrameSet /\ f.kind = "welcome"
    BY <1>1 DEF Frame
  <2>2. box' = Push(box, f) /\ conn.pc = "hello"
    BY <1>2 DEF Hello
  <2> HIDE DEF f
  <2>3. Untouched /\ System \in Lanes
    BY <2>2, LaneKinds DEF BarrierInv
  <2>4. WelcomeNext(box')
    BY <1>0, <2>1, <2>2, <2>3, PushKeepsNext DEF Untouched
  <2>5. writer' = writer /\ conn'.pc = "open"
    BY <1>0, <1>2 DEF Hello, ConnType
  <2> QED
    BY <1>0, <2>3, <2>4, <2>5 DEF BarrierInv, Barred, Idling, Untouched
<1>3. ASSUME NEW n \in ReplySizes,
             HelloFails(n) \/ Request(n) \/ Retire(n) \/ Droppable(n)
      PROVE  BarrierInv'
  <2>1. \/ \E kind \in {"error", "reply"} : box' = Push(box, Frame(kind, System, n))
        \/ box' = box \/ box' = Close(box)
    BY <1>3 DEF HelloFails, Request, Retire, Droppable, Overflows
  <2>2. WelcomeNext(box) => WelcomeNext(box')
    BY <1>0, <1>1, <2>1, PushKeepsNext, TicketsKeepNext
  <2>3. conn'.welcomed = conn.welcomed /\ conn'.pc # "hello"
    <3>1. CASE conn' = Asked(conn) /\ conn.pc = "open"
      BY <1>0, <3>1 DEF Asked, ConnType
    <3>2. (\E failed \in BOOLEAN : Leave(failed)) \/ (conn' = Asked(conn) /\ conn.pc = "open")
      BY <1>3 DEF HelloFails, Request, Retire, Droppable, Overflows, Reading
    <3> QED
      BY <1>0, <3>1, <3>2, LeaveHello
  <2>4. writer' = writer
    BY <1>3 DEF HelloFails, Request, Retire, Droppable
  <2> QED
    BY <1>0, <2>2, <2>3, <2>4, OutsideStep
<1>4. ASSUME NEW n \in ReplySizes, NEW a \in Attachments, Attach(a, n)
      PROVE  BarrierInv'
  <2>1. conn.pc = "open" /\ writer' = writer
    BY <1>4 DEF Attach, Reading
  <2>2. CASE Answer(Frame("response", a, n))
    <3>1. Frame("response", a, n) \in FrameSet
      <4>1. "response" \in Kinds /\ a \in Lanes \cup {Nobody} /\ n \in Nat
        BY LaneKinds, OutboxAssumption DEF Kinds
      <4> QED
        BY <4>1, FrameType
    <3>2. WelcomeNext(box) => WelcomeNext(box')
      BY <1>0, <2>2, <3>1, PushKeepsNext DEF Answer
    <3>3. conn'.welcomed = conn.welcomed /\ conn'.pc # "hello"
      BY <1>0, <2>1, <2>2 DEF Answer, ConnType
    <3> QED
      BY <1>0, <2>1, <3>2, <3>3, OutsideStep
  <2>3. CASE Overflows(n)
    BY <1>0, <2>1, <2>3, LeaveHello, OutsideStep DEF Overflows
  <2> QED
    BY <1>4, <2>2, <2>3 DEF Attach
<1>5. ASSUME \/ \E a \in Attachments : Detach(a)
             \/ \E m \in Monitors : MonitorWatch(m)
             \/ Drain \/ PeerGone
      PROVE  BarrierInv'
  <2>1. box' = box /\ writer' = writer
    BY <1>5 DEF Detach, MonitorWatch, Drain, PeerGone
  <2>2. conn'.welcomed = conn.welcomed /\ conn'.pc # "hello"
    <3>1. CASE Drain \/ PeerGone
      BY <1>0, <3>1, LeaveHello DEF Drain, PeerGone
    <3>2. ASSUME NEW a \in Attachments, Detach(a)
          PROVE  conn'.welcomed = conn.welcomed /\ conn'.pc # "hello"
      BY <1>0, <3>2 DEF Detach, Reading, ConnType
    <3>3. ASSUME NEW m \in Monitors, MonitorWatch(m)
          PROVE  conn'.welcomed = conn.welcomed /\ conn'.pc # "hello"
      BY <1>0, <3>3 DEF MonitorWatch, Reading, ConnType
    <3> QED
      BY <1>5, <3>1, <3>2, <3>3
  <2> QED
    BY <1>0, <2>1, <2>2, OutsideStep
<1>6. ASSUME NEW l \in Looms, NEW n \in EventSizes, LoomWatch(l, n)
      PROVE  BarrierInv'
  <2>1. conn.pc = "open" /\ writer' = writer /\ l \in Streams /\ n \in Nat
    BY <1>6, LaneKinds, OutboxAssumption DEF LoomWatch, Reading
  <2>2. box' = Offered(box, l, n) \/ box' = box \/ box' = Close(box)
    BY <1>6 DEF LoomWatch
  <2>3. WelcomeNext(box) => WelcomeNext(box')
    BY <1>0, <2>1, <2>2, OfferedKeepsNext, TicketsKeepNext
  <2>4. \/ conn' = conn \/ conn' = [conn EXCEPT !.at = "baseline", !.of = l]
        \/ Leave(TRUE)
    BY <1>6 DEF LoomWatch
  <2>5. conn'.welcomed = conn.welcomed /\ conn'.pc # "hello"
    BY <1>0, <2>1, <2>4, LeaveHello DEF ConnType
  <2> QED
    BY <1>0, <2>1, <2>3, <2>5, OutsideStep
<1> QED
  BY <1>2, <1>3, <1>4, <1>5, <1>6 DEF Requests

(* The liveness tick keeps the barrier. *)
LEMMA BreachBarred ==
  ASSUME BarrierInv, NEW n \in ReplySizes, Breach(n)
  PROVE  BarrierInv'
  BY RequestsBarred DEF Breach, Requests

(* The later steps of a request keep the barrier. *)
LEMMA HandlingBarred ==
  ASSUME BarrierInv, Handling
  PROVE  BarrierInv'
<1>0. FramesInv' /\ box \in BoxType /\ conn \in ConnType /\ ConnOK
  BY HandlingFrames DEF BarrierInv, FramesInv, TypeInv, Good, ConnOK
<1>1. writer' = writer /\ conn.at # "read"
  BY DEF Handling, DetachPurge, DetachAnswer, OpenWatch, ReplaceWatch
<1>2. conn.pc = "open"
  BY <1>0, <1>1 DEF ConnOK, HandlerOK
<1>3. ASSUME NEW n \in ReplySizes, Overflows(n)
      PROVE  BarrierInv'
  BY <1>0, <1>1, <1>3, LeaveHello, OutsideStep DEF Overflows
<1>4. ASSUME DetachPurge
      PROVE  BarrierInv'
  <2>1. conn.of \in Streams
    BY <1>0, <1>4, LaneKinds DEF DetachPurge, ConnOK, HandlerOK
  <2>2. WelcomeNext(box) => WelcomeNext(box')
    BY <1>0, <1>4, <2>1, PurgeKeepsNext DEF DetachPurge
  <2>3. conn'.welcomed = conn.welcomed /\ conn'.pc # "hello"
    BY <1>0, <1>2, <1>4 DEF DetachPurge, ConnType
  <2> QED
    BY <1>0, <1>1, <2>2, <2>3, OutsideStep
<1>5. ASSUME ReplaceWatch
      PROVE  BarrierInv'
  <2>1. conn.slot \in Streams
    BY <1>0, <1>5, LaneKinds DEF ReplaceWatch, ConnOK, HandlerOK
  <2>2. WelcomeNext(box) => WelcomeNext(box')
    BY <1>0, <1>5, <2>1, PurgeKeepsNext DEF ReplaceWatch
  <2>3. conn'.welcomed = conn.welcomed /\ conn'.pc # "hello"
    BY <1>0, <1>2, <1>5 DEF ReplaceWatch, ConnType
  <2> QED
    BY <1>0, <1>1, <2>2, <2>3, OutsideStep
<1>6. ASSUME NEW n \in ReplySizes, Answer(Frame("reply", System, n))
      PROVE  BarrierInv'
  <2>1. Frame("reply", System, n) \in FrameSet
    <3>1. "reply" \in Kinds /\ System \in Lanes \cup {Nobody} /\ n \in Nat
      BY LaneKinds, OutboxAssumption DEF Kinds
    <3> QED
      BY <3>1, FrameType
  <2>2. WelcomeNext(box) => WelcomeNext(box')
    BY <1>0, <1>6, <2>1, PushKeepsNext DEF Answer
  <2>3. conn'.welcomed = conn.welcomed /\ conn'.pc # "hello"
    BY <1>0, <1>2, <1>6 DEF Answer, ConnType
  <2> QED
    BY <1>0, <1>1, <2>2, <2>3, OutsideStep
<1>7. ASSUME NEW n \in ReplySizes, conn.at = "watch",
             box' = Push(box, Frame("watching", conn.of, n)),
             conn' = [conn EXCEPT !.at = "read", !.of = Nobody, !.slot = conn.of]
      PROVE  BarrierInv'
  <2>1. Frame("watching", conn.of, n) \in FrameSet
    <3>1. "watching" \in Kinds /\ conn.of \in Monitors /\ n \in Nat
      BY <1>0, <1>7, OutboxAssumption DEF Kinds, ConnOK, HandlerOK
    <3> QED
      BY <3>1, FrameType, LaneKinds
  <2>2. WelcomeNext(box) => WelcomeNext(box')
    BY <1>0, <1>7, <2>1, PushKeepsNext
  <2>3. conn'.welcomed = conn.welcomed /\ conn'.pc # "hello"
    BY <1>0, <1>2, <1>7 DEF ConnType
  <2> QED
    BY <1>0, <1>1, <2>2, <2>3, OutsideStep
<1> QED
  BY <1>3, <1>4, <1>5, <1>6, <1>7 DEF Handling, DetachAnswer, OpenWatch

(* The teardown keeps the barrier, or ends the writer. *)
LEMMA TeardownBarred ==
  ASSUME BarrierInv, Teardown
  PROVE  BarrierInv'
<1>0. FramesInv' /\ box \in BoxType /\ conn \in ConnType /\ writer \in WriterType
  BY TeardownFrames DEF BarrierInv, FramesInv, TypeInv, Good, ConnOK, WritersOK
<1>1. conn'.welcomed = conn.welcomed /\ conn'.pc # "hello"
  BY <1>0 DEF Teardown, HubClose, CloseLane, ConnType
<1>2. WelcomeNext(box) => WelcomeNext(box')
  <2>1. CASE HubClose
    <3>1. conn.slot # Nobody => conn.slot \in Streams
      BY <1>0, LaneKinds DEF ConnType
    <3> QED
      BY <1>0, <2>1, <3>1, PurgeKeepsNext DEF HubClose
  <2>2. CASE CloseLane
    BY <1>0, <2>2, TicketsKeepNext DEF CloseLane
  <2> QED
    BY <2>1, <2>2 DEF Teardown
<1>3. CASE writer' = writer
  BY <1>0, <1>1, <1>2, <1>3, OutsideStep
<1>4. CASE writer'.pc = "ended"
  BY <1>0, <1>1, <1>4 DEF BarrierInv, Barred
<1>5. writer' = writer \/ writer'.pc = "ended"
  BY <1>0 DEF Teardown, HubClose, CloseLane, WriterType
<1> QED
  BY <1>3, <1>4, <1>5

(* While the Welcome is next, recv gives the Welcome: only the floor's     *)
(* head or the System lane can be popped, streams' lanes hold events.      *)
LEMMA NextIsPopped ==
  ASSUME BarrierInv, WelcomeNext(box)
  PROVE  /\ ~Exhausted(box)
         /\ FromFloor(box) => Head(box.floor).kind = "welcome"
         /\ \A k \in Lanes : FromLane(box, k) => Head(box.lanes[k]).kind = "welcome"
<1>0. /\ box \in BoxType /\ Frames(box) /\ System \in Lanes
      /\ box.lanes[System] \in Seq(FrameSet) /\ box.floor \in Seq(FrameSet)
  BY BoxFields, LaneKinds DEF BarrierInv, FramesInv, TypeInv, Good
<1>1. box.welcomeQueued /\ (FromFloor(box) => Head(box.floor).kind = "welcome")
  BY DEF WelcomeNext, FromFloor
<1>2. ~FromFloor(box) => HeadsWelcome(box.lanes[System])
  BY DEF WelcomeNext, FromFloor, HeadsWelcome
<1>3. HeadsWelcome(box.lanes[System]) => HoldsWelcome(box.lanes[System])
  <2>1. box.lanes[System] # <<>> => /\ 1 \in DOMAIN box.lanes[System]
                                    /\ Head(box.lanes[System]) = box.lanes[System][1]
    BY <1>0
  <2> QED
    BY <2>1 DEF HeadsWelcome, HoldsWelcome
<1>4. \A k \in Lanes : HoldsWelcome(box.lanes[k]) => k = System
  <2>1. \A k \in Lanes : k = System \/ k \in Streams
    BY DEF Lanes
  <2>2. \A k \in Streams : EventsOf(box.lanes[k], k)
    BY <1>0 DEF Frames
  <2> QED
    BY <2>1, <2>2 DEF HoldsWelcome, EventsOf
<1> QED
  BY <1>0, <1>1, <1>2, <1>3, <1>4 DEF Exhausted, FromLane, HeadsWelcome

(* The frame that recv hands over. *)
LEMMA RecvWriter ==
  ASSUME BarrierInv, Recv
  PROVE  /\ writer'.pc = "writing" /\ writer'.welcomeWritten = writer.welcomeWritten
         /\ conn' = conn /\ conn.pc # "hello"
         /\ WelcomeNext(box) => writer'.frame.kind = "welcome"
<1>0. box \in Good /\ writer \in WriterType /\ \A k \in Lanes : FromLane(box, k) => box.lanes[k] # <<>>
  BY FromLaneHasFrame DEF BarrierInv, FramesInv, TypeInv, WritersOK
<1>1. PICK f : /\ writer' = [writer EXCEPT !.pc = "writing", !.frame = f]
               /\ \/ FromFloor(box) /\ f = Head(box.floor)
                  \/ \E k \in Lanes : FromLane(box, k) /\ f = Head(box.lanes[k])
  BY DEF Recv, Popped
<1>2. /\ writer'.pc = "writing" /\ writer'.frame = f
      /\ writer'.welcomeWritten = writer.welcomeWritten
  BY <1>0, <1>1 DEF WriterType
<1>3. conn' = conn
  BY DEF Recv, Popped
<1>4. conn.pc # "hello"
  BY <1>0, <1>1 DEF BarrierInv, Untouched, FromFloor
<1> QED
  BY <1>1, <1>2, <1>3, <1>4, NextIsPopped

(* The writer keeps the barrier: a notice is held back, the Welcome is the *)
(* only frame it can pop, and it never finds the outbox exhausted.         *)
LEMMA WriterBarred ==
  ASSUME BarrierInv, Scheduling \/ Writing \/ WriteFails
  PROVE  BarrierInv'
<1>0. /\ FramesInv' /\ box \in BoxType /\ writer \in WriterType /\ ~Packed(NoFrame)
  BY WriterFrames DEF BarrierInv, FramesInv, TypeInv, Good, WritersOK, Packed, NoFrame, Frame
<1>1. conn' = conn /\ task' = task
  BY DEF Scheduling, Writing, Look, FireNotice, SelectNotice, SelectClosed, AdoptNotice,
     Final, NoticeDone, Recv, Popped, RecvNone, WriteDone, WriteFails
<1>2. CASE Recv
  <2>1. /\ writer'.pc = "writing" /\ writer'.welcomeWritten = writer.welcomeWritten
        /\ conn' = conn /\ conn.pc # "hello"
        /\ WelcomeNext(box) => writer'.frame.kind = "welcome"
    BY <1>2, RecvWriter
  <2>2. writer.pc \in {"lanes", "select"}
    BY <1>2 DEF Recv, Receiving
  <2> QED
    BY <1>0, <2>1, <2>2 DEF BarrierInv, Barred, Idling, Sending
<1>3. CASE Look
  <2>1. /\ writer.pc = "look" /\ writer'.pc \in {"select", "lanes"}
        /\ writer'.frame = writer.frame /\ writer'.welcomeWritten = writer.welcomeWritten
        /\ box' = box /\ reserve' = reserve
    BY <1>0, <1>3 DEF Look, WriterType
  <2> QED
    BY <1>0, <1>1, <2>1 DEF BarrierInv, Barred, Idling, Sending, Untouched
<1>4. CASE SelectNotice \/ SelectClosed \/ FireNotice
  <2>1. /\ writer.pc \in {"select", "fire"}
        /\ writer'.frame = writer.frame /\ writer'.welcomeWritten = writer.welcomeWritten
        /\ box' = box
    BY <1>0, <1>4 DEF SelectNotice, SelectClosed, FireNotice, WriterType
  <2>2. conn.pc # "hello"
    BY <1>4 DEF BarrierInv, Untouched, SelectNotice, SelectClosed, FireNotice
  <2>3. \/ writer'.pc \in {"fire", "lanes", "look"}
        \/ ~WelcomeBarrier
    BY <1>0, <1>4 DEF SelectNotice, SelectClosed, FireNotice, WriterType
  <2> QED
    BY <1>0, <1>1, <2>1, <2>2, <2>3
       DEF BarrierInv, Barred, Idling, Sending, WelcomeBarrier, WelcomeNext
<1>5. CASE RecvNone
  <2>1. Exhausted(box) /\ (box.closed \/ box.welcomeQueued) /\ writer.pc \in {"lanes", "select"}
        /\ writer'.welcomeWritten = writer.welcomeWritten
    BY <1>0, <1>5 DEF RecvNone, Receiving, WriterType
  <2>2. ~WelcomeNext(box)
    BY <2>1, NextIsPopped
  <2>3. conn.pc # "hello"
    BY <2>1 DEF BarrierInv, Untouched
  <2> QED
    BY <1>0, <1>1, <2>1, <2>2, <2>3 DEF BarrierInv, Barred, Idling, Sending
<1>6. CASE AdoptNotice
  <2>1. /\ writer.pc = "writing" /\ writer'.pc = "writing" /\ writer'.frame = writer.frame
        /\ writer'.welcomeWritten = writer.welcomeWritten
    BY <1>0, <1>6 DEF AdoptNotice, WriterType
  <2> QED
    BY <1>0, <1>1, <2>1 DEF BarrierInv, Barred, Idling, Sending, Untouched
<1>7. CASE WriteDone \/ WriteFails
  <2>1. /\ writer.pc \in {"writing", "notice", "farewell"}
        /\ \/ writer'.pc = "ended"
           \/ writer.pc = "writing" /\ writer'.welcomeWritten
                                        = (writer.welcomeWritten \/ writer.frame.kind = "welcome")
    BY <1>0, <1>7 DEF WriteDone, WriteFails, WriterType
  <2> QED
    BY <1>0, <1>1, <2>1 DEF BarrierInv, Barred, Idling, Sending, Untouched
<1>8. CASE NoticeDone \/ Final
  <2>1. /\ writer.pc \in {"notice", "farewell", "final"}
        /\ writer'.welcomeWritten = writer.welcomeWritten
    BY <1>0, <1>8 DEF NoticeDone, Final, WriterType
  <2>2. writer.welcomeWritten \/ ~conn.welcomed
    BY <2>1 DEF BarrierInv, Barred, Idling, Sending
  <2> QED
    BY <1>0, <1>1, <2>1, <2>2 DEF BarrierInv, Barred, Untouched
<1> QED
  BY <1>2, <1>3, <1>4, <1>5, <1>6, <1>7, <1>8 DEF Scheduling, Writing

(* A new connection satisfies the barrier's invariant. *)
LEMMA BarrierInitially ==
  ASSUME Init
  PROVE  BarrierInv
<1>1. FramesInv
  BY FramesInitially
<1>2. Untouched
  BY DEF Init, Untouched, EmptyBox, NoFrame, Frame, Packed
<1> QED
  BY <1>1, <1>2 DEF BarrierInv, Barred, Untouched

(* The invariant BarrierInv: nothing is queued before the handshake, and   *)
(* from then until it is written the Welcome is next or in flight.         *)
THEOREM BarrierInvariant == Spec => []BarrierInv
<1>1. Init => BarrierInv
  BY BarrierInitially
<1>2. BarrierInv /\ [Next]_vars => BarrierInv'
  <2> SUFFICES ASSUME BarrierInv, [Next]_vars
               PROVE  BarrierInv'
    OBVIOUS
  <2>1. CASE UNCHANGED vars
    <3>1. FramesInv'
      <4>1. TypeInv'
        BY TypeStep DEF BarrierInv, FramesInv
      <4> QED
        BY <2>1, <4>1 DEF vars, BarrierInv, FramesInv, Frames, Owners
    <3>2. /\ writer' = writer /\ conn' = conn /\ box' = box
          /\ task' = task /\ reserve' = reserve
      BY <2>1 DEF vars
    <3> QED
      BY <3>1, <3>2 DEF BarrierInv, Barred, Idling, Sending, Untouched
  <2>2. CASE Next
    BY <2>1, <2>2, StreamsBarred, RequestsBarred, BreachBarred, HandlingBarred,
       TeardownBarred, WriterBarred DEF Next, Over
  <2> QED
    BY <2>1, <2>2
<1> QED
  BY <1>1, <1>2, PTL DEF Spec

(* EncodingBarrier: once the handshake chose the negotiated encoding,      *)
(* neither a frame in it nor the drain notice is written before the JSON   *)
(* Welcome, wherever the writer was parked when the Welcome was queued.    *)
THEOREM WelcomeComesFirst == Spec => []EncodingBarrier
<1>1. BarrierInv => EncodingBarrier
  BY DEF BarrierInv, Barred, Idling, Sending, EncodingBarrier, Packed
<1> QED
  BY <1>1, BarrierInvariant, PTL

=============================================================================
