----------------------- MODULE ConnectionOutboxProofs -----------------------
(***************************************************************************)
(* Proofs about the outbox, for any streams and bounds: every state is     *)
(* well typed and the ring lists exactly the lanes with queued frames.     *)
(* The types need the ring (recv takes the head of the lane that the ring  *)
(* names), and the ring needs that each operation changes one lane.  Then  *)
(* the accounts: the counters are what is queued or being written, and     *)
(* what is allocated stays within the bounds.                              *)
(***************************************************************************)
EXTENDS ConnectionOutbox, Integers, WellFoundedInduction, SequenceTheorems, Tally

(* RemoveAt drops one element and closes the gap. *)
LEMMA RemoveAtType ==
  ASSUME NEW S, NEW q \in Seq(S), NEW i \in 1 .. Len(q)
  PROVE  /\ RemoveAt(q, i) \in Seq(S)
         /\ Len(RemoveAt(q, i)) = Len(q) - 1
         /\ \A j \in 1 .. Len(q) - 1 :
              RemoveAt(q, i)[j] = IF j < i THEN q[j] ELSE q[j + 1]
<1> DEFINE front == SubSeq(q, 1, i - 1)
           back  == SubSeq(q, i + 1, Len(q))
<1>1. /\ front \in Seq(S) /\ Len(front) = i - 1
      /\ \A j \in 1 .. i - 1 : front[j] = q[j]
  <2>1. \A j \in 1 .. i - 1 : q[j] \in S
    OBVIOUS
  <2>2. /\ front \in Seq(S) /\ Len(front) = IF 1 <= i - 1 THEN i - 1 - 1 + 1 ELSE 0
        /\ \A j \in 1 .. i - 1 - 1 + 1 : front[j] = q[1 + j - 1]
    BY <2>1, SubSeqProperties
  <2>3. i \in Int /\ 1 <= i
    OBVIOUS
  <2> HIDE DEF front
  <2>4. Len(front) = i - 1
    BY <2>2, <2>3
  <2>5. ASSUME NEW j \in 1 .. i - 1
        PROVE  front[j] = q[j]
    <3>1. j \in 1 .. i - 1 - 1 + 1 /\ 1 + j - 1 = j
      BY <2>3
    <3> QED
      BY <2>2, <3>1
  <2> QED
    BY <2>2, <2>4, <2>5
<1>2. /\ back \in Seq(S) /\ Len(back) = Len(q) - i
      /\ \A j \in 1 .. Len(q) - i : back[j] = q[i + j]
  <2>1. \A j \in i + 1 .. Len(q) : q[j] \in S
    OBVIOUS
  <2>2. /\ back \in Seq(S)
        /\ Len(back) = IF i + 1 <= Len(q) THEN Len(q) - (i + 1) + 1 ELSE 0
        /\ \A j \in 1 .. Len(q) - (i + 1) + 1 : back[j] = q[i + 1 + j - 1]
    BY <2>1, SubSeqProperties
  <2> HIDE DEF back
  <2>3. i \in Int /\ Len(q) \in Int /\ i <= Len(q)
    OBVIOUS
  <2>4. Len(back) = Len(q) - i
    BY <2>2, <2>3
  <2>5. ASSUME NEW j \in 1 .. Len(q) - i
        PROVE  back[j] = q[i + j]
    <3>1. j \in 1 .. Len(q) - (i + 1) + 1 /\ i + 1 + j - 1 = i + j
      BY <2>3
    <3> QED
      BY <2>2, <3>1
  <2> QED
    BY <2>2, <2>4, <2>5
<1>3. RemoveAt(q, i) = front \o back
  BY DEF RemoveAt
<1> HIDE DEF front, back
<1>4. /\ front \o back \in Seq(S) /\ Len(front \o back) = Len(front) + Len(back)
      /\ \A j \in 1 .. Len(front) + Len(back) :
           (front \o back)[j] = IF j <= Len(front) THEN front[j] ELSE back[j - Len(front)]
  BY <1>1, <1>2, ConcatProperties
<1> QED
  BY <1>1, <1>2, <1>3, <1>4

(* Min of a set of naturals is its least member. *)
LEMMA LeastIndex ==
  ASSUME NEW I \in SUBSET Nat, NEW i \in I
  PROVE  Min(I) \in I /\ \A j \in I : Min(I) <= j
<1>1. IsWellFoundedOn(OpToRel(<, Nat), Nat)
  BY NatLessThanWellFounded
<1>2. PICK m \in I : \A j \in I : ~(<<j, m>> \in OpToRel(<, Nat))
  BY <1>1, WFMin
<1>3. \A j \in I : ~(j < m)
  BY <1>2 DEF OpToRel
<1>4. \A j \in I : m <= j
  BY <1>3
<1> QED
  BY <1>4 DEF Min

(* RemoveFirst drops the first occurrence, or nothing. *)
LEMMA RemoveFirstIs ==
  ASSUME NEW S, NEW q \in Seq(S), NEW e
  PROVE  \/ RemoveFirst(q, e) = q /\ \A i \in 1 .. Len(q) : q[i] # e
         \/ \E i \in 1 .. Len(q) : /\ q[i] = e
                                   /\ \A j \in 1 .. Len(q) : q[j] = e => i <= j
                                   /\ RemoveFirst(q, e) = RemoveAt(q, i)
<1> DEFINE I == {i \in 1 .. Len(q) : q[i] = e}
<1>1. CASE \E i \in 1 .. Len(q) : q[i] = e
  <2>1. RemoveFirst(q, e) = RemoveAt(q, Min(I))
    BY <1>1 DEF RemoveFirst, SelectInSeq
  <2>2. Min(I) \in I /\ \A j \in I : Min(I) <= j
    BY <1>1, LeastIndex
  <2> QED
    BY <2>1, <2>2
<1> QED
  BY <1>1 DEF RemoveFirst

(* Unstaged drops the first staged response of an attachment, or nothing. *)
LEMMA UnstagedIs ==
  ASSUME NEW S, NEW q \in Seq(S), NEW a
  PROVE  \/ Unstaged(q, a) = q /\ \A i \in 1 .. Len(q) : ~Staged(q[i], a)
         \/ \E i \in 1 .. Len(q) : /\ Staged(q[i], a)
                                   /\ \A j \in 1 .. Len(q) : Staged(q[j], a) => i <= j
                                   /\ Unstaged(q, a) = RemoveAt(q, i)
<1> DEFINE I == {i \in 1 .. Len(q) : Staged(q[i], a)}
<1>1. CASE \E i \in 1 .. Len(q) : Staged(q[i], a)
  <2>1. Unstaged(q, a) = RemoveAt(q, Min(I))
    BY <1>1 DEF Unstaged, RemoveFirstMatch, SelectInSeq
  <2>2. Min(I) \in I /\ \A j \in I : Min(I) <= j
    BY <1>1, LeastIndex
  <2> QED
    BY <2>1, <2>2
<1> QED
  BY <1>1 DEF Unstaged, RemoveFirstMatch

(* RemoveFirst keeps the elements' type. *)
LEMMA RemoveFirstType ==
  ASSUME NEW S, NEW q \in Seq(S), NEW e
  PROVE  RemoveFirst(q, e) \in Seq(S)
  BY RemoveFirstIs, RemoveAtType

(* Unstaged keeps the elements' type. *)
LEMMA UnstagedType ==
  ASSUME NEW S, NEW q \in Seq(S), NEW a
  PROVE  Unstaged(q, a) \in Seq(S)
  BY UnstagedIs, RemoveAtType

(* The members of a sequence. *)
LEMMA Members ==
  ASSUME NEW S, NEW q \in Seq(S), NEW x
  PROVE  x \in ToSet(q) <=> \E j \in 1 .. Len(q) : q[j] = x
<1>1. DOMAIN q = 1 .. Len(q)
  OBVIOUS
<1> QED
  BY <1>1 DEF ToSet

(* Removing from a sequence without repetitions removes exactly that       *)
(* element.                                                                *)
LEMMA RemoveFirstInjective ==
  ASSUME NEW S, NEW q \in Seq(S), NEW e, IsInjective(q)
  PROVE  IsInjective(RemoveFirst(q, e)) /\ ToSet(RemoveFirst(q, e)) = ToSet(q) \ {e}
<1>1. CASE RemoveFirst(q, e) = q /\ \A i \in 1 .. Len(q) : q[i] # e
  BY <1>1 DEF ToSet
<1>2. CASE \E i \in 1 .. Len(q) : q[i] = e /\ RemoveFirst(q, e) = RemoveAt(q, i)
  <2>1. PICK i \in 1 .. Len(q) : q[i] = e /\ RemoveFirst(q, e) = RemoveAt(q, i)
    BY <1>2
  <2> DEFINE r == RemoveFirst(q, e)
  <2>2. /\ r \in Seq(S) /\ Len(r) = Len(q) - 1
        /\ \A j \in 1 .. Len(q) - 1 : r[j] = IF j < i THEN q[j] ELSE q[j + 1]
    BY <2>1, RemoveAtType
  <2>3. \A j, k \in 1 .. Len(q) : q[j] = q[k] => j = k
    BY DEF IsInjective
  <2> HIDE DEF r
  <2>4. IsInjective(r)
    BY <2>2, <2>3 DEF IsInjective
  <2>5. \A x : (\E j \in 1 .. Len(r) : r[j] = x) => x # e /\ \E j \in 1 .. Len(q) : q[j] = x
    BY <2>1, <2>2, <2>3
  <2>6. ASSUME NEW j \in 1 .. Len(q), q[j] # e
        PROVE  \E k \in 1 .. Len(r) : r[k] = q[j]
    <3>1. CASE j < i
      BY <2>2, <3>1
    <3>2. CASE j > i
      <4>1. j - 1 \in 1 .. Len(q) - 1 /\ ~(j - 1 < i) /\ (j - 1) + 1 = j
        BY <3>2
      <4> QED
        BY <2>2, <4>1
    <3> QED
      BY <2>1, <2>6, <3>1, <3>2
  <2>7. ToSet(r) = ToSet(q) \ {e}
    <3>1. \A x : x \in ToSet(q) <=> \E j \in 1 .. Len(q) : q[j] = x
      BY Members
    <3>2. \A x : x \in ToSet(r) <=> \E j \in 1 .. Len(r) : r[j] = x
      BY <2>2, Members
    <3>3. \A x : x \in ToSet(r) => x \in ToSet(q) /\ x # e
      BY <2>5, <3>1, <3>2
    <3>4. \A x : x \in ToSet(q) /\ x # e => x \in ToSet(r)
      BY <2>6, <3>1, <3>2
    <3> QED
      BY <3>3, <3>4
  <2> QED
    BY <2>4, <2>7 DEF r
<1> QED
  BY <1>1, <1>2, RemoveFirstIs

(* Appending a new element to a sequence without repetitions. *)
LEMMA AppendKeepsInjective ==
  ASSUME NEW S, NEW q \in Seq(S), NEW e \in S, IsInjective(q), e \notin ToSet(q)
  PROVE  IsInjective(Append(q, e)) /\ ToSet(Append(q, e)) = ToSet(q) \cup {e}
<1> DEFINE r == Append(q, e)
<1>1. /\ r \in Seq(S) /\ Len(r) = Len(q) + 1
      /\ \A j \in 1 .. Len(q) : r[j] = q[j]
      /\ r[Len(q) + 1] = e
  OBVIOUS
<1>2. \A j, k \in 1 .. Len(q) : q[j] = q[k] => j = k
  BY DEF IsInjective
<1>3. \A j \in 1 .. Len(q) : q[j] # e
  BY DEF ToSet
<1> HIDE DEF r
<1>4. IsInjective(r)
  BY <1>1, <1>2, <1>3 DEF IsInjective
<1>5. ToSet(r) = ToSet(q) \cup {e}
  BY <1>1, Members
<1> QED
  BY <1>4, <1>5 DEF r

(* A pop empties a lane exactly when it held one frame: the ring's test. *)
LEMMA TailIsEmpty ==
  ASSUME NEW S, NEW q \in Seq(S), q # <<>>
  PROVE  Tail(q) = <<>> <=> ~(Len(q) > 1)
<1>1. Tail(q) \in Seq(S) /\ Len(Tail(q)) = Len(q) - 1
  OBVIOUS
<1>2. Tail(q) = <<>> <=> Len(Tail(q)) = 0
  BY <1>1, EmptySeq
<1>3. Len(q) \in Nat
  OBVIOUS
<1> QED
  BY <1>1, <1>2, <1>3

(* saturating_sub stays in the naturals. *)
LEMMA MinusType ==
  ASSUME NEW x \in Nat, NEW y
  PROVE  Minus(x, y) \in Nat
  BY DEF Minus

-----------------------------------------------------------------------------
(* The operations of the outbox keep its type. *)

(* The frames the code builds are well typed. *)
LEMMA FrameType ==
  ASSUME NEW kind \in Kinds, NEW of \in Lanes \cup {Nobody}, NEW n \in Nat,
         kind = "response" => of \in Attachments,
         kind = "watching" => of \in Monitors,
         kind = "event" => of \in Streams
  PROVE  Frame(kind, of, n) \in FrameSet
  BY DEF Frame, FrameSet

(* The types of the outbox's fields. *)
LEMMA BoxFields ==
  ASSUME NEW b \in BoxType
  PROVE  /\ b.lanes \in [Lanes -> Seq(FrameSet)]
         /\ \A k \in Lanes : b.lanes[k] \in Seq(FrameSet)
         /\ b.ring \in Seq(Lanes)
         /\ b.floor \in Seq(FrameSet)
         /\ b.tickets \in Seq(Streams)
         /\ b.frames \in Nat /\ b.bytes \in Nat /\ b.floorInUse \in Nat
         /\ b.pending \subseteq Attachments /\ b.fired \subseteq Streams
         /\ b.welcomeQueued \in BOOLEAN /\ b.closed \in BOOLEAN
<1>1. /\ b.lanes \in LaneMaps /\ b.ring \in Rings /\ b.floor \in Queues
      /\ b.tickets \in Tickets
      /\ b.frames \in Nat /\ b.bytes \in Nat /\ b.floorInUse \in Nat
      /\ b.pending \subseteq Attachments /\ b.fired \subseteq Streams
      /\ b.welcomeQueued \in BOOLEAN /\ b.closed \in BOOLEAN
  BY DEF BoxType
<1>2. \A k \in Lanes : b.lanes[k] \in Queues
  BY <1>1 DEF LaneMaps
<1> QED
  BY <1>1, <1>2 DEF LaneMaps, Rings, Queues, Tickets

(* Setting one field. *)
LEMMA BoxUpdates ==
  ASSUME NEW b \in BoxType
  PROVE  /\ \A v \in LaneMaps : [b EXCEPT !.lanes = v] \in BoxType
         /\ \A v \in Rings : [b EXCEPT !.ring = v] \in BoxType
         /\ \A v \in Queues : [b EXCEPT !.floor = v] \in BoxType
         /\ \A v \in Tickets : [b EXCEPT !.tickets = v] \in BoxType
         /\ \A v \in SUBSET Streams : [b EXCEPT !.fired = v] \in BoxType
         /\ \A v \in Nat : [b EXCEPT !.floorInUse = v] \in BoxType
         /\ \A v \in Nat : [b EXCEPT !.bytes = v] \in BoxType
  BY DEF BoxType

(* fire_one_ticket keeps the outbox well typed. *)
LEMMA FireType ==
  ASSUME NEW b \in BoxType
  PROVE  Fire(b) \in BoxType /\ FireIfRoom(b) \in BoxType
<1>1. CASE b.tickets # <<>>
  <2>1. b.tickets \in Seq(Streams) /\ b.fired \subseteq Streams
    BY BoxFields
  <2>2. Head(b.tickets) \in Streams
    BY <1>1, <2>1
  <2>3. b.fired \cup {Head(b.tickets)} \in SUBSET Streams
    BY <2>1, <2>2
  <2>4. Fire(b) = [b EXCEPT !.fired = b.fired \cup {Head(b.tickets)}]
    BY <1>1 DEF Fire
  <2>5. Fire(b) \in BoxType
    BY <2>3, <2>4, BoxUpdates
  <2> QED
    BY <2>5 DEF FireIfRoom
<1> QED
  BY <1>1 DEF Fire, FireIfRoom

(* So does removing a ticket, *)
LEMMA DropTicketType ==
  ASSUME NEW b \in BoxType, NEW s
  PROVE  DropTicket(b, s) \in BoxType
<1>1. RemoveFirst(b.tickets, s) \in Tickets
  BY RemoveFirstType, BoxFields DEF Tickets
<1> QED
  BY <1>1 DEF DropTicket, BoxType

(* taking or cancelling one, *)
LEMMA TicketTypes ==
  ASSUME NEW b \in BoxType, NEW s \in Streams
  PROVE  DrainTicket(b, s) \in BoxType /\ CancelTicket(b, s) \in BoxType
<1>1. DrainTicket(b, s) \in BoxType
  <2>1. b.tickets \in Seq(Streams)
    BY BoxFields
  <2>2. Append(b.tickets, s) \in Tickets
    BY <2>1 DEF Tickets
  <2> QED
    BY <2>2 DEF DrainTicket, BoxType
<1>2. CancelTicket(b, s) \in BoxType
  BY DropTicketType, FireType DEF CancelTicket
<1> QED
  BY <1>1, <1>2

(* queueing a frame on a lane, *)
LEMMA EnqueueType ==
  ASSUME NEW b \in BoxType, NEW k \in Lanes, NEW f \in FrameSet
  PROVE  Enqueue(b, k, f) \in BoxType
<1> DEFINE lanes  == [b.lanes EXCEPT ![k] = Append(b.lanes[k], f)]
           ring   == IF b.lanes[k] = <<>> THEN Append(b.ring, k) ELSE b.ring
           frames == b.frames + 1
           bytes  == b.bytes + f.size
<1>1. b.lanes[k] \in Seq(FrameSet) /\ b.ring \in Seq(Lanes)
  BY BoxFields
<1>2. Append(b.lanes[k], f) \in Queues /\ Append(b.ring, k) \in Rings /\ b.ring \in Rings
  BY <1>1 DEF Queues, Rings
<1>3. lanes \in LaneMaps
  BY <1>2 DEF LaneMaps, BoxType
<1>4. ring \in Rings
  BY <1>2
<1>5. frames \in Nat /\ bytes \in Nat
  BY DEF FrameSet, BoxType
<1>6. Enqueue(b, k, f) =
        [b EXCEPT !.lanes = lanes, !.ring = ring, !.frames = frames, !.bytes = bytes]
  BY DEF Enqueue
<1> HIDE DEF lanes, ring, frames, bytes
<1> QED
  BY <1>3, <1>4, <1>5, <1>6 DEF BoxType

(* an admitted offer, *)
LEMMA OfferedType ==
  ASSUME NEW b \in BoxType, NEW s \in Streams, NEW n \in Nat
  PROVE  Offered(b, s, n) \in BoxType
<1>1. s \in Lanes /\ "event" \in Kinds
  BY DEF Lanes, Kinds
<1>2. Frame("event", s, n) \in FrameSet
  BY <1>1, FrameType
<1> QED
  BY <1>1, <1>2, DropTicketType, EnqueueType, FireType DEF Offered

(* a reply, on the System lane or on the floor, *)
LEMMA PushType ==
  ASSUME NEW b \in BoxType, NEW f \in FrameSet
  PROVE  Push(b, f) \in BoxType
<1>0. f.kind = "response" => f.of \in Attachments
  BY DEF FrameSet
<1>1. Marked(b, f) \in BoxType
  BY <1>0 DEF Marked, BoxType
<1>2. System \in Lanes
  BY DEF Lanes
<1>3. [f EXCEPT !.floor = TRUE] \in FrameSet
  BY DEF FrameSet
<1>4. [Marked(b, f) EXCEPT !.floor = Append(@, [f EXCEPT !.floor = TRUE]),
                           !.floorInUse = 1] \in BoxType
  <2> DEFINE m == Marked(b, f)
             g == [f EXCEPT !.floor = TRUE]
  <2> HIDE DEF m, g
  <2>1. m.floor \in Seq(FrameSet) /\ g \in FrameSet
    BY <1>1, <1>3, BoxFields DEF m, g
  <2>2. Append(m.floor, g) \in Queues
    BY <2>1 DEF Queues
  <2>3. [m EXCEPT !.floor = Append(m.floor, g), !.floorInUse = 1] \in BoxType
    BY <1>1, <2>2 DEF BoxType, m
  <2> QED
    BY <2>3 DEF m, g
<1> QED
  BY <1>1, <1>2, <1>4, EnqueueType DEF Push

(* recv and credit, *)
LEMMA PopTypes ==
  ASSUME NEW b \in BoxType
  PROVE  /\ b.floor # <<>> => [b EXCEPT !.floor = Tail(@)] \in BoxType
         /\ \A k \in Lanes : b.lanes[k] # <<>> => PopLane(b, k) \in BoxType
         /\ \A f \in FrameSet : FinishPop(b, f) \in BoxType
         /\ \A f \in FrameSet : Credit(b, f) \in BoxType
<1>1. ASSUME b.floor # <<>>
      PROVE  [b EXCEPT !.floor = Tail(@)] \in BoxType
  <2>1. b.floor \in Seq(FrameSet)
    BY BoxFields
  <2>2. Tail(b.floor) \in Queues
    BY <1>1, <2>1 DEF Queues
  <2> QED
    BY <2>2, BoxUpdates
<1>2. ASSUME NEW k \in Lanes, b.lanes[k] # <<>>
      PROVE  PopLane(b, k) \in BoxType
  <2>0. b.ring \in Seq(Lanes) /\ b.lanes[k] \in Seq(FrameSet)
    BY BoxFields
  <2>5. RemoveFirst(b.ring, k) \in Seq(Lanes)
    BY <2>0, RemoveFirstType
  <2>1. RemoveFirst(b.ring, k) \in Rings
    BY <2>5 DEF Rings
  <2>2. Append(RemoveFirst(b.ring, k), k) \in Rings
    BY <2>5 DEF Rings
  <2>6. Tail(b.lanes[k]) \in Queues
    BY <1>2, <2>0 DEF Queues
  <2>3. [b.lanes EXCEPT ![k] = Tail(b.lanes[k])] \in LaneMaps
    BY <2>6 DEF BoxType, LaneMaps
  <2>4. Minus(b.frames, 1) \in Nat
    BY MinusType DEF BoxType
  <2> QED
    BY <2>1, <2>2, <2>3, <2>4 DEF PopLane, BoxType
<1>3. ASSUME NEW f \in FrameSet
      PROVE  FinishPop(b, f) \in BoxType
  <2>1. [b EXCEPT !.pending = IF f.kind = "response" THEN @ \ {f.of} ELSE @,
                  !.welcomeQueued = @ /\ f.kind # "welcome"] \in BoxType
    BY DEF BoxType
  <2> QED
    BY <2>1, FireType DEF FinishPop
<1>4. ASSUME NEW f \in FrameSet
      PROVE  Credit(b, f) \in BoxType
  <2>1. Minus(b.bytes, f.size) \in Nat
    BY MinusType DEF BoxType
  <2>2. /\ [b EXCEPT !.floorInUse = 0] \in BoxType
        /\ [b EXCEPT !.bytes = Minus(@, f.size)] \in BoxType
    BY <2>1 DEF BoxType
  <2> QED
    BY <2>2, FireType DEF Credit
<1> QED
  BY <1>1, <1>2, <1>3, <1>4

(* dropping a lane, *)
LEMMA WithoutLaneType ==
  ASSUME NEW b \in BoxType, NEW s \in Lanes
  PROVE  WithoutLane(b, s) \in BoxType
<1>1. RemoveFirst(b.ring, s) \in Rings
  BY RemoveFirstType, BoxFields DEF Rings
<1>2. /\ Minus(b.frames, Len(b.lanes[s])) \in Nat
      /\ Minus(b.bytes, Bytes(b.lanes[s])) \in Nat
  BY MinusType DEF BoxType
<1>4. <<>> \in Queues
  BY DEF Queues
<1>3. [b.lanes EXCEPT ![s] = <<>>] \in LaneMaps
  BY <1>4 DEF BoxType, LaneMaps
<1> QED
  BY <1>1, <1>2, <1>3 DEF WithoutLane, BoxType

(* splicing a staged response out, *)
LEMMA SpliceType ==
  ASSUME NEW b \in BoxType, NEW a
  PROVE  Splice(b, a) \in BoxType
<1> DEFINE kept == Unstaged(b.lanes[System], a)
           rest == Unstaged(b.floor, a)
<1>1. System \in Lanes
  BY DEF Lanes
<1>2. kept \in Queues /\ rest \in Queues
  BY <1>1, UnstagedType, BoxFields DEF Queues
<1>3. RemoveFirst(b.ring, System) \in Rings
  BY RemoveFirstType, BoxFields DEF Rings
<1>4. /\ Minus(b.frames, Len(b.lanes[System]) - Len(kept)) \in Nat
      /\ Minus(b.bytes, Minus(Bytes(b.lanes[System]), Bytes(kept))) \in Nat
  BY MinusType DEF BoxType
<1>5. [b.lanes EXCEPT ![System] = kept] \in LaneMaps
  <2> HIDE DEF kept
  <2> QED
    BY <1>1, <1>2 DEF BoxType, LaneMaps
<1> DEFINE lanes  == [b.lanes EXCEPT ![System] = kept]
           ring   == IF kept = <<>> THEN RemoveFirst(b.ring, System) ELSE b.ring
           frames == Minus(b.frames, Len(b.lanes[System]) - Len(kept))
           bytes  == Minus(b.bytes, Minus(Bytes(b.lanes[System]), Bytes(kept)))
           inUse  == IF \E i \in DOMAIN b.floor : Staged(b.floor[i], a)
                     THEN 0 ELSE b.floorInUse
<1>6. Splice(b, a) =
        [b EXCEPT !.lanes = lanes, !.ring = ring, !.frames = frames, !.bytes = bytes,
                  !.floor = rest, !.floorInUse = inUse]
  BY DEF Splice
<1>7. inUse \in Nat /\ ring \in Rings
  <2> HIDE DEF kept
  <2> QED
    BY <1>3 DEF BoxType
<1> HIDE DEF kept, rest
<1>8. lanes \in LaneMaps /\ frames \in Nat /\ bytes \in Nat
  BY <1>4, <1>5
<1> HIDE DEF lanes, ring, frames, bytes, inUse
<1> QED
  BY <1>2, <1>6, <1>7, <1>8 DEF BoxType

(* a purge, and *)
LEMMA PurgeTypes ==
  ASSUME NEW b \in BoxType, NEW s \in Lanes
  PROVE  Purge(b, s) \in BoxType /\ PurgeOrdered(b, s) \in BoxType
<1> DEFINE cleared == WithoutLane(b, s)
           spliced == IF s \in b.pending
                      THEN Splice([cleared EXCEPT !.pending = @ \ {s}], s)
                      ELSE cleared
<1>1. cleared \in BoxType
  BY WithoutLaneType
<1>2. [cleared EXCEPT !.pending = @ \ {s}] \in BoxType
  <2> HIDE DEF cleared
  <2> QED
    BY <1>1 DEF BoxType
<1>3. spliced \in BoxType
  <2> HIDE DEF cleared
  <2> QED
    BY <1>1, <1>2, SpliceType
<1>4. Purge(b, s) = spliced \/ Purge(b, s) = Fire(spliced)
  BY DEF Purge
<1>5. Purge(b, s) \in BoxType
  <2> HIDE DEF spliced
  <2> QED
    BY <1>3, <1>4, FireType
<1>6. PurgeOrdered(b, s) \in BoxType
  BY <1>1, FireType DEF PurgeOrdered
<1> QED
  BY <1>5, <1>6

(* close. *)
LEMMA CloseType ==
  ASSUME NEW b \in BoxType
  PROVE  Close(b) \in BoxType
<1>1. ToSet(b.tickets) \subseteq Streams
  BY BoxFields DEF ToSet
<1>2. <<>> \in Tickets
  BY DEF Tickets
<1> QED
  BY <1>1, <1>2 DEF Close, BoxType

-----------------------------------------------------------------------------
(***************************************************************************)
(* The ring.  Every operation changes at most one lane, and changes the    *)
(* ring with it: it leaves the ring alone, drops the lane, moves it to the *)
(* end or adds it.                                                         *)
(***************************************************************************)
Exact(b) ==
    /\ IsInjective(b.ring)
    /\ ToSet(b.ring) = {k \in Lanes : b.lanes[k] # <<>>}
Good == {b \in BoxType : Exact(b)}

(* A change of one lane with the matching change of the ring. *)
LEMMA RingChange ==
  ASSUME NEW b \in Good, NEW c, NEW k \in Lanes,
         \A j \in Lanes \ {k} : c.lanes[j] = b.lanes[j],
         \/ c.ring = b.ring /\ (c.lanes[k] = <<>> <=> b.lanes[k] = <<>>)
         \/ c.ring = RemoveFirst(b.ring, k) /\ c.lanes[k] = <<>>
         \/ c.ring = Append(RemoveFirst(b.ring, k), k) /\ c.lanes[k] # <<>>
         \/ c.ring = Append(b.ring, k) /\ b.lanes[k] = <<>> /\ c.lanes[k] # <<>>
  PROVE  Exact(c)
<1> DEFINE ring == b.ring
           cut  == RemoveFirst(ring, k)
<1>1. /\ ring \in Seq(Lanes) /\ IsInjective(ring)
      /\ ToSet(ring) = {j \in Lanes : b.lanes[j] # <<>>}
  BY BoxFields DEF Good, Exact
<1>2. cut \in Seq(Lanes) /\ IsInjective(cut) /\ ToSet(cut) = ToSet(ring) \ {k}
  BY <1>1, RemoveFirstType, RemoveFirstInjective
<1>3. IsInjective(Append(cut, k)) /\ ToSet(Append(cut, k)) = ToSet(cut) \cup {k}
  <2> HIDE DEF cut
  <2> QED
    BY <1>2, AppendKeepsInjective
<1>4. k \notin ToSet(ring) =>
        IsInjective(Append(ring, k)) /\ ToSet(Append(ring, k)) = ToSet(ring) \cup {k}
  BY <1>1, AppendKeepsInjective
<1>5. CASE c.ring = ring /\ (c.lanes[k] = <<>> <=> b.lanes[k] = <<>>)
  BY <1>1, <1>5 DEF Exact
<1>6. CASE c.ring = cut /\ c.lanes[k] = <<>>
  BY <1>1, <1>2, <1>6 DEF Exact
<1>7. CASE c.ring = Append(cut, k) /\ c.lanes[k] # <<>>
  BY <1>1, <1>2, <1>3, <1>7 DEF Exact
<1>8. CASE c.ring = Append(ring, k) /\ b.lanes[k] = <<>> /\ c.lanes[k] # <<>>
  BY <1>1, <1>4, <1>8 DEF Exact
<1> QED
  BY <1>5, <1>6, <1>7, <1>8

(* An operation that touches neither lanes nor ring keeps the ring exact. *)
LEMMA RingSame ==
  ASSUME NEW b \in Good, NEW c \in BoxType, c.lanes = b.lanes, c.ring = b.ring
  PROVE  c \in Good
  BY DEF Good, Exact

(* Firing keeps the ring exact, *)
LEMMA FireGood ==
  ASSUME NEW b \in Good
  PROVE  Fire(b) \in Good /\ FireIfRoom(b) \in Good
<1>1. b \in BoxType
  BY DEF Good
<1>2. Fire(b).lanes = b.lanes /\ Fire(b).ring = b.ring
  BY <1>1 DEF Fire, BoxType
<1>3. Fire(b) \in Good
  BY <1>1, <1>2, FireType, RingSame
<1> QED
  BY <1>3 DEF FireIfRoom

(* as do the other ticket operations and close. *)
LEMMA TicketsGood ==
  ASSUME NEW b \in Good, NEW s \in Streams
  PROVE  /\ DropTicket(b, s) \in Good
         /\ DrainTicket(b, s) \in Good
         /\ CancelTicket(b, s) \in Good
         /\ Close(b) \in Good
<1>1. b \in BoxType
  BY DEF Good
<1>2. DropTicket(b, s).lanes = b.lanes /\ DropTicket(b, s).ring = b.ring
  BY <1>1 DEF DropTicket, BoxType
<1>3. DropTicket(b, s) \in Good
  BY <1>1, <1>2, DropTicketType, RingSame
<1>4. DrainTicket(b, s).lanes = b.lanes /\ DrainTicket(b, s).ring = b.ring
  BY <1>1 DEF DrainTicket, BoxType
<1>5. DrainTicket(b, s) \in Good
  BY <1>1, <1>4, TicketTypes, RingSame
<1>6. Close(b).lanes = b.lanes /\ Close(b).ring = b.ring
  BY <1>1 DEF Close, BoxType
<1>7. Close(b) \in Good
  BY <1>1, <1>6, CloseType, RingSame
<1> QED
  BY <1>3, <1>5, <1>7, FireGood DEF CancelTicket

(* A lane enters the ring with its first frame. *)
LEMMA EnqueueGood ==
  ASSUME NEW b \in Good, NEW k \in Lanes, NEW f \in FrameSet
  PROVE  Enqueue(b, k, f) \in Good
<1> DEFINE c == Enqueue(b, k, f)
<1>1. b \in BoxType /\ c \in BoxType
  BY EnqueueType DEF Good
<1>2. b.lanes \in [Lanes -> Seq(FrameSet)] /\ b.lanes[k] \in Seq(FrameSet)
  BY <1>1, BoxFields
<1>3. /\ c.lanes = [b.lanes EXCEPT ![k] = Append(b.lanes[k], f)]
      /\ c.ring = IF b.lanes[k] = <<>> THEN Append(b.ring, k) ELSE b.ring
  BY <1>1 DEF Enqueue, BoxType
<1>4. Append(b.lanes[k], f) # <<>>
  BY <1>2, AppendProperties
<1> HIDE DEF c
<1>5. c.lanes[k] # <<>> /\ \A j \in Lanes \ {k} : c.lanes[j] = b.lanes[j]
  BY <1>2, <1>3, <1>4
<1>6. Exact(c)
  BY <1>3, <1>5, RingChange
<1> QED
  BY <1>1, <1>6 DEF Good, c

(* An admitted offer keeps the ring exact. *)
LEMMA OfferedGood ==
  ASSUME NEW b \in Good, NEW s \in Streams, NEW n \in Nat
  PROVE  Offered(b, s, n) \in Good
<1>1. s \in Lanes /\ "event" \in Kinds
  BY DEF Lanes, Kinds
<1>2. Frame("event", s, n) \in FrameSet
  BY <1>1, FrameType
<1> QED
  BY <1>1, <1>2, TicketsGood, EnqueueGood, FireGood DEF Offered

(* A reply keeps the ring exact. *)
LEMMA PushGood ==
  ASSUME NEW b \in Good, NEW f \in FrameSet
  PROVE  Push(b, f) \in Good
<1>1. b \in BoxType
  BY DEF Good
<1>0. f.kind = "response" => f.of \in Attachments
  BY DEF FrameSet
<1>2. Marked(b, f) \in BoxType
  BY <1>0, <1>1 DEF Marked, BoxType
<1>3. Marked(b, f).lanes = b.lanes /\ Marked(b, f).ring = b.ring
  BY <1>1 DEF Marked, BoxType
<1>4. Marked(b, f) \in Good
  BY <1>2, <1>3, RingSame
<1>5. System \in Lanes
  BY DEF Lanes
<1>6. CASE OrdinaryAdmits(b, System, f.size)
  BY <1>4, <1>5, <1>6, EnqueueGood DEF Push
<1>7. CASE ~OrdinaryAdmits(b, System, f.size)
  <2>1. Push(b, f).lanes = Marked(b, f).lanes /\ Push(b, f).ring = Marked(b, f).ring
    BY <1>2, <1>7 DEF Push, BoxType
  <2> QED
    BY <1>1, <1>4, <2>1, PushType, RingSame
<1> QED
  BY <1>6, <1>7

(* A lane that FromLane selects has a frame to pop. *)
LEMMA FromLaneHasFrame ==
  ASSUME NEW b \in Good, NEW k \in Lanes, FromLane(b, k)
  PROVE  b.lanes[k] # <<>>
<1>1. b.ring \in Seq(Lanes) /\ b.lanes[k] \in Seq(FrameSet)
  BY BoxFields DEF Good
<1>2. CASE HoldsWelcome(b.lanes[k])
  BY <1>1, <1>2 DEF HoldsWelcome
<1>3. CASE b.ring # <<>> /\ k = Head(b.ring)
  <2>1. 1 \in 1 .. Len(b.ring) /\ b.ring[1] = k
    BY <1>1, <1>3
  <2>2. k \in ToSet(b.ring)
    BY <1>1, <2>1, Members
  <2> QED
    BY <2>2 DEF Good, Exact
<1> QED
  BY <1>2, <1>3 DEF FromLane

(* recv rotates the lane it pops, or drops it when it is empty. *)
LEMMA PopGood ==
  ASSUME NEW b \in Good
  PROVE  /\ b.floor # <<>> => [b EXCEPT !.floor = Tail(@)] \in Good
         /\ \A k \in Lanes : b.lanes[k] # <<>> => PopLane(b, k) \in Good
         /\ \A f \in FrameSet : FinishPop(b, f) \in Good
         /\ \A f \in FrameSet : Credit(b, f) \in Good
<1>1. b \in BoxType
  BY DEF Good
<1>2. ASSUME b.floor # <<>>
      PROVE  [b EXCEPT !.floor = Tail(@)] \in Good
  <2> DEFINE c == [b EXCEPT !.floor = Tail(@)]
  <2>1. c.lanes = b.lanes /\ c.ring = b.ring
    BY <1>1 DEF BoxType
  <2>2. c \in BoxType
    BY <1>1, <1>2, PopTypes
  <2> HIDE DEF c
  <2>3. c \in Good
    BY <2>1, <2>2, RingSame
  <2> QED
    BY <2>3 DEF c
<1>3. ASSUME NEW k \in Lanes, b.lanes[k] # <<>>
      PROVE  PopLane(b, k) \in Good
  <2> DEFINE c == PopLane(b, k)
  <2>1. /\ c.lanes = [b.lanes EXCEPT ![k] = Tail(b.lanes[k])]
        /\ c.ring = IF Len(b.lanes[k]) > 1 THEN Append(RemoveFirst(b.ring, k), k)
                                           ELSE RemoveFirst(b.ring, k)
    BY <1>1 DEF PopLane, BoxType
  <2>2. c \in BoxType
    BY <1>1, <1>3, PopTypes
  <2>3. b.lanes \in [Lanes -> Seq(FrameSet)] /\ b.lanes[k] \in Seq(FrameSet)
    BY <1>1, BoxFields
  <2>4. Tail(b.lanes[k]) = <<>> <=> ~(Len(b.lanes[k]) > 1)
    BY <1>3, <2>3, TailIsEmpty
  <2> HIDE DEF c
  <2>5. /\ c.lanes[k] = <<>> <=> ~(Len(b.lanes[k]) > 1)
        /\ \A j \in Lanes \ {k} : c.lanes[j] = b.lanes[j]
    BY <2>1, <2>3, <2>4
  <2>6. Exact(c)
    BY <2>1, <2>5, RingChange
  <2> QED
    BY <2>2, <2>6 DEF Good, c
<1>4. ASSUME NEW f \in FrameSet
      PROVE  FinishPop(b, f) \in Good
  <2> DEFINE c == [b EXCEPT !.pending = IF f.kind = "response" THEN @ \ {f.of} ELSE @,
                            !.welcomeQueued = @ /\ f.kind # "welcome"]
  <2>1. c \in BoxType /\ c.lanes = b.lanes /\ c.ring = b.ring
    BY <1>1 DEF BoxType
  <2>2. FinishPop(b, f) = Fire(c)
    BY DEF FinishPop
  <2> HIDE DEF c
  <2> QED
    BY <2>1, <2>2, RingSame, FireGood
<1>5. ASSUME NEW f \in FrameSet
      PROVE  Credit(b, f) \in Good
  <2> DEFINE c == IF f.floor THEN [b EXCEPT !.floorInUse = 0]
                             ELSE [b EXCEPT !.bytes = Minus(@, f.size)]
  <2>1. Minus(b.bytes, f.size) \in Nat
    BY <1>1, MinusType DEF BoxType
  <2>2. c \in BoxType /\ c.lanes = b.lanes /\ c.ring = b.ring
    BY <1>1, <2>1 DEF BoxType
  <2>3. Credit(b, f) = Fire(c)
    BY DEF Credit
  <2> HIDE DEF c
  <2> QED
    BY <2>2, <2>3, RingSame, FireGood
<1> QED
  BY <1>2, <1>3, <1>4, <1>5

(* A dropped lane leaves the ring. *)
LEMMA WithoutLaneGood ==
  ASSUME NEW b \in Good, NEW s \in Lanes
  PROVE  WithoutLane(b, s) \in Good
<1> DEFINE c == WithoutLane(b, s)
<1>1. b \in BoxType /\ c \in BoxType
  BY WithoutLaneType DEF Good
<1>2. c.lanes = [b.lanes EXCEPT ![s] = <<>>] /\ c.ring = RemoveFirst(b.ring, s)
  BY <1>1 DEF WithoutLane, BoxType
<1>3. b.lanes \in [Lanes -> Seq(FrameSet)]
  BY <1>1, BoxFields
<1> HIDE DEF c
<1>4. c.lanes[s] = <<>> /\ \A j \in Lanes \ {s} : c.lanes[j] = b.lanes[j]
  BY <1>2, <1>3
<1>5. Exact(c)
  BY <1>2, <1>4, RingChange
<1> QED
  BY <1>1, <1>5 DEF Good, c

(* The System lane leaves the ring when its last frame is spliced out. *)
LEMMA SpliceGood ==
  ASSUME NEW b \in Good, NEW a
  PROVE  Splice(b, a) \in Good
<1> DEFINE c    == Splice(b, a)
           kept == Unstaged(b.lanes[System], a)
<1>1. b \in BoxType /\ c \in BoxType
  BY SpliceType DEF Good
<1>2. System \in Lanes /\ b.lanes \in [Lanes -> Seq(FrameSet)]
  BY <1>1, BoxFields DEF Lanes
<1>3. /\ c.lanes = [b.lanes EXCEPT ![System] = kept]
      /\ c.ring = IF kept = <<>> THEN RemoveFirst(b.ring, System) ELSE b.ring
  BY <1>1 DEF Splice, BoxType
<1>4. kept # <<>> => b.lanes[System] # <<>>
  <2>1. b.lanes[System] \in Seq(FrameSet)
    BY <1>2
  <2>2. ASSUME b.lanes[System] = <<>>
        PROVE  kept = <<>>
    <3>1. Len(b.lanes[System]) = 0
      BY <2>2
    <3>2. ~\E i \in 1 .. Len(b.lanes[System]) : TRUE
      BY <3>1
    <3>3. kept = b.lanes[System]
      BY <2>1, <3>2, UnstagedIs
    <3> QED
      BY <2>2, <3>3
  <2> QED
    BY <2>2
<1> HIDE DEF c, kept
<1>5. c.lanes[System] = kept /\ \A j \in Lanes \ {System} : c.lanes[j] = b.lanes[j]
  BY <1>2, <1>3
<1>6. Exact(c)
  BY <1>2, <1>3, <1>4, <1>5, RingChange
<1> QED
  BY <1>1, <1>6 DEF Good, c

(* Both purges keep the ring exact. *)
LEMMA PurgeGood ==
  ASSUME NEW b \in Good, NEW s \in Lanes
  PROVE  Purge(b, s) \in Good /\ PurgeOrdered(b, s) \in Good
<1> DEFINE cleared  == WithoutLane(b, s)
           unmarked == [cleared EXCEPT !.pending = @ \ {s}]
           spliced  == IF s \in b.pending THEN Splice(unmarked, s) ELSE cleared
<1>1. cleared \in Good
  BY WithoutLaneGood
<1>2. unmarked \in Good
  <2> HIDE DEF cleared
  <2>1. cleared \in BoxType
    BY <1>1 DEF Good
  <2>2. unmarked \in BoxType /\ unmarked.lanes = cleared.lanes /\ unmarked.ring = cleared.ring
    BY <2>1 DEF BoxType
  <2> HIDE DEF unmarked
  <2> QED
    BY <1>1, <2>2, RingSame
<1>3. spliced \in Good
  <2> HIDE DEF cleared, unmarked
  <2> QED
    BY <1>1, <1>2, SpliceGood
<1>4. Purge(b, s) = spliced \/ Purge(b, s) = Fire(spliced)
  BY DEF Purge
<1>5. Purge(b, s) \in Good
  <2> HIDE DEF spliced
  <2> QED
    BY <1>3, <1>4, FireGood
<1> QED
  BY <1>1, <1>5, FireGood DEF PurgeOrdered

-----------------------------------------------------------------------------
(***************************************************************************)
(* The invariant.  HandlerOK says which stream a request in progress is    *)
(* about: without it the types of the lanes and of the watch slot are not  *)
(* preserved.                                                              *)
(***************************************************************************)
HandlerOK ==
    /\ conn.pc # "open" => conn.at = "read"
    /\ conn.at \in {"detach", "answer"} => conn.of \in Attachments
    /\ conn.at \in {"replace", "watch"} => conn.of \in Monitors
    /\ conn.at = "replace" => conn.slot \in Monitors

TasksOK == task \in [Streams -> TaskType]
ConnOK  == conn \in ConnType /\ HandlerOK
OwnersOK == owned \subseteq Attachments /\ stopped \subseteq Ordered
HistoryOK == named \subseteq Streams /\ owed \subseteq Attachments
WritersOK == reserve \in ReserveType /\ writer \in WriterType

TypeInv == box \in Good /\ TasksOK /\ ConnOK /\ OwnersOK /\ HistoryOK /\ WritersOK

(* Moving a task keeps the tasks well typed. *)
LEMMA MoveKeepsTasks ==
  ASSUME TasksOK, NEW s \in Streams, NEW pc \in TaskPcs, Move(s, pc)
  PROVE  TasksOK'
<1>1. task[s].size \in Nat
  BY DEF TasksOK, TaskType
<1> DEFINE t == [pc |-> pc,
                 size |-> IF pc \in {"confirm", "waiting"} THEN task[s].size ELSE 0]
<1>2. t \in TaskType
  BY <1>1 DEF TaskType
<1>3. task' = [task EXCEPT ![s] = t]
  BY DEF Move
<1> HIDE DEF t
<1> QED
  BY <1>2, <1>3 DEF TasksOK

(* Setting a task keeps the tasks well typed. *)
LEMMA SetKeepsTasks ==
  ASSUME TasksOK, NEW s \in Streams, NEW pc \in TaskPcs, NEW n \in Nat,
         task' = [task EXCEPT ![s] = [pc |-> pc, size |-> n]]
  PROVE  TasksOK'
<1> DEFINE t == [pc |-> pc, size |-> n]
<1>1. t \in TaskType
  BY DEF TaskType
<1> HIDE DEF t
<1> QED
  BY <1>1 DEF TasksOK, t

(* Leaving the select loop keeps the connection task well typed, *)
LEMMA LeaveKeepsConn ==
  ASSUME ConnOK, NEW failed \in BOOLEAN, Leave(failed)
  PROVE  ConnOK'
<1>1. conn' \in ConnType
  BY DEF ConnOK, Leave, ConnType, ConnPcs, Handlers
<1>2. conn'.at = "read"
  BY DEF ConnOK, Leave, ConnType
<1> QED
  BY <1>1, <1>2 DEF ConnOK, HandlerOK

(* as does the end of a baseline's delivery and *)
LEMMA DoneKeepsConn ==
  ASSUME ConnOK, NEW s, NEW ok \in BOOLEAN, HandlerDone(s, ok)
  PROVE  ConnOK'
<1>1. conn' \in ConnType
  BY DEF ConnOK, HandlerDone, ConnType, ConnPcs, Handlers
<1>2. conn'.at = "read" \/ conn' = conn
  BY DEF ConnOK, HandlerDone, ConnType
<1> QED
  BY <1>1, <1>2 DEF ConnOK, HandlerOK

(* a counted request. *)
LEMMA AskedKeepsConn ==
  ASSUME ConnOK, conn' = Asked(conn)
  PROVE  ConnOK'
  BY DEF ConnOK, HandlerOK, Asked, ConnType

(* A refused offer keeps the invariant. *)
LEMMA RejectedTypes ==
  ASSUME TypeInv, NEW s \in Streams, Rejected(s)
  PROVE  TypeInv'
<1>1. CancelTicket(box, s) \in Good /\ Close(CancelTicket(box, s)) \in Good
  BY TicketsGood DEF TypeInv
<1>2. box' \in Good
  BY <1>1 DEF Rejected
<1>3. TasksOK'
  <2>1. Move(s, "leaving") \/ Move(s, "gone")
    BY DEF Rejected
  <2>2. "leaving" \in TaskPcs /\ "gone" \in TaskPcs
    BY DEF TaskPcs
  <2> QED
    BY <2>1, <2>2, MoveKeepsTasks DEF TypeInv
<1>4. ConnOK'
  <2>1. HandlerDone(s, FALSE) \/ conn' = conn
    BY DEF Rejected
  <2>2. CASE conn' = conn
    BY <2>2 DEF TypeInv, ConnOK, HandlerOK
  <2> QED
    BY <2>1, <2>2, DoneKeepsConn DEF TypeInv
<1> QED
  BY <1>2, <1>3, <1>4 DEF Rejected, TypeInv, OwnersOK, HistoryOK, WritersOK

(* The delivery tasks. *)
LEMMA StreamingTypes ==
  ASSUME TypeInv, NEW s \in Streams, Streaming(s)
  PROVE  TypeInv'
<1> USE DEF TypeInv
<1>0. /\ EventSizes \subseteq Nat
      /\ {"busy", "idle", "gone", "leaving"} \subseteq TaskPcs
  BY OutboxAssumption DEF TaskPcs
<1>1. ASSUME NEW n \in EventSizes, Produce(s, n)
      PROVE  TypeInv'
  <2>1. n \in Nat
    BY <1>0
  <2>2. CASE /\ box' = Offered(box, s, n)
             /\ UNCHANGED <<task, owned, stopped, conn, reserve, writer, named, owed>>
    <3>1. box' \in Good
      BY <2>1, <2>2, OfferedGood
    <3> QED
      BY <2>2, <3>1 DEF TasksOK, ConnOK, HandlerOK, OwnersOK, HistoryOK, WritersOK
  <2>3. CASE /\ task' = [task EXCEPT ![s] = [pc |-> "busy", size |-> n]]
             /\ UNCHANGED <<box, owned, stopped, conn, reserve, writer, named, owed>>
    <3>1. TasksOK'
      BY <1>0, <2>1, <2>3, SetKeepsTasks
    <3> QED
      BY <2>3, <3>1 DEF ConnOK, HandlerOK, OwnersOK, HistoryOK, WritersOK
  <2> QED
    BY <1>1, <2>2, <2>3, RejectedTypes DEF Produce
<1>2. ASSUME TaskEnds(s)
      PROVE  TypeInv'
  <2>1. TasksOK'
    BY <1>0, <1>2, MoveKeepsTasks DEF TaskEnds
  <2> QED
    BY <1>2, <2>1 DEF TaskEnds, ConnOK, HandlerOK, OwnersOK, HistoryOK, WritersOK
<1>3. ASSUME Stuck(s)
      PROVE  TypeInv'
  <2>1. TasksOK'
    BY <1>0, <1>3, MoveKeepsTasks DEF Stuck
  <2>2. box' \in Good
    BY <1>3, TicketsGood DEF Stuck
  <2> QED
    BY <1>3, <2>1, <2>2 DEF Stuck, ConnOK, HandlerOK, OwnersOK, HistoryOK, WritersOK
<1> QED
  BY <1>1, <1>2, <1>3 DEF Streaming

(* The steps of a delivery keep the invariant. *)
LEMMA DeliveryTypes ==
  ASSUME TypeInv, NEW s \in Streams, Delivery(s)
  PROVE  TypeInv'
<1> USE DEF TypeInv
<1>0. /\ {"confirm", "idle", "waiting", "gone", "purging", "telling"} \subseteq TaskPcs
      /\ task[s].size \in Nat
      /\ s \in Lanes
      /\ box \in BoxType
  BY DEF TaskPcs, TasksOK, TaskType, Lanes, Good
<1>1. ASSUME TakeTicket(s)
      PROVE  TypeInv'
  <2>1. TasksOK' /\ box' \in Good
    BY <1>0, <1>1, MoveKeepsTasks, TicketsGood DEF TakeTicket
  <2> QED
    BY <1>1, <2>1 DEF TakeTicket, ConnOK, HandlerOK, OwnersOK, HistoryOK, WritersOK
<1>2. ASSUME Reoffer(s)
      PROVE  TypeInv'
  <2>1. CASE /\ box' = Offered(box, s, task[s].size)
             /\ Move(s, "idle")
             /\ HandlerDone(s, TRUE)
             /\ UNCHANGED <<owned, stopped, reserve, writer, named, owed>>
    <3>1. TasksOK' /\ box' \in Good /\ ConnOK'
      BY <1>0, <2>1, MoveKeepsTasks, OfferedGood, DoneKeepsConn
    <3> QED
      BY <2>1, <3>1 DEF OwnersOK, HistoryOK, WritersOK
  <2>2. CASE /\ Move(s, "waiting")
             /\ UNCHANGED <<box, owned, stopped, conn, reserve, writer, named, owed>>
    <3>1. TasksOK'
      BY <1>0, <2>2, MoveKeepsTasks
    <3> QED
      BY <2>2, <3>1 DEF ConnOK, HandlerOK, OwnersOK, HistoryOK, WritersOK
  <2> QED
    BY <1>2, <2>1, <2>2, RejectedTypes DEF Reoffer
<1>3. ASSUME Wake(s)
      PROVE  TypeInv'
  <2>1. TasksOK'
    BY <1>0, <1>3, MoveKeepsTasks DEF Wake
  <2>2. box' \in BoxType /\ box'.lanes = box.lanes /\ box'.ring = box.ring
    BY <1>0, <1>3 DEF Wake, BoxType
  <2>3. box' \in Good
    BY <2>2, RingSame
  <2> QED
    BY <1>3, <2>1, <2>3 DEF Wake, ConnOK, HandlerOK, OwnersOK, HistoryOK, WritersOK
<1>4. ASSUME StopWaiting(s)
      PROVE  TypeInv'
  <2>1. TasksOK' /\ box' \in Good /\ ConnOK'
    BY <1>0, <1>4, MoveKeepsTasks, TicketsGood, DoneKeepsConn DEF StopWaiting
  <2> QED
    BY <1>4, <2>1 DEF StopWaiting, OwnersOK, HistoryOK, WritersOK
<1>5. ASSUME LagTake(s)
      PROVE  TypeInv'
  <2>1. TasksOK'
    BY <1>0, <1>5, MoveKeepsTasks DEF LagTake
  <2> QED
    BY <1>5, <2>1 DEF LagTake, ConnOK, HandlerOK, OwnersOK, HistoryOK, WritersOK
<1>6. ASSUME LagPurge(s)
      PROVE  TypeInv'
  <2> DEFINE n == IF s \in box.pending THEN 1 ELSE 0
  <2>1. n \in Nat /\ task' = [task EXCEPT ![s] = [pc |-> "telling", size |-> n]]
    BY <1>6 DEF LagPurge
  <2> HIDE DEF n
  <2>2. TasksOK'
    BY <1>0, <2>1, SetKeepsTasks
  <2>3. box' \in Good
    BY <1>0, <1>6, PurgeGood DEF LagPurge
  <2> QED
    BY <1>6, <2>2, <2>3 DEF LagPurge, ConnOK, HandlerOK, OwnersOK, HistoryOK, WritersOK
<1>7. ASSUME NEW n \in ReplySizes, LagTell(s, n)
      PROVE  TypeInv'
  <2> DEFINE f == IF task[s].size = 1 THEN Frame("overloaded", s, n)
                                      ELSE Frame("reply", System, n)
  <2>1. /\ n \in Nat /\ s \in Lanes \cup {Nobody} /\ System \in Lanes \cup {Nobody}
        /\ "overloaded" \in Kinds /\ "reply" \in Kinds
    BY OutboxAssumption, <1>0 DEF Lanes, Kinds
  <2>2. f \in FrameSet
    BY <2>1, FrameType
  <2>3. box' = Push(box, f) \/ box' = box
    BY <1>7 DEF LagTell
  <2> HIDE DEF f
  <2>4. box' \in Good
    BY <2>2, <2>3, PushGood
  <2>5. TasksOK'
    BY <1>0, <1>7, MoveKeepsTasks DEF LagTell
  <2> QED
    BY <1>7, <2>4, <2>5 DEF LagTell, ConnOK, HandlerOK, OwnersOK, HistoryOK, WritersOK
<1> QED
  BY <1>1, <1>2, <1>3, <1>4, <1>5, <1>6, <1>7 DEF Delivery

(* A reply of the connection task. *)
LEMMA ReplyGood ==
  ASSUME TypeInv, NEW kind \in Kinds, NEW of \in Lanes \cup {Nobody}, NEW n \in ReplySizes,
         kind = "response" => of \in Attachments,
         kind = "watching" => of \in Monitors,
         kind # "event"
  PROVE  Push(box, Frame(kind, of, n)) \in Good
<1>1. n \in Nat
  BY OutboxAssumption
<1>2. Frame(kind, of, n) \in FrameSet
  BY <1>1, FrameType
<1> QED
  BY <1>2, PushGood DEF TypeInv

(* A plain reply keeps the outbox good. *)
LEMMA SystemReplyGood ==
  ASSUME TypeInv, NEW kind \in {"error", "welcome", "reply"}, NEW n \in ReplySizes
  PROVE  Push(box, Frame(kind, System, n)) \in Good
<1>1. System \in Lanes \cup {Nobody} /\ kind \in Kinds
  BY DEF Lanes, Kinds
<1> QED
  BY <1>1, ReplyGood

(* The requests of the client keep the invariant. *)
LEMMA RequestTypes ==
  ASSUME TypeInv, Requests
  PROVE  TypeInv'
<1> USE DEF TypeInv
<1>0. /\ "response" \in Kinds
      /\ {"idle", "busy", "gone"} \subseteq TaskPcs
      /\ Attachments \subseteq Streams /\ Attachments \subseteq Lanes \cup {Nobody}
      /\ Looms \subseteq Streams
      /\ EventSizes \subseteq Nat
      /\ conn \in ConnType
  BY OutboxAssumption DEF Kinds, TaskPcs, Streams, Ordered, Lanes, ConnOK
<1>1. ASSUME NEW n \in ReplySizes, Hello(n)
      PROVE  TypeInv'
  <2>1. box' \in Good
    BY <1>0, <1>1, SystemReplyGood DEF Hello
  <2>2. ConnOK'
    BY <1>1 DEF Hello, ConnOK, HandlerOK, ConnType, ConnPcs
  <2> QED
    BY <1>1, <2>1, <2>2 DEF Hello, TasksOK, OwnersOK, HistoryOK, WritersOK
<1>2. ASSUME NEW n \in ReplySizes, HelloFails(n)
      PROVE  TypeInv'
  <2>1. box' \in Good
    BY <1>0, <1>2, SystemReplyGood DEF HelloFails
  <2>2. ConnOK'
    BY <1>2, LeaveKeepsConn DEF HelloFails
  <2> QED
    BY <1>2, <2>1, <2>2 DEF HelloFails, TasksOK, OwnersOK, HistoryOK, WritersOK
<1>3. ASSUME NEW n \in ReplySizes, Request(n)
      PROVE  TypeInv'
  <2>1. box' \in Good
    BY <1>0, <1>3, SystemReplyGood DEF Request, Overflows
  <2>2. ConnOK'
    BY <1>3, LeaveKeepsConn, AskedKeepsConn DEF Request, Overflows
  <2> QED
    BY <1>3, <2>1, <2>2 DEF Request, TasksOK, OwnersOK, HistoryOK, WritersOK
<1>4. ASSUME NEW n \in ReplySizes, Retire(n)
      PROVE  TypeInv'
  <2>1. box' \in Good
    BY <1>0, <1>4, SystemReplyGood DEF Retire
  <2>2. ConnOK'
    BY <1>4, LeaveKeepsConn DEF Retire
  <2> QED
    BY <1>4, <2>1, <2>2 DEF Retire, TasksOK, OwnersOK, HistoryOK, WritersOK
<1>5. ASSUME NEW n \in ReplySizes, Droppable(n)
      PROVE  TypeInv'
  <2>1. Close(box) \in BoxType /\ Close(box).lanes = box.lanes /\ Close(box).ring = box.ring
    BY CloseType DEF Good, Close, BoxType
  <2>2. Close(box) \in Good
    BY <2>1, RingSame
  <2>3. box' \in Good
    BY <1>0, <1>5, <2>2, SystemReplyGood DEF Droppable
  <2>4. ConnOK'
    BY <1>5, AskedKeepsConn DEF Droppable
  <2> QED
    BY <1>5, <2>3, <2>4 DEF Droppable, TasksOK, OwnersOK, HistoryOK, WritersOK
<1>6. ASSUME NEW n \in ReplySizes, NEW a \in Attachments, Attach(a, n)
      PROVE  TypeInv'
  <2>1. CASE /\ Answer(Frame("response", a, n))
             /\ owned' = owned \cup {a}
             /\ owed' = owed \cup {a}
             /\ Move(a, "idle")
    <3>1. box' \in Good
      BY <1>0, <2>1, ReplyGood DEF Answer
    <3>2. ConnOK'
      BY <2>1 DEF Answer, ConnOK, HandlerOK, ConnType, Handlers
    <3>3. TasksOK'
      BY <1>0, <2>1, MoveKeepsTasks
    <3> QED
      BY <1>6, <2>1, <3>1, <3>2, <3>3 DEF Attach, OwnersOK, HistoryOK, WritersOK
  <2>2. CASE Overflows(n) /\ UNCHANGED <<owned, owed, task>>
    <3>1. ConnOK'
      BY <2>2, LeaveKeepsConn DEF Overflows
    <3> QED
      BY <1>6, <2>2, <3>1 DEF Attach, Overflows, TasksOK, OwnersOK, HistoryOK, WritersOK
  <2> QED
    BY <1>6, <2>1, <2>2 DEF Attach
<1>7. ASSUME NEW a \in Attachments, Detach(a)
      PROVE  TypeInv'
  <2>1. ConnOK'
    BY <1>0, <1>7 DEF Detach, Reading, ConnOK, HandlerOK, ConnType, Handlers
  <2> QED
    BY <1>7, <2>1 DEF Detach, TasksOK, OwnersOK, HistoryOK, WritersOK
<1>8. ASSUME NEW m \in Monitors, MonitorWatch(m)
      PROVE  TypeInv'
  <2>1. m \in Streams
    BY DEF Streams, Ordered
  <2>2. conn'.pc = "open" /\ conn'.of = m /\ conn'.slot = conn.slot
        /\ conn'.at = IF conn.slot = Nobody THEN "watch" ELSE "replace"
    BY <1>0, <1>8 DEF MonitorWatch, Reading, ConnType
  <2>3. conn' \in ConnType
    BY <1>0, <1>8, <2>1 DEF MonitorWatch, ConnType, Handlers
  <2>4. ConnOK'
    BY <2>2, <2>3 DEF ConnOK, HandlerOK, ConnType
  <2> QED
    BY <1>8, <2>4 DEF MonitorWatch, TasksOK, OwnersOK, HistoryOK, WritersOK, Ordered
<1>9. ASSUME NEW l \in Looms, NEW n \in EventSizes, LoomWatch(l, n)
      PROVE  TypeInv'
  <2>1. l \in Streams /\ n \in Nat
    BY <1>0
  <2>2. CASE box' = Offered(box, l, n) /\ Move(l, "idle") /\ UNCHANGED conn
    <3>1. box' \in Good /\ TasksOK'
      BY <1>0, <2>1, <2>2, OfferedGood, MoveKeepsTasks
    <3> QED
      BY <1>9, <2>2, <3>1 DEF LoomWatch, ConnOK, HandlerOK, OwnersOK, HistoryOK, WritersOK
  <2>3. CASE /\ task' = [task EXCEPT ![l] = [pc |-> "busy", size |-> n]]
             /\ conn' = [conn EXCEPT !.at = "baseline", !.of = l]
             /\ UNCHANGED box
    <3>1. TasksOK'
      BY <1>0, <2>1, <2>3, SetKeepsTasks
    <3>2. ConnOK'
      BY <1>0, <1>9, <2>1, <2>3 DEF LoomWatch, Reading, ConnOK, HandlerOK, ConnType, Handlers
    <3> QED
      BY <1>9, <2>3, <3>1, <3>2 DEF LoomWatch, OwnersOK, HistoryOK, WritersOK
  <2>4. CASE box' = Close(box) /\ Leave(TRUE) /\ Move(l, "gone")
    <3>1. box' \in Good /\ TasksOK' /\ ConnOK'
      BY <1>0, <2>1, <2>4, TicketsGood, MoveKeepsTasks, LeaveKeepsConn
    <3> QED
      BY <1>9, <3>1 DEF LoomWatch, OwnersOK, HistoryOK, WritersOK
  <2> QED
    BY <1>9, <2>2, <2>3, <2>4 DEF LoomWatch
<1>10. ASSUME Drain
       PROVE  TypeInv'
  <2>1. ConnOK'
    BY <1>10, LeaveKeepsConn DEF Drain
  <2>2. reserve' \in ReserveType
    BY <1>10 DEF Drain, WritersOK, ReserveType
  <2> QED
    BY <1>10, <2>1, <2>2 DEF Drain, TasksOK, OwnersOK, HistoryOK, WritersOK
<1>11. ASSUME PeerGone
       PROVE  TypeInv'
  <2>1. ConnOK'
    BY <1>11, LeaveKeepsConn DEF PeerGone
  <2> QED
    BY <1>11, <2>1 DEF PeerGone, TasksOK, OwnersOK, HistoryOK, WritersOK
<1> QED
  BY <1>1, <1>2, <1>3, <1>4, <1>5, <1>6, <1>7, <1>8, <1>9, <1>10, <1>11 DEF Requests

(* The liveness tick keeps the invariant. *)
LEMMA BreachTypes ==
  ASSUME TypeInv, NEW n \in ReplySizes, Breach(n)
  PROVE  TypeInv'
  BY RequestTypes DEF Breach, Requests

(* The later steps of a request keep the invariant. *)
LEMMA HandlingTypes ==
  ASSUME TypeInv, Handling
  PROVE  TypeInv'
<1> USE DEF TypeInv
<1>0. /\ "watching" \in Kinds
      /\ "idle" \in TaskPcs
      /\ Attachments \subseteq Lanes
      /\ Monitors \subseteq Lanes /\ Monitors \subseteq Streams
      /\ conn \in ConnType
  BY DEF Kinds, TaskPcs, Streams, Ordered, Lanes, ConnOK
<1>1. ASSUME DetachPurge
      PROVE  TypeInv'
  <2>1. conn.of \in Attachments
    BY <1>1 DEF DetachPurge, ConnOK, HandlerOK
  <2>2. box' \in Good
    BY <1>0, <1>1, <2>1, PurgeGood DEF DetachPurge
  <2>3. ConnOK'
    BY <1>0, <1>1, <2>1 DEF DetachPurge, ConnOK, HandlerOK, ConnType, Handlers
  <2> QED
    BY <1>1, <2>2, <2>3 DEF DetachPurge, TasksOK, OwnersOK, HistoryOK, WritersOK
<1>2. ASSUME NEW n \in ReplySizes, DetachAnswer(n)
      PROVE  TypeInv'
  <2>1. box' \in Good
    BY <1>0, <1>2, SystemReplyGood DEF DetachAnswer, Answer, Overflows
  <2>2. ConnOK'
    <3>1. CASE Overflows(n)
      BY <3>1, LeaveKeepsConn DEF Overflows
    <3>2. CASE Answer(Frame("reply", System, n))
      BY <1>0, <3>2 DEF Answer, ConnOK, HandlerOK, ConnType, Handlers
    <3> QED
      BY <1>2, <3>1, <3>2 DEF DetachAnswer
  <2> QED
    BY <1>2, <2>1, <2>2 DEF DetachAnswer, TasksOK, OwnersOK, HistoryOK, WritersOK
<1>3. ASSUME NEW n \in ReplySizes, OpenWatch(n)
      PROVE  TypeInv'
  <2>1. conn.of \in Monitors
    BY <1>3 DEF OpenWatch, ConnOK, HandlerOK
  <2>2. conn.of \in Streams /\ conn.of \in Lanes \cup {Nobody}
    BY <1>0, <2>1
  <2>3. CASE /\ box' = Push(box, Frame("watching", conn.of, n))
             /\ Move(conn.of, "idle")
             /\ conn' = [conn EXCEPT !.at = "read", !.of = Nobody, !.slot = conn.of]
    <3>1. box' \in Good
      BY <1>0, <2>1, <2>2, <2>3, ReplyGood
    <3>2. TasksOK'
      BY <1>0, <2>2, <2>3, MoveKeepsTasks
    <3>3. ConnOK'
      BY <1>0, <2>1, <2>3 DEF ConnOK, HandlerOK, ConnType, Handlers
    <3> QED
      BY <1>3, <3>1, <3>2, <3>3 DEF OpenWatch, OwnersOK, HistoryOK, WritersOK
  <2>4. CASE Overflows(n) /\ UNCHANGED task
    <3>1. ConnOK'
      BY <2>4, LeaveKeepsConn DEF Overflows
    <3> QED
      BY <1>3, <2>4, <3>1 DEF OpenWatch, Overflows, TasksOK, OwnersOK, HistoryOK, WritersOK
  <2> QED
    BY <1>3, <2>3, <2>4 DEF OpenWatch
<1>4. ASSUME ReplaceWatch
      PROVE  TypeInv'
  <2>1. conn.slot \in Monitors /\ conn.of \in Monitors
    BY <1>4 DEF ReplaceWatch, ConnOK, HandlerOK
  <2>2. box' \in Good
    BY <1>0, <1>4, <2>1, PurgeGood DEF ReplaceWatch
  <2>3. ConnOK'
    BY <1>0, <1>4, <2>1 DEF ReplaceWatch, ConnOK, HandlerOK, ConnType, Handlers
  <2> QED
    BY <1>4, <2>2, <2>3 DEF ReplaceWatch, TasksOK, OwnersOK, HistoryOK, WritersOK
<1> QED
  BY <1>1, <1>2, <1>3, <1>4 DEF Handling

(* The teardown keeps the invariant. *)
LEMMA TeardownTypes ==
  ASSUME TypeInv, Teardown
  PROVE  TypeInv'
<1> USE DEF TypeInv
<1>0. /\ Monitors \subseteq Lanes
      /\ conn \in ConnType
  BY DEF Streams, Ordered, Lanes, ConnOK
<1>1. ASSUME HubClose
      PROVE  TypeInv'
  <2>1. conn.slot \in Monitors \cup {Nobody}
    BY <1>0 DEF ConnType
  <2>2. box' \in Good
    BY <1>0, <1>1, <2>1, PurgeGood DEF HubClose
  <2>3. conn' \in ConnType /\ conn'.at = conn.at /\ conn'.of = conn.of
    BY <1>0, <1>1 DEF HubClose, ConnType, ConnPcs
  <2>4. conn.at = "read"
    BY <1>1 DEF HubClose, ConnOK, HandlerOK
  <2> QED
    BY <1>1, <2>2, <2>3, <2>4
       DEF HubClose, ConnOK, HandlerOK, TasksOK, OwnersOK, HistoryOK, WritersOK
<1>2. ASSUME CloseLane
      PROVE  TypeInv'
  <2>1. Close(box) \in BoxType /\ Close(box).lanes = box.lanes /\ Close(box).ring = box.ring
    BY CloseType DEF Good, Close, BoxType
  <2>2. box' \in Good
    BY <1>2, <2>1, RingSame DEF CloseLane
  <2>3. ConnOK'
    BY <1>0, <1>2 DEF CloseLane, ConnOK, HandlerOK, ConnType, ConnPcs
  <2>4. NoFrame \in FrameSet
    <3>1. "none" \in Kinds /\ Nobody \in Lanes \cup {Nobody} /\ 0 \in Nat
      BY DEF Kinds
    <3> QED
      BY <3>1, FrameType DEF NoFrame
  <2>5. WritersOK'
    BY <1>2, <2>4 DEF CloseLane, WritersOK, WriterType, WriterPcs, ReserveType
  <2> QED
    BY <1>2, <2>2, <2>3, <2>5 DEF CloseLane, TasksOK, OwnersOK, HistoryOK
<1> QED
  BY <1>1, <1>2 DEF Teardown

(* The writer task. *)
LEMMA WriterTypes ==
  ASSUME TypeInv, Scheduling \/ Writing \/ WriteFails
  PROVE  TypeInv'
<1> USE DEF TypeInv
<1>0. /\ NoFrame \in FrameSet
      /\ reserve \in ReserveType /\ writer \in WriterType
      /\ writer.frame \in FrameSet
      /\ box \in BoxType
  <2>1. "none" \in Kinds /\ Nobody \in Lanes \cup {Nobody} /\ 0 \in Nat
    BY DEF Kinds
  <2>2. NoFrame \in FrameSet
    BY <2>1, FrameType DEF NoFrame
  <2> QED
    BY <2>2 DEF WritersOK, WriterType, Good
<1>1. ASSUME Look \/ FireNotice \/ SelectNotice \/ SelectClosed \/ AdoptNotice \/ Final
             \/ NoticeDone
      PROVE  TypeInv'
  <2>1. UNCHANGED <<box, task, owned, stopped, conn, named, owed>>
    BY <1>1 DEF Look, FireNotice, SelectNotice, SelectClosed, AdoptNotice, Final, NoticeDone
  <2>2. CASE Look \/ FireNotice \/ NoticeDone
    BY <1>0, <2>1, <2>2 DEF Look, FireNotice, NoticeDone, WriterType, WriterPcs,
       TasksOK, ConnOK, HandlerOK, OwnersOK, HistoryOK, WritersOK
  <2>3. CASE SelectNotice \/ SelectClosed
    BY <1>0, <2>1, <2>3 DEF SelectNotice, SelectClosed, WriterType, WriterPcs, ReserveType,
       TasksOK, ConnOK, HandlerOK, OwnersOK, HistoryOK, WritersOK
  <2>4. CASE AdoptNotice \/ Final
    BY <1>0, <2>1, <2>4 DEF AdoptNotice, Final, WriterType, WriterPcs, ReserveType,
       TasksOK, ConnOK, HandlerOK, OwnersOK, HistoryOK, WritersOK
  <2> QED
    BY <1>1, <2>2, <2>3, <2>4
<1>2. ASSUME NEW b \in Good, NEW f \in FrameSet, Popped(b, f)
      PROVE  TypeInv'
  <2>1. box' \in Good
    BY <1>2, PopGood DEF Popped
  <2>2. writer' \in WriterType
    BY <1>0, <1>2 DEF Popped, WriterType, WriterPcs
  <2>3. f.kind \in {"response", "watching"} => f.of \in Streams
    BY DEF FrameSet, Streams, Ordered
  <2>4. HistoryOK'
    BY <1>2, <2>3 DEF Popped, HistoryOK
  <2> QED
    BY <1>2, <2>1, <2>2, <2>4 DEF Popped, TasksOK, ConnOK, HandlerOK, OwnersOK, WritersOK
<1>3. ASSUME Recv
      PROVE  TypeInv'
  <2>1. CASE /\ FromFloor(box)
             /\ Popped([box EXCEPT !.floor = Tail(@)], Head(box.floor))
    <3>1. box.floor # <<>> /\ box.floor \in Seq(FrameSet)
      BY <1>0, <2>1, BoxFields DEF FromFloor
    <3>2. Head(box.floor) \in FrameSet
      BY <3>1
    <3>3. [box EXCEPT !.floor = Tail(@)] \in Good
      BY <3>1, PopGood
    <3> QED
      BY <1>2, <2>1, <3>2, <3>3
  <2>2. ASSUME NEW k \in Lanes, FromLane(box, k),
               Popped(PopLane(box, k), Head(box.lanes[k]))
        PROVE  TypeInv'
    <3>1. box.lanes[k] # <<>> /\ box.lanes[k] \in Seq(FrameSet)
      BY <1>0, <2>2, BoxFields, FromLaneHasFrame
    <3>2. Head(box.lanes[k]) \in FrameSet
      BY <3>1
    <3>3. PopLane(box, k) \in Good
      BY <3>1, PopGood
    <3> QED
      BY <1>2, <2>2, <3>2, <3>3
  <2> QED
    BY <1>3, <2>1, <2>2 DEF Recv
<1>4. ASSUME RecvNone
      PROVE  TypeInv'
  <2>1. box' \in BoxType /\ box'.lanes = box.lanes /\ box'.ring = box.ring
    BY <1>0, <1>4 DEF RecvNone, BoxType
  <2>2. box' \in Good
    BY <2>1, RingSame
  <2>3. writer' \in WriterType
    BY <1>0, <1>4 DEF RecvNone, WriterType, WriterPcs
  <2> QED
    BY <1>4, <2>2, <2>3 DEF RecvNone, TasksOK, ConnOK, HandlerOK, OwnersOK, HistoryOK, WritersOK
<1>5. ASSUME WriteDone \/ WriteFails
      PROVE  TypeInv'
  <2>1. Credit(box, writer.frame) \in Good
    BY <1>0, PopGood
  <2>2. box' \in Good
    BY <1>5, <2>1 DEF WriteDone, WriteFails
  <2>3. writer' \in WriterType
    BY <1>0, <1>5 DEF WriteDone, WriteFails, WriterType, WriterPcs
  <2> QED
    BY <1>5, <2>2, <2>3 DEF WriteDone, WriteFails, TasksOK, ConnOK, HandlerOK, OwnersOK,
       HistoryOK, WritersOK
<1> QED
  BY <1>1, <1>3, <1>4, <1>5 DEF Scheduling, Writing

(* A new connection satisfies the invariant. *)
LEMMA TypeInitially ==
  ASSUME Init
  PROVE  TypeInv
<1>1. EmptyBox \in BoxType
  <2>1. <<>> \in Queues /\ <<>> \in Rings /\ <<>> \in Tickets
    BY DEF Queues, Rings, Tickets
  <2>2. [k \in Lanes |-> <<>>] \in LaneMaps
    BY <2>1 DEF LaneMaps
  <2> DEFINE none == [k \in Lanes |-> <<>>]
  <2> HIDE DEF none
  <2>3. none \in LaneMaps
    BY <2>2 DEF none
  <2>4. EmptyBox = [lanes |-> none, ring |-> <<>>, floor |-> <<>>,
                    frames |-> 0, bytes |-> 0, floorInUse |-> 0, welcomeQueued |-> FALSE,
                    pending |-> {}, tickets |-> <<>>, fired |-> {}, closed |-> FALSE]
    BY DEF EmptyBox, none
  <2> QED
    BY <2>1, <2>3, <2>4 DEF BoxType
<1>2. /\ EmptyBox.ring = <<>>
      /\ \A k \in Lanes : EmptyBox.lanes[k] = <<>>
  BY DEF EmptyBox
<1>3. Exact(EmptyBox)
  <2>1. IsInjective(<<>>) /\ ToSet(<<>>) = {}
    BY DEF IsInjective, ToSet
  <2> QED
    BY <1>2, <2>1 DEF Exact
<1>4. box \in Good
  BY <1>1, <1>3 DEF Init, Good
<1>5. TasksOK
  <2> DEFINE t == [pc |-> "none", size |-> 0]
  <2>1. t \in TaskType
    BY DEF TaskType, TaskPcs
  <2>2. task = [s \in Streams |-> t]
    BY DEF Init
  <2> HIDE DEF t
  <2> QED
    BY <2>1, <2>2 DEF TasksOK
<1>6. ConnOK
  BY DEF Init, ConnOK, HandlerOK, ConnType, ConnPcs, Handlers
<1>7. WritersOK
  <2>1. "none" \in Kinds /\ Nobody \in Lanes \cup {Nobody} /\ 0 \in Nat
    BY DEF Kinds
  <2>2. NoFrame \in FrameSet
    BY <2>1, FrameType DEF NoFrame
  <2> QED
    BY <2>2 DEF Init, WritersOK, ReserveType, WriterType, WriterPcs
<1> QED
  BY <1>4, <1>5, <1>6, <1>7 DEF Init, TypeInv, OwnersOK, HistoryOK

(* Every step keeps the invariant. *)
LEMMA TypeStep ==
  ASSUME TypeInv, [Next]_vars
  PROVE  TypeInv'
<1>1. CASE UNCHANGED vars
  BY <1>1 DEF vars, TypeInv, TasksOK, ConnOK, HandlerOK, OwnersOK, HistoryOK, WritersOK
<1>2. CASE Next
  BY <1>1, <1>2, DeliveryTypes, StreamingTypes, RequestTypes, BreachTypes, HandlingTypes,
     TeardownTypes, WriterTypes DEF Next, Over
<1> QED
  BY <1>1, <1>2

(* The invariant TypeInv: every variable is well typed, a request names a  *)
(* stream of its own kind, and the ring is exact.                          *)
THEOREM TypeInvariant == Spec => []TypeInv
<1>1. Init => TypeInv
  BY TypeInitially
<1>2. TypeInv /\ [Next]_vars => TypeInv'
  BY TypeStep
<1> QED
  BY <1>1, <1>2, PTL DEF Spec

(* TypeOK: every variable keeps its type, for any streams, capacities and  *)
(* sizes.  In particular recv never takes the tail of an empty lane.       *)
THEOREM TypeCorrect == Spec => []TypeOK
<1>1. TypeInv => TypeOK
  BY DEF TypeInv, TypeOK, Good, TasksOK, ConnOK, OwnersOK, HistoryOK, WritersOK
<1> QED
  BY <1>1, TypeInvariant, PTL

(* RingIsExact: offers, pops, spliced responses and purges keep the ring   *)
(* the list, without repetition, of the lanes that have queued frames.     *)
THEOREM RingServesEveryLane == Spec => []RingIsExact
<1>1. TypeInv => RingIsExact
  BY DEF TypeInv, RingIsExact, Good, Exact
<1> QED
  BY <1>1, TypeInvariant, PTL

-----------------------------------------------------------------------------
(***************************************************************************)
(* The accounts.  Sums over lanes and over the frames of a lane are counts *)
(* of units (Tally), so no induction over lanes or frames is needed.       *)
(***************************************************************************)
Weights(q) == [i \in DOMAIN q |-> q[i].size]
Counts(b)  == [k \in Lanes |-> Len(b.lanes[k])]
Sizes(b)   == [k \in Lanes |-> Bytes(b.lanes[k])]

(* The sums of the model are loads.                                        *)
LEMMA TotalIsLoad ==
  ASSUME NEW f
  PROVE  Total(f) = Load(f)
<1> DEFINE g == [i \in DOMAIN f |-> 1 .. f[i]]
<1>1. DOMAIN g = DOMAIN f /\ \A k \in DOMAIN f : g[k] = 1 .. f[k]
  OBVIOUS
<1> HIDE DEF g
<1>2. {{k} \X (1 .. f[k]) : k \in DOMAIN f} = {{k} \X g[k] : k \in DOMAIN g}
  BY <1>1
<1>3. Tagged(g) = UNION {{k} \X (1 .. f[k]) : k \in DOMAIN f}
  BY <1>2 DEF Tagged
<1> QED
  BY <1>3 DEF Total, Load, Cells, g

(* The sizes of the frames of a queue.                                     *)
LEMMA WeightsType ==
  ASSUME NEW q \in Seq(FrameSet)
  PROVE  /\ Weights(q) \in Seq(Nat) /\ Len(Weights(q)) = Len(q)
         /\ \A i \in 1 .. Len(q) : Weights(q)[i] = q[i].size /\ q[i].size \in Nat
         /\ Bytes(q) = Load(Weights(q))
<1>1. DOMAIN q = 1 .. Len(q) /\ Len(q) \in Nat
  OBVIOUS
<1>2. \A i \in 1 .. Len(q) : q[i] \in FrameSet
  OBVIOUS
<1>3. \A i \in 1 .. Len(q) : q[i].size \in Nat
  BY <1>2 DEF FrameSet
<1>4. Weights(q) \in [1 .. Len(q) -> Nat]
  BY <1>1, <1>3 DEF Weights
<1>5. Weights(q) \in Seq(Nat) /\ Len(Weights(q)) = Len(q)
  BY <1>1, <1>4, SeqDef, LenProperties
<1> QED
  BY <1>1, <1>3, <1>5, TotalIsLoad DEF Weights, Bytes

(* Bytes is a natural number,                                              *)
LEMMA BytesType ==
  ASSUME NEW q \in Seq(FrameSet)
  PROVE  Bytes(q) \in Nat
  BY WeightsType, LoadType

(* none for an empty lane,                                                 *)
LEMMA BytesNone == Bytes(<<>>) = 0
<1>1. Weights(<<>>) = <<>>
  BY DEF Weights
<1> QED
  BY <1>1, TotalIsLoad, LoadEmpty DEF Bytes, Weights

(* grows with a queued frame by its size,                                  *)
LEMMA BytesAppend ==
  ASSUME NEW q \in Seq(FrameSet), NEW f \in FrameSet
  PROVE  Bytes(Append(q, f)) = Bytes(q) + f.size /\ f.size \in Nat
<1> DEFINE r == Append(q, f)
<1>1. /\ r \in Seq(FrameSet) /\ Len(r) = Len(q) + 1 /\ Len(q) \in Nat
      /\ \A i \in 1 .. Len(q) : r[i] = q[i]
      /\ r[Len(q) + 1] = f
  OBVIOUS
<1>2. f.size \in Nat
  BY DEF FrameSet
<1> HIDE DEF r
<1>3. /\ Weights(r) \in Seq(Nat) /\ Len(Weights(r)) = Len(r) /\ Bytes(r) = Load(Weights(r))
      /\ \A i \in 1 .. Len(r) : Weights(r)[i] = r[i].size
  BY <1>1, WeightsType
<1>4. /\ Weights(q) \in Seq(Nat) /\ Len(Weights(q)) = Len(q) /\ Bytes(q) = Load(Weights(q))
      /\ \A i \in 1 .. Len(q) : Weights(q)[i] = q[i].size
  BY WeightsType
<1> DEFINE wq == Weights(q)
           wr == Weights(r)
<1> HIDE DEF wq, wr
<1>5. wr = Append(wq, f.size)
  <2>1. wq \in Seq(Nat) /\ Len(wq) = Len(q) /\ \A i \in 1 .. Len(q) : wq[i] = q[i].size
    BY <1>4 DEF wq
  <2>2. wr \in Seq(Nat) /\ Len(wr) = Len(q) + 1 /\ \A i \in 1 .. Len(q) + 1 : wr[i] = r[i].size
    BY <1>1, <1>3 DEF wr
  <2>3. /\ Append(wq, f.size) \in Seq(Nat) /\ Len(Append(wq, f.size)) = Len(q) + 1
        /\ \A i \in 1 .. Len(q) : Append(wq, f.size)[i] = wq[i]
        /\ Append(wq, f.size)[Len(q) + 1] = f.size
    BY <1>2, <2>1
  <2>4. ASSUME NEW i \in 1 .. Len(q) + 1
        PROVE  wr[i] = Append(wq, f.size)[i]
    <3> DEFINE w == Append(wq, f.size)
    <3>1. i \in 1 .. Len(q) \/ i = Len(q) + 1
      BY <1>1
    <3>2. /\ \A j \in 1 .. Len(q) : w[j] = wq[j]
          /\ w[Len(q) + 1] = f.size
      BY <2>3
    <3> HIDE DEF w
    <3>3. wr[i] = w[i]
      BY <1>1, <2>1, <2>2, <3>1, <3>2
    <3> QED
      BY <3>3 DEF w
  <2> QED
    BY <2>2, <2>3, <2>4, SeqEqual
<1>6. Load(Append(wq, f.size)) = Load(wq) + f.size
  BY <1>2, <1>4, LoadAppend DEF wq
<1> QED
  BY <1>2, <1>3, <1>4, <1>5, <1>6 DEF wq, wr, r

(* and shrinks with a removed frame by its size.                           *)
LEMMA BytesRemove ==
  ASSUME NEW q \in Seq(FrameSet), NEW i \in 1 .. Len(q), NEW r \in Seq(FrameSet),
         Len(r) = Len(q) - 1,
         \A j \in 1 .. Len(r) : r[j] = IF j < i THEN q[j] ELSE q[j + 1]
  PROVE  Bytes(q) = Bytes(r) + q[i].size /\ q[i].size \in Nat
<1>0. Len(q) \in Nat /\ Len(r) \in Nat
  OBVIOUS
<1>1. /\ Weights(r) \in Seq(Nat) /\ Len(Weights(r)) = Len(r) /\ Bytes(r) = Load(Weights(r))
      /\ \A j \in 1 .. Len(r) : Weights(r)[j] = r[j].size
  BY WeightsType
<1>2. /\ Weights(q) \in Seq(Nat) /\ Len(Weights(q)) = Len(q) /\ Bytes(q) = Load(Weights(q))
      /\ \A j \in 1 .. Len(q) : Weights(q)[j] = q[j].size /\ q[j].size \in Nat
  BY WeightsType
<1> DEFINE wq == Weights(q)
           wr == Weights(r)
<1> HIDE DEF wq, wr
<1>3. ASSUME NEW j \in 1 .. Len(r)
      PROVE  wr[j] = IF j < i THEN wq[j] ELSE wq[j + 1]
  <2>1. j \in 1 .. Len(q) /\ j + 1 \in 1 .. Len(q)
    BY <1>0
  <2> QED
    BY <1>1, <1>2, <2>1 DEF wq, wr
<1>4. /\ wq \in Seq(Nat) /\ wr \in Seq(Nat) /\ i \in 1 .. Len(wq) /\ Len(wr) = Len(wq) - 1
      /\ \A j \in 1 .. Len(wr) : wr[j] = IF j < i THEN wq[j] ELSE wq[j + 1]
  BY <1>1, <1>2, <1>3 DEF wq, wr
<1>5. Load(wq) = Load(wr) + wq[i]
  BY <1>4, LoadRemove
<1> QED
  BY <1>1, <1>2, <1>5 DEF wq, wr

(* The sum of a function after a change at one point.                      *)
LEMMA LoadReplace ==
  ASSUME NEW D, NEW f \in [D -> Nat], NEW g \in [D -> Nat], NEW k \in D,
         \A j \in D \ {k} : g[j] = f[j],
         IsFiniteSet(Cells(f))
  PROVE  /\ IsFiniteSet(Cells(g))
         /\ Load(f) \in Nat /\ Load(g) \in Nat
         /\ f[k] <= Load(f)
         /\ Load(g) = Load(f) - f[k] + g[k]
<1> DEFINE F == [j \in DOMAIN f |-> 1 .. f[j]]
           G == [j \in DOMAIN g |-> 1 .. g[j]]
<1>1. /\ DOMAIN F = D /\ DOMAIN G = D
      /\ \A j \in D \ {k} : G[j] = F[j]
      /\ F[k] = 1 .. f[k] /\ G[k] = 1 .. g[k]
  OBVIOUS
<1>2. Cells(f) = Tagged(F) /\ Cells(g) = Tagged(G)
  BY DEF Cells
<1> HIDE DEF F, G
<1>3. f[k] \in Nat /\ g[k] \in Nat
  OBVIOUS
<1>4. /\ IsFiniteSet(G[k])
      /\ Cardinality(F[k]) = f[k] /\ Cardinality(G[k]) = g[k]
  BY <1>1, <1>3, SegmentCount
<1>5. k \in DOMAIN F /\ DOMAIN G = DOMAIN F /\ \A j \in DOMAIN F \ {k} : G[j] = F[j]
  BY <1>1
<1>6. /\ IsFiniteSet(Tagged(G))
      /\ Cardinality(Tagged(F)) \in Nat /\ Cardinality(Tagged(G)) \in Nat
      /\ Cardinality(F[k]) <= Cardinality(Tagged(F))
      /\ Cardinality(Tagged(G)) =
           Cardinality(Tagged(F)) - Cardinality(F[k]) + Cardinality(G[k])
  BY <1>2, <1>4, <1>5, TaggedReplace
<1> QED
  BY <1>2, <1>4, <1>6 DEF Load

-----------------------------------------------------------------------------
(***************************************************************************)
(* What an outbox holds, and its books.  f is the frame in flight.  The    *)
(* counters may exceed what is there, after an abort; they never fall      *)
(* short of it.  Even(b, f) says that they do not exceed it.               *)
(***************************************************************************)
Held(f)    == IF f.floor THEN 0 ELSE f.size
OnFloor(f) == IF f.floor THEN 1 ELSE 0

Stock(b) ==
    /\ IsFiniteSet(Cells(Counts(b))) /\ IsFiniteSet(Cells(Sizes(b)))
    /\ \A k \in Lanes : \A i \in 1 .. Len(b.lanes[k]) : ~b.lanes[k][i].floor
    /\ \A i \in 1 .. Len(b.floor) : b.floor[i].floor /\ b.floor[i].size <= FloorAllowance

Books(b, f) ==
    /\ b.frames = Load(Counts(b))
    /\ Load(Sizes(b)) + Held(f) <= b.bytes /\ b.bytes <= ByteBudget
    /\ Len(b.floor) + OnFloor(f) <= b.floorInUse /\ b.floorInUse <= 1
    /\ f.floor => f.size <= FloorAllowance

Even(b, f) ==
    /\ b.bytes = Load(Sizes(b)) + Held(f)
    /\ b.floorInUse = Len(b.floor) + OnFloor(f)

Kept(b, f) == Stock(b) /\ Books(b, f)

(* An operation that takes the books with it.                              *)
Careful(b, f, c, g) == Kept(b, f) => Kept(c, g) /\ (Even(b, f) => Even(c, g))

(* The numbers in the books.                                               *)
LEMMA StockType ==
  ASSUME NEW b \in BoxType
  PROVE  /\ Counts(b) \in [Lanes -> Nat] /\ Sizes(b) \in [Lanes -> Nat]
         /\ Stock(b) => Load(Counts(b)) \in Nat /\ Load(Sizes(b)) \in Nat
         /\ b.frames \in Nat /\ b.bytes \in Nat /\ b.floorInUse \in Nat
         /\ Len(b.floor) \in Nat
<1>1. \A k \in Lanes : b.lanes[k] \in Seq(FrameSet)
  BY BoxFields
<1>2. \A k \in Lanes : Len(b.lanes[k]) \in Nat
  BY <1>1
<1>3. \A k \in Lanes : Bytes(b.lanes[k]) \in Nat
  BY <1>1, BytesType
<1>4. Len(b.floor) \in Nat
  <2>1. b.floor \in Seq(FrameSet)
    BY BoxFields
  <2> QED
    BY <2>1
<1>5. Stock(b) => Load(Counts(b)) \in Nat /\ Load(Sizes(b)) \in Nat
  BY FS_CardinalityType DEF Stock, Load
<1> QED
  BY <1>2, <1>3, <1>4, <1>5, BoxFields DEF Counts, Sizes

(* A change of one lane changes both sums by that lane.                    *)
LEMMA LaneChange ==
  ASSUME NEW b \in BoxType, NEW c \in BoxType, NEW k \in Lanes,
         \A j \in Lanes \ {k} : c.lanes[j] = b.lanes[j], Stock(b)
  PROVE  /\ IsFiniteSet(Cells(Counts(c))) /\ IsFiniteSet(Cells(Sizes(c)))
         /\ Load(Counts(b)) \in Nat /\ Load(Counts(c)) \in Nat
         /\ Load(Sizes(b)) \in Nat /\ Load(Sizes(c)) \in Nat
         /\ Len(b.lanes[k]) \in Nat /\ Len(c.lanes[k]) \in Nat
         /\ Bytes(b.lanes[k]) \in Nat /\ Bytes(c.lanes[k]) \in Nat
         /\ Len(b.lanes[k]) <= Load(Counts(b))
         /\ Bytes(b.lanes[k]) <= Load(Sizes(b))
         /\ Load(Counts(c)) = Load(Counts(b)) - Len(b.lanes[k]) + Len(c.lanes[k])
         /\ Load(Sizes(c)) = Load(Sizes(b)) - Bytes(b.lanes[k]) + Bytes(c.lanes[k])
<1>1. /\ Counts(b) \in [Lanes -> Nat] /\ Sizes(b) \in [Lanes -> Nat]
      /\ Counts(c) \in [Lanes -> Nat] /\ Sizes(c) \in [Lanes -> Nat]
  BY StockType
<1>2. /\ \A j \in Lanes : Counts(b)[j] = Len(b.lanes[j]) /\ Counts(c)[j] = Len(c.lanes[j])
      /\ \A j \in Lanes : Sizes(b)[j] = Bytes(b.lanes[j]) /\ Sizes(c)[j] = Bytes(c.lanes[j])
  BY DEF Counts, Sizes
<1>3. \A j \in Lanes \ {k} : Counts(c)[j] = Counts(b)[j] /\ Sizes(c)[j] = Sizes(b)[j]
  BY <1>2
<1>4. IsFiniteSet(Cells(Counts(b))) /\ IsFiniteSet(Cells(Sizes(b)))
  BY DEF Stock
<1> DEFINE m == Counts(b)
           n == Counts(c)
           v == Sizes(b)
           w == Sizes(c)
<1> HIDE DEF m, n, v, w
<1>5. /\ IsFiniteSet(Cells(n)) /\ Load(m) \in Nat /\ Load(n) \in Nat
      /\ m[k] <= Load(m) /\ Load(n) = Load(m) - m[k] + n[k]
  BY <1>1, <1>3, <1>4, LoadReplace DEF m, n
<1>6. /\ IsFiniteSet(Cells(w)) /\ Load(v) \in Nat /\ Load(w) \in Nat
      /\ v[k] <= Load(v) /\ Load(w) = Load(v) - v[k] + w[k]
  BY <1>1, <1>3, <1>4, LoadReplace DEF v, w
<1>7. m[k] \in Nat /\ n[k] \in Nat /\ v[k] \in Nat /\ w[k] \in Nat
  BY <1>1 DEF m, n, v, w
<1> QED
  BY <1>2, <1>5, <1>6, <1>7 DEF m, n, v, w

(* What is neither a lane, the floor nor a counter is of no account.       *)
SameStock(b, c) ==
    /\ c.lanes = b.lanes /\ c.frames = b.frames /\ c.bytes = b.bytes
    /\ c.floor = b.floor /\ c.floorInUse = b.floorInUse

(* The books carry over.                                                   *)
LEMMA SameBooks ==
  ASSUME NEW b, NEW c, NEW f, SameStock(b, c)
  PROVE  Careful(b, f, c, f)
  BY DEF SameStock, Careful, Kept, Even, Stock, Books, Counts, Sizes

(* One careful operation after another.                                    *)
LEMMA CarefulTwice ==
  ASSUME NEW b, NEW f, NEW c, NEW g, NEW d, NEW h,
         Careful(b, f, c, g), Careful(c, g, d, h)
  PROVE  Careful(b, f, d, h)
  BY DEF Careful

(* A change of one lane keeps the stock in order when the lane is.         *)
LEMMA StockChange ==
  ASSUME NEW b \in BoxType, NEW c \in BoxType, NEW k \in Lanes,
         \A j \in Lanes \ {k} : c.lanes[j] = b.lanes[j], Stock(b),
         \A i \in 1 .. Len(c.lanes[k]) : ~c.lanes[k][i].floor,
         \A i \in 1 .. Len(c.floor) : c.floor[i].floor /\ c.floor[i].size <= FloorAllowance
  PROVE  Stock(c)
<1>1. IsFiniteSet(Cells(Counts(c))) /\ IsFiniteSet(Cells(Sizes(c)))
  BY LaneChange
<1>2. ASSUME NEW j \in Lanes
      PROVE  \A i \in 1 .. Len(c.lanes[j]) : ~c.lanes[j][i].floor
  <2>1. CASE j = k
    BY <2>1
  <2>2. CASE j # k
    BY <2>2 DEF Stock
  <2> QED
    BY <2>1, <2>2
<1> QED
  BY <1>1, <1>2 DEF Stock

(* Firing, markers and the end of a pop are of no account,                 *)
LEMMA FinishPopSameStock ==
  ASSUME NEW b \in BoxType
  PROVE  /\ SameStock(b, Fire(b)) /\ SameStock(b, FireIfRoom(b))
         /\ \A x \in FrameSet : SameStock(b, FinishPop(b, x))
<1>1. ASSUME NEW c \in BoxType
      PROVE  SameStock(c, Fire(c)) /\ SameStock(c, FireIfRoom(c))
  BY DEF SameStock, Fire, FireIfRoom, BoxType
<1>2. ASSUME NEW x \in FrameSet
      PROVE  SameStock(b, FinishPop(b, x))
  <2> DEFINE c == [b EXCEPT !.pending = IF x.kind = "response" THEN @ \ {x.of} ELSE @,
                            !.welcomeQueued = @ /\ x.kind # "welcome"]
  <2>1. c \in BoxType /\ SameStock(b, c)
    BY DEF BoxType, SameStock
  <2>2. FinishPop(b, x) = Fire(c)
    BY DEF FinishPop
  <2> HIDE DEF c
  <2> QED
    BY <1>1, <2>1, <2>2 DEF SameStock
<1> QED
  BY <1>1, <1>2

(* nor are tickets and the closed flag.                                    *)
LEMMA TicketsSameStock ==
  ASSUME NEW b \in BoxType, NEW s
  PROVE  /\ SameStock(b, DropTicket(b, s)) /\ SameStock(b, DrainTicket(b, s))
         /\ SameStock(b, CancelTicket(b, s)) /\ SameStock(b, Close(b))
<1>1. /\ SameStock(b, DropTicket(b, s)) /\ SameStock(b, DrainTicket(b, s))
      /\ SameStock(b, Close(b))
  BY DEF SameStock, DropTicket, DrainTicket, Close, BoxType
<1>2. SameStock(b, CancelTicket(b, s))
  <2> DEFINE c == DropTicket(b, s)
  <2>1. c \in BoxType /\ SameStock(b, c)
    BY <1>1, DropTicketType
  <2>2. CancelTicket(b, s) = c \/ CancelTicket(b, s) = FireIfRoom(c)
    BY DEF CancelTicket
  <2> HIDE DEF c
  <2> QED
    BY <2>1, <2>2, FinishPopSameStock DEF SameStock
<1> QED
  BY <1>1, <1>2

(* The bytes and the floor slot of a frame in flight.                      *)
LEMMA FlightType ==
  ASSUME NEW f \in FrameSet
  PROVE  /\ f.size \in Nat /\ f.floor \in BOOLEAN
         /\ Held(f) \in Nat /\ OnFloor(f) \in 0 .. 1
  BY DEF FrameSet, Held, OnFloor

(* A queued frame is counted, and charged within the budget.               *)
LEMMA EnqueueBooks ==
  ASSUME NEW b \in BoxType, NEW k \in Lanes, NEW x \in FrameSet, ~x.floor,
         OrdinaryAdmits(b, k, x.size), NEW f \in FrameSet
  PROVE  Careful(b, f, Enqueue(b, k, x), f)
<1> DEFINE c == Enqueue(b, k, x)
<1>1. c \in BoxType
  BY EnqueueType
<1>2. b.lanes[k] \in Seq(FrameSet)
  BY BoxFields
<1>3. /\ c.lanes[k] = Append(b.lanes[k], x)
      /\ \A j \in Lanes \ {k} : c.lanes[j] = b.lanes[j]
      /\ c.frames = b.frames + 1 /\ c.bytes = b.bytes + x.size
      /\ c.floor = b.floor /\ c.floorInUse = b.floorInUse
  BY DEF Enqueue, BoxType, LaneMaps
<1> HIDE DEF c
<1> SUFFICES ASSUME Kept(b, f)
             PROVE  Kept(c, f) /\ (Even(b, f) => Even(c, f))
  BY DEF Careful, c
<1>4. Bytes(c.lanes[k]) = Bytes(b.lanes[k]) + x.size /\ x.size \in Nat
  BY <1>2, <1>3, BytesAppend
<1>5. /\ Len(c.lanes[k]) = Len(b.lanes[k]) + 1
      /\ \A i \in 1 .. Len(c.lanes[k]) : c.lanes[k][i] = IF i <= Len(b.lanes[k]) THEN b.lanes[k][i] ELSE x
  BY <1>2, <1>3
<1>6. Stock(b) /\ Books(b, f)
  BY DEF Kept
<1>7. Stock(c)
  <2>1. \A i \in 1 .. Len(b.lanes[k]) : ~b.lanes[k][i].floor
    BY <1>6 DEF Stock
  <2>2. \A i \in 1 .. Len(c.lanes[k]) : ~c.lanes[k][i].floor
    BY <1>2, <1>5, <2>1
  <2>3. \A i \in 1 .. Len(c.floor) : c.floor[i].floor /\ c.floor[i].size <= FloorAllowance
    BY <1>3, <1>6 DEF Stock
  <2> QED
    BY <1>1, <1>3, <1>6, <2>2, <2>3, StockChange
<1>8. /\ Load(Counts(b)) \in Nat /\ Load(Sizes(b)) \in Nat
      /\ Len(b.lanes[k]) \in Nat /\ Bytes(b.lanes[k]) \in Nat
      /\ Load(Counts(c)) = Load(Counts(b)) - Len(b.lanes[k]) + Len(c.lanes[k])
      /\ Load(Sizes(c)) = Load(Sizes(b)) - Bytes(b.lanes[k]) + Bytes(c.lanes[k])
  BY <1>1, <1>3, <1>6, LaneChange
<1>9. Load(Counts(c)) = Load(Counts(b)) + 1 /\ Load(Sizes(c)) = Load(Sizes(b)) + x.size
  BY <1>4, <1>5, <1>8
<1>10. Held(f) \in Nat /\ b.bytes \in Nat /\ b.frames \in Nat
  BY FlightType, BoxFields
<1>11. b.bytes + x.size <= ByteBudget
  BY DEF OrdinaryAdmits
<1>12. Books(c, f)
  <2>1. c.frames = Load(Counts(c)) /\ c.bytes <= ByteBudget
    BY <1>3, <1>6, <1>9, <1>11 DEF Books
  <2>2. Load(Sizes(c)) + Held(f) <= c.bytes
    <3>1. Load(Sizes(b)) + Held(f) <= b.bytes
      BY <1>6 DEF Books
    <3> QED
      BY <1>3, <1>4, <1>8, <1>9, <1>10, <3>1
  <2>3. /\ Len(c.floor) + OnFloor(f) <= c.floorInUse /\ c.floorInUse <= 1
        /\ f.floor => f.size <= FloorAllowance
    BY <1>3, <1>6 DEF Books
  <2> QED
    BY <2>1, <2>2, <2>3 DEF Books
<1>13. Even(b, f) => Even(c, f)
  BY <1>3, <1>4, <1>8, <1>9, <1>10 DEF Even
<1> QED
  BY <1>7, <1>12, <1>13 DEF Kept

(* An admitted offer.                                                      *)
LEMMA OfferedBooks ==
  ASSUME NEW b \in BoxType, NEW s \in Streams, NEW n \in Nat, Fits(b, s, n), NEW f \in FrameSet
  PROVE  Careful(b, f, Offered(b, s, n), f)
<1> DEFINE x == Frame("event", s, n)
           c == DropTicket(b, s)
           d == Enqueue(c, s, x)
<1>1. s \in Lanes /\ "event" \in Kinds
  BY DEF Lanes, Kinds
<1>2. x \in FrameSet /\ ~x.floor /\ x.size = n
  <2>1. x \in FrameSet
    BY <1>1, FrameType
  <2> QED
    BY <2>1 DEF Frame
<1>3. c \in BoxType /\ SameStock(b, c)
  BY <1>2, DropTicketType, TicketsSameStock
<1>4. OrdinaryAdmits(c, s, x.size)
  BY <1>2, <1>3 DEF Fits, OrdinaryAdmits, SameStock
<1>5. Offered(b, s, n) = FireIfRoom(d)
  BY DEF Offered
<1> HIDE DEF x, c
<1>6. d \in BoxType /\ Careful(c, f, d, f)
  BY <1>1, <1>2, <1>3, <1>4, EnqueueType, EnqueueBooks
<1>7. SameStock(d, FireIfRoom(d))
  BY <1>6, FinishPopSameStock
<1> HIDE DEF d
<1>8. Careful(b, f, c, f) /\ Careful(d, f, FireIfRoom(d), f)
  BY <1>3, <1>7, SameBooks
<1> QED
  BY <1>5, <1>6, <1>8, CarefulTwice

(* A reply takes a place on the System lane, or the floor when it is free. *)
LEMMA PushBooks ==
  ASSUME NEW b \in BoxType, NEW x \in FrameSet, ~x.floor, NEW fl, Admits(b, x.size, fl),
         NEW f \in FrameSet
  PROVE  Careful(b, f, Push(b, x), f)
<1> DEFINE m == Marked(b, x)
           y == [x EXCEPT !.floor = TRUE]
<1>0. System \in Lanes /\ x.size \in Nat
  BY FlightType DEF Lanes
<1>1. x.kind = "response" => x.of \in Attachments
  BY DEF FrameSet
<1>2. m \in BoxType
  BY <1>1 DEF Marked, BoxType
<1>3. SameStock(b, m)
  BY DEF SameStock, Marked, BoxType
<1>4. Careful(b, f, m, f)
  BY <1>3, SameBooks
<1>5. CASE OrdinaryAdmits(b, System, x.size)
  <2>1. Push(b, x) = Enqueue(m, System, x)
    BY <1>5 DEF Push
  <2>2. OrdinaryAdmits(m, System, x.size)
    BY <1>3, <1>5 DEF OrdinaryAdmits, SameStock
  <2> HIDE DEF m
  <2>3. Careful(m, f, Enqueue(m, System, x), f)
    BY <1>0, <1>2, <2>2, EnqueueBooks
  <2> QED
    BY <1>4, <2>1, <2>3, CarefulTwice
<1>6. CASE ~OrdinaryAdmits(b, System, x.size)
  <2> DEFINE c == [m EXCEPT !.floor = Append(m.floor, y), !.floorInUse = 1]
  <2>1. Push(b, x) = c
    BY <1>6 DEF Push
  <2>2. b.floorInUse = 0 /\ x.size <= FloorAllowance
    BY <1>6 DEF Admits, FloorAdmits
  <2>3. y \in FrameSet /\ y.floor /\ y.size = x.size
    BY DEF FrameSet
  <2> HIDE DEF m, y
  <2>4. m.floor \in Seq(FrameSet)
    BY <1>2, BoxFields
  <2>5. /\ c.floor = Append(m.floor, y) /\ c.floorInUse = 1
        /\ c.lanes = m.lanes /\ c.frames = m.frames /\ c.bytes = m.bytes
    BY <1>2 DEF BoxType
  <2> HIDE DEF c
  <2>6. /\ Len(c.floor) = Len(m.floor) + 1 /\ Len(m.floor) \in Nat
        /\ \A i \in 1 .. Len(c.floor) : c.floor[i] = IF i <= Len(m.floor) THEN m.floor[i] ELSE y
    BY <2>3, <2>4, <2>5
  <2>7. Counts(c) = Counts(m) /\ Sizes(c) = Sizes(m)
    BY <2>5 DEF Counts, Sizes
  <2>8. m.floorInUse = 0
    BY <1>3, <2>2 DEF SameStock
  <2>9. ASSUME Kept(m, f)
        PROVE  Kept(c, f) /\ (Even(m, f) => Even(c, f))
    <3>1. Stock(m) /\ Books(m, f)
      BY <2>9 DEF Kept
    <3>2. Len(m.floor) = 0 /\ OnFloor(f) = 0
      <4>1. Len(m.floor) + OnFloor(f) <= 0 /\ OnFloor(f) \in 0 .. 1
        BY <2>8, <3>1, FlightType DEF Books
      <4> QED
        BY <2>6, <4>1
    <3>3. \A i \in 1 .. Len(c.floor) : c.floor[i] = y
      BY <2>6, <3>2
    <3>4. Stock(c)
      BY <2>2, <2>3, <2>5, <2>7, <3>1, <3>3 DEF Stock
    <3>5. Books(c, f)
      BY <2>5, <2>6, <2>7, <3>1, <3>2 DEF Books
    <3>6. Even(m, f) => Even(c, f)
      BY <2>5, <2>6, <2>7, <3>2 DEF Even
    <3> QED
      BY <3>4, <3>5, <3>6 DEF Kept
  <2>10. Careful(m, f, c, f)
    BY <2>9 DEF Careful
  <2> QED
    BY <1>4, <2>1, <2>10, CarefulTwice
<1> QED
  BY <1>5, <1>6

(* saturating_sub does not saturate here.                                  *)
LEMMA MinusExact ==
  ASSUME NEW x \in Nat, NEW y \in Nat, y <= x
  PROVE  Minus(x, y) = x - y
  BY DEF Minus

(* The floor has one place, in the queue or in flight.                     *)
LEMMA OnePlace ==
  ASSUME NEW l \in Nat, NEW e \in 0 .. 1, NEW u \in Nat, l + e <= u, u <= 1, l > 0
  PROVE  l = 1 /\ e = 0 /\ u = 1
  OBVIOUS

(* Frames that leave one lane are uncounted and refunded; a reply that     *)
(* leaves the floor frees it.                                              *)
LEMMA TrimBooks ==
  ASSUME NEW b \in BoxType, NEW c \in BoxType, NEW k \in Lanes, NEW f \in FrameSet,
         \A j \in Lanes \ {k} : c.lanes[j] = b.lanes[j],
         Len(c.lanes[k]) <= Len(b.lanes[k]),
         Bytes(c.lanes[k]) <= Bytes(b.lanes[k]),
         \A i \in 1 .. Len(c.lanes[k]) : \E j \in 1 .. Len(b.lanes[k]) :
           c.lanes[k][i] = b.lanes[k][j],
         c.frames = Minus(b.frames, Len(b.lanes[k]) - Len(c.lanes[k])),
         c.bytes = Minus(b.bytes, Minus(Bytes(b.lanes[k]), Bytes(c.lanes[k]))),
         \/ c.floor = b.floor /\ c.floorInUse = b.floorInUse
         \/ Len(b.floor) > 0 /\ Len(c.floor) = Len(b.floor) - 1 /\ c.floorInUse = 0
  PROVE  Careful(b, f, c, f)
<1> SUFFICES ASSUME Kept(b, f)
             PROVE  Kept(c, f) /\ (Even(b, f) => Even(c, f))
  BY DEF Careful
<1>1. Stock(b) /\ Books(b, f)
  BY DEF Kept
<1>2. /\ Load(Counts(b)) \in Nat /\ Load(Sizes(b)) \in Nat
      /\ Len(b.lanes[k]) \in Nat /\ Bytes(b.lanes[k]) \in Nat
      /\ Len(c.lanes[k]) \in Nat /\ Bytes(c.lanes[k]) \in Nat
      /\ Len(b.lanes[k]) <= Load(Counts(b)) /\ Bytes(b.lanes[k]) <= Load(Sizes(b))
      /\ Load(Counts(c)) = Load(Counts(b)) - Len(b.lanes[k]) + Len(c.lanes[k])
      /\ Load(Sizes(c)) = Load(Sizes(b)) - Bytes(b.lanes[k]) + Bytes(c.lanes[k])
  BY <1>1, LaneChange
<1>3. /\ b.frames \in Nat /\ b.bytes \in Nat /\ b.floorInUse \in Nat
      /\ Len(b.floor) \in Nat /\ Len(c.floor) \in Nat
      /\ Held(f) \in Nat /\ OnFloor(f) \in 0 .. 1 /\ ByteBudget \in Nat
  BY StockType, FlightType, OutboxAssumption
<1>4. /\ b.frames = Load(Counts(b))
      /\ Load(Sizes(b)) + Held(f) <= b.bytes /\ b.bytes <= ByteBudget
      /\ Len(b.floor) + OnFloor(f) <= b.floorInUse /\ b.floorInUse <= 1
      /\ f.floor => f.size <= FloorAllowance
  BY <1>1 DEF Books
<1>0. /\ Len(c.lanes[k]) <= Len(b.lanes[k]) /\ Bytes(c.lanes[k]) <= Bytes(b.lanes[k])
      /\ c.frames = Minus(b.frames, Len(b.lanes[k]) - Len(c.lanes[k]))
      /\ c.bytes = Minus(b.bytes, Minus(Bytes(b.lanes[k]), Bytes(c.lanes[k])))
  OBVIOUS
<1> DEFINE T == Load(Counts(b))
           P == Len(b.lanes[k])
           Q == Len(c.lanes[k])
           U == Load(Sizes(b))
           V == Bytes(b.lanes[k])
           W == Bytes(c.lanes[k])
           H == Held(f)
<1> HIDE DEF T, P, Q, U, V, W, H
<1>5. c.frames = Load(Counts(c))
  <2>1. /\ T \in Nat /\ P \in Nat /\ Q \in Nat /\ Q <= P /\ P <= T /\ b.frames = T
        /\ T + 0 <= T
    BY <1>0, <1>2, <1>4 DEF T, P, Q
  <2>2. P - Q \in Nat /\ P - Q <= T /\ T - (P - Q) = T - P + Q
    BY <2>1
  <2>3. Minus(T, P - Q) = T - P + Q
    BY <2>1, <2>2, MinusExact
  <2> QED
    BY <1>0, <1>2, <2>1, <2>3 DEF T, P, Q
<1>6. /\ c.bytes = b.bytes - V + W
      /\ U - V + W + H <= b.bytes - V + W /\ b.bytes - V + W <= b.bytes
      /\ b.bytes = U + H => b.bytes - V + W = U - V + W + H
  <2>1. /\ U \in Nat /\ V \in Nat /\ W \in Nat /\ H \in Nat /\ b.bytes \in Nat
        /\ W <= V /\ V <= U /\ U + H <= b.bytes
    BY <1>0, <1>2, <1>3, <1>4 DEF U, V, W, H
  <2>2. /\ Minus(b.bytes, V - W) = b.bytes - V + W /\ Minus(V, W) = V - W
        /\ U - V + W + H <= b.bytes - V + W /\ b.bytes - V + W <= b.bytes
        /\ b.bytes = U + H => b.bytes - V + W = U - V + W + H
    <3>1. /\ V - W \in Nat /\ V - W <= b.bytes /\ b.bytes - (V - W) = b.bytes - V + W
          /\ U - V + W + H <= b.bytes - V + W /\ b.bytes - V + W <= b.bytes
          /\ b.bytes = U + H => b.bytes - V + W = U - V + W + H
      BY <2>1
    <3>2. Minus(V, W) = V - W
      BY <2>1, MinusExact
    <3>3. Minus(b.bytes, V - W) = b.bytes - V + W
      BY <2>1, <3>1, MinusExact
    <3> QED
      BY <3>1, <3>2, <3>3
  <2> QED
    BY <1>0, <2>2 DEF V, W
<1>7. /\ Load(Sizes(c)) + Held(f) <= c.bytes /\ c.bytes <= ByteBudget
      /\ b.bytes = Load(Sizes(b)) + Held(f) => c.bytes = Load(Sizes(c)) + Held(f)
  <2>1. Load(Sizes(c)) = U - V + W
    BY <1>2 DEF U, V, W
  <2>2. c.bytes <= ByteBudget
    <3>1. c.bytes \in Nat
      BY BoxFields
    <3>2. c.bytes <= b.bytes
      BY <1>6
    <3> QED
      BY <1>3, <1>4, <3>1, <3>2
  <2> QED
    BY <1>6, <2>1, <2>2 DEF U, H
<1>8. /\ Len(c.floor) + OnFloor(f) <= c.floorInUse /\ c.floorInUse <= 1
      /\ b.floorInUse = Len(b.floor) + OnFloor(f) => c.floorInUse = Len(c.floor) + OnFloor(f)
      /\ c.floor = b.floor \/ Len(c.floor) = 0
  <2>1. CASE Len(b.floor) > 0 /\ Len(c.floor) = Len(b.floor) - 1 /\ c.floorInUse = 0
    <3>1. Len(b.floor) = 1 /\ OnFloor(f) = 0
      BY <1>3, <1>4, <2>1, OnePlace
    <3> QED
      BY <2>1, <3>1
  <2>2. CASE c.floor = b.floor /\ c.floorInUse = b.floorInUse
    BY <1>4, <2>2
  <2> QED
    BY <2>1, <2>2
<1>9. \A i \in 1 .. Len(c.lanes[k]) : ~c.lanes[k][i].floor
  BY <1>1 DEF Stock
<1>10. \A i \in 1 .. Len(c.floor) : c.floor[i].floor /\ c.floor[i].size <= FloorAllowance
  <2>1. CASE c.floor = b.floor
    BY <1>1, <2>1 DEF Stock
  <2>2. CASE Len(c.floor) = 0
    BY <2>2
  <2> QED
    BY <1>8, <2>1, <2>2
<1>11. Stock(c)
  BY <1>1, <1>9, <1>10, StockChange
<1> QED
  BY <1>4, <1>5, <1>7, <1>8, <1>11 DEF Kept, Books, Even

(* Dropping a lane.                                                        *)
LEMMA WithoutLaneBooks ==
  ASSUME NEW b \in BoxType, NEW k \in Lanes, NEW f \in FrameSet
  PROVE  Careful(b, f, WithoutLane(b, k), f)
<1> DEFINE c == WithoutLane(b, k)
<1>1. c \in BoxType
  BY WithoutLaneType
<1>2. /\ c.lanes[k] = <<>> /\ \A j \in Lanes \ {k} : c.lanes[j] = b.lanes[j]
      /\ c.frames = Minus(b.frames, Len(b.lanes[k]))
      /\ c.bytes = Minus(b.bytes, Bytes(b.lanes[k]))
      /\ c.floor = b.floor /\ c.floorInUse = b.floorInUse
  BY DEF WithoutLane, BoxType, LaneMaps
<1>3. b.lanes[k] \in Seq(FrameSet)
  BY BoxFields
<1>4. Len(b.lanes[k]) \in Nat /\ Bytes(b.lanes[k]) \in Nat
  BY <1>3, BytesType
<1>5. Len(<<>>) = 0 /\ Bytes(<<>>) = 0
  BY BytesNone
<1>6. Minus(Bytes(b.lanes[k]), 0) = Bytes(b.lanes[k])
  BY <1>4, MinusExact
<1> HIDE DEF c
<1>7. /\ Len(c.lanes[k]) <= Len(b.lanes[k]) /\ Bytes(c.lanes[k]) <= Bytes(b.lanes[k])
      /\ \A i \in 1 .. Len(c.lanes[k]) : \E j \in 1 .. Len(b.lanes[k]) :
           c.lanes[k][i] = b.lanes[k][j]
      /\ c.frames = Minus(b.frames, Len(b.lanes[k]) - Len(c.lanes[k]))
      /\ c.bytes = Minus(b.bytes, Minus(Bytes(b.lanes[k]), Bytes(c.lanes[k])))
  BY <1>2, <1>4, <1>5, <1>6
<1>8. Careful(b, f, c, f)
  BY <1>1, <1>2, <1>7, TrimBooks
<1> QED
  BY <1>8 DEF c

(* Unstaged takes at most one frame out of a queue.                        *)
LEMMA UnstagedTrims ==
  ASSUME NEW q \in Seq(FrameSet), NEW a
  PROVE  /\ Unstaged(q, a) \in Seq(FrameSet)
         /\ Len(Unstaged(q, a)) <= Len(q) /\ Bytes(Unstaged(q, a)) <= Bytes(q)
         /\ \A i \in 1 .. Len(Unstaged(q, a)) : \E j \in 1 .. Len(q) : Unstaged(q, a)[i] = q[j]
         /\ IF \E i \in DOMAIN q : Staged(q[i], a)
            THEN Len(q) > 0 /\ Len(Unstaged(q, a)) = Len(q) - 1
            ELSE Unstaged(q, a) = q
<1> DEFINE r == Unstaged(q, a)
<1>0. DOMAIN q = 1 .. Len(q) /\ Len(q) \in Nat /\ Bytes(q) \in Nat
  BY BytesType
<1>1. CASE r = q /\ \A i \in 1 .. Len(q) : ~Staged(q[i], a)
  <2>1. ~\E i \in DOMAIN q : Staged(q[i], a)
    BY <1>0, <1>1
  <2>2. Len(q) <= Len(q) /\ Bytes(q) <= Bytes(q)
    BY <1>0
  <2> QED
    BY <1>1, <2>1, <2>2
<1>2. CASE \E i \in 1 .. Len(q) : Staged(q[i], a) /\ r = RemoveAt(q, i)
  <2>1. PICK i \in 1 .. Len(q) : Staged(q[i], a) /\ r = RemoveAt(q, i)
    BY <1>2
  <2>2. /\ r \in Seq(FrameSet) /\ Len(r) = Len(q) - 1
        /\ \A j \in 1 .. Len(q) - 1 : r[j] = IF j < i THEN q[j] ELSE q[j + 1]
    BY <2>1, RemoveAtType
  <2> HIDE DEF r
  <2>3. Bytes(q) = Bytes(r) + q[i].size /\ q[i].size \in Nat /\ Bytes(r) \in Nat
    <3>1. \A j \in 1 .. Len(r) : r[j] = IF j < i THEN q[j] ELSE q[j + 1]
      BY <2>2
    <3> QED
      BY <2>2, <3>1, BytesRemove, BytesType
  <2>4. Bytes(r) <= Bytes(q) /\ Len(r) <= Len(q) /\ Len(q) > 0
    BY <1>0, <2>2, <2>3
  <2>5. ASSUME NEW j \in 1 .. Len(r)
        PROVE  \E m \in 1 .. Len(q) : r[j] = q[m]
    <3>1. j \in 1 .. Len(q) - 1 /\ j \in 1 .. Len(q) /\ j + 1 \in 1 .. Len(q)
      BY <1>0, <2>2
    <3> QED
      BY <2>2, <3>1
  <2>6. \E j \in DOMAIN q : Staged(q[j], a)
    BY <1>0, <2>1
  <2> QED
    BY <2>2, <2>4, <2>5, <2>6 DEF r
<1> QED
  BY <1>1, <1>2, UnstagedIs

(* Splicing a staged response out, of the System lane or of the floor.     *)
LEMMA SpliceBooks ==
  ASSUME NEW b \in BoxType, NEW a, NEW f \in FrameSet
  PROVE  Careful(b, f, Splice(b, a), f)
<1> DEFINE c == Splice(b, a)
           q == b.lanes[System]
           r == Unstaged(q, a)
           p == Unstaged(b.floor, a)
<1>0. System \in Lanes
  BY DEF Lanes
<1>1. c \in BoxType
  BY SpliceType
<1>2. /\ c.lanes[System] = r /\ \A j \in Lanes \ {System} : c.lanes[j] = b.lanes[j]
      /\ c.frames = Minus(b.frames, Len(q) - Len(r))
      /\ c.bytes = Minus(b.bytes, Minus(Bytes(q), Bytes(r)))
      /\ c.floor = p
      /\ c.floorInUse = IF \E i \in DOMAIN b.floor : Staged(b.floor[i], a)
                        THEN 0 ELSE b.floorInUse
  <2> HIDE DEF r, p
  <2>1. c = [b EXCEPT !.lanes[System] = r,
                  !.ring = IF r = <<>> THEN RemoveFirst(@, System) ELSE @,
                  !.frames = Minus(@, Len(q) - Len(r)),
                  !.bytes = Minus(@, Minus(Bytes(q), Bytes(r))),
                  !.floor = p,
                  !.floorInUse = IF \E i \in DOMAIN b.floor : Staged(b.floor[i], a)
                                 THEN 0 ELSE @]
    BY DEF Splice, r, p
  <2> QED
    BY <1>0, <2>1 DEF BoxType, LaneMaps
<1>3. q \in Seq(FrameSet) /\ b.floor \in Seq(FrameSet)
  BY <1>0, BoxFields
<1>4. /\ Len(r) <= Len(q) /\ Bytes(r) <= Bytes(q)
      /\ \A i \in 1 .. Len(r) : \E j \in 1 .. Len(q) : r[i] = q[j]
  BY <1>3, UnstagedTrims
<1>5. IF \E i \in DOMAIN b.floor : Staged(b.floor[i], a)
      THEN Len(b.floor) > 0 /\ Len(p) = Len(b.floor) - 1
      ELSE p = b.floor
  BY <1>3, UnstagedTrims
<1> HIDE DEF c, r, p
<1>6. \/ c.floor = b.floor /\ c.floorInUse = b.floorInUse
      \/ Len(b.floor) > 0 /\ Len(c.floor) = Len(b.floor) - 1 /\ c.floorInUse = 0
  BY <1>2, <1>5
<1>7. Careful(b, f, c, f)
  BY <1>0, <1>1, <1>2, <1>4, <1>6, TrimBooks
<1> QED
  BY <1>7 DEF c

(* A purge.                                                                *)
LEMMA PurgeBooks ==
  ASSUME NEW b \in BoxType, NEW s \in Streams, NEW f \in FrameSet
  PROVE  Careful(b, f, Purge(b, s), f) /\ Careful(b, f, PurgeOrdered(b, s), f)
<1> DEFINE c == WithoutLane(b, s)
           u == [c EXCEPT !.pending = @ \ {s}]
           d == IF s \in b.pending THEN Splice(u, s) ELSE c
<1>0. s \in Lanes
  BY DEF Lanes
<1>1. c \in BoxType /\ Careful(b, f, c, f)
  BY <1>0, WithoutLaneType, WithoutLaneBooks
<1>2. u \in BoxType /\ SameStock(c, u)
  <2> HIDE DEF c
  <2> QED
    BY <1>1 DEF BoxType, SameStock
<1>3. Purge(b, s) = d \/ Purge(b, s) = Fire(d)
  BY DEF Purge
<1>4. PurgeOrdered(b, s) = b \/ PurgeOrdered(b, s) = FireIfRoom(c)
  BY DEF PurgeOrdered
<1> HIDE DEF c, u
<1>5. Splice(u, s) \in BoxType /\ Careful(u, f, Splice(u, s), f) /\ Careful(c, f, u, f)
  BY <1>2, SpliceType, SpliceBooks, SameBooks
<1>6. d \in BoxType /\ Careful(b, f, d, f)
  BY <1>1, <1>5, CarefulTwice
<1> HIDE DEF d
<1>7. /\ SameStock(d, Fire(d)) /\ SameStock(c, FireIfRoom(c)) /\ SameStock(b, b)
  BY <1>1, <1>6, FinishPopSameStock DEF SameStock
<1>8. /\ Careful(d, f, Fire(d), f) /\ Careful(c, f, FireIfRoom(c), f) /\ Careful(b, f, b, f)
  BY <1>7, SameBooks
<1> QED
  BY <1>1, <1>3, <1>4, <1>6, <1>8, CarefulTwice

(* No frame in flight.                                                     *)
LEMMA NoFlight == Held(NoFrame) = 0 /\ OnFloor(NoFrame) = 0 /\ ~NoFrame.floor
  BY DEF Held, OnFloor, NoFrame, Frame

(* recv takes a reply off the floor; its place stays taken.                *)
LEMMA PopFloorBooks ==
  ASSUME NEW b \in BoxType, b.floor # <<>>
  PROVE  Careful(b, NoFrame, FinishPop([b EXCEPT !.floor = Tail(@)], Head(b.floor)), Head(b.floor))
<1> DEFINE c == [b EXCEPT !.floor = Tail(@)]
           h == Head(b.floor)
<1>1. c \in BoxType
  BY PopTypes
<1>2. b.floor \in Seq(FrameSet)
  BY BoxFields
<1>3. /\ h = b.floor[1] /\ h \in FrameSet /\ Len(b.floor) \in Nat /\ Len(b.floor) > 0
      /\ Len(Tail(b.floor)) = Len(b.floor) - 1
      /\ \A i \in 1 .. Len(Tail(b.floor)) : Tail(b.floor)[i] = b.floor[i + 1]
  BY <1>2
<1>4. /\ c.lanes = b.lanes /\ c.frames = b.frames /\ c.bytes = b.bytes
      /\ c.floor = Tail(b.floor) /\ c.floorInUse = b.floorInUse
  BY DEF BoxType
<1>5. Counts(c) = Counts(b) /\ Sizes(c) = Sizes(b)
  BY <1>4 DEF Counts, Sizes
<1>6. SameStock(c, FinishPop(c, h))
  BY <1>1, <1>3, FinishPopSameStock
<1> HIDE DEF c, h
<1>7. ASSUME Kept(b, NoFrame)
      PROVE  Kept(c, h) /\ (Even(b, NoFrame) => Even(c, h))
  <2>1. Stock(b) /\ Books(b, NoFrame)
    BY <1>7 DEF Kept
  <2>2. h.floor /\ h.size <= FloorAllowance
    <3>1. 1 \in 1 .. Len(b.floor)
      BY <1>3
    <3> QED
      BY <1>3, <2>1, <3>1 DEF Stock
  <2>3. Held(h) = 0 /\ OnFloor(h) = 1
    BY <2>2 DEF Held, OnFloor
  <2>4. Stock(c)
    <3>1. ASSUME NEW i \in 1 .. Len(c.floor)
          PROVE  c.floor[i].floor /\ c.floor[i].size <= FloorAllowance
      <4>1. i + 1 \in 1 .. Len(b.floor) /\ c.floor[i] = b.floor[i + 1]
        BY <1>3, <1>4
      <4> QED
        BY <2>1, <4>1 DEF Stock
    <3> QED
      BY <1>4, <1>5, <2>1, <3>1 DEF Stock
  <2>5. b.floorInUse \in Nat
    BY BoxFields
  <2>6. Len(c.floor) + OnFloor(h) = Len(b.floor) + OnFloor(NoFrame)
    BY <1>3, <1>4, <2>3, NoFlight
  <2>7. Books(c, h)
    BY <1>4, <1>5, <2>1, <2>2, <2>3, <2>6, NoFlight DEF Books
  <2>8. Even(b, NoFrame) => Even(c, h)
    BY <1>4, <1>5, <2>3, <2>6, NoFlight DEF Even
  <2> QED
    BY <2>4, <2>7, <2>8 DEF Kept
<1>8. Careful(b, NoFrame, c, h) /\ Careful(c, h, FinishPop(c, h), h)
  BY <1>6, <1>7, SameBooks DEF Careful
<1>9. Careful(b, NoFrame, FinishPop(c, h), h)
  BY <1>8, CarefulTwice
<1> QED
  BY <1>9 DEF c, h

(* recv takes a frame off a lane; its bytes stay charged.                  *)
LEMMA PopLaneBooks ==
  ASSUME NEW b \in BoxType, NEW k \in Lanes, b.lanes[k] # <<>>
  PROVE  Careful(b, NoFrame, FinishPop(PopLane(b, k), Head(b.lanes[k])), Head(b.lanes[k]))
<1> DEFINE c == PopLane(b, k)
           q == b.lanes[k]
           r == Tail(q)
           h == Head(q)
<1>1. c \in BoxType
  BY PopTypes
<1>2. q \in Seq(FrameSet)
  BY BoxFields
<1>3. /\ h = q[1] /\ h \in FrameSet /\ Len(q) \in Nat /\ Len(q) > 0
      /\ r \in Seq(FrameSet) /\ Len(r) = Len(q) - 1
      /\ \A i \in 1 .. Len(r) : r[i] = q[i + 1]
  BY <1>2
<1>4. /\ c.lanes[k] = r /\ \A j \in Lanes \ {k} : c.lanes[j] = b.lanes[j]
      /\ c.frames = Minus(b.frames, 1) /\ c.bytes = b.bytes
      /\ c.floor = b.floor /\ c.floorInUse = b.floorInUse
  BY DEF PopLane, BoxType, LaneMaps
<1>5. SameStock(c, FinishPop(c, h))
  BY <1>1, <1>3, FinishPopSameStock
<1> HIDE DEF c, h, r
<1>6. Bytes(q) = Bytes(r) + h.size /\ h.size \in Nat
  <2>1. 1 \in 1 .. Len(q) /\ \A j \in 1 .. Len(r) : r[j] = IF j < 1 THEN q[j] ELSE q[j + 1]
    BY <1>3
  <2> QED
    BY <1>2, <1>3, <2>1, BytesRemove
<1>7. ASSUME Kept(b, NoFrame)
      PROVE  Kept(c, h) /\ (Even(b, NoFrame) => Even(c, h))
  <2>1. Stock(b) /\ Books(b, NoFrame)
    BY <1>7 DEF Kept
  <2>2. ~h.floor
    <3>1. 1 \in 1 .. Len(q)
      BY <1>3
    <3> QED
      BY <1>3, <2>1, <3>1 DEF Stock
  <2>3. Held(h) = h.size /\ OnFloor(h) = 0
    BY <2>2 DEF Held, OnFloor
  <2>4. Stock(c)
    <3>1. ASSUME NEW i \in 1 .. Len(c.lanes[k])
          PROVE  ~c.lanes[k][i].floor
      <4>1. i + 1 \in 1 .. Len(q) /\ c.lanes[k][i] = q[i + 1]
        BY <1>3, <1>4
      <4> QED
        BY <2>1, <4>1 DEF Stock
    <3>2. \A i \in 1 .. Len(c.floor) : c.floor[i].floor /\ c.floor[i].size <= FloorAllowance
      BY <1>4, <2>1 DEF Stock
    <3> QED
      BY <1>1, <1>4, <2>1, <3>1, <3>2, StockChange
  <2>5. /\ Load(Counts(b)) \in Nat /\ Load(Sizes(b)) \in Nat
        /\ Bytes(q) \in Nat /\ Bytes(r) \in Nat
        /\ Len(q) <= Load(Counts(b)) /\ Bytes(q) <= Load(Sizes(b))
        /\ Load(Counts(c)) = Load(Counts(b)) - Len(q) + Len(r)
        /\ Load(Sizes(c)) = Load(Sizes(b)) - Bytes(q) + Bytes(r)
    <3>1. \A j \in Lanes \ {k} : c.lanes[j] = b.lanes[j]
      BY <1>4
    <3> QED
      BY <1>1, <1>4, <2>1, <3>1, LaneChange
  <2>6. Load(Counts(c)) = Load(Counts(b)) - 1
    BY <1>3, <2>5
  <2>7. Load(Sizes(c)) + Held(h) = Load(Sizes(b)) + Held(NoFrame)
    BY <1>6, <2>3, <2>5, NoFlight
  <2>8. c.frames = Load(Counts(c))
    <3>1. b.frames = Load(Counts(b)) /\ 1 <= Load(Counts(b))
      BY <1>3, <2>1, <2>5 DEF Books
    <3>2. Minus(b.frames, 1) = b.frames - 1
      BY <2>5, <3>1, MinusExact
    <3> QED
      BY <1>4, <2>6, <3>1, <3>2
  <2>9. Books(c, h)
    BY <1>4, <2>1, <2>2, <2>3, <2>7, <2>8, NoFlight DEF Books
  <2>10. Even(b, NoFrame) => Even(c, h)
    BY <1>4, <2>3, <2>7, NoFlight DEF Even
  <2> QED
    BY <2>4, <2>9, <2>10 DEF Kept
<1>8. Careful(b, NoFrame, c, h) /\ Careful(c, h, FinishPop(c, h), h)
  BY <1>5, <1>7, SameBooks DEF Careful
<1>9. Careful(b, NoFrame, FinishPop(c, h), h)
  BY <1>8, CarefulTwice
<1> QED
  BY <1>9 DEF c, h

(* credit refunds the frame in flight.                                     *)
LEMMA CreditBooks ==
  ASSUME NEW b \in BoxType, NEW f \in FrameSet
  PROVE  Careful(b, f, Credit(b, f), NoFrame)
<1> DEFINE c == IF f.floor THEN [b EXCEPT !.floorInUse = 0]
                           ELSE [b EXCEPT !.bytes = Minus(@, f.size)]
<1>1. Credit(b, f) = Fire(c)
  BY DEF Credit
<1>2. f.size \in Nat /\ Held(f) \in Nat /\ OnFloor(f) \in 0 .. 1 /\ f.floor \in BOOLEAN
  BY FlightType
<1>3. c \in BoxType
  <2>1. Minus(b.bytes, f.size) \in Nat
    BY MinusType DEF BoxType
  <2> QED
    BY <2>1 DEF BoxType
<1>4. /\ c.lanes = b.lanes /\ c.frames = b.frames /\ c.floor = b.floor
      /\ c.bytes = IF f.floor THEN b.bytes ELSE Minus(b.bytes, f.size)
      /\ c.floorInUse = IF f.floor THEN 0 ELSE b.floorInUse
  BY DEF BoxType
<1> HIDE DEF c
<1>5. SameStock(c, Fire(c))
  BY <1>3, FinishPopSameStock
<1>6. Counts(c) = Counts(b) /\ Sizes(c) = Sizes(b)
  BY <1>4 DEF Counts, Sizes
<1>7. ASSUME Kept(b, f)
      PROVE  Kept(c, NoFrame) /\ (Even(b, f) => Even(c, NoFrame))
  <2>1. Stock(b) /\ Books(b, f)
    BY <1>7 DEF Kept
  <2>2. Stock(c)
    BY <1>4, <1>6, <2>1 DEF Stock
  <2>3. /\ Load(Sizes(b)) \in Nat /\ b.bytes \in Nat /\ b.floorInUse \in Nat
        /\ Len(b.floor) \in Nat /\ ByteBudget \in Nat
    BY <2>1, StockType, OutboxAssumption
  <2>4. /\ Load(Sizes(b)) + Held(f) <= b.bytes /\ b.bytes <= ByteBudget
        /\ Len(b.floor) + OnFloor(f) <= b.floorInUse /\ b.floorInUse <= 1
        /\ b.frames = Load(Counts(b))
    BY <2>1 DEF Books
  <2>5. CASE f.floor
    <3>1. Held(f) = 0 /\ OnFloor(f) = 1
      BY <2>5 DEF Held, OnFloor
    <3>2. Len(b.floor) = 0 /\ b.floorInUse = 1
      BY <2>3, <2>4, <3>1
    <3>3. c.bytes = b.bytes /\ c.floorInUse = 0
      BY <1>4, <2>5
    <3>4. Books(c, NoFrame)
      BY <1>4, <1>6, <2>4, <3>1, <3>2, <3>3, NoFlight DEF Books
    <3>5. Even(b, f) => Even(c, NoFrame)
      BY <1>4, <1>6, <3>1, <3>2, <3>3, NoFlight DEF Even
    <3> QED
      BY <2>2, <3>4, <3>5 DEF Kept
  <2>6. CASE ~f.floor
    <3>1. Held(f) = f.size /\ OnFloor(f) = 0
      BY <2>6 DEF Held, OnFloor
    <3>2. f.size <= b.bytes
      BY <1>2, <2>3, <2>4, <3>1
    <3>3. c.bytes = b.bytes - f.size /\ c.floorInUse = b.floorInUse
      BY <1>2, <1>4, <2>3, <2>6, <3>2, MinusExact
    <3>4. /\ Load(Sizes(b)) + 0 <= c.bytes /\ c.bytes <= ByteBudget
          /\ b.bytes = Load(Sizes(b)) + Held(f) => c.bytes = Load(Sizes(b)) + 0
      BY <1>2, <2>3, <2>4, <3>1, <3>2, <3>3
    <3>5. Books(c, NoFrame)
      BY <1>4, <1>6, <2>4, <3>1, <3>3, <3>4, NoFlight DEF Books
    <3>6. Even(b, f) => Even(c, NoFrame)
      BY <1>4, <1>6, <3>1, <3>3, <3>4, NoFlight DEF Even
    <3> QED
      BY <2>2, <3>5, <3>6 DEF Kept
  <2> QED
    BY <2>5, <2>6
<1>8. Careful(b, f, c, NoFrame) /\ Careful(c, NoFrame, Fire(c), NoFrame)
  BY <1>5, <1>7, SameBooks DEF Careful
<1> QED
  BY <1>1, <1>8, CarefulTwice

(* An aborted write is forgotten without a refund: the counters then       *)
(* exceed what is there, and the budget still holds.                       *)
LEMMA AbortBooks ==
  ASSUME NEW b \in BoxType, NEW f \in FrameSet, Kept(b, f)
  PROVE  Kept(b, NoFrame)
<1>1. Stock(b) /\ Books(b, f)
  BY DEF Kept
<1>2. /\ Load(Sizes(b)) \in Nat /\ b.bytes \in Nat /\ b.floorInUse \in Nat
      /\ Len(b.floor) \in Nat /\ Held(f) \in Nat /\ OnFloor(f) \in 0 .. 1
  BY <1>1, StockType, FlightType
<1>3. /\ Load(Sizes(b)) + Held(f) <= b.bytes
      /\ Len(b.floor) + OnFloor(f) <= b.floorInUse
  BY <1>1 DEF Books
<1>4. Load(Sizes(b)) + 0 <= b.bytes /\ Len(b.floor) + 0 <= b.floorInUse
  BY <1>2, <1>3
<1> QED
  BY <1>1, <1>4, NoFlight DEF Kept, Books

-----------------------------------------------------------------------------
(***************************************************************************)
(* The steps.  Each says which operation it applies; a frame is in flight  *)
(* exactly while it is written, and only an abort, after a failure, drops  *)
(* one without a refund.                                                   *)
(***************************************************************************)
AccountInv ==
    /\ TypeInv
    /\ Kept(box, writer.frame)
    /\ conn.failed \/ Even(box, writer.frame)
    /\ writer.pc # "writing" => writer.frame = NoFrame

(* A step of anyone but the writer.                                        *)
Paid ==
    /\ Careful(box, writer.frame, box', writer.frame)
    /\ writer' = writer
    /\ conn.failed => conn'.failed

(* The types a step starts from.                                           *)
LEMMA AccountTypes ==
  ASSUME TypeInv
  PROVE  box \in BoxType /\ box \in Good /\ writer.frame \in FrameSet /\ conn \in ConnType
  BY DEF TypeInv, Good, WritersOK, WriterType, ConnOK

(* Operations on tickets, permits and the closed flag.                     *)
LEMMA TicketBooks ==
  ASSUME NEW b \in BoxType, NEW s \in Streams, NEW f \in FrameSet
  PROVE  /\ Careful(b, f, b, f)
         /\ Careful(b, f, DrainTicket(b, s), f)
         /\ Careful(b, f, CancelTicket(b, s), f)
         /\ Careful(b, f, Close(CancelTicket(b, s)), f)
<1>1. /\ SameStock(b, DrainTicket(b, s)) /\ SameStock(b, CancelTicket(b, s)) /\ SameStock(b, b)
  BY TicketsSameStock DEF SameStock
<1>2. SameStock(CancelTicket(b, s), Close(CancelTicket(b, s)))
  BY TicketTypes, TicketsSameStock
<1>3. SameStock(b, Close(CancelTicket(b, s)))
  BY <1>1, <1>2 DEF SameStock
<1> QED
  BY <1>1, <1>3, SameBooks

(* Closing.                                                                *)
LEMMA CloseBooks ==
  ASSUME NEW b \in BoxType, NEW f
  PROVE  Careful(b, f, b, f) /\ Careful(b, f, Close(b), f)
<1>1. SameStock(b, b) /\ SameStock(b, Close(b))
  BY TicketsSameStock DEF SameStock
<1> QED
  BY <1>1, SameBooks

(* A pushed reply of any kind.                                             *)
LEMMA ReplyBooks ==
  ASSUME NEW b \in BoxType, NEW f \in FrameSet,
         NEW kind \in Kinds, NEW of \in Lanes \cup {Nobody}, NEW n \in ReplySizes,
         kind = "response" => of \in Attachments,
         kind = "watching" => of \in Monitors,
         kind # "event", NEW fl, Admits(b, n, fl)
  PROVE  Careful(b, f, Push(b, Frame(kind, of, n)), f)
<1> DEFINE x == Frame(kind, of, n)
<1>1. n \in Nat
  BY OutboxAssumption
<1>2. x \in FrameSet
  BY <1>1, FrameType
<1>3. ~x.floor /\ x.size = n
  BY DEF Frame
<1> HIDE DEF x
<1>4. Careful(b, f, Push(b, x), f)
  BY <1>2, <1>3, PushBooks
<1> QED
  BY <1>4 DEF x

(* A failure is not taken back.                                            *)
LEMMA FailedStays ==
  ASSUME conn \in ConnType
  PROVE  /\ \A s : \A ok \in BOOLEAN : HandlerDone(s, ok) => (conn.failed => conn'.failed)
         /\ \A failed \in BOOLEAN : Leave(failed) => (conn.failed => conn'.failed)
         /\ conn' = Asked(conn) => (conn.failed => conn'.failed)
  BY DEF HandlerDone, Leave, Asked, ConnType

(* A refusal of the delivery's frame.                                      *)
LEMMA RejectedPays ==
  ASSUME TypeInv, NEW s \in Streams, Rejected(s)
  PROVE  Paid
<1>0. box \in BoxType /\ writer.frame \in FrameSet /\ conn \in ConnType
  BY AccountTypes
<1>1. box' = CancelTicket(box, s) \/ box' = Close(CancelTicket(box, s))
  BY DEF Rejected
<1>2. Careful(box, writer.frame, box', writer.frame)
  BY <1>0, <1>1, TicketBooks
<1>3. conn' = conn \/ HandlerDone(s, FALSE)
  BY DEF Rejected
<1>4. conn.failed => conn'.failed
  BY <1>0, <1>3, FailedStays
<1> QED
  BY <1>2, <1>4 DEF Paid, Rejected

(* The steps of a stream.                                                  *)
LEMMA StreamingPays ==
  ASSUME TypeInv, NEW s \in Streams, Streaming(s)
  PROVE  Paid
<1>0. box \in BoxType /\ writer.frame \in FrameSet /\ conn \in ConnType
  BY AccountTypes
<1>1. ASSUME NEW n \in EventSizes, Produce(s, n)
      PROVE  Paid
  <2>1. n \in Nat
    BY OutboxAssumption
  <2>2. CASE Sends(s, n, FALSE) /\ box' = Offered(box, s, n) /\ UNCHANGED <<conn, writer>>
    BY <1>0, <2>1, <2>2, OfferedBooks DEF Sends, Paid
  <2>3. CASE UNCHANGED <<box, conn, writer>>
    BY <1>0, <2>3, TicketBooks DEF Paid
  <2> QED
    BY <1>1, <2>2, <2>3, RejectedPays DEF Produce
<1>2. ASSUME TaskEnds(s) \/ Stuck(s)
      PROVE  Paid
  <2>1. UNCHANGED <<conn, writer>> /\ (box' = box \/ box' = CancelTicket(box, s))
    BY <1>2 DEF TaskEnds, Stuck
  <2> QED
    BY <1>0, <2>1, TicketBooks DEF Paid
<1> QED
  BY <1>1, <1>2 DEF Streaming

(* The steps of a delivery.                                                *)
LEMMA DeliveryPays ==
  ASSUME TypeInv, NEW s \in Streams, Delivery(s)
  PROVE  Paid
<1>0. /\ box \in BoxType /\ writer.frame \in FrameSet /\ conn \in ConnType
      /\ task[s].size \in Nat
  BY AccountTypes DEF TypeInv, TasksOK, TaskType
<1>1. ASSUME TakeTicket(s) \/ LagTake(s) \/ LagPurge(s)
      PROVE  Paid
  <2>1. /\ UNCHANGED <<conn, writer>>
        /\ box' = DrainTicket(box, s) \/ box' = box \/ box' = Purge(box, s)
    BY <1>1 DEF TakeTicket, LagTake, LagPurge
  <2> QED
    BY <1>0, <2>1, TicketBooks, PurgeBooks DEF Paid
<1>2. ASSUME Reoffer(s)
      PROVE  Paid
  <2>1. CASE /\ Sends(s, task[s].size, TRUE)
             /\ box' = Offered(box, s, task[s].size)
             /\ HandlerDone(s, TRUE)
             /\ UNCHANGED writer
    <3>1. Careful(box, writer.frame, box', writer.frame)
      BY <1>0, <2>1, OfferedBooks DEF Sends
    <3>2. conn.failed => conn'.failed
      BY <1>0, <2>1, FailedStays
    <3> QED
      BY <2>1, <3>1, <3>2 DEF Paid
  <2>2. CASE UNCHANGED <<box, conn, writer>>
    BY <1>0, <2>2, TicketBooks DEF Paid
  <2> QED
    BY <1>2, <2>1, <2>2, RejectedPays DEF Reoffer
<1>3. ASSUME Wake(s)
      PROVE  Paid
  <2>1. SameStock(box, box')
    BY <1>0, <1>3 DEF Wake, BoxType, SameStock
  <2> QED
    BY <1>3, <2>1, SameBooks DEF Wake, Paid
<1>4. ASSUME StopWaiting(s)
      PROVE  Paid
  <2>1. Careful(box, writer.frame, box', writer.frame)
    BY <1>0, <1>4, TicketBooks DEF StopWaiting
  <2>2. conn.failed => conn'.failed
    BY <1>0, <1>4, FailedStays DEF StopWaiting
  <2> QED
    BY <1>4, <2>1, <2>2 DEF Paid, StopWaiting
<1>5. ASSUME NEW n \in ReplySizes, LagTell(s, n)
      PROVE  Paid
  <2>1. \/ Admits(box, n, TRUE) /\ box' = Push(box, Frame("overloaded", s, n))
        \/ Admits(box, n, TRUE) /\ box' = Push(box, Frame("reply", System, n))
        \/ box' = box
    BY <1>5 DEF LagTell
  <2>2. /\ "overloaded" \in Kinds /\ "reply" \in Kinds
        /\ s \in Lanes \cup {Nobody} /\ System \in Lanes \cup {Nobody}
    BY DEF Kinds, Lanes
  <2>3. Careful(box, writer.frame, box', writer.frame)
    BY <1>0, <2>1, <2>2, ReplyBooks, TicketBooks
  <2> QED
    BY <1>5, <2>3 DEF Paid, LagTell
<1> QED
  BY <1>1, <1>2, <1>3, <1>4, <1>5 DEF Delivery

(* A reply on the System lane, or on the floor; a refused one.             *)
LEMMA AnswerPays ==
  ASSUME TypeInv, UNCHANGED writer, NEW n \in ReplySizes,
         \/ \E kind \in {"error", "welcome", "reply"}, fl \in BOOLEAN :
              Admits(box, n, fl) /\ box' = Push(box, Frame(kind, System, n))
         \/ box' = box \/ box' = Close(box),
         conn.failed => conn'.failed
  PROVE  Paid
<1>0. box \in BoxType /\ writer.frame \in FrameSet
  BY AccountTypes
<1>1. ASSUME NEW kind \in {"error", "welcome", "reply"}, NEW fl \in BOOLEAN,
             Admits(box, n, fl), box' = Push(box, Frame(kind, System, n))
      PROVE  Careful(box, writer.frame, box', writer.frame)
  <2>1. kind \in Kinds /\ System \in Lanes \cup {Nobody}
    BY DEF Kinds, Lanes
  <2> QED
    BY <1>0, <1>1, <2>1, ReplyBooks
<1>2. Careful(box, writer.frame, box', writer.frame)
  BY <1>0, <1>1, CloseBooks
<1> QED
  BY <1>2 DEF Paid

(* The requests of the client.                                             *)
LEMMA RequestPays ==
  ASSUME TypeInv, Requests
  PROVE  Paid
<1>0. box \in BoxType /\ writer.frame \in FrameSet /\ conn \in ConnType
  BY AccountTypes
<1>1. ASSUME NEW n \in ReplySizes,
             Hello(n) \/ HelloFails(n) \/ Request(n) \/ Retire(n) \/ Droppable(n)
      PROVE  Paid
  <2>1. \/ \E kind \in {"error", "welcome", "reply"}, fl \in BOOLEAN :
             Admits(box, n, fl) /\ box' = Push(box, Frame(kind, System, n))
        \/ box' = box \/ box' = Close(box)
    BY <1>1 DEF Hello, HelloFails, Request, Retire, Droppable, Overflows
  <2>2. conn.failed => conn'.failed
    <3>1. CASE Hello(n)
      BY <1>0, <3>1 DEF Hello, ConnType
    <3>2. (\E failed \in BOOLEAN : Leave(failed)) \/ Hello(n) \/ conn' = Asked(conn)
      BY <1>1 DEF HelloFails, Request, Retire, Droppable, Overflows
    <3> QED
      BY <1>0, <3>1, <3>2, FailedStays
  <2>3. UNCHANGED writer
    BY <1>1 DEF Hello, HelloFails, Request, Retire, Droppable
  <2> QED
    BY <2>1, <2>2, <2>3, AnswerPays
<1>2. ASSUME NEW n \in ReplySizes, NEW a \in Attachments, Attach(a, n)
      PROVE  Paid
  <2>1. CASE Answer(Frame("response", a, n))
    <3>1. "response" \in Kinds /\ a \in Lanes \cup {Nobody}
      BY DEF Kinds, Lanes, Streams
    <3>2. Admits(box, n, TRUE) /\ box' = Push(box, Frame("response", a, n))
      BY <2>1 DEF Answer, Frame
    <3>3. Careful(box, writer.frame, box', writer.frame)
      BY <1>0, <3>1, <3>2, ReplyBooks
    <3>4. conn'.failed = conn.failed
      BY <1>0, <2>1 DEF Answer, ConnType
    <3> QED
      BY <1>2, <3>3, <3>4 DEF Paid, Attach
  <2>2. CASE Overflows(n)
    <3>1. box' = box /\ (conn.failed => conn'.failed)
      BY <1>0, <2>2, FailedStays DEF Overflows
    <3> QED
      BY <1>2, <3>1, AnswerPays DEF Attach
  <2> QED
    BY <1>2, <2>1, <2>2 DEF Attach
<1>3. ASSUME (\E a \in Attachments : Detach(a)) \/ (\E m \in Monitors : MonitorWatch(m))
      PROVE  Paid
  <2>1. UNCHANGED <<box, writer>>
    BY <1>3 DEF Detach, MonitorWatch
  <2>2. conn'.failed = conn.failed
    BY <1>0, <1>3 DEF Detach, MonitorWatch, ConnType
  <2> QED
    BY <1>0, <2>1, <2>2, CloseBooks DEF Paid
<1>4. ASSUME NEW l \in Looms, NEW n \in EventSizes, LoomWatch(l, n)
      PROVE  Paid
  <2>1. l \in Streams /\ n \in Nat
    BY OutboxAssumption DEF Streams, Ordered
  <2>2. CASE Sends(l, n, FALSE) /\ box' = Offered(box, l, n) /\ UNCHANGED conn
    <3>1. Careful(box, writer.frame, box', writer.frame)
      BY <1>0, <2>1, <2>2, OfferedBooks DEF Sends
    <3> QED
      BY <1>4, <2>2, <3>1 DEF LoomWatch, Paid
  <2>3. CASE conn' = [conn EXCEPT !.at = "baseline", !.of = l] /\ UNCHANGED box
    <3>1. conn'.failed = conn.failed
      BY <1>0, <2>3 DEF ConnType
    <3> QED
      BY <1>0, <1>4, <2>3, <3>1, CloseBooks DEF LoomWatch, Paid
  <2>4. CASE box' = Close(box) /\ Leave(TRUE)
    <3>1. conn.failed => conn'.failed
      BY <1>0, <2>4, FailedStays
    <3> QED
      BY <1>0, <1>4, <2>4, <3>1, CloseBooks DEF LoomWatch, Paid
  <2> QED
    BY <1>4, <2>2, <2>3, <2>4 DEF LoomWatch
<1>5. ASSUME Drain \/ PeerGone
      PROVE  Paid
  <2>1. UNCHANGED <<box, writer>> /\ \E failed \in BOOLEAN : Leave(failed)
    BY <1>5 DEF Drain, PeerGone
  <2>2. conn.failed => conn'.failed
    BY <1>0, <2>1, FailedStays
  <2> QED
    BY <1>0, <2>1, <2>2, CloseBooks DEF Paid
<1> QED
  BY <1>1, <1>2, <1>3, <1>4, <1>5 DEF Requests

(* The later steps of a request.                                           *)
LEMMA HandlingPays ==
  ASSUME TypeInv, Handling
  PROVE  Paid
<1>0. box \in BoxType /\ writer.frame \in FrameSet /\ conn \in ConnType /\ HandlerOK
  BY AccountTypes DEF TypeInv, ConnOK
<1>1. ASSUME DetachPurge
      PROVE  Paid
  <2>1. conn.of \in Streams
    BY <1>0, <1>1 DEF DetachPurge, HandlerOK, Streams
  <2>2. Careful(box, writer.frame, box', writer.frame)
    BY <1>0, <1>1, <2>1, PurgeBooks DEF DetachPurge
  <2>3. conn'.failed = conn.failed
    BY <1>0, <1>1 DEF DetachPurge, ConnType
  <2> QED
    BY <1>1, <2>2, <2>3 DEF DetachPurge, Paid
<1>2. ASSUME NEW n \in ReplySizes, DetachAnswer(n)
      PROVE  Paid
  <2>1. \/ Admits(box, n, TRUE) /\ box' = Push(box, Frame("reply", System, n))
        \/ box' = box
    BY <1>2 DEF DetachAnswer, Answer, Overflows, Frame
  <2>2. conn.failed => conn'.failed
    BY <1>0, <1>2 DEF DetachAnswer, Answer, Overflows, Leave, ConnType
  <2> QED
    BY <1>2, <2>1, <2>2, AnswerPays DEF DetachAnswer
<1>3. ASSUME NEW n \in ReplySizes, OpenWatch(n)
      PROVE  Paid
  <2>1. conn.of \in Monitors /\ "watching" \in Kinds /\ conn.of \in Lanes \cup {Nobody}
    BY <1>0, <1>3 DEF OpenWatch, HandlerOK, Kinds, Lanes, Streams, Ordered
  <2>2. \/ Admits(box, n, TRUE) /\ box' = Push(box, Frame("watching", conn.of, n))
        \/ box' = box
    BY <1>3 DEF OpenWatch, Overflows
  <2>3. Careful(box, writer.frame, box', writer.frame)
    BY <1>0, <2>1, <2>2, ReplyBooks, CloseBooks
  <2>4. conn.failed => conn'.failed
    BY <1>0, <1>3 DEF OpenWatch, Overflows, Leave, ConnType
  <2> QED
    BY <1>3, <2>3, <2>4 DEF OpenWatch, Paid
<1>4. ASSUME ReplaceWatch
      PROVE  Paid
  <2>1. conn.slot \in Streams
    BY <1>0, <1>4 DEF ReplaceWatch, HandlerOK, Streams, Ordered
  <2>2. Careful(box, writer.frame, box', writer.frame)
    BY <1>0, <1>4, <2>1, PurgeBooks DEF ReplaceWatch
  <2>3. conn'.failed = conn.failed
    BY <1>0, <1>4 DEF ReplaceWatch, ConnType
  <2> QED
    BY <1>4, <2>2, <2>3 DEF ReplaceWatch, Paid
<1> QED
  BY <1>1, <1>2, <1>3, <1>4 DEF Handling

(* The hub lets go of the connection.                                      *)
LEMMA HubClosePays ==
  ASSUME TypeInv, HubClose
  PROVE  Paid
<1>0. box \in BoxType /\ writer.frame \in FrameSet /\ conn \in ConnType
  BY AccountTypes
<1>1. Careful(box, writer.frame, box', writer.frame)
  <2>1. CASE conn.slot = Nobody
    BY <1>0, <2>1, CloseBooks DEF HubClose
  <2>2. CASE conn.slot # Nobody
    <3>1. conn.slot \in Streams
      BY <1>0, <2>2 DEF ConnType, Streams, Ordered
    <3> QED
      BY <1>0, <2>2, <3>1, PurgeBooks DEF HubClose
  <2> QED
    BY <2>1, <2>2
<1>2. conn'.failed = conn.failed
  BY <1>0 DEF HubClose, ConnType
<1> QED
  BY <1>1, <1>2 DEF HubClose, Paid

(* A paid step keeps the books.                                            *)
LEMMA PaidStep ==
  ASSUME AccountInv, TypeInv', Paid
  PROVE  AccountInv'
  BY DEF AccountInv, Paid, Careful

(* The connection task closes the outbox and, after a failure, aborts the  *)
(* writer.                                                                 *)
LEMMA CloseLaneAccounts ==
  ASSUME AccountInv, TypeInv', CloseLane
  PROVE  AccountInv'
<1>0. /\ box \in BoxType /\ writer.frame \in FrameSet /\ conn \in ConnType
      /\ writer \in WriterType
  BY AccountTypes DEF AccountInv, TypeInv, WritersOK
<1>1. box' = Close(box) /\ conn'.failed = conn.failed
  BY <1>0 DEF CloseLane, ConnType
<1>2. CASE ~conn.failed
  <2>1. writer' = writer
    BY <1>2 DEF CloseLane
  <2>2. Paid
    BY <1>0, <1>1, <2>1, CloseBooks DEF Paid
  <2> QED
    BY <2>2, PaidStep
<1>3. CASE conn.failed
  <2>1. writer'.frame = NoFrame
    BY <1>0, <1>3 DEF CloseLane, WriterType
  <2>2. Kept(box, NoFrame)
    BY <1>0, AbortBooks DEF AccountInv
  <2>3. Kept(box', NoFrame)
    BY <1>0, <1>1, <2>2, CloseBooks DEF Careful
  <2> QED
    BY <1>1, <1>3, <2>1, <2>3 DEF AccountInv
<1> QED
  BY <1>2, <1>3

(* A step of the writer that hands over the frame in flight.               *)
LEMMA HandedStep ==
  ASSUME AccountInv, TypeInv', Careful(box, writer.frame, box', writer'.frame),
         conn' = conn, writer'.pc # "writing" => writer'.frame = NoFrame
  PROVE  AccountInv'
  BY DEF AccountInv, Careful

(* recv hands the writer a frame that stays charged.                       *)
LEMMA RecvAccounts ==
  ASSUME AccountInv, TypeInv', Recv
  PROVE  AccountInv'
<1>0. box \in BoxType /\ box \in Good /\ writer \in WriterType
  BY AccountTypes DEF AccountInv, TypeInv, WritersOK
<1>1. writer.frame = NoFrame
  BY DEF AccountInv, Recv, Receiving
<1>2. CASE FromFloor(box) /\ Popped([box EXCEPT !.floor = Tail(@)], Head(box.floor))
  <2> DEFINE h == Head(box.floor)
  <2>1. box.floor # <<>>
    BY <1>2 DEF FromFloor
  <2>2. /\ box' = FinishPop([box EXCEPT !.floor = Tail(@)], h)
        /\ writer' = [writer EXCEPT !.pc = "writing", !.frame = h]
        /\ conn' = conn
    BY <1>2 DEF Popped
  <2>3. Careful(box, NoFrame, box', h)
    BY <1>0, <2>1, <2>2, PopFloorBooks
  <2> HIDE DEF h
  <2>4. writer'.pc = "writing" /\ writer'.frame = h
    BY <1>0, <2>2 DEF WriterType
  <2> QED
    BY <1>1, <2>2, <2>3, <2>4, HandedStep
<1>3. ASSUME NEW k \in Lanes, FromLane(box, k), Popped(PopLane(box, k), Head(box.lanes[k]))
      PROVE  AccountInv'
  <2> DEFINE h == Head(box.lanes[k])
  <2>1. box.lanes[k] # <<>>
    BY <1>0, <1>3, FromLaneHasFrame
  <2>2. /\ box' = FinishPop(PopLane(box, k), h)
        /\ writer' = [writer EXCEPT !.pc = "writing", !.frame = h]
        /\ conn' = conn
    BY <1>3 DEF Popped
  <2>3. Careful(box, NoFrame, box', h)
    BY <1>0, <2>1, <2>2, PopLaneBooks
  <2> HIDE DEF h
  <2>4. writer'.pc = "writing" /\ writer'.frame = h
    BY <1>0, <2>2 DEF WriterType
  <2> QED
    BY <1>1, <2>2, <2>3, <2>4, HandedStep
<1> QED
  BY <1>2, <1>3 DEF Recv

(* A write that ends, well or not, is refunded.                            *)
LEMMA SettledAccounts ==
  ASSUME AccountInv, TypeInv', WriteDone \/ WriteFails
  PROVE  AccountInv'
<1>0. box \in BoxType /\ writer \in WriterType /\ writer.frame \in FrameSet
  BY AccountTypes DEF AccountInv, TypeInv, WritersOK
<1>1. conn' = conn
  BY DEF WriteDone, WriteFails
<1>2. writer'.frame = NoFrame
  BY <1>0 DEF WriteDone, WriteFails, WriterType
<1>3. CASE writer.pc = "writing"
  <2>1. box' = Credit(box, writer.frame)
    BY <1>3 DEF WriteDone, WriteFails
  <2>2. Careful(box, writer.frame, box', writer'.frame)
    BY <1>0, <1>2, <2>1, CreditBooks
  <2> QED
    BY <1>1, <1>2, <2>2, HandedStep
<1>4. CASE writer.pc # "writing"
  <2>1. box' = box
    BY <1>4 DEF WriteDone, WriteFails
  <2>2. writer.frame = NoFrame
    BY <1>4 DEF AccountInv
  <2>3. Careful(box, writer.frame, box', writer'.frame)
    BY <1>0, <1>2, <2>1, <2>2, CloseBooks
  <2> QED
    BY <1>1, <1>2, <2>3, HandedStep
<1> QED
  BY <1>3, <1>4

(* The other steps of the writer keep the frame in flight.                 *)
LEMMA IdleAccounts ==
  ASSUME AccountInv, TypeInv',
         \/ Look \/ SelectNotice \/ SelectClosed \/ RecvNone
         \/ AdoptNotice \/ FireNotice \/ Final \/ NoticeDone
  PROVE  AccountInv'
<1>0. box \in BoxType /\ writer \in WriterType
  BY AccountTypes DEF AccountInv, TypeInv, WritersOK
<1>1. conn' = conn /\ (box' = box \/ box' = [box EXCEPT !.closed = TRUE])
  BY DEF Look, SelectNotice, SelectClosed, RecvNone, AdoptNotice, FireNotice, Final, NoticeDone
<1>2. SameStock(box, box')
  BY <1>0, <1>1 DEF BoxType, SameStock
<1>3. CASE AdoptNotice
  <2>1. writer'.pc = writer.pc /\ writer'.frame = writer.frame
    BY <1>0, <1>3 DEF AdoptNotice, WriterType
  <2>2. writer'.pc # "writing" => writer'.frame = NoFrame
    BY <2>1 DEF AccountInv
  <2>3. Careful(box, writer.frame, box', writer'.frame)
    BY <1>2, <2>1, SameBooks
  <2> QED
    BY <1>1, <2>2, <2>3, HandedStep
<1>4. CASE ~AdoptNotice
  <2>1. writer.pc # "writing" /\ writer'.frame = writer.frame
    BY <1>0, <1>4 DEF Look, SelectNotice, SelectClosed, RecvNone, Receiving, FireNotice,
       Final, NoticeDone, WriterType
  <2>2. writer'.frame = NoFrame
    BY <2>1 DEF AccountInv
  <2>3. Careful(box, writer.frame, box', writer'.frame)
    BY <1>2, <2>1, SameBooks
  <2> QED
    BY <1>1, <2>2, <2>3, HandedStep
<1> QED
  BY <1>3, <1>4

(* A new outbox is empty.                                                  *)
LEMMA AccountsInitially ==
  ASSUME Init
  PROVE  AccountInv
<1>0. TypeInv /\ box \in BoxType
  BY TypeInitially, AccountTypes
<1>1. /\ \A k \in Lanes : box.lanes[k] = <<>>
      /\ box.floor = <<>> /\ box.frames = 0 /\ box.bytes = 0 /\ box.floorInUse = 0
      /\ writer.frame = NoFrame
  BY DEF Init, EmptyBox
<1>2. Len(<<>>) = 0 /\ Bytes(<<>>) = 0
  BY BytesNone
<1> DEFINE Z == [k \in Lanes |-> 0]
<1>3. Counts(box) = Z /\ Sizes(box) = Z
  BY <1>1, <1>2 DEF Counts, Sizes
<1>4. Cells(Z) = {}
  <2>1. 1 .. 0 = {}
    OBVIOUS
  <2>2. DOMAIN Z = Lanes /\ \A k \in Lanes : Z[k] = 0
    OBVIOUS
  <2> HIDE DEF Z
  <2> DEFINE F == [k \in DOMAIN Z |-> 1 .. Z[k]]
  <2>3. DOMAIN F = Lanes /\ \A k \in Lanes : F[k] = {}
    BY <2>1, <2>2
  <2> HIDE DEF F
  <2>4. \A e : e \notin Tagged(F)
    BY <2>3, TaggedMembers
  <2> QED
    BY <2>4 DEF Cells, F
<1> HIDE DEF Z
<1>5. IsFiniteSet(Cells(Z)) /\ Load(Z) = 0
  BY <1>4, FS_EmptySet DEF Load
<1>6. Stock(box)
  <2>1. ASSUME NEW k \in Lanes
        PROVE  \A i \in 1 .. Len(box.lanes[k]) : ~box.lanes[k][i].floor
    BY <1>1, <1>2
  <2> QED
    BY <1>1, <1>2, <1>3, <1>5, <2>1 DEF Stock
<1>7. Books(box, NoFrame) /\ Even(box, NoFrame)
  BY <1>1, <1>2, <1>3, <1>5, NoFlight, OutboxAssumption DEF Books, Even
<1> QED
  BY <1>0, <1>1, <1>6, <1>7 DEF AccountInv, Kept

(* The invariant AccountInv: the counters are at least what the outbox     *)
(* holds and what is in flight, exactly that until the connection fails,   *)
(* and never above the bounds.                                             *)
THEOREM AccountInvariant == Spec => []AccountInv
<1>1. Init => AccountInv
  BY AccountsInitially
<1>2. AccountInv /\ [Next]_vars => AccountInv'
  <2> SUFFICES ASSUME AccountInv, [Next]_vars
               PROVE  AccountInv'
    OBVIOUS
  <2>0. TypeInv /\ TypeInv'
    BY TypeStep DEF AccountInv
  <2>1. CASE UNCHANGED vars
    <3>1. UNCHANGED <<box, conn, writer>>
      BY <2>1 DEF vars
    <3> QED
      BY <2>0, <3>1 DEF AccountInv
  <2>2. CASE \E s \in Streams : Delivery(s) \/ Streaming(s)
    BY <2>0, <2>2, DeliveryPays, StreamingPays, PaidStep
  <2>3. CASE Requests \/ \E n \in ReplySizes : Breach(n)
    <3>1. Requests
      BY <2>3 DEF Breach, Requests
    <3> QED
      BY <2>0, <3>1, RequestPays, PaidStep
  <2>4. CASE Handling \/ HubClose
    BY <2>0, <2>4, HandlingPays, HubClosePays, PaidStep
  <2>5. CASE CloseLane
    BY <2>0, <2>5, CloseLaneAccounts
  <2>6. CASE Scheduling \/ Writing \/ WriteFails
    BY <2>0, <2>6, RecvAccounts, SettledAccounts, IdleAccounts DEF Scheduling, Writing
  <2> QED
    BY <2>1, <2>2, <2>3, <2>4, <2>5, <2>6 DEF Next, Teardown, Over
<1> QED
  BY <1>1, <1>2, PTL DEF Spec

(* AccountingExact: for any streams, sizes and bounds the frame counter is *)
(* the number of frames queued, and until the connection fails the byte    *)
(* counter and the floor slot are what is queued or being written.  No     *)
(* pop, credit, purge or splice loses or repeats a charge.                 *)
THEOREM AccountsBalance == Spec => []AccountingExact
<1>1. AccountInv => AccountingExact
  <2> SUFFICES ASSUME AccountInv
               PROVE  AccountingExact
    OBVIOUS
  <2>0. box \in BoxType /\ writer.frame \in FrameSet
    BY AccountTypes DEF AccountInv
  <2>1. Total([k \in Lanes |-> Len(box.lanes[k])]) = Load(Counts(box))
    BY TotalIsLoad DEF Counts
  <2>2. QueuedBytes(box) = Load(Sizes(box))
    BY TotalIsLoad DEF Sizes, QueuedBytes
  <2>3. writer.frame.floor \in BOOLEAN
    BY <2>0, FlightType
  <2>4. InFlight(FALSE) = Held(writer.frame)
    BY <2>3 DEF InFlight, Held
  <2> QED
    BY <2>1, <2>2, <2>4 DEF AccountInv, Kept, Books, Even, AccountingExact, OnFloor
<1> QED
  BY <1>1, AccountInvariant, PTL

(* WorstCase: what a connection has allocated, queued or being written,    *)
(* never exceeds the byte budget and one reply of the floor's allowance,   *)
(* whatever the client, the streams and the writer do.                     *)
THEOREM MemoryIsBounded == Spec => []WorstCase
<1>1. AccountInv => WorstCase
  <2> SUFFICES ASSUME AccountInv
               PROVE  WorstCase
    OBVIOUS
  <2> DEFINE f == writer.frame
             p == box.floor
             t == InFlight(TRUE)
  <2>0. box \in BoxType /\ f \in FrameSet /\ p \in Seq(FrameSet)
    BY AccountTypes, BoxFields DEF AccountInv
  <2>1. Stock(box) /\ Books(box, f)
    BY DEF AccountInv, Kept
  <2>2. QueuedBytes(box) = Load(Sizes(box))
    BY TotalIsLoad DEF Sizes, QueuedBytes
  <2>3. /\ f.size \in Nat /\ f.floor \in BOOLEAN /\ Held(f) \in Nat /\ OnFloor(f) \in 0 .. 1
        /\ Load(Sizes(box)) \in Nat /\ box.bytes \in Nat /\ box.floorInUse \in Nat
        /\ Len(p) \in Nat /\ ByteBudget \in Nat /\ FloorAllowance \in Nat
    BY <2>0, <2>1, FlightType, StockType, OutboxAssumption
  <2>4. InFlight(FALSE) = Held(f) /\ t = IF f.floor THEN f.size ELSE 0
    BY <2>3 DEF InFlight, Held
  <2> HIDE DEF f, t
  <2>5. QueuedBytes(box) + InFlight(FALSE) <= ByteBudget
    <3>1. Load(Sizes(box)) + Held(f) <= box.bytes /\ box.bytes <= ByteBudget
      BY <2>1 DEF Books
    <3>2. Load(Sizes(box)) + Held(f) <= ByteBudget
      BY <2>3, <3>1
    <3> QED
      BY <2>2, <2>4, <3>2
  <2>6. /\ Len(p) + OnFloor(f) <= box.floorInUse /\ box.floorInUse <= 1
        /\ f.floor => f.size <= FloorAllowance
    BY <2>1 DEF Books
  <2>7. CASE Len(p) = 0
    <3>1. Bytes(p) = 0
      BY <2>0, <2>7, BytesNone
    <3>2. t \in Nat /\ t <= FloorAllowance
      BY <2>3, <2>4, <2>6
    <3>3. Bytes(p) + t <= FloorAllowance
      BY <2>3, <3>1, <3>2
    <3> QED
      BY <2>5, <3>3 DEF WorstCase, t
  <2>8. CASE Len(p) > 0
    <3> HIDE DEF p
    <3>1. Len(p) = 1 /\ OnFloor(f) = 0
      BY <2>3, <2>6, <2>8, OnePlace
    <3>2. ~f.floor
      BY <3>1 DEF OnFloor
    <3>3. p[1].size <= FloorAllowance
      BY <2>1, <3>1 DEF Stock, p
    <3>4. Bytes(p) = p[1].size /\ p[1].size \in Nat
      <4>1. 1 \in 1 .. Len(p) /\ <<>> \in Seq(FrameSet) /\ Len(<<>>) = Len(p) - 1
        BY <3>1
      <4>2. \A j \in 1 .. Len(<<>>) : <<>>[j] = IF j < 1 THEN p[j] ELSE p[j + 1]
        OBVIOUS
      <4>3. Bytes(p) = Bytes(<<>>) + p[1].size /\ p[1].size \in Nat
        BY <2>0, <4>1, <4>2, BytesRemove
      <4> QED
        BY <4>3, BytesNone
    <3>5. Bytes(box.floor) + InFlight(TRUE) <= FloorAllowance
      <4>1. t = 0
        BY <2>4, <3>2
      <4>2. Bytes(p) + t <= FloorAllowance
        BY <2>3, <3>3, <3>4, <4>1
      <4> QED
        BY <4>2 DEF p, t
    <3> QED
      BY <2>5, <3>5 DEF WorstCase
  <2> QED
    BY <2>3, <2>7, <2>8
<1> QED
  BY <1>1, AccountInvariant, PTL

=============================================================================
