------------------------- MODULE GroupCommitProofs -------------------------
(***************************************************************************)
(* Theorems about GroupCommit, for any sessions, weights, limits and       *)
(* number of faults: a command is applied once, permits and the counter of *)
(* admitted mutations are exact, and the group is invisible (the           *)
(* specification implements CommandStore).                                 *)
(***************************************************************************)
EXTENDS GroupCommit, SequenceTheorems, FiniteSetTheorems, TLAPS

(* No message is in two places, or in one place twice, and a producer is   *)
(* where its own state says.                                               *)
Places ==
    /\ IsInjective(waiters) /\ IsInjective(line) /\ IsInjective(queue)
    /\ IsInjective(comm.group)
    /\ \A p \in Members(waiters) : at[p] = "permit"
    /\ \A p \in Members(line) \ {Stop} : at[p] = "line"
    /\ \A p \in Members(queue) \ {Stop} : at[p] = "queued"
    /\ \A p \in Members(comm.group) : at[p] = "queued"
    /\ \A p \in Members(comm.carried) : at[p] = "queued"
    /\ Members(queue) \cap Members(comm.group) = {}
    /\ Members(queue) \cap Members(comm.carried) = {}
    /\ Members(comm.group) \cap Members(comm.carried) = {}

(* The Shutdown message is sent once, when no actor has a request left.    *)
StopIsLast ==
    /\ Stop \in Members(line) \cup Members(queue) \/ comm.stop \/ comm.at = "stopped"
         => phase \in {"stopping", "down"}
    /\ phase \in {"stopping", "down"} => \A s \in Sessions : at[s] = "idle"
    /\ comm.stop \/ comm.at = "stopped" => Stop \notin Members(line) \cup Members(queue)
    /\ Stop \in Members(line) => Stop \notin Members(queue)

(* What the committer holds at each point of its loop.                     *)
Loop ==
    /\ comm.at \in {"idle", "stopped"} <=> comm.group = <<>>
    /\ comm.at \in {"idle", "collecting"} => ~comm.stop
    /\ comm.at = "collecting" \/ comm.stop => comm.carried = <<>>
    /\ comm.at = "stopped" => queue = <<>> /\ comm.carried = <<>>

(* What a producer holds at each point of its request.                     *)
Hands ==
    /\ \A p \in Producers : /\ at[p] = "idle" <=> req[p] = NoRequest
                            /\ at[p] = "answered" <=> answer[p] # "none"
    /\ \A s \in Sessions : at[s] # "idle" => /\ req[s].id = next[s]
                                             /\ again[s] => req[s].kind = "accept"

Durable(s, id) == \E i \in 1..Len(journal[s]) : journal[s][i] = id

(* Receipts against the journal. The current request of a session is the   *)
(* last that may be in its journal; if it is there, it was an acceptance   *)
(* that left its receipt, unless its append is just being answered.        *)
Receipted ==
    \A s \in Sessions :
        /\ \A id \in receipts[s] : Durable(s, id)
        /\ \A i \in 1..Len(journal[s]) : journal[s][i] <= next[s]
        /\ journal[s] # <<>> => Len(journal[s]) <= journal[s][Len(journal[s])]
        /\ Durable(s, next[s]) =>
              \/ again[s] /\ next[s] \in receipts[s]
              \/ at[s] = "answered" /\ (req[s].kind = "accept" => next[s] \in receipts[s])

(* Permits and admissions; the counter is no longer kept when the          *)
(* committer ends with requests in its channel.                            *)
Admission ==
    /\ IsFiniteSet(rows)
    /\ IsFiniteSet(Charged)
    /\ free + Cardinality(Permits(Charged)) = QueueBytes
    /\ admitted >= Cardinality(Charged)
    /\ comm.at # "stopped" => admitted = Cardinality(Charged)

(* The inductive invariant.                                                *)
GroupInv ==
    TypeOK /\ Places /\ StopIsLast /\ Loop /\ Hands /\ Receipted /\ AppliedOnce /\ Admission

-----------------------------------------------------------------------------
(* Sequences without repetition.                                           *)

(* A queue and the set of its members.                                     *)
LEMMA SeqMembers ==
  ASSUME NEW S, NEW q \in Seq(S)
  PROVE  /\ Members(q) \subseteq S
         /\ q = <<>> <=> Members(q) = {}
         /\ q = <<>> <=> Len(q) = 0
  BY DEF Members

(* Nothing, and a single message.                                          *)
LEMMA SeqSmall ==
  ASSUME NEW S, NEW x \in S
  PROVE  /\ Members(<<>>) = {} /\ IsInjective(<<>>) /\ <<>> \in Seq(S)
         /\ Members(<<x>>) = {x} /\ IsInjective(<<x>>) /\ <<x>> \in Seq(S)
  BY DEF Members, IsInjective

(* A queue of at most one message repeats nothing.                         *)
LEMMA SeqSingle ==
  ASSUME NEW S, NEW q \in Seq(S), q # <<>>, Len(q) <= 1
  PROVE  Len(q) = 1 /\ IsInjective(q)
<1>1. Len(q) \in Nat \ {0} /\ DOMAIN q = 1..Len(q)
  BY EmptySeq, LenProperties
<1>2. Len(q) = 1
  BY <1>1
<1>3. DOMAIN q = {1}
  BY <1>1, <1>2
<1> QED
  BY <1>2, <1>3 DEF IsInjective

(* A message joins at the end.                                             *)
LEMMA SeqAppend ==
  ASSUME NEW S, NEW q \in Seq(S), NEW x \in S
  PROVE  /\ Append(q, x) \in Seq(S)
         /\ Len(Append(q, x)) = Len(q) + 1
         /\ Append(q, x) # <<>>
         /\ Members(Append(q, x)) = Members(q) \cup {x}
         /\ IsInjective(q) /\ x \notin Members(q) => IsInjective(Append(q, x))
<1>1. /\ Append(q, x) \in Seq(S)
      /\ Len(Append(q, x)) = Len(q) + 1
      /\ Append(q, x) # <<>>
      /\ \A i \in 1..Len(q) : Append(q, x)[i] = q[i]
      /\ Append(q, x)[Len(q) + 1] = x
      /\ DOMAIN Append(q, x) = 1..(Len(q) + 1)
  BY AppendProperties, LenProperties
<1>2. Len(q) \in Nat /\ DOMAIN q = 1..Len(q)
  BY LenProperties
<1>3. Members(Append(q, x)) = Members(q) \cup {x}
  BY <1>1, <1>2 DEF Members
<1>4. IsInjective(q) /\ x \notin Members(q) => IsInjective(Append(q, x))
  BY <1>1, <1>2 DEF Members, IsInjective
<1> QED
  BY <1>1, <1>3, <1>4

(* The first message leaves.                                               *)
LEMMA SeqTail ==
  ASSUME NEW S, NEW q \in Seq(S), q # <<>>
  PROVE  /\ Head(q) \in S
         /\ Tail(q) \in Seq(S)
         /\ Len(Tail(q)) = Len(q) - 1
         /\ Members(q) = Members(Tail(q)) \cup {Head(q)}
         /\ IsInjective(q) => IsInjective(Tail(q)) /\ Head(q) \notin Members(Tail(q))
<1>1. /\ Head(q) \in S
      /\ Tail(q) \in Seq(S)
      /\ Len(Tail(q)) = Len(q) - 1
      /\ \A i \in 1..Len(Tail(q)) : Tail(q)[i] = q[i + 1]
  BY HeadTailProperties
<1>2. Len(q) \in Nat \ {0} /\ DOMAIN q = 1..Len(q) /\ Head(q) = q[1]
  BY LenProperties
<1>3. DOMAIN Tail(q) = 1..(Len(q) - 1)
  BY <1>1, LenProperties
<1>4. Members(q) = Members(Tail(q)) \cup {Head(q)}
  <2>1. ASSUME NEW x \in Members(q) PROVE x \in Members(Tail(q)) \cup {Head(q)}
    <3>1. PICK i \in 1..Len(q) : x = q[i]
      BY DEF Members
    <3>2. i # 1 => i - 1 \in 1..Len(Tail(q)) /\ Tail(q)[i - 1] = q[i]
      BY <1>1, <1>2
    <3> QED
      BY <3>1, <3>2, <1>2 DEF Members
  <2>2. Members(Tail(q)) \cup {Head(q)} \subseteq Members(q)
    BY <1>1, <1>2 DEF Members
  <2> QED
    BY <2>1, <2>2
<1>5. ASSUME IsInjective(q) PROVE IsInjective(Tail(q)) /\ Head(q) \notin Members(Tail(q))
  BY <1>1, <1>2, <1>3, <1>5 DEF Members, IsInjective
<1> QED
  BY <1>1, <1>4, <1>5

(* A queue without repetition has as many members as messages.             *)
LEMMA SeqCount ==
  ASSUME NEW S, NEW q \in Seq(S), IsInjective(q)
  PROVE  IsFiniteSet(Members(q)) /\ Cardinality(Members(q)) = Len(q)
<1>1. Len(q) \in Nat /\ DOMAIN q = 1..Len(q)
  BY LenProperties
<1>2. q \in Bijection(1..Len(q), Members(q))
  <2>1. q \in [1..Len(q) -> Members(q)]
    BY LenProperties DEF Members
  <2> QED
    BY <1>1, <2>1 DEF Bijection, Injection, Surjection, IsInjective, Members
<1>3. ExistsBijection(1..Len(q), Members(q))
  BY <1>2 DEF ExistsBijection
<1> QED
  BY <1>1, <1>3, FS_NatBijection, FS_CountingElements

(* The members of any queue are finitely many.                             *)
LEMMA SeqFinite ==
  ASSUME NEW S, NEW q \in Seq(S)
  PROVE  IsFiniteSet(Members(q))
<1>1. Len(q) \in Nat /\ q \in [1..Len(q) -> S]
  BY LenProperties
<1>2. q \in Surjection(1..Len(q), Members(q))
  BY <1>1 DEF Surjection, Members
<1> QED
  BY <1>1, <1>2, FS_NatSurjection DEF ExistsSurjection

-----------------------------------------------------------------------------
(* Permits.                                                                *)

(* A charge is at least 1 and at most the whole semaphore.                 *)
LEMMA ChargeBounds ==
  ASSUME TypeOK, NEW p \in Producers
  PROVE  Charge(p) \in 1..QueueBytes
<1>1. req[p].weight \in Nat
  <2>1. \A s \in Sessions : req[s] \in SessionRequests \cup {NoRequest}
    BY DEF TypeOK
  <2>2. req[Hooks] \in AckRequests \cup {NoRequest}
    BY DEF TypeOK
  <2>3. NoRequest.weight \in Nat
    BY DEF NoRequest
  <2>4. \A r \in SessionRequests : r.weight \in Weights
    BY DEF SessionRequests
  <2>5. \A r \in AckRequests : r.weight \in Nat
    BY DEF AckRequests
  <2>6. \A v \in Weights : v \in Nat
    BY CommitAssumption
  <2>7. p \in Sessions \/ p = Hooks
    BY DEF Producers
  <2> QED
    BY <2>1, <2>2, <2>3, <2>4, <2>5, <2>6, <2>7
<1>2. QueueBytes \in Nat /\ QueueBytes >= 1
  BY CommitAssumption
<1> DEFINE w == req[p].weight
<1>3. Charge(p) = IF w = 0 THEN 1 ELSE IF w > QueueBytes THEN QueueBytes ELSE w
  BY DEF Charge
<1> HIDE DEF w
<1>4. w \in Nat
  BY <1>1 DEF w
<1> QED
  BY <1>2, <1>3, <1>4

(* Permits are counted by producer.                                        *)
LEMMA PermitsCount ==
  ASSUME TypeOK, NEW P \in SUBSET Producers, IsFiniteSet(P)
  PROVE  /\ IsFiniteSet(Permits(P))
         /\ Cardinality(Permits(P)) \in Nat
<1>1. Permits(P) \subseteq P \X (1..QueueBytes)
  BY ChargeBounds, CommitAssumption DEF Permits
<1>2. IsFiniteSet(1..QueueBytes)
  BY FS_Interval, CommitAssumption
<1> QED
  BY <1>1, <1>2, FS_Product, FS_Subset, FS_CardinalityType

(* The permits of two groups of producers.                                 *)
LEMMA PermitsSplit ==
  ASSUME TypeOK, NEW P \in SUBSET Producers, IsFiniteSet(P), NEW Q \in SUBSET P
  PROVE  Cardinality(Permits(P)) = Cardinality(Permits(Q)) + Cardinality(Permits(P \ Q))
<1>1. IsFiniteSet(Q) /\ IsFiniteSet(P \ Q)
  BY FS_Subset
<1>2. Permits(P) = Permits(Q) \cup Permits(P \ Q)
  BY DEF Permits
<1>3. Permits(Q) \cap Permits(P \ Q) = {}
  BY DEF Permits
<1>4. /\ IsFiniteSet(Permits(Q)) /\ Cardinality(Permits(Q)) \in Nat
      /\ IsFiniteSet(Permits(P \ Q)) /\ Cardinality(Permits(P \ Q)) \in Nat
  BY <1>1, PermitsCount
<1>5. Cardinality(Permits(Q) \cup Permits(P \ Q)) =
        Cardinality(Permits(Q)) + Cardinality(Permits(P \ Q))
          - Cardinality(Permits(Q) \cap Permits(P \ Q))
  BY <1>4, FS_Union
<1>6. Cardinality(Permits(Q) \cap Permits(P \ Q)) = 0
  BY <1>3, FS_EmptySet
<1> QED
  BY <1>2, <1>4, <1>5, <1>6

(* One producer holds what it is charged.                                  *)
LEMMA PermitsOfOne ==
  ASSUME TypeOK, NEW p \in Producers
  PROVE  Cardinality(Permits({p})) = Charge(p)
<1>1. Permits({p}) = {p} \X (1..Charge(p))
  BY DEF Permits
<1>2. Charge(p) \in Nat /\ Charge(p) >= 1
  BY ChargeBounds, CommitAssumption
<1>3. IsFiniteSet(1..Charge(p)) /\ Cardinality(1..Charge(p)) = Charge(p)
  BY <1>2, FS_Interval
<1>4. IsFiniteSet({p}) /\ Cardinality({p}) = 1
  BY FS_Singleton
<1>5. Cardinality({p} \X (1..Charge(p))) = 1 * Charge(p)
  BY <1>3, <1>4, FS_Product
<1>6. Cardinality(Permits({p})) = Cardinality({p} \X (1..Charge(p)))
  BY <1>1, Zenon
<1> QED
  BY <1>2, <1>5, <1>6

-----------------------------------------------------------------------------
(* The initial state.                                                      *)

(* The invariant holds initially.                                          *)
LEMMA GroupInit ==
  ASSUME Init
  PROVE  GroupInv
<1>1. /\ Members(<<>>) = {} /\ IsInjective(<<>>)
  BY DEF Members, IsInjective
<1>2. Charged = {}
  BY DEF Init, Charged
<1>3. Permits(Charged) = {}
  BY <1>2 DEF Permits
<1>4. TypeOK
  <2>1. /\ journal \in [Sessions -> Seq(Ids)]
        /\ receipts \in [Sessions -> SUBSET Ids]
        /\ rows \subseteq Coordinates
        /\ next \in [Sessions -> 1..(MaxRequests + 1)]
        /\ again \in [Sessions -> BOOLEAN]
    BY CommitAssumption DEF Init
  <2>2. /\ req = [p \in Producers |-> req[p]]
        /\ \A s \in Sessions : req[s] \in SessionRequests \cup {NoRequest}
        /\ req[Hooks] \in AckRequests \cup {NoRequest}
    BY DEF Init, Producers
  <2>3. /\ at \in [Producers -> {"idle", "permit", "line", "queued", "answered"}]
        /\ answer \in [Producers -> Answers \cup {"none"}]
        /\ free \in 0..QueueBytes
        /\ waiters \in Seq(Producers)
        /\ line \in Seq(Producers \cup {Stop})
        /\ queue \in Seq(Producers \cup {Stop}) /\ Len(queue) <= QueueMax
    BY CommitAssumption DEF Init
  <2>4. /\ comm \in [at : {"idle", "collecting", "commit", "stopped"},
                     group : Seq(Producers), carried : Seq(Producers), stop : BOOLEAN]
        /\ Len(comm.group) <= GroupMax /\ Len(comm.carried) <= 1
        /\ admitted \in Nat
        /\ phase \in {"open", "draining", "stopping", "down"}
        /\ faults \in 0..MaxFaults
    BY CommitAssumption DEF Init, Resting
  <2> QED
    BY <2>1, <2>2, <2>3, <2>4 DEF TypeOK
<1>5. Places /\ StopIsLast /\ Loop
  BY <1>1, CommitAssumption DEF Init, Places, StopIsLast, Loop, Resting
<1>6. Hands
  BY DEF Init, Hands, Producers
<1>7. Receipted /\ AppliedOnce
  BY DEF Init, Receipted, Durable, AppliedOnce
<1>8. Admission
  <2>1. Cardinality(Charged) = 0 /\ Cardinality(Permits(Charged)) = 0 /\ IsFiniteSet({})
    BY <1>2, <1>3, FS_EmptySet
  <2> QED
    BY <1>2, <2>1, CommitAssumption DEF Init, Admission
<1> QED
  BY <1>4, <1>5, <1>6, <1>7, <1>8 DEF GroupInv

-----------------------------------------------------------------------------
(* Steps that leave the journal alone.                                     *)

(* Where the current request stands matters to the journal only when it is *)
(* answered.                                                               *)
LEMMA JournalQuiet ==
  ASSUME Receipted, AppliedOnce, UNCHANGED <<journal, receipts, next, again>>,
         \A s \in Sessions : at[s] = "answered" => at'[s] = "answered" /\ req'[s] = req[s]
  PROVE  Receipted' /\ AppliedOnce'
  BY DEF Receipted, AppliedOnce, Durable

(* Nobody is admitted and nobody leaves.                                   *)
LEMMA AdmissionQuiet ==
  ASSUME Admission, Charged' = Charged, \A p \in Charged : req'[p] = req[p],
         free' = free, admitted' = admitted, IsFiniteSet(rows'),
         comm.at = "stopped" => comm'.at = "stopped"
  PROVE  Admission'
<1>1. \A p \in Charged : Charge(p)' = Charge(p)
  BY DEF Charge
<1>2. Permits(Charged)' = Permits(Charged)
  BY <1>1 DEF Permits
<1> QED
  BY <1>2 DEF Admission

(* A producer hands a request over.                                        *)
LEMMA AskKeeps ==
  ASSUME GroupInv, NEW p \in Producers, NEW r, at[p] = "idle", Ask(p, r),
         p # Hooks => r \in SessionRequests /\ r.id = next[p] /\ (again[p] => r.kind = "accept"),
         p = Hooks => r \in AckRequests,
         phase \in {"stopping", "down"} => p = Hooks
  PROVE  GroupInv'
<1> USE DEF GroupInv
<1>1. p \notin Members(waiters) /\ waiters \in Seq(Producers)
  BY DEF Places, TypeOK
<1>2. /\ waiters' \in Seq(Producers)
      /\ Members(waiters') = Members(waiters) \cup {p}
      /\ IsInjective(waiters')
  BY <1>1, SeqAppend DEF Ask, Places
<1>3. TypeOK'
  <2>1. req' = [q \in Producers |-> req'[q]] /\ req'[p] = r
    BY DEF Ask, TypeOK
  <2>2. \A q \in Producers \ {p} : req'[q] = req[q]
    BY DEF Ask, TypeOK
  <2>3. /\ \A s \in Sessions : req'[s] \in SessionRequests \cup {NoRequest}
        /\ req'[Hooks] \in AckRequests \cup {NoRequest}
    <3>1. /\ \A s \in Sessions : req[s] \in SessionRequests \cup {NoRequest}
          /\ req[Hooks] \in AckRequests \cup {NoRequest}
      BY DEF TypeOK
    <3>2. Hooks \in Producers /\ \A s \in Sessions : s \in Producers /\ s # Hooks
      BY CommitAssumption DEF Producers
    <3> QED
      BY <2>1, <2>2, <3>1, <3>2
  <2>4. at' \in [Producers -> {"idle", "permit", "line", "queued", "answered"}]
    BY DEF Ask, TypeOK
  <2>5. UNCHANGED <<journal, receipts, rows, next, again, answer, free, line, queue, comm,
                    admitted, phase, faults>>
    BY DEF Ask, durable, clients
  <2> QED
    BY <1>2, <2>1, <2>3, <2>4, <2>5 DEF TypeOK
<1>4. Places'
  <2>1. \A q \in Members(line) \ {Stop} : q # p
    BY DEF Places
  <2>2. \A q \in (Members(queue) \ {Stop}) \cup Members(comm.group) \cup Members(comm.carried) : q # p
    BY DEF Places
  <2>3. \A q : q # p /\ q # Stop => at'[q] = at[q]
    BY DEF Ask, TypeOK
  <2> QED
    BY <1>2, <2>1, <2>2, <2>3 DEF Ask, Places, TypeOK
<1>5. StopIsLast'
  BY CommitAssumption DEF StopIsLast, Ask, TypeOK, Producers
<1>6. Loop'
  BY DEF Loop, Ask
<1>7. Hands'
  <2>1. /\ req'[p] = r /\ at'[p] = "permit" /\ answer' = answer
        /\ next' = next /\ again' = again
    BY DEF Ask, TypeOK, clients
  <2>2. \A q \in Producers \ {p} : req'[q] = req[q] /\ at'[q] = at[q]
    BY DEF Ask, TypeOK
  <2>3. r # NoRequest
    BY DEF NoRequest, SessionRequests, AckRequests
  <2> QED
    BY <2>1, <2>2, <2>3, CommitAssumption DEF Hands, Producers
<1>8. Receipted' /\ AppliedOnce'
  BY JournalQuiet DEF Ask, TypeOK, durable, clients, Producers
<1>9. Admission'
  BY AdmissionQuiet DEF Ask, TypeOK, Charged, durable, Producers, Admission
<1> QED
  BY <1>3, <1>4, <1>5, <1>6, <1>7, <1>8, <1>9

(* An actor submits.                                                       *)
LEMMA SubmitKeeps ==
  ASSUME GroupInv, NEW s \in Sessions, Submit(s)
  PROVE  GroupInv'
<1>1. s \in Producers /\ s # Hooks
  BY CommitAssumption DEF Producers
<1> QED
  BY <1>1, AskKeeps DEF Submit

(* The hook engine submits.                                                *)
LEMMA SubmitAcksKeeps ==
  ASSUME GroupInv, SubmitAcks
  PROVE  GroupInv'
<1>1. PICK acks \in SUBSET rows \ {{}} :
        Ask(Hooks, [kind |-> "ack", acks |-> acks, weight |-> Cardinality(acks)])
  BY DEF SubmitAcks
<1>2. Cardinality(acks) \in Nat
  BY <1>1, FS_Subset, FS_CardinalityType DEF GroupInv, Admission
<1>3. [kind |-> "ack", acks |-> acks, weight |-> Cardinality(acks)] \in AckRequests
  BY <1>1, <1>2 DEF AckRequests, GroupInv, TypeOK
<1> QED
  BY <1>1, <1>3, AskKeeps DEF SubmitAcks, Producers

-----------------------------------------------------------------------------
(* What every step may take from the types.                                *)

(* The parts of the state, and who is who.                                 *)
LEMMA Parts ==
  ASSUME TypeOK
  PROVE  /\ waiters \in Seq(Producers)
         /\ line \in Seq(Producers \cup {Stop})
         /\ queue \in Seq(Producers \cup {Stop})
         /\ comm.group \in Seq(Producers) /\ comm.carried \in Seq(Producers)
         /\ Hooks \in Producers /\ Stop \notin Producers
         /\ \A s \in Sessions : s \in Producers /\ s # Hooks
         /\ at = [p \in Producers |-> at[p]]
  BY CommitAssumption DEF TypeOK, Producers

(* The ids of requests are numbers.                                        *)
LEMMA IdsAreNumbers ==
  ASSUME TypeOK, NEW s \in Sessions
  PROVE  /\ next[s] \in Nat /\ next[s] >= 1 /\ next[s] \in 1..(MaxRequests + 1)
         /\ next[s] \in Ids => next[s] + 1 \in 1..(MaxRequests + 1)
         /\ Len(journal[s]) \in Nat
         /\ \A i \in 1..Len(journal[s]) : journal[s][i] \in Nat
<1>1. MaxRequests \in Nat
  BY CommitAssumption
<1>2. next[s] \in 1..(MaxRequests + 1) /\ journal[s] \in Seq(Ids)
  BY DEF TypeOK
<1>3. next[s] \in Nat /\ next[s] >= 1
  BY <1>1, <1>2
<1>4. next[s] \in Ids => next[s] + 1 \in 1..(MaxRequests + 1)
  BY <1>1, <1>3 DEF Ids
<1>5. \A i \in 1..Len(journal[s]) : journal[s][i] \in Ids
  BY <1>2, ElementOfSeq
<1> QED
  BY <1>1, <1>2, <1>3, <1>4, <1>5, LenProperties DEF Ids

(* A request goes on.                                                      *)
LEMMA HandsQuiet ==
  ASSUME Hands, UNCHANGED <<req, answer, next, again>>,
         \A p \in Producers : /\ at'[p] = "idle" <=> at[p] = "idle"
                              /\ at'[p] = "answered" <=> at[p] = "answered"
  PROVE  Hands'
  BY DEF Hands, Producers

(* Producers are admitted.                                                 *)
LEMMA AdmissionJoin ==
  ASSUME TypeOK, Admission, NEW p \in Producers \ Charged, Charged' = Charged \cup {p},
         UNCHANGED <<req, rows, comm>>, Charge(p) <= free, free' = free - Charge(p),
         admitted' = admitted + 1
  PROVE  Admission' /\ free' \in 0..QueueBytes /\ admitted' \in Nat
<1>1. /\ IsFiniteSet(Charged \cup {p})
      /\ Cardinality(Charged \cup {p}) = Cardinality(Charged) + 1
      /\ Cardinality(Charged) \in Nat
  BY FS_AddElement, FS_CardinalityType DEF Admission
<1>2. Charged \cup {p} \in SUBSET Producers
  BY DEF Charged
<1>3. (Charged \cup {p}) \ {p} = Charged
  OBVIOUS
<1>4. Cardinality(Permits(Charged \cup {p})) =
        Cardinality(Permits({p})) + Cardinality(Permits(Charged))
  BY <1>1, <1>2, <1>3, PermitsSplit
<1>5. Cardinality(Permits({p})) = Charge(p) /\ Charge(p) \in 1..QueueBytes
  BY PermitsOfOne, ChargeBounds
<1>6. Permits(Charged)' = Permits(Charged \cup {p})
  BY DEF Permits, Charge
<1>7. Cardinality(Permits(Charged)) \in Nat
  BY <1>2, PermitsCount DEF Admission
<1>8. free \in 0..QueueBytes /\ admitted \in Nat /\ QueueBytes \in Nat
  BY CommitAssumption DEF TypeOK
<1>9. free' + Cardinality(Permits(Charged)') = QueueBytes
  BY <1>4, <1>5, <1>6, <1>7, <1>8 DEF Admission
<1> QED
  BY <1>1, <1>5, <1>8, <1>9 DEF Admission

(* Producers leave, with their permits.                                    *)
LEMMA AdmissionLeave ==
  ASSUME TypeOK, Admission, NEW Q \in SUBSET Charged, Charged' = Charged \ Q,
         UNCHANGED req, IsFiniteSet(rows'), free' = free + Cardinality(Permits(Q)),
         comm.at = "stopped" => comm'.at = "stopped",
         \/ admitted' = admitted - Cardinality(Q)
         \/ admitted' = admitted /\ comm'.at = "stopped"
  PROVE  Admission' /\ free' \in 0..QueueBytes /\ admitted' \in Nat
<1>1. /\ IsFiniteSet(Charged) /\ IsFiniteSet(Q) /\ IsFiniteSet(Charged \ Q)
      /\ Cardinality(Charged) \in Nat /\ Cardinality(Q) \in Nat
  BY FS_Subset, FS_CardinalityType DEF Admission
<1>2. Cardinality(Charged \ Q) = Cardinality(Charged) - Cardinality(Q)
  <2>1. Charged \cap Q = Q
    OBVIOUS
  <2> QED
    BY <1>1, <2>1, FS_Difference
<1>3. Cardinality(Charged \ Q) \in Nat
  BY <1>1, FS_CardinalityType
<1>4. Charged \in SUBSET Producers /\ Q \in SUBSET Producers /\ Charged \ Q \in SUBSET Producers
  BY DEF Charged
<1>5. Cardinality(Permits(Charged)) = Cardinality(Permits(Q)) + Cardinality(Permits(Charged \ Q))
  BY <1>1, <1>4, PermitsSplit
<1>6. Cardinality(Permits(Q)) \in Nat /\ Cardinality(Permits(Charged \ Q)) \in Nat
  BY <1>1, <1>4, PermitsCount
<1>7. Permits(Charged)' = Permits(Charged \ Q)
  BY DEF Permits, Charge
<1>8. free \in 0..QueueBytes /\ admitted \in Nat /\ QueueBytes \in Nat
  BY CommitAssumption DEF TypeOK
<1>9. free' + Cardinality(Permits(Charged)') = QueueBytes /\ free' \in 0..QueueBytes
  BY <1>5, <1>6, <1>7, <1>8 DEF Admission
<1>10. /\ IsFiniteSet(Charged')
       /\ Cardinality(Charged') = Cardinality(Charged) - Cardinality(Q)
  BY <1>1, <1>2
<1>11. /\ admitted' \in Nat
       /\ admitted' >= Cardinality(Charged')
       /\ comm'.at # "stopped" => admitted' = Cardinality(Charged')
  BY <1>1, <1>2, <1>3, <1>8, <1>10 DEF Admission
<1> QED
  BY <1>9, <1>10, <1>11 DEF Admission

-----------------------------------------------------------------------------
(* Admission and the channel.                                              *)

(* An acknowledgement in a transaction of its own.                         *)
LEMMA AckDirectlyKeeps ==
  ASSUME GroupInv, AckDirectly
  PROVE  GroupInv'
<1> USE DEF GroupInv
<1>1. rows' \subseteq rows /\ IsFiniteSet(rows')
  BY FS_Subset DEF AckDirectly, Admission
<1>2. UNCHANGED <<journal, receipts, next, again, req, at, answer, free, waiters, line,
                  queue, comm, admitted, phase, faults>>
  BY DEF AckDirectly, clients
<1>3. TypeOK'
  BY <1>1, <1>2 DEF TypeOK
<1>4. Places' /\ StopIsLast' /\ Loop' /\ Hands'
  BY <1>2 DEF Places, StopIsLast, Loop, Hands
<1>5. Receipted' /\ AppliedOnce'
  BY <1>2, JournalQuiet
<1>6. Admission'
  BY <1>1, <1>2, AdmissionQuiet DEF Charged
<1> QED
  BY <1>3, <1>4, <1>5, <1>6

(* The first waiter gets its permits.                                      *)
LEMMA AcquireKeeps ==
  ASSUME GroupInv, Acquire
  PROVE  GroupInv'
<1> USE DEF GroupInv
<1> DEFINE p == Head(waiters)
<1>1. /\ waiters # <<>> /\ Charge(p) <= free /\ free' = free - Charge(p)
      /\ waiters' = Tail(waiters) /\ line' = Append(line, p)
      /\ at' = [at EXCEPT ![p] = "line"] /\ admitted' = admitted + 1
      /\ UNCHANGED <<journal, receipts, rows, next, again, req, answer, queue, comm, phase, faults>>
  BY DEF Acquire, durable, clients
<1>2. /\ p \in Producers /\ p \in Members(waiters) /\ waiters' \in Seq(Producers)
      /\ Members(waiters) = Members(waiters') \cup {p}
      /\ IsInjective(waiters') /\ p \notin Members(waiters')
  BY <1>1, Parts, SeqTail DEF Places
<1>3. at[p] = "permit" /\ p # Stop
  BY <1>2, Parts DEF Places
<1>4. p \notin Members(line) /\ p \notin Members(queue)
      /\ p \notin Members(comm.group) /\ p \notin Members(comm.carried)
  BY <1>3 DEF Places
<1>5. /\ line' \in Seq(Producers \cup {Stop})
      /\ Members(line') = Members(line) \cup {p} /\ IsInjective(line')
  BY <1>1, <1>2, <1>4, Parts, SeqAppend DEF Places
<1>6. /\ at' \in [Producers -> {"idle", "permit", "line", "queued", "answered"}]
      /\ at'[p] = "line" /\ \A q : q # p => at'[q] = at[q]
  BY <1>1, <1>2 DEF TypeOK
<1>7. Charged' = Charged \cup {p} /\ p \in Producers \ Charged
  BY <1>2, <1>3, <1>6 DEF Charged
<1>8. Admission' /\ free' \in 0..QueueBytes /\ admitted' \in Nat
  BY <1>1, <1>7, AdmissionJoin
<1>9. TypeOK'
  BY <1>1, <1>2, <1>5, <1>6, <1>8 DEF TypeOK
<1>10. Places'
  BY <1>1, <1>2, <1>4, <1>5, <1>6 DEF Places
<1>11. StopIsLast'
  BY <1>1, <1>2, <1>3, <1>5, <1>6 DEF StopIsLast
<1>12. Loop'
  BY <1>1 DEF Loop
<1>13. Hands'
  BY <1>1, <1>3, <1>6, HandsQuiet
<1>14. Receipted' /\ AppliedOnce'
  BY <1>1, <1>3, <1>6, JournalQuiet
<1> QED
  BY <1>8, <1>9, <1>10, <1>11, <1>12, <1>13, <1>14

(* The first in line enters the channel.                                   *)
LEMMA EnterKeeps ==
  ASSUME GroupInv, Enter
  PROVE  GroupInv'
<1> USE DEF GroupInv
<1> DEFINE m == Head(line)
<1>1. /\ line # <<>> /\ comm.at # "stopped" /\ Len(queue) < QueueMax
      /\ line' = Tail(line) /\ queue' = Append(queue, m)
      /\ at' = IF m = Stop THEN at ELSE [at EXCEPT ![m] = "queued"]
      /\ UNCHANGED <<journal, receipts, rows, next, again, req, answer, free, waiters, comm,
                     admitted, phase, faults>>
  BY DEF Enter, durable, clients
<1>2. /\ m \in Producers \cup {Stop} /\ line' \in Seq(Producers \cup {Stop})
      /\ Members(line) = Members(line') \cup {m}
      /\ IsInjective(line') /\ m \notin Members(line')
  BY <1>1, Parts, SeqTail DEF Places
<1>3. m # Stop => at[m] = "line"
  BY <1>2 DEF Places
<1>4. /\ m \notin Members(queue)
      /\ m \notin Members(comm.group) /\ m \notin Members(comm.carried)
      /\ m \notin Members(waiters)
  <2>1. CASE m = Stop
    BY <1>2, <2>1, Parts, SeqMembers DEF StopIsLast
  <2>2. CASE m # Stop
    BY <1>3, <2>2 DEF Places
  <2> QED
    BY <2>1, <2>2
<1>5. /\ queue' \in Seq(Producers \cup {Stop}) /\ Len(queue') = Len(queue) + 1
      /\ Members(queue') = Members(queue) \cup {m} /\ IsInjective(queue')
  BY <1>1, <1>2, <1>4, Parts, SeqAppend DEF Places
<1>6. /\ at' \in [Producers -> {"idle", "permit", "line", "queued", "answered"}]
      /\ m # Stop => at'[m] = "queued"
      /\ \A q : q # m => at'[q] = at[q]
      /\ m = Stop => at' = at
  BY <1>1, <1>2 DEF TypeOK
<1>7. Charged' = Charged
  BY <1>3, <1>6 DEF Charged
<1>8. Len(queue') <= QueueMax
  BY <1>1, <1>5, CommitAssumption, LenProperties, Parts
<1>9. TypeOK'
  BY <1>1, <1>2, <1>5, <1>6, <1>8 DEF TypeOK
<1>10. Places'
  BY <1>1, <1>2, <1>4, <1>5, <1>6 DEF Places
<1>11. StopIsLast'
  <2>1. \A s \in Sessions : at[s] = "idle" => at'[s] = "idle"
    BY <1>3, <1>6
  <2> QED
    BY <1>1, <1>2, <1>5, <2>1 DEF StopIsLast
<1>12. Loop'
  BY <1>1 DEF Loop
<1>13. Hands'
  BY <1>1, <1>3, <1>6, HandsQuiet
<1>14. Receipted' /\ AppliedOnce'
  BY <1>1, <1>3, <1>6, JournalQuiet
<1>15. Admission'
  BY <1>1, <1>7, AdmissionQuiet DEF Admission
<1> QED
  BY <1>9, <1>10, <1>11, <1>12, <1>13, <1>14, <1>15

(* The channel is closed.                                                  *)
LEMMA SendFailsKeeps ==
  ASSUME GroupInv, SendFails
  PROVE  GroupInv'
<1> USE DEF GroupInv
<1> DEFINE p == Head(line)
<1>1. /\ line # <<>> /\ comm.at = "stopped"
      /\ at' = [at EXCEPT ![p] = "answered"] /\ answer' = [answer EXCEPT ![p] = "failed"]
      /\ free' = free + Charge(p) /\ admitted' = admitted - 1 /\ line' = Tail(line)
      /\ UNCHANGED <<journal, receipts, rows, next, again, req, waiters, queue, comm, phase, faults>>
  BY DEF SendFails, durable, clients
<1>2. /\ p \in Producers \cup {Stop} /\ line' \in Seq(Producers \cup {Stop})
      /\ Members(line) = Members(line') \cup {p}
      /\ IsInjective(line') /\ p \notin Members(line')
  BY <1>1, Parts, SeqTail DEF Places
<1>3. p # Stop /\ p \in Producers /\ at[p] = "line"
  BY <1>1, <1>2 DEF StopIsLast, Places
<1>4. /\ at' \in [Producers -> {"idle", "permit", "line", "queued", "answered"}]
      /\ at'[p] = "answered" /\ \A q : q # p => at'[q] = at[q]
      /\ answer' \in [Producers -> Answers \cup {"none"}]
      /\ answer'[p] = "failed" /\ \A q : q # p => answer'[q] = answer[q]
  BY <1>1, <1>3 DEF TypeOK, Answers
<1>5. Charged' = Charged \ {p} /\ p \in Charged
  BY <1>3, <1>4 DEF Charged
<1>6. Cardinality(Permits({p})) = Charge(p) /\ Cardinality({p}) = 1
  BY <1>3, PermitsOfOne, FS_Singleton
<1>7. Admission' /\ free' \in 0..QueueBytes /\ admitted' \in Nat
  <2>1. {p} \in SUBSET Charged /\ IsFiniteSet(rows') /\ free' = free + Cardinality(Permits({p}))
        /\ admitted' = admitted - Cardinality({p})
    BY <1>1, <1>5, <1>6 DEF Admission
  <2> QED
    BY <1>1, <1>5, <2>1, AdmissionLeave
<1>8. TypeOK'
  BY <1>1, <1>2, <1>4, <1>7 DEF TypeOK
<1>9. Places'
  BY <1>1, <1>2, <1>3, <1>4 DEF Places
<1>10. StopIsLast'
  BY <1>1, <1>2, <1>3, <1>4 DEF StopIsLast
<1>11. Loop'
  BY <1>1 DEF Loop
<1>12. Hands'
  BY <1>1, <1>3, <1>4 DEF Hands, Producers
<1>13. Receipted' /\ AppliedOnce'
  BY <1>1, <1>3, <1>4, JournalQuiet
<1> QED
  BY <1>7, <1>8, <1>9, <1>10, <1>11, <1>12, <1>13

-----------------------------------------------------------------------------
(* The committer.                                                          *)

(* The committer moves messages from the channel to its hands.             *)
LEMMA CommitterMoves ==
  ASSUME GroupInv, UNCHANGED <<journal, receipts, rows, next, again, req, at, answer, free,
                               waiters, line, admitted, phase, faults>>,
         comm.at # "stopped", comm'.at # "stopped",
         queue' \in Seq(Producers \cup {Stop}), Len(queue') <= QueueMax,
         comm' \in [at : {"idle", "collecting", "commit", "stopped"},
                    group : Seq(Producers), carried : Seq(Producers), stop : BOOLEAN],
         Len(comm'.group) <= GroupMax, Len(comm'.carried) <= 1,
         Places', StopIsLast', Loop'
  PROVE  GroupInv'
<1> USE DEF GroupInv
<1>1. TypeOK'
  BY DEF TypeOK
<1>2. Hands'
  BY HandsQuiet
<1>3. Receipted' /\ AppliedOnce'
  BY JournalQuiet
<1>4. Admission'
  BY AdmissionQuiet DEF Charged, Admission
<1> QED
  BY <1>1, <1>2, <1>3, <1>4

(* The first message of a group.                                           *)
LEMMA TakeFirstKeeps ==
  ASSUME GroupInv, TakeFirst
  PROVE  GroupInv'
<1> USE DEF GroupInv
<1>1. /\ comm.at = "idle" /\ comm.group = <<>> /\ ~comm.stop
      /\ comm \in [at : {"idle", "collecting", "commit", "stopped"},
                    group : Seq(Producers), carried : Seq(Producers), stop : BOOLEAN]
      /\ Len(comm.carried) <= 1 /\ GroupMax \in Nat \ {0} /\ Len(queue) <= QueueMax
      /\ UNCHANGED <<journal, receipts, rows, next, again, req, at, answer, free, waiters, line,
                     admitted, phase, faults>>
  BY CommitAssumption DEF TakeFirst, Loop, TypeOK, durable, clients
<1>2. CASE comm.carried # <<>> /\ UNCHANGED queue
           /\ comm' = [comm EXCEPT !.at = "collecting", !.group = comm.carried, !.carried = <<>>]
  <2>1. /\ comm'.at = "collecting" /\ comm'.group = comm.carried /\ comm'.carried = <<>>
        /\ comm'.stop = comm.stop
        /\ comm' \in [at : {"idle", "collecting", "commit", "stopped"},
                      group : Seq(Producers), carried : Seq(Producers), stop : BOOLEAN]
    BY <1>1, <1>2
  <2>2. comm.carried \in Seq(Producers) /\ comm.carried # <<>> /\ Len(comm.carried) <= 1
    BY <1>1, <1>2, Parts
  <2>3. Len(comm.carried) = 1 /\ IsInjective(comm.carried)
    BY <2>2, SeqSingle
  <2>4. Len(comm'.group) <= GroupMax /\ Len(comm'.carried) <= 1
    BY <1>1, <2>1, <2>3
  <2>5. Members(<<>>) = {}
    BY DEF Members
  <2>6. Places'
    BY <1>1, <1>2, <2>1, <2>3, <2>5 DEF Places
  <2>7. StopIsLast' /\ Loop'
    BY <1>1, <1>2, <2>1 DEF StopIsLast, Loop
  <2> QED
    BY <1>1, <1>2, <2>1, <2>4, <2>6, <2>7, Parts, CommitterMoves
<1>3. CASE /\ comm.carried = <<>> /\ queue # <<>> /\ Head(queue) # Stop
           /\ comm' = [comm EXCEPT !.at = "collecting", !.group = <<Head(queue)>>]
           /\ queue' = Tail(queue)
  <2> DEFINE m == Head(queue)
  <2>1. /\ m \in Producers /\ queue' \in Seq(Producers \cup {Stop})
        /\ Len(queue') = Len(queue) - 1
        /\ Members(queue) = Members(queue') \cup {m}
        /\ IsInjective(queue') /\ m \notin Members(queue')
    BY <1>3, Parts, SeqTail DEF Places
  <2>2. Members(<<m>>) = {m} /\ IsInjective(<<m>>) /\ <<m>> \in Seq(Producers) /\ Members(<<>>) = {}
    BY <2>1, SeqSmall
  <2>3. /\ comm'.at = "collecting" /\ comm'.group = <<m>> /\ comm'.carried = comm.carried
        /\ comm'.stop = comm.stop
        /\ comm' \in [at : {"idle", "collecting", "commit", "stopped"},
                      group : Seq(Producers), carried : Seq(Producers), stop : BOOLEAN]
    BY <1>1, <1>3, <2>2
  <2>4. Len(comm'.group) <= GroupMax /\ Len(comm'.carried) <= 1 /\ Len(queue') <= QueueMax
    BY <1>1, <1>3, <2>1, <2>3, Parts, LenProperties, CommitAssumption
  <2>5. Places'
    <3>1. m \in Members(queue) \ {Stop} /\ at[m] = "queued"
      BY <1>3, <2>1 DEF Places
    <3>2. Members(comm'.group) = {m} /\ Members(comm'.carried) = {} /\ IsInjective(comm'.group)
      BY <1>3, <2>2, <2>3
    <3> QED
      BY <1>1, <2>1, <3>1, <3>2 DEF Places
  <2>6. StopIsLast' /\ Loop'
    BY <1>1, <1>3, <2>1, <2>3 DEF StopIsLast, Loop
  <2> QED
    BY <1>1, <2>1, <2>3, <2>4, <2>5, <2>6, CommitterMoves
<1> QED
  BY <1>2, <1>3 DEF TakeFirst

(* One more message.                                                       *)
LEMMA CollectKeeps ==
  ASSUME GroupInv, Collect
  PROVE  GroupInv'
<1> USE DEF GroupInv
<1> DEFINE m == Head(queue)
<1>1. /\ comm.at = "collecting" /\ comm.carried = <<>> /\ ~comm.stop /\ comm.group # <<>>
      /\ Len(comm.group) < GroupMax /\ queue # <<>> /\ queue' = Tail(queue)
      /\ comm \in [at : {"idle", "collecting", "commit", "stopped"},
                    group : Seq(Producers), carried : Seq(Producers), stop : BOOLEAN]
      /\ GroupMax \in Nat \ {0} /\ Len(queue) <= QueueMax
      /\ UNCHANGED <<journal, receipts, rows, next, again, req, at, answer, free, waiters, line,
                     admitted, phase, faults>>
  BY CommitAssumption DEF Collect, Loop, TypeOK, durable, clients
<1>2. /\ m \in Producers \cup {Stop} /\ queue' \in Seq(Producers \cup {Stop})
      /\ Len(queue') = Len(queue) - 1
      /\ Members(queue) = Members(queue') \cup {m}
      /\ IsInjective(queue') /\ m \notin Members(queue')
  BY <1>1, Parts, SeqTail DEF Places
<1>3. Len(queue') <= QueueMax /\ Len(comm.group) <= GroupMax /\ Len(comm.carried) <= 1
  BY <1>1, <1>2, Parts, LenProperties, CommitAssumption
<1>4. Members(<<>>) = {} /\ Len(comm.group) \in Nat
  BY Parts, LenProperties DEF Members
<1>5. CASE m = Stop /\ comm' = [comm EXCEPT !.at = "commit", !.stop = TRUE]
  <2>1. /\ comm'.at = "commit" /\ comm'.group = comm.group /\ comm'.carried = comm.carried
        /\ comm'.stop = TRUE
        /\ comm' \in [at : {"idle", "collecting", "commit", "stopped"},
                      group : Seq(Producers), carried : Seq(Producers), stop : BOOLEAN]
    BY <1>1, <1>5
  <2>2. Places'
    BY <1>1, <1>2, <2>1 DEF Places
  <2>3. StopIsLast' /\ Loop'
    BY <1>1, <1>2, <1>5, <2>1 DEF StopIsLast, Loop
  <2> QED
    BY <1>1, <1>2, <1>3, <2>1, <2>2, <2>3, CommitterMoves
<1>6. CASE m # Stop /\ comm' = [comm EXCEPT !.at = "commit", !.carried = <<m>>]
  <2>1. Members(<<m>>) = {m} /\ <<m>> \in Seq(Producers) /\ m \in Producers
    BY <1>2, <1>6, SeqSmall
  <2>2. /\ comm'.at = "commit" /\ comm'.group = comm.group /\ comm'.carried = <<m>>
        /\ comm'.stop = comm.stop
        /\ comm' \in [at : {"idle", "collecting", "commit", "stopped"},
                      group : Seq(Producers), carried : Seq(Producers), stop : BOOLEAN]
    BY <1>1, <1>6, <2>1
  <2>3. Places'
    <3>1. m \in Members(queue) \ {Stop} /\ at[m] = "queued" /\ m \notin Members(comm.group)
      BY <1>2, <1>6 DEF Places
    <3>2. Members(comm'.carried) = {m}
      BY <2>1, <2>2
    <3> QED
      BY <1>1, <1>2, <2>2, <3>1, <3>2 DEF Places
  <2>4. StopIsLast' /\ Loop'
    BY <1>1, <1>2, <1>6, <2>2 DEF StopIsLast, Loop
  <2>5. Len(comm'.carried) <= 1
    BY <2>2
  <2> QED
    BY <1>1, <1>2, <1>3, <2>2, <2>3, <2>4, <2>5, CommitterMoves
<1>7. CASE m # Stop /\ comm' = [comm EXCEPT !.group = Append(@, m)]
  <2>1. m \in Producers /\ m \notin Members(comm.group)
    BY <1>2, <1>7 DEF Places
  <2>2. /\ Append(comm.group, m) \in Seq(Producers) /\ Append(comm.group, m) # <<>>
        /\ Len(Append(comm.group, m)) = Len(comm.group) + 1
        /\ Members(Append(comm.group, m)) = Members(comm.group) \cup {m}
        /\ IsInjective(Append(comm.group, m))
    <3>1. comm.group \in Seq(Producers) /\ IsInjective(comm.group)
      BY Parts DEF Places
    <3> HIDE DEF GroupInv
    <3> QED
      BY <2>1, <3>1, SeqAppend
  <2>3. /\ comm'.at = comm.at /\ comm'.group = Append(comm.group, m)
        /\ comm'.carried = comm.carried /\ comm'.stop = comm.stop
        /\ comm' \in [at : {"idle", "collecting", "commit", "stopped"},
                      group : Seq(Producers), carried : Seq(Producers), stop : BOOLEAN]
    BY <1>1, <1>7, <2>2
  <2>4. Len(comm'.group) <= GroupMax
    BY <1>1, <1>4, <2>2, <2>3
  <2>5. Places'
    BY <1>1, <1>2, <1>4, <1>7, <2>2, <2>3 DEF Places
  <2>6. StopIsLast' /\ Loop'
    BY <1>1, <1>2, <1>7, <2>2, <2>3 DEF StopIsLast, Loop
  <2> QED
    BY <1>1, <1>2, <1>3, <2>3, <2>4, <2>5, <2>6, CommitterMoves
<1> QED
  BY <1>5, <1>6, <1>7 DEF Collect

(* The group is complete.                                                  *)
LEMMA CloseKeeps ==
  ASSUME GroupInv, Close
  PROVE  GroupInv'
<1> USE DEF GroupInv
<1>1. /\ comm.at = "collecting"
      /\ comm \in [at : {"idle", "collecting", "commit", "stopped"},
                    group : Seq(Producers), carried : Seq(Producers), stop : BOOLEAN]
      /\ Len(comm.group) <= GroupMax /\ Len(comm.carried) <= 1 /\ Len(queue) <= QueueMax
      /\ UNCHANGED <<journal, receipts, rows, next, again, req, at, answer, free, waiters, line,
                     queue, admitted, phase, faults>>
  BY DEF Close, TypeOK, durable, clients
<1>2. /\ comm'.at = "commit" /\ comm'.group = comm.group
      /\ comm'.carried = comm.carried /\ comm'.stop = comm.stop
      /\ comm' \in [at : {"idle", "collecting", "commit", "stopped"},
                    group : Seq(Producers), carried : Seq(Producers), stop : BOOLEAN]
  BY <1>1 DEF Close
<1>3. Places' /\ StopIsLast' /\ Loop'
  BY <1>1, <1>2 DEF Places, StopIsLast, Loop
<1> QED
  BY <1>1, <1>2, <1>3, Parts, CommitterMoves

-----------------------------------------------------------------------------
(* The transaction and the answers.                                        *)

(* A group that ends in Shutdown is alone: only the hook engine can still  *)
(* have a request.                                                         *)
LEMMA ReleasedIsGroup ==
  ASSUME GroupInv, comm.at = "commit"
  PROVE  /\ Released = Members(comm.group)
         /\ Members(comm.group) # {}
         /\ Members(comm.group) \subseteq Charged
         /\ Members(comm.group) \subseteq Producers
         /\ comm.stop => Members(queue) = {}
<1> USE DEF GroupInv
<1>1. Members(comm.group) # {} /\ Members(comm.group) \subseteq Producers
  <2>1. comm.group \in Seq(Producers) /\ comm.group # <<>>
    BY Parts DEF Loop
  <2> HIDE DEF GroupInv
  <2> QED
    BY <2>1, SeqMembers
<1>2. Members(comm.group) \subseteq Charged
  BY <1>1 DEF Places, Charged
<1>3. ASSUME comm.stop PROVE Members(queue) = {}
  <2>1. \A s \in Sessions : at[s] = "idle"
    BY <1>3 DEF StopIsLast
  <2>2. Members(queue) \subseteq Producers
    <3>1. Members(queue) \subseteq Producers \cup {Stop}
      BY Parts, SeqMembers
    <3> QED
      BY <1>3, <3>1 DEF StopIsLast
  <2>3. \A p \in Members(queue) \cup Members(comm.group) : p = Hooks
    <3>1. \A p \in Members(queue) \cup Members(comm.group) : at[p] = "queued" /\ p \in Producers
      BY <1>1, <1>3, <2>2 DEF Places, StopIsLast
    <3> QED
      BY <2>1, <3>1 DEF Producers
  <2> QED
    BY <1>1, <2>3 DEF Places
<1> QED
  BY <1>1, <1>2, <1>3 DEF Released

(* What the answers to a group do.                                         *)
LEMMA ReplyEffect ==
  ASSUME GroupInv, comm.at = "commit", NEW out, Len(out) = Len(comm.group), Reply(out)
  PROVE  /\ at' = [p \in Producers |-> IF p \in Members(comm.group) THEN "answered" ELSE at[p]]
         /\ answer' = [p \in Producers |-> answer'[p]]
         /\ \A p \in Members(comm.group) :
               \E i \in 1..Len(comm.group) : comm.group[i] = p /\ answer'[p] = out[i]
         /\ \A p \in Producers \ Members(comm.group) : answer'[p] = answer[p]
         /\ free' = free + Cardinality(Permits(Members(comm.group)))
         /\ admitted' = admitted - Cardinality(Members(comm.group))
         /\ comm'.at = (IF comm.stop THEN "stopped" ELSE "idle")
         /\ comm'.group = <<>> /\ comm'.carried = comm.carried /\ comm'.stop = comm.stop
         /\ comm' \in [at : {"idle", "collecting", "commit", "stopped"},
                       group : Seq(Producers), carried : Seq(Producers), stop : BOOLEAN]
         /\ queue' \in {queue, <<>>} /\ (comm.stop => queue' = <<>>)
         /\ Members(queue') = Members(queue)
         /\ UNCHANGED <<next, again, req, waiters, line, phase>>
<1> DEFINE G == Members(comm.group)
<1>1. Released = G /\ G \subseteq Producers /\ (comm.stop => Members(queue) = {})
  BY ReleasedIsGroup
<1>2. \A p : p \in G <=> \E i \in 1..Len(out) : comm.group[i] = p
  BY DEF Members
<1>3. answer' = [p \in Producers |->
                    IF \E i \in 1..Len(out) : comm.group[i] = p
                    THEN out[CHOOSE i \in 1..Len(out) : comm.group[i] = p]
                    ELSE IF p \in Released THEN "failed" ELSE answer[p]]
  BY DEF Reply
<1>4. \A p \in G : \E i \in 1..Len(comm.group) : comm.group[i] = p /\ answer'[p] = out[i]
  BY <1>1, <1>2, <1>3
<1>5. \A p \in Producers \ G : answer'[p] = answer[p]
  BY <1>1, <1>2, <1>3
<1>6. answer' = [p \in Producers |-> answer'[p]]
  BY <1>3
<1>7. comm \in [at : {"idle", "collecting", "commit", "stopped"},
                group : Seq(Producers), carried : Seq(Producers), stop : BOOLEAN]
  BY DEF GroupInv, TypeOK
<1>8. /\ comm'.at = (IF comm.stop THEN "stopped" ELSE "idle")
      /\ comm'.group = <<>> /\ comm'.carried = comm.carried /\ comm'.stop = comm.stop
      /\ comm' \in [at : {"idle", "collecting", "commit", "stopped"},
                    group : Seq(Producers), carried : Seq(Producers), stop : BOOLEAN]
  <2>1. comm' = [comm EXCEPT !.at = IF comm.stop THEN "stopped" ELSE "idle", !.group = <<>>]
    BY DEF Reply
  <2>2. (IF comm.stop THEN "stopped" ELSE "idle") \in {"idle", "stopped"} /\ <<>> \in Seq(Producers)
    OBVIOUS
  <2> QED
    BY <1>7, <2>1, <2>2
<1>9. Cardinality(G) = Len(comm.group)
  <2>1. comm.group \in Seq(Producers) /\ IsInjective(comm.group)
    BY Parts DEF GroupInv, Places
  <2> QED
    BY <2>1, SeqCount
<1>10. queue' \in {queue, <<>>} /\ (comm.stop => queue' = <<>>) /\ Members(queue') = Members(queue)
  <2>1. Members(<<>>) = {}
    BY DEF Members
  <2> QED
    BY <1>1, <2>1 DEF Reply
<1>11. at' = [p \in Producers |-> IF p \in G THEN "answered" ELSE at[p]]
  BY <1>1 DEF Reply
<1>12. free' = free + Cardinality(Permits(G)) /\ admitted' = admitted - Cardinality(G)
  BY <1>1, <1>9 DEF Reply
<1>13. UNCHANGED <<next, again, req, waiters, line, phase>>
  BY DEF Reply, clients
<1> QED
  BY <1>4, <1>5, <1>6, <1>8, <1>10, <1>11, <1>12, <1>13

(* The answers keep everything but what is said of the journal.            *)
LEMMA ReplyKeeps ==
  ASSUME GroupInv, comm.at = "commit", NEW out, Len(out) = Len(comm.group), Reply(out),
         \A i \in 1..Len(comm.group) : out[i] \in Answers,
         journal' \in [Sessions -> Seq(Ids)], receipts' \in [Sessions -> SUBSET Ids],
         rows' \subseteq Coordinates, IsFiniteSet(rows'), faults' \in 0..MaxFaults
  PROVE  TypeOK' /\ Places' /\ StopIsLast' /\ Loop' /\ Hands' /\ Admission'
<1> USE DEF GroupInv
<1> DEFINE G == Members(comm.group)
<1>1. /\ at' = [p \in Producers |-> IF p \in G THEN "answered" ELSE at[p]]
      /\ answer' = [p \in Producers |-> answer'[p]]
      /\ \A p \in G : \E i \in 1..Len(comm.group) : comm.group[i] = p /\ answer'[p] = out[i]
      /\ \A p \in Producers \ G : answer'[p] = answer[p]
      /\ free' = free + Cardinality(Permits(G))
      /\ admitted' = admitted - Cardinality(G)
      /\ comm'.at = (IF comm.stop THEN "stopped" ELSE "idle")
      /\ comm'.group = <<>> /\ comm'.carried = comm.carried /\ comm'.stop = comm.stop
      /\ comm' \in [at : {"idle", "collecting", "commit", "stopped"},
                    group : Seq(Producers), carried : Seq(Producers), stop : BOOLEAN]
      /\ queue' \in {queue, <<>>} /\ (comm.stop => queue' = <<>>)
      /\ Members(queue') = Members(queue)
      /\ UNCHANGED <<next, again, req, waiters, line, phase>>
  BY ReplyEffect
<1>2. G \subseteq Charged /\ G \subseteq Producers /\ (comm.stop => Members(queue) = {})
  BY ReleasedIsGroup
<1>3. \A p \in G : at[p] = "queued" /\ at'[p] = "answered" /\ answer'[p] \in Answers
  BY <1>1, <1>2 DEF Places
<1>4. \A p \in Producers \ G : at'[p] = at[p]
  BY <1>1
<1>5. Admission' /\ free' \in 0..QueueBytes /\ admitted' \in Nat
  <2>1. Charged' = Charged \ G
    BY <1>3, <1>4 DEF Charged
  <2> HIDE DEF GroupInv
  <2>2. TypeOK /\ Admission
    BY DEF GroupInv
  <2> QED
    BY <1>1, <1>2, <2>1, <2>2, AdmissionLeave
<1>6. TypeOK'
  <2>1. answer' \in [Producers -> Answers \cup {"none"}]
    <3>1. \A p \in Producers : answer[p] \in Answers \cup {"none"}
      BY DEF TypeOK
    <3>2. \A p \in Producers : answer'[p] \in Answers \cup {"none"}
      BY <1>1, <1>3, <3>1
    <3>3. answer' = [p \in Producers |-> answer'[p]]
      BY <1>1
    <3> HIDE DEF GroupInv
    <3> QED
      BY <3>2, <3>3
  <2>2. at' \in [Producers -> {"idle", "permit", "line", "queued", "answered"}]
    BY <1>1 DEF TypeOK
  <2>3. /\ queue' \in Seq(Producers \cup {Stop}) /\ Len(queue') <= QueueMax
        /\ Len(comm'.group) <= GroupMax /\ Len(comm'.carried) <= 1
    BY <1>1, CommitAssumption DEF TypeOK
  <2> QED
    BY <1>1, <1>5, <2>1, <2>2, <2>3 DEF TypeOK
<1>7. Places'
  <2>1. Members(<<>>) = {} /\ IsInjective(<<>>)
    BY DEF Members, IsInjective
  <2>2. IsInjective(queue') /\ IsInjective(comm'.group) /\ Members(comm'.group) = {}
    BY <1>1, <2>1 DEF Places
  <2>3. /\ \A p \in Members(waiters) : at'[p] = "permit"
        /\ \A p \in Members(line) \ {Stop} : at'[p] = "line"
    <3>1. Members(waiters) \subseteq Producers /\ Members(line) \ {Stop} \subseteq Producers
      BY Parts, SeqMembers
    <3> QED
      BY <1>3, <1>4, <3>1 DEF Places
  <2>4. /\ \A p \in Members(queue) \ {Stop} : at'[p] = "queued"
        /\ \A p \in Members(comm.carried) : at'[p] = "queued"
    <3>1. Members(comm.carried) \subseteq Producers /\ Members(queue) \ {Stop} \subseteq Producers
      BY Parts, SeqMembers
    <3> QED
      BY <1>4, <3>1 DEF Places
  <2> QED
    BY <1>1, <2>2, <2>3, <2>4 DEF Places
<1>8. StopIsLast'
  <2>1. \A s \in Sessions : at[s] = "idle" => at'[s] = "idle"
    BY <1>1, <1>3, Parts
  <2> QED
    BY <1>1, <2>1 DEF StopIsLast
<1>9. Loop'
  BY <1>1 DEF Loop
<1>10. Hands'
  <2>1. \A p \in Producers : /\ at'[p] = "idle" <=> at[p] = "idle"
                             /\ at'[p] = "answered" <=> answer'[p] # "none"
    <3>1. \A p \in Producers : /\ at[p] = "idle" <=> req[p] = NoRequest
                               /\ at[p] = "answered" <=> answer[p] # "none"
      BY DEF Hands
    <3>2. \A p \in Producers \ G : answer'[p] = answer[p]
      BY <1>1
    <3>3. "none" \notin Answers
      BY DEF Answers
    <3> HIDE DEF GroupInv
    <3> QED
      BY <1>3, <1>4, <3>1, <3>2, <3>3
  <2> QED
    BY <1>1, <2>1, Parts DEF Hands
<1> QED
  BY <1>5, <1>6, <1>7, <1>8, <1>9, <1>10

(* A request that is carried out is new to its journal.                    *)
LEMMA WritesAreNew ==
  ASSUME GroupInv, comm.at = "commit", NEW R, NEW s \in Sessions, Writes(s, R)
  PROVE  /\ req[s].id = next[s] /\ next[s] \in Ids
         /\ req[s].kind \in {"accept", "append"}
         /\ at[s] = "queued"
         /\ ~Durable(s, next[s])
         /\ \A i \in 1..Len(journal[s]) : journal[s][i] < next[s]
         /\ Len(journal[s]) + 1 <= next[s]
<1> USE DEF GroupInv
<1>1. s \in Members(comm.group) /\ at[s] = "queued" /\ s \in Producers
  BY Parts DEF Writes, Places
<1>2. req[s] # NoRequest /\ req[s] \in SessionRequests
  BY <1>1 DEF Hands, TypeOK
<1>3. /\ req[s].id = next[s] /\ next[s] \in Ids
      /\ req[s].kind \in {"accept", "append"} /\ (again[s] => req[s].kind = "accept")
  BY <1>1, <1>2 DEF Hands, SessionRequests
<1>4. req[s].kind = "accept" => next[s] \notin receipts[s]
  BY <1>3 DEF Writes, Outcome
<1>5. ~Durable(s, next[s])
  BY <1>1, <1>3, <1>4 DEF Receipted
<1>6. journal[s] \in Seq(Ids) /\ Ids \subseteq Nat /\ next[s] \in Nat
  BY <1>3, CommitAssumption DEF TypeOK, Ids
<1>7. \A i \in 1..Len(journal[s]) : journal[s][i] \in Nat /\ journal[s][i] <= next[s]
  BY <1>6, ElementOfSeq DEF Receipted
<1>8. \A i \in 1..Len(journal[s]) : journal[s][i] < next[s]
  BY <1>5, <1>6, <1>7 DEF Durable
<1>9. Len(journal[s]) + 1 <= next[s]
  <2>1. CASE journal[s] = <<>>
    BY <2>1, <1>3, CommitAssumption DEF Ids
  <2>2. CASE journal[s] # <<>>
    <3>1. Len(journal[s]) \in Nat \ {0}
      BY <1>6, <2>2, EmptySeq
    <3>2. Len(journal[s]) \in 1..Len(journal[s])
      BY <3>1
    <3>3. Len(journal[s]) <= journal[s][Len(journal[s])] /\ journal[s][Len(journal[s])] < next[s]
      BY <1>8, <2>2, <3>2 DEF Receipted
    <3> QED
      BY <1>6, <1>7, <3>1, <3>2, <3>3
  <2> QED
    BY <2>1, <2>2
<1> QED
  BY <1>1, <1>3, <1>5, <1>8, <1>9

(* What the transaction makes durable is well typed.                       *)
LEMMA TransactionTypes ==
  ASSUME GroupInv, comm.at = "commit", NEW R, Transaction(R)
  PROVE  /\ journal' \in [Sessions -> Seq(Ids)]
         /\ receipts' \in [Sessions -> SUBSET Ids]
         /\ rows' \subseteq Coordinates
         /\ IsFiniteSet(rows')
<1> USE DEF GroupInv
<1>1. \A s \in Sessions : journal[s] \in Seq(Ids) /\ Len(journal[s]) \in Nat /\ receipts[s] \subseteq Ids
  BY LenProperties DEF TypeOK
<1>2. \A s \in Sessions : Writes(s, R) => req[s].id \in Ids /\ Len(journal[s]) + 1 \in Ids
  <2>1. \A s \in Sessions : Writes(s, R) =>
           /\ req[s].id = next[s] /\ next[s] \in Ids /\ Len(journal[s]) + 1 <= next[s]
    BY WritesAreNew
  <2> QED
    BY <1>1, <2>1, CommitAssumption DEF Ids
<1>3. journal' \in [Sessions -> Seq(Ids)]
  <2>1. \A s \in Sessions : Writes(s, R) => Append(journal[s], req[s].id) \in Seq(Ids)
    BY <1>1, <1>2, AppendProperties
  <2> QED
    BY <1>1, <2>1 DEF Transaction
<1>4. receipts' \in [Sessions -> SUBSET Ids]
  BY <1>1, <1>2 DEF Transaction
<1> DEFINE W == {t \in Sessions : Writes(t, R)}
           New == {<<s, Len(journal[s]) + 1>> : s \in W}
           Old == IF Hooks \in Members(comm.group) THEN rows \ req[Hooks].acks ELSE rows
<1>5. rows' = Old \cup New
  BY DEF Transaction
<1>6. New \subseteq Coordinates
  BY <1>2 DEF Coordinates
<1>7. Old \subseteq rows /\ rows \subseteq Coordinates
  BY DEF TypeOK
<1>8. IsFiniteSet(W)
  <2>1. W \subseteq Members(comm.group)
    BY DEF Writes
  <2>2. IsFiniteSet(Members(comm.group))
    BY Parts, SeqFinite
  <2> QED
    BY <2>1, <2>2, FS_Subset
<1>9. IsFiniteSet(New)
  <2> DEFINE f == [s \in W |-> <<s, Len(journal[s]) + 1>>]
  <2>1. f \in Surjection(W, New)
    BY DEF Surjection
  <2> QED
    BY <1>8, <2>1, FS_Surjection
<1>10. IsFiniteSet(Old)
  BY <1>7, FS_Subset DEF Admission
<1> QED
  BY <1>3, <1>4, <1>5, <1>6, <1>7, <1>9, <1>10, FS_Union

(* The journal after a transaction.                                        *)
LEMMA TransactionKeeps ==
  ASSUME GroupInv, comm.at = "commit", NEW R, Transaction(R), UNCHANGED <<next, again, req>>,
         \A s \in Sessions : s \in Members(comm.group) => at'[s] = "answered",
         \A s \in Sessions : s \notin Members(comm.group) => at'[s] = at[s]
  PROVE  Receipted' /\ AppliedOnce'
<1> USE DEF GroupInv
<1>1. SUFFICES ASSUME NEW s \in Sessions
               PROVE  /\ \A id \in receipts'[s] : Durable(s, id)'
                      /\ \A i \in 1..Len(journal'[s]) : journal'[s][i] <= next'[s]
                      /\ journal'[s] # <<>> => Len(journal'[s]) <= journal'[s][Len(journal'[s])]
                      /\ Durable(s, next[s])' =>
                            \/ again'[s] /\ next'[s] \in receipts'[s]
                            \/ at'[s] = "answered" /\ (req'[s].kind = "accept" => next'[s] \in receipts'[s])
                      /\ \A i, j \in 1..Len(journal'[s]) : i < j => journal'[s][i] < journal'[s][j]
  BY DEF Receipted, AppliedOnce
<1>2. /\ \A id \in receipts[s] : Durable(s, id)
      /\ \A i \in 1..Len(journal[s]) : journal[s][i] <= next[s]
      /\ journal[s] # <<>> => Len(journal[s]) <= journal[s][Len(journal[s])]
      /\ Durable(s, next[s]) =>
            \/ again[s] /\ next[s] \in receipts[s]
            \/ at[s] = "answered" /\ (req[s].kind = "accept" => next[s] \in receipts[s])
      /\ \A i, j \in 1..Len(journal[s]) : i < j => journal[s][i] < journal[s][j]
  BY DEF Receipted, AppliedOnce
<1>3. journal'[s] = IF Writes(s, R) THEN Append(journal[s], req[s].id) ELSE journal[s]
  BY DEF Transaction
<1>4. receipts'[s] = IF Writes(s, R) /\ req[s].kind = "accept"
                     THEN receipts[s] \cup {req[s].id} ELSE receipts[s]
  BY DEF Transaction
<1>5. CASE ~Writes(s, R)
  <2>1. journal'[s] = journal[s] /\ receipts'[s] = receipts[s]
    BY <1>3, <1>4, <1>5
  <2>2. at[s] = "answered" => at'[s] = "answered"
    OBVIOUS
  <2>3. \A id : Durable(s, id)' <=> Durable(s, id)
    BY <2>1 DEF Durable
  <2> QED
    BY <1>2, <2>1, <2>2, <2>3
<1>6. CASE Writes(s, R)
  <2>1. /\ req[s].id = next[s] /\ next[s] \in Ids
        /\ \A i \in 1..Len(journal[s]) : journal[s][i] < next[s]
        /\ Len(journal[s]) + 1 <= next[s]
    BY <1>6, WritesAreNew
  <2>2. journal[s] \in Seq(Ids) /\ Len(journal[s]) \in Nat /\ Ids \subseteq Nat
    BY LenProperties, CommitAssumption DEF TypeOK, Ids
  <2>3. /\ Len(journal'[s]) = Len(journal[s]) + 1 /\ journal'[s] # <<>>
        /\ \A i \in 1..Len(journal[s]) : journal'[s][i] = journal[s][i]
        /\ journal'[s][Len(journal[s]) + 1] = next[s]
    BY <1>3, <1>6, <2>1, <2>2, AppendProperties
  <2>4. \A id : Durable(s, id) => Durable(s, id)'
    BY <2>2, <2>3 DEF Durable
  <2>5. Durable(s, next[s])'
    BY <2>2, <2>3 DEF Durable
  <2>6. \A id \in receipts'[s] : Durable(s, id)'
    BY <1>2, <1>4, <2>1, <2>4, <2>5
  <2>7. \A i \in 1..Len(journal'[s]) : journal'[s][i] <= next[s]
    <3>1. \A i \in 1..Len(journal'[s]) : i \in 1..Len(journal[s]) \/ i = Len(journal[s]) + 1
      BY <2>2, <2>3
    <3>2. next[s] \in Nat
      BY IdsAreNumbers
    <3> QED
      BY <1>2, <2>3, <3>1, <3>2
  <2>8. at'[s] = "answered"
    BY <1>6 DEF Writes
  <2>9. req[s].kind = "accept" => next[s] \in receipts'[s]
    BY <1>4, <1>6, <2>1
  <2>10. ASSUME NEW i \in 1..Len(journal'[s]), NEW j \in 1..Len(journal'[s]), i < j
         PROVE  journal'[s][i] < journal'[s][j]
    <3>1. i \in 1..Len(journal[s]) /\ journal'[s][i] = journal[s][i]
      BY <2>2, <2>3, <2>10
    <3>2. CASE j = Len(journal[s]) + 1
      BY <2>1, <2>3, <3>1, <3>2
    <3>3. CASE j # Len(journal[s]) + 1
      <4>1. j \in 1..Len(journal[s]) /\ journal'[s][j] = journal[s][j]
        BY <2>2, <2>3, <3>3
      <4> QED
        BY <1>2, <2>10, <3>1, <4>1
    <3> QED
      BY <3>2, <3>3
  <2> QED
    BY <2>1, <2>2, <2>3, <2>6, <2>7, <2>8, <2>9, <2>10
<1> QED
  BY <1>5, <1>6

(* A group is committed.                                                   *)
LEMMA CommitKeeps ==
  ASSUME GroupInv, Commit
  PROVE  GroupInv'
<1>1. PICK R \in SUBSET Members(comm.group) :
        Transaction(R) /\ Reply(Outcomes(comm.group, R))
  BY DEF Commit
<1>2. comm.at = "commit" /\ UNCHANGED faults /\ faults \in 0..MaxFaults
  BY DEF Commit, GroupInv, TypeOK
<1>3. /\ Len(Outcomes(comm.group, R)) = Len(comm.group)
      /\ \A i \in 1..Len(comm.group) : Outcomes(comm.group, R)[i] \in Answers
  <2>1. Len(comm.group) \in Nat
    BY LenProperties, Parts DEF GroupInv
  <2>2. \A i \in 1..Len(comm.group) : Outcome(comm.group[i], R) \in Answers
    BY DEF Outcome, Answers
  <2> QED
    BY <2>1, <2>2 DEF Outcomes
<1>4. TypeOK' /\ Places' /\ StopIsLast' /\ Loop' /\ Hands' /\ Admission'
  BY <1>1, <1>2, <1>3, TransactionTypes, ReplyKeeps
<1>5. /\ at' = [p \in Producers |-> IF p \in Members(comm.group) THEN "answered" ELSE at[p]]
      /\ UNCHANGED <<next, again, req>>
  BY <1>1, <1>2, <1>3, ReplyEffect
<1>6. \A s \in Sessions : /\ s \in Members(comm.group) => at'[s] = "answered"
                          /\ s \notin Members(comm.group) => at'[s] = at[s]
  BY <1>5 DEF Producers
<1>7. Receipted' /\ AppliedOnce'
  BY <1>1, <1>2, <1>5, <1>6, TransactionKeeps
<1> QED
  BY <1>4, <1>7 DEF GroupInv

(* A transaction fails.                                                    *)
LEMMA CommitFailsKeeps ==
  ASSUME GroupInv, CommitFails
  PROVE  GroupInv'
<1> DEFINE out == [i \in 1..Len(comm.group) |-> "failed"]
<1>1. /\ comm.at = "commit" /\ faults' \in 0..MaxFaults /\ Reply(out)
      /\ UNCHANGED <<journal, receipts, rows>>
  BY CommitAssumption DEF CommitFails, GroupInv, TypeOK, durable
<1>2. Len(out) = Len(comm.group) /\ \A i \in 1..Len(comm.group) : out[i] \in Answers
  <2>1. Len(comm.group) \in Nat
    BY LenProperties, Parts DEF GroupInv
  <2> QED
    BY <2>1 DEF Answers
<1>3. /\ journal' \in [Sessions -> Seq(Ids)] /\ receipts' \in [Sessions -> SUBSET Ids]
      /\ rows' \subseteq Coordinates /\ IsFiniteSet(rows')
  BY <1>1 DEF GroupInv, TypeOK, Admission
<1> HIDE DEF out
<1>4. TypeOK' /\ Places' /\ StopIsLast' /\ Loop' /\ Hands' /\ Admission'
  BY <1>1, <1>2, <1>3, ReplyKeeps
<1>5. /\ at' = [p \in Producers |-> IF p \in Members(comm.group) THEN "answered" ELSE at[p]]
      /\ UNCHANGED <<next, again, req>>
  BY <1>1, <1>2, ReplyEffect
<1>6. Receipted' /\ AppliedOnce'
  BY <1>1, <1>5, JournalQuiet DEF GroupInv, Producers
<1> QED
  BY <1>4, <1>6 DEF GroupInv

-----------------------------------------------------------------------------
(* Shutdown, answers and restart.                                          *)

(* The committer ends and drops what is left in its channel.               *)
LEMMA TakeStopKeeps ==
  ASSUME GroupInv, TakeStop
  PROVE  GroupInv'
<1> USE DEF GroupInv
<1> DEFINE D == Members(Tail(queue))
<1>1. /\ comm.at = "idle" /\ comm.carried = <<>> /\ queue # <<>> /\ Head(queue) = Stop
      /\ answer' = [p \in Producers |-> IF p \in D THEN "failed" ELSE answer[p]]
      /\ at' = [p \in Producers |-> IF p \in D THEN "answered" ELSE at[p]]
      /\ free' = free + Cardinality(Permits(D))
      /\ comm' = [comm EXCEPT !.at = "stopped"] /\ queue' = <<>>
      /\ UNCHANGED <<journal, receipts, rows, next, again, req, waiters, line, admitted, phase, faults>>
  BY DEF TakeStop, durable, clients
<1>2. /\ Members(queue) = D \cup {Stop} /\ Stop \notin D /\ D \subseteq Producers
  <2>1. /\ Members(queue) = D \cup {Stop} /\ Stop \notin D /\ Tail(queue) \in Seq(Producers \cup {Stop})
    BY <1>1, Parts, SeqTail DEF Places
  <2> QED
    BY <2>1, SeqMembers
<1>3. /\ \A p \in D : at[p] = "queued" /\ at'[p] = "answered" /\ answer'[p] = "failed"
      /\ \A p \in Producers \ D : at'[p] = at[p] /\ answer'[p] = answer[p]
  BY <1>1, <1>2 DEF Places
<1>4. D \subseteq Charged /\ Charged' = Charged \ D
  BY <1>2, <1>3 DEF Charged
<1>5. /\ comm \in [at : {"idle", "collecting", "commit", "stopped"},
                   group : Seq(Producers), carried : Seq(Producers), stop : BOOLEAN]
      /\ Len(comm.group) <= GroupMax /\ Len(comm.carried) <= 1
  BY DEF TypeOK
<1>6. /\ comm'.at = "stopped" /\ comm'.group = comm.group /\ comm'.carried = comm.carried
      /\ comm'.stop = comm.stop
      /\ comm' \in [at : {"idle", "collecting", "commit", "stopped"},
                    group : Seq(Producers), carried : Seq(Producers), stop : BOOLEAN]
  BY <1>1, <1>5
<1>7. Admission' /\ free' \in 0..QueueBytes /\ admitted' \in Nat
  <2>1. TypeOK /\ Admission /\ IsFiniteSet(rows')
    BY <1>1 DEF Admission
  <2> HIDE DEF GroupInv
  <2> QED
    BY <1>1, <1>4, <1>6, <2>1, AdmissionLeave
<1>8. TypeOK'
  <2>1. /\ answer' \in [Producers -> Answers \cup {"none"}]
        /\ at' \in [Producers -> {"idle", "permit", "line", "queued", "answered"}]
    BY <1>1 DEF TypeOK, Answers
  <2>2. queue' \in Seq(Producers \cup {Stop}) /\ Len(queue') <= QueueMax
    BY <1>1, CommitAssumption
  <2> QED
    BY <1>1, <1>5, <1>6, <1>7, <2>1, <2>2 DEF TypeOK
<1>9. Members(<<>>) = {} /\ IsInjective(<<>>)
  BY DEF Members, IsInjective
<1>10. Places'
  <2>1. Members(comm.group) = {} /\ Members(comm.carried) = {}
    BY <1>1, <1>9 DEF Loop
  <2>2. Members(waiters) \subseteq Producers /\ Members(line) \ {Stop} \subseteq Producers
    BY Parts, SeqMembers
  <2>3. /\ \A p \in Members(waiters) : at'[p] = "permit"
        /\ \A p \in Members(line) \ {Stop} : at'[p] = "line"
    BY <1>3, <2>2 DEF Places
  <2> QED
    BY <1>1, <1>6, <1>9, <2>1, <2>3 DEF Places
<1>11. StopIsLast'
  <2>1. \A s \in Sessions : at[s] = "idle" => at'[s] = "idle"
    BY <1>3, Parts
  <2>2. Stop \in Members(queue) /\ Members(queue') = {}
    BY <1>1, <1>2, <1>9
  <2> QED
    BY <1>1, <1>6, <2>1, <2>2 DEF StopIsLast
<1>12. Loop'
  BY <1>1, <1>6 DEF Loop
<1>13. Hands'
  <2>1. \A p \in Producers : /\ at'[p] = "idle" <=> at[p] = "idle"
                             /\ at'[p] = "answered" <=> answer'[p] # "none"
    BY <1>3 DEF Hands
  <2> QED
    BY <1>1, <2>1, Parts DEF Hands
<1>14. Receipted' /\ AppliedOnce'
  BY <1>1, <1>3, Parts, JournalQuiet
<1> QED
  BY <1>7, <1>8, <1>10, <1>11, <1>12, <1>13, <1>14

(* A producer takes its answer.                                            *)
LEMMA ReceiveKeeps ==
  ASSUME GroupInv, NEW p \in Producers, Receive(p)
  PROVE  GroupInv'
<1> USE DEF GroupInv
<1>1. /\ at[p] = "answered"
      /\ at' = [at EXCEPT ![p] = "idle"] /\ req' = [req EXCEPT ![p] = NoRequest]
      /\ answer' = [answer EXCEPT ![p] = "none"]
      /\ UNCHANGED <<journal, receipts, rows, free, waiters, line, queue, comm, admitted, phase, faults>>
  BY DEF Receive, durable
<1>2. \/ p = Hooks /\ UNCHANGED <<next, again>>
      \/ /\ p # Hooks
         /\ next' = [next EXCEPT ![p] = next[p] + 1] /\ again' = [again EXCEPT ![p] = FALSE]
      \/ /\ p # Hooks /\ req[p].kind = "accept"
         /\ next' = [next EXCEPT ![p] = next[p]] /\ again' = [again EXCEPT ![p] = TRUE]
  BY DEF Receive, Settle, clients
<1>3. /\ at' \in [Producers -> {"idle", "permit", "line", "queued", "answered"}]
      /\ answer' \in [Producers -> Answers \cup {"none"}]
      /\ at'[p] = "idle" /\ answer'[p] = "none" /\ req'[p] = NoRequest
      /\ \A q \in Producers \ {p} : at'[q] = at[q] /\ answer'[q] = answer[q] /\ req'[q] = req[q]
      /\ req' = [q \in Producers |-> req'[q]]
  BY <1>1 DEF TypeOK
<1>4. p # Hooks => p \in Sessions /\ next[p] \in Ids /\ req[p].id = next[p]
  <2>1. ASSUME p # Hooks PROVE p \in Sessions /\ req[p] # NoRequest /\ req[p] \in SessionRequests
    BY <1>1, <2>1 DEF Producers, Hands, TypeOK
  <2> QED
    BY <1>1, <2>1 DEF Hands, SessionRequests
<1>5. \A s \in Sessions \ {p} : next'[s] = next[s] /\ again'[s] = again[s]
  BY <1>2 DEF TypeOK
<1>6. TypeOK'
  <2>1. /\ next' \in [Sessions -> 1..(MaxRequests + 1)] /\ again' \in [Sessions -> BOOLEAN]
    <3>1. \A s \in Sessions : next'[s] \in 1..(MaxRequests + 1) /\ again'[s] \in BOOLEAN
      <4>1. \A s \in Sessions : next[s] \in 1..(MaxRequests + 1) /\ again[s] \in BOOLEAN
        BY DEF TypeOK
      <4>2. \A s \in Sessions : next[s] \in Ids => next[s] + 1 \in 1..(MaxRequests + 1)
        BY IdsAreNumbers
      <4>3. p # Hooks => next'[p] \in {next[p], next[p] + 1} /\ again'[p] \in BOOLEAN
        BY <1>2, <1>4 DEF TypeOK
      <4>4. p \in Sessions => p # Hooks
        BY Parts
      <4> HIDE DEF GroupInv
      <4> QED
        BY <1>4, <1>5, <4>1, <4>2, <4>3, <4>4
    <3>2. next' = [s \in Sessions |-> next'[s]] /\ again' = [s \in Sessions |-> again'[s]]
      BY <1>2 DEF TypeOK
    <3> HIDE DEF GroupInv
    <3> QED
      BY <3>1, <3>2
  <2>2. /\ \A s \in Sessions : req'[s] \in SessionRequests \cup {NoRequest}
        /\ req'[Hooks] \in AckRequests \cup {NoRequest}
    <3>1. /\ \A s \in Sessions : req[s] \in SessionRequests \cup {NoRequest}
          /\ req[Hooks] \in AckRequests \cup {NoRequest}
      BY DEF TypeOK
    <3>2. \A q \in Producers : req'[q] \in {req[q], NoRequest}
      BY <1>3
    <3>3. Hooks \in Producers /\ \A s \in Sessions : s \in Producers
      BY DEF Producers
    <3> HIDE DEF GroupInv
    <3> QED
      BY <3>1, <3>2, <3>3
  <2> QED
    BY <1>1, <1>3, <2>1, <2>2 DEF TypeOK
<1>7. Places'
  <2>1. p # Stop /\ p \notin Members(waiters) /\ p \notin Members(line) /\ p \notin Members(queue)
        /\ p \notin Members(comm.group) /\ p \notin Members(comm.carried)
    BY <1>1, Parts DEF Places
  <2>2. \A q : q # p => at'[q] = at[q]
    BY <1>1 DEF TypeOK
  <2> QED
    BY <1>1, <2>1, <2>2 DEF Places
<1>8. StopIsLast'
  BY <1>1, <1>3, Parts DEF StopIsLast
<1>9. Loop'
  BY <1>1 DEF Loop
<1>10. Hands'
  <2>1. \A q \in Producers : /\ at'[q] = "idle" <=> req'[q] = NoRequest
                             /\ at'[q] = "answered" <=> answer'[q] # "none"
    BY <1>3 DEF Hands
  <2>2. \A s \in Sessions : at'[s] # "idle" => /\ s # p /\ req'[s].id = next'[s]
                                               /\ again'[s] => req'[s].kind = "accept"
    BY <1>3, <1>5, Parts DEF Hands
  <2> QED
    BY <2>1, <2>2 DEF Hands
<1>11. AppliedOnce'
  BY <1>1 DEF AppliedOnce
<1>12. Receipted'
  <2>1. SUFFICES ASSUME NEW s \in Sessions
                 PROVE  /\ \A i \in 1..Len(journal[s]) : journal[s][i] <= next'[s]
                        /\ Durable(s, next'[s]) =>
                              \/ again'[s] /\ next'[s] \in receipts[s]
                              \/ at'[s] = "answered" /\ (req'[s].kind = "accept" => next'[s] \in receipts[s])
    BY <1>1 DEF Receipted, Durable
  <2>2. /\ \A i \in 1..Len(journal[s]) : journal[s][i] <= next[s]
        /\ Durable(s, next[s]) =>
              \/ again[s] /\ next[s] \in receipts[s]
              \/ at[s] = "answered" /\ (req[s].kind = "accept" => next[s] \in receipts[s])
    BY DEF Receipted
  <2>3. CASE s # p
    BY <1>3, <1>5, <2>2, <2>3, Parts
  <2>4. CASE s = p
    <3>1. /\ p # Hooks /\ next[s] \in Nat
          /\ \A i \in 1..Len(journal[s]) : journal[s][i] \in Nat
      BY <2>4, Parts, IdsAreNumbers
    <3>2. CASE next'[s] = next[s] + 1
      BY <2>2, <3>1, <3>2 DEF Durable
    <3>3. CASE next'[s] = next[s] /\ again'[s] = TRUE /\ req[s].kind = "accept"
      BY <1>1, <2>2, <2>4, <3>3 DEF Hands
    <3> QED
      BY <1>2, <2>4, <3>1, <3>2, <3>3 DEF TypeOK
  <2> QED
    BY <2>3, <2>4
<1>13. Admission'
  <2>1. Charged' = Charged /\ p \notin Charged
    BY <1>1, <1>3 DEF Charged
  <2>2. \A q \in Charged : req'[q] = req[q]
    BY <1>3, <2>1 DEF Charged
  <2> QED
    BY <1>1, <2>1, <2>2, AdmissionQuiet DEF Admission
<1> QED
  BY <1>6, <1>7, <1>8, <1>9, <1>10, <1>11, <1>12, <1>13

(* A drain begins; the committer is joined.                                *)
LEMMA PhaseKeeps ==
  ASSUME GroupInv, BeginDraining \/ JoinCommitter
  PROVE  GroupInv'
<1> USE DEF GroupInv
<1>1. /\ UNCHANGED <<journal, receipts, rows, next, again, req, at, answer, free, waiters, line,
                     queue, comm, admitted, faults>>
      /\ phase' \in {"draining", "down"}
      /\ phase' = "draining" => phase = "open"
      /\ phase' = "down" => phase = "stopping"
  BY DEF BeginDraining, JoinCommitter, durable, clients
<1>2. TypeOK'
  BY <1>1 DEF TypeOK
<1>3. Places' /\ Loop' /\ Hands'
  BY <1>1 DEF Places, Loop, Hands
<1>4. StopIsLast'
  BY <1>1 DEF StopIsLast
<1>5. Receipted' /\ AppliedOnce'
  BY <1>1, JournalQuiet
<1>6. Admission'
  BY <1>1, AdmissionQuiet DEF Charged, Admission
<1> QED
  BY <1>2, <1>3, <1>4, <1>5, <1>6

(* The Shutdown message joins the line.                                    *)
LEMMA SendStopKeeps ==
  ASSUME GroupInv, SendStop
  PROVE  GroupInv'
<1> USE DEF GroupInv
<1>1. /\ UNCHANGED <<journal, receipts, rows, next, again, req, at, answer, free, waiters,
                     queue, comm, admitted, faults>>
      /\ phase = "draining" /\ phase' = "stopping" /\ line' = Append(line, Stop)
      /\ \A s \in Sessions : at[s] = "idle"
  BY DEF SendStop, durable, clients
<1>2. Stop \notin Members(line) /\ Stop \notin Members(queue) /\ ~comm.stop /\ comm.at # "stopped"
  BY <1>1 DEF StopIsLast
<1>3. /\ line' \in Seq(Producers \cup {Stop})
      /\ Members(line') = Members(line) \cup {Stop} /\ IsInjective(line')
  BY <1>1, <1>2, Parts, SeqAppend DEF Places
<1>4. TypeOK'
  BY <1>1, <1>3 DEF TypeOK
<1>5. Places' /\ Loop' /\ Hands'
  BY <1>1, <1>3 DEF Places, Loop, Hands
<1>6. StopIsLast'
  BY <1>1, <1>2, <1>3 DEF StopIsLast
<1>7. Receipted' /\ AppliedOnce'
  BY <1>1, JournalQuiet
<1>8. Admission'
  BY <1>1, AdmissionQuiet DEF Charged, Admission
<1> QED
  BY <1>4, <1>5, <1>6, <1>7, <1>8

(* The next process: what is durable stands, and a client that heard       *)
(* nothing asks again.                                                     *)
LEMMA RebornKeeps ==
  ASSUME GroupInv, Reborn, faults' \in 0..MaxFaults
  PROVE  GroupInv'
<1> USE DEF GroupInv
<1>1. /\ UNCHANGED <<journal, receipts, rows>>
      /\ req' = [p \in Producers |-> NoRequest] /\ at' = [p \in Producers |-> "idle"]
      /\ answer' = [p \in Producers |-> "none"] /\ free' = QueueBytes /\ waiters' = <<>>
      /\ line' = <<>> /\ queue' = <<>> /\ comm' = Resting /\ admitted' = 0 /\ phase' = "open"
  BY DEF Reborn, durable
<1>2. \A s \in Sessions :
         /\ next'[s] = IF req[s].kind = "append" THEN next[s] + 1 ELSE next[s]
         /\ again'[s] = IF req[s].kind = "none" THEN again[s] ELSE req[s].kind = "accept"
  BY DEF Reborn
<1>3. \A s \in Sessions :
         \/ at[s] = "idle" /\ req[s].kind = "none"
         \/ /\ at[s] # "idle" /\ req[s].kind \in {"accept", "append"}
            /\ next[s] \in Ids /\ (again[s] => req[s].kind = "accept")
  <2>1. \A s \in Sessions : at[s] # "idle" => req[s] \in SessionRequests /\ req[s].id = next[s]
    BY Parts DEF Hands, TypeOK
  <2>2. \A s \in Sessions : at[s] = "idle" => req[s].kind = "none"
    BY Parts DEF Hands, NoRequest
  <2> QED
    BY <2>1, <2>2 DEF Hands, SessionRequests
<1>4. Members(<<>>) = {} /\ IsInjective(<<>>)
  BY DEF Members, IsInjective
<1>5. TypeOK'
  <2>1. next' \in [Sessions -> 1..(MaxRequests + 1)]
    <3>1. \A s \in Sessions : next'[s] \in 1..(MaxRequests + 1)
      BY <1>2, <1>3, IdsAreNumbers
    <3> QED
      BY <3>1 DEF Reborn
  <2>2. again' \in [Sessions -> BOOLEAN]
    <3>1. \A s \in Sessions : again[s] \in BOOLEAN
      BY DEF TypeOK
    <3> QED
      BY <3>1 DEF Reborn
  <2>3. /\ req' = [p \in Producers |-> req'[p]]
        /\ \A s \in Sessions : req'[s] \in SessionRequests \cup {NoRequest}
        /\ req'[Hooks] \in AckRequests \cup {NoRequest}
    BY <1>1 DEF Producers
  <2>4. /\ at' \in [Producers -> {"idle", "permit", "line", "queued", "answered"}]
        /\ answer' \in [Producers -> Answers \cup {"none"}]
        /\ free' \in 0..QueueBytes
        /\ waiters' \in Seq(Producers)
        /\ line' \in Seq(Producers \cup {Stop})
        /\ queue' \in Seq(Producers \cup {Stop}) /\ Len(queue') <= QueueMax
    BY <1>1, CommitAssumption
  <2>5. /\ comm' \in [at : {"idle", "collecting", "commit", "stopped"},
                     group : Seq(Producers), carried : Seq(Producers), stop : BOOLEAN]
        /\ Len(comm'.group) <= GroupMax /\ Len(comm'.carried) <= 1
        /\ admitted' \in Nat
        /\ phase' \in {"open", "draining", "stopping", "down"}
    BY <1>1, CommitAssumption DEF Resting
  <2> QED
    BY <1>1, <2>1, <2>2, <2>3, <2>4, <2>5 DEF TypeOK
<1>6. Places' /\ StopIsLast' /\ Loop'
  BY <1>1, <1>4, CommitAssumption DEF Places, StopIsLast, Loop, Resting
<1>7. Hands'
  BY <1>1, Parts DEF Hands
<1>8. AppliedOnce'
  BY <1>1 DEF AppliedOnce
<1>9. Receipted'
  <2>1. SUFFICES ASSUME NEW s \in Sessions
                 PROVE  /\ \A i \in 1..Len(journal[s]) : journal[s][i] <= next'[s]
                        /\ Durable(s, next'[s]) => again'[s] /\ next'[s] \in receipts[s]
    BY <1>1 DEF Receipted, Durable
  <2>2. /\ \A i \in 1..Len(journal[s]) : journal[s][i] <= next[s]
        /\ Durable(s, next[s]) =>
              \/ again[s] /\ next[s] \in receipts[s]
              \/ at[s] = "answered" /\ (req[s].kind = "accept" => next[s] \in receipts[s])
    BY DEF Receipted
  <2>3. next[s] \in Nat /\ \A i \in 1..Len(journal[s]) : journal[s][i] \in Nat
    BY IdsAreNumbers
  <2>4. CASE req[s].kind = "append"
    BY <1>2, <2>2, <2>3, <2>4 DEF Durable
  <2>5. CASE req[s].kind # "append"
    BY <1>2, <1>3, <2>2, <2>5
  <2> QED
    BY <2>4, <2>5
<1>10. Admission'
  <2>1. Charged' = {}
    BY <1>1 DEF Charged
  <2>2. Permits(Charged)' = {}
    BY <2>1 DEF Permits
  <2>3. Cardinality(Charged') = 0 /\ Cardinality(Permits(Charged)') = 0 /\ IsFiniteSet({})
    BY <2>1, <2>2, FS_EmptySet
  <2> QED
    BY <1>1, <2>1, <2>3, CommitAssumption DEF Admission
<1> QED
  BY <1>5, <1>6, <1>7, <1>8, <1>9, <1>10

(* A step preserves the invariant.                                         *)
LEMMA GroupStep ==
  ASSUME GroupInv, [Next]_vars
  PROVE  GroupInv'
<1>1. CASE UNCHANGED vars
  <2>1. TypeOK' /\ Places' /\ StopIsLast'
    BY <1>1 DEF vars, GroupInv, TypeOK, Places, StopIsLast
  <2>2. Loop' /\ Hands'
    BY <1>1 DEF vars, GroupInv, Loop, Hands
  <2>3. Receipted' /\ AppliedOnce'
    BY <1>1, JournalQuiet DEF vars, GroupInv
  <2>4. Admission'
    BY <1>1, AdmissionQuiet DEF vars, GroupInv, Charged, Admission
  <2> QED
    BY <2>1, <2>2, <2>3, <2>4 DEF GroupInv
<1>2. CASE Crash \/ Restart
  <2>1. Reborn /\ faults' \in 0..MaxFaults
    BY <1>2, CommitAssumption DEF Crash, Restart, GroupInv, TypeOK
  <2> QED
    BY <2>1, RebornKeeps
<1> QED
  BY <1>1, <1>2, SubmitKeeps, ReceiveKeeps, SubmitAcksKeeps, AckDirectlyKeeps, AcquireKeeps,
     EnterKeeps, SendFailsKeeps, TakeFirstKeeps, CollectKeeps, CloseKeeps, CommitKeeps,
     TakeStopKeeps, CommitFailsKeeps, PhaseKeeps, SendStopKeeps DEF Next, Committer

(* The invariant holds in every reachable state.                           *)
LEMMA GroupInvariant == Spec => []GroupInv
<1>1. Init => GroupInv
  BY GroupInit
<1>2. GroupInv /\ [Next]_vars => GroupInv'
  BY GroupStep
<1> QED
  BY <1>1, <1>2, PTL DEF Spec

-----------------------------------------------------------------------------
(* Theorems.                                                               *)

(* Every reachable state is well typed: permits never exceed the           *)
(* semaphore, channel and group never exceed their capacity.               *)
THEOREM TypeCorrect == Spec => []TypeOK
  BY GroupInvariant, PTL DEF GroupInv

(* A command takes effect at most once and the commands of a session in    *)
(* the order they were made, through lost answers, repetitions, failed     *)
(* groups, crashes and restarts.                                           *)
THEOREM CommandsApplyOnce == Spec => []AppliedOnce
  BY GroupInvariant, PTL DEF GroupInv

(* Every byte permit taken is held by a request on its way, and the        *)
(* counter of admitted mutations is exact until the committer stops.       *)
THEOREM AdmissionIsExact == Spec => []AdmissionExact
<1>1. GroupInv => AdmissionExact
  BY DEF GroupInv, Admission, AdmissionExact
<1> QED
  BY <1>1, GroupInvariant, PTL

-----------------------------------------------------------------------------
(* The refinement of CommandStore. A group commits its members and nobody  *)
(* else, and what the code decides by receipts is what the journal says.   *)

(* The constants of the two specifications are the same.                   *)
LEMMA AloneConstants ==
  /\ Alone!Producers = Producers /\ Alone!NoRequest = NoRequest /\ Alone!Answers = Answers
  /\ Alone!SessionRequests = SessionRequests /\ Alone!AckRequests = AckRequests
  BY DEF Alone!Producers, Alone!NoRequest, Alone!Answers, Alone!SessionRequests, Alone!Ids,
         Alone!AckRequests, Alone!Coordinates, Producers, NoRequest, Answers, SessionRequests,
         AckRequests, Coordinates, Ids

(* How a request stands in the abstract specification.                     *)
LEMMA FateIs ==
  ASSUME NEW p
  PROVE  /\ at[p] = "idle" => Fate(p) = "idle"
         /\ at[p] = "answered" => Fate(p) = answer[p]
         /\ at[p] \notin {"idle", "answered"} => Fate(p) = "pending"
  BY DEF Fate

(* The same after a step.                                                  *)
LEMMA FateWillBe ==
  ASSUME NEW p
  PROVE  /\ at'[p] = "idle" => Fate(p)' = "idle"
         /\ at'[p] = "answered" => Fate(p)' = answer'[p]
         /\ at'[p] \notin {"idle", "answered"} => Fate(p)' = "pending"
  BY DEF Fate

(* Initially nobody has a request.                                         *)
LEMMA AloneInit == Init => Alone!Init
<1>1. Init => \A p \in Producers : Fate(p) = "idle"
  BY FateIs DEF Init
<1> QED
  BY <1>1, AloneConstants DEF Init, Alone!Init

(* Nothing that the abstract specification speaks of changes.              *)
LEMMA AloneStutters ==
  ASSUME UNCHANGED <<journal, rows, req>>, \A p \in Producers : Fate(p)' = Fate(p)
  PROVE  UNCHANGED Alone!vars
<1>1. [p \in Producers |-> Fate(p)]' = [p \in Producers |-> Fate(p)]
  OBVIOUS
<1> QED
  BY <1>1 DEF Alone!vars

(* A producer makes a request.                                             *)
LEMMA AloneSubmits ==
  ASSUME GroupInv, NEW p \in Producers, NEW r, at[p] = "idle", Ask(p, r),
         p # Hooks => r \in SessionRequests,
         p = Hooks => r \in AckRequests
  PROVE  Alone!Next
<1>1. Fate(p) = "idle" /\ Fate(p)' = "pending"
  BY FateIs, FateWillBe DEF Ask, GroupInv, TypeOK
<1>2. \A q \in Producers \ {p} : Fate(q)' = Fate(q)
  BY DEF Ask, Fate, GroupInv, TypeOK
<1>3. [q \in Producers |-> Fate(q)]' = [[q \in Producers |-> Fate(q)] EXCEPT ![p] = "pending"]
  BY <1>1, <1>2
<1>4. /\ req'[p] \in IF p = Hooks THEN AckRequests ELSE SessionRequests
      /\ req' = [req EXCEPT ![p] = req'[p]]
  BY DEF Ask, GroupInv, TypeOK
<1>5. UNCHANGED <<journal, rows>>
  BY DEF Ask, durable
<1>6. Alone!Submit(p)
  BY <1>1, <1>3, <1>4, <1>5, AloneConstants DEF Alone!Submit
<1> QED
  BY <1>6, AloneConstants DEF Alone!Next

(* Requests fail.                                                          *)
LEMMA AloneFails ==
  ASSUME NEW P \in SUBSET Producers, P # {}, UNCHANGED <<journal, rows, req>>,
         \A p \in P : Fate(p) = "pending" /\ Fate(p)' = "failed",
         \A p \in Producers \ P : Fate(p)' = Fate(p)
  PROVE  Alone!Next
<1>1. [p \in Producers |-> Fate(p)]' =
        [p \in Producers |-> IF p \in P THEN "failed" ELSE [q \in Producers |-> Fate(q)][p]]
  OBVIOUS
<1>2. Alone!Fail(P)
  BY <1>1, AloneConstants DEF Alone!Fail
<1> QED
  BY <1>2, AloneConstants DEF Alone!Next

(* The receipts decide what the journal would: the outcome of a member is  *)
(* the answer it deserves by its own session alone.                        *)
LEMMA OutcomeIsDeserved ==
  ASSUME GroupInv, comm.at = "commit", NEW R, NEW p \in Members(comm.group)
  PROVE  Alone!Deserved(p, R) = Outcome(p, R)
<1> USE DEF GroupInv
<1>1. p \in Producers /\ at[p] = "queued" /\ req[p] # NoRequest
  BY ReleasedIsGroup DEF Places, Hands
<1>2. CASE p = Hooks
  <2>1. req[p] \in AckRequests
    BY <1>1, <1>2 DEF TypeOK
  <2>2. req[p].kind = "ack"
    BY <2>1 DEF AckRequests
  <2> QED
    BY <1>2, <2>2 DEF Alone!Deserved, Outcome
<1>3. CASE p # Hooks
  <2>1. p \in Sessions /\ req[p] \in SessionRequests
    BY <1>1, <1>3 DEF Producers, TypeOK
  <2>2. req[p].kind \in {"accept", "append"} /\ req[p].id = next[p]
    BY <1>1, <2>1 DEF SessionRequests, Hands
  <2>3. Alone!Durable(p, req[p].id) <=> Durable(p, next[p])
    BY <2>2 DEF Alone!Durable, Durable
  <2>4. Durable(p, next[p]) <=> next[p] \in receipts[p]
    BY <1>1, <2>1 DEF Receipted
  <2> QED
    BY <1>3, <2>2, <2>3, <2>4 DEF Alone!Deserved, Outcome
<1> QED
  BY <1>2, <1>3

(* A group is a commit of each of its members.                             *)
LEMMA AloneCommits ==
  ASSUME GroupInv, Commit
  PROVE  Alone!Next
<1> DEFINE G == Members(comm.group)
<1>1. PICK R \in SUBSET G : Transaction(R) /\ Reply(Outcomes(comm.group, R))
  BY DEF Commit
<1>2. comm.at = "commit"
  BY DEF Commit
<1>3. Len(Outcomes(comm.group, R)) = Len(comm.group)
  <2>1. Len(comm.group) \in Nat
    BY LenProperties, Parts DEF GroupInv
  <2> QED
    BY <2>1 DEF Outcomes
<1>4. /\ at' = [p \in Producers |-> IF p \in G THEN "answered" ELSE at[p]]
      /\ \A p \in G :
            \E i \in 1..Len(comm.group) :
               comm.group[i] = p /\ answer'[p] = Outcomes(comm.group, R)[i]
      /\ \A p \in Producers \ G : answer'[p] = answer[p]
      /\ UNCHANGED req
  BY <1>1, <1>2, <1>3, ReplyEffect
<1>5. G # {} /\ G \subseteq Producers /\ \A p \in G : at[p] = "queued"
  BY <1>2, ReleasedIsGroup DEF GroupInv, Places
<1>6. \A p \in G : Alone!Deserved(p, R) = Outcome(p, R)
  BY <1>2, OutcomeIsDeserved
<1>7. \A p \in G : answer'[p] = Alone!Deserved(p, R)
  <2>1. \A i \in 1..Len(comm.group) : Outcomes(comm.group, R)[i] = Outcome(comm.group[i], R)
    BY DEF Outcomes
  <2> QED
    BY <1>4, <1>6, <2>1
<1>8. \A p \in G : Fate(p) = "pending" /\ Fate(p)' = Alone!Deserved(p, R)
  BY <1>4, <1>5, <1>7, FateIs, FateWillBe
<1>9. \A p \in Producers \ G : Fate(p)' = Fate(p)
  BY <1>4 DEF Fate
<1>10. [p \in Producers |-> Fate(p)]' =
         [p \in Producers |-> IF p \in G THEN Alone!Deserved(p, R)
                                         ELSE [q \in Producers |-> Fate(q)][p]]
  BY <1>8, <1>9
<1>11. \A s \in Sessions : Alone!Writes(s, G, R) <=> Writes(s, R)
  BY <1>6 DEF Alone!Writes, Writes
<1>12. journal' = [s \in Sessions |-> IF Alone!Writes(s, G, R) THEN Append(journal[s], req[s].id)
                                                               ELSE journal[s]]
  BY <1>1, <1>11 DEF Transaction
<1>13. rows' = (IF Hooks \in G THEN rows \ req[Hooks].acks ELSE rows)
               \cup {<<s, Len(journal[s]) + 1>> : s \in {t \in Sessions : Alone!Writes(t, G, R)}}
  BY <1>1, <1>11 DEF Transaction
<1>14. \A p \in G : [q \in Producers |-> Fate(q)][p] = "pending"
  BY <1>5, <1>8
<1>15. Alone!Commit(G, R)
  BY <1>4, <1>5, <1>10, <1>12, <1>13, <1>14, AloneConstants DEF Alone!Commit
<1> QED
  BY <1>5, <1>15, AloneConstants DEF Alone!Next

(* A transaction that fails.                                               *)
LEMMA AloneCommitFails ==
  ASSUME GroupInv, CommitFails
  PROVE  Alone!Next
<1> DEFINE out == [i \in 1..Len(comm.group) |-> "failed"]
           G == Members(comm.group)
<1>1. comm.at = "commit" /\ Reply(out) /\ UNCHANGED <<journal, rows>>
  BY DEF CommitFails, durable
<1>2. Len(out) = Len(comm.group) /\ \A i \in 1..Len(comm.group) : out[i] = "failed"
  <2>1. Len(comm.group) \in Nat
    BY LenProperties, Parts DEF GroupInv
  <2> QED
    BY <2>1
<1> HIDE DEF out
<1>3. /\ at' = [p \in Producers |-> IF p \in G THEN "answered" ELSE at[p]]
      /\ \A p \in G : \E i \in 1..Len(comm.group) : comm.group[i] = p /\ answer'[p] = out[i]
      /\ \A p \in Producers \ G : answer'[p] = answer[p]
      /\ UNCHANGED req
  BY <1>1, <1>2, ReplyEffect
<1>4. G # {} /\ G \subseteq Producers /\ \A p \in G : at[p] = "queued"
  BY <1>1, ReleasedIsGroup DEF GroupInv, Places
<1>5. \A p \in G : answer'[p] = "failed"
  BY <1>2, <1>3
<1>6. \A p \in G : Fate(p) = "pending" /\ Fate(p)' = "failed"
  BY <1>3, <1>4, <1>5, FateIs, FateWillBe
<1>7. \A p \in Producers \ G : Fate(p)' = Fate(p)
  BY <1>3 DEF Fate
<1> QED
  BY <1>1, <1>3, <1>4, <1>6, <1>7, AloneFails

(* The committer ends.                                                     *)
LEMMA AloneTakesStop ==
  ASSUME GroupInv, TakeStop
  PROVE  [Alone!Next]_(Alone!vars)
<1> DEFINE D == Members(Tail(queue))
<1>1. /\ queue # <<>> /\ Head(queue) = Stop
      /\ answer' = [p \in Producers |-> IF p \in D THEN "failed" ELSE answer[p]]
      /\ at' = [p \in Producers |-> IF p \in D THEN "answered" ELSE at[p]]
      /\ UNCHANGED <<journal, rows, req>>
  BY DEF TakeStop, durable
<1>2. /\ Members(queue) = D \cup {Stop} /\ Stop \notin D /\ D \subseteq Producers
  <2>1. /\ Members(queue) = D \cup {Stop} /\ Stop \notin D /\ Tail(queue) \in Seq(Producers \cup {Stop})
    BY <1>1, Parts, SeqTail DEF GroupInv, Places
  <2> QED
    BY <2>1, SeqMembers
<1>3. \A p \in D : at[p] = "queued" /\ at'[p] = "answered" /\ answer'[p] = "failed"
  BY <1>1, <1>2 DEF GroupInv, Places
<1>4. \A p \in D : Fate(p) = "pending" /\ Fate(p)' = "failed"
  BY <1>3, FateIs, FateWillBe
<1>5. \A p \in Producers \ D : Fate(p)' = Fate(p)
  BY <1>1 DEF Fate
<1>6. CASE D = {}
  BY <1>1, <1>5, <1>6, AloneStutters
<1>7. CASE D # {}
  BY <1>1, <1>2, <1>4, <1>5, <1>7, AloneFails
<1> QED
  BY <1>6, <1>7

(* The channel is closed.                                                  *)
LEMMA AloneSendFails ==
  ASSUME GroupInv, SendFails
  PROVE  Alone!Next
<1>0. PICK p : p = Head(line)
  OBVIOUS
<1>1. /\ line # <<>> /\ comm.at = "stopped"
      /\ at' = [at EXCEPT ![p] = "answered"] /\ answer' = [answer EXCEPT ![p] = "failed"]
      /\ UNCHANGED <<journal, rows, req>>
  BY <1>0 DEF SendFails, durable
<1>2. p \in Producers \cup {Stop} /\ p \in Members(line)
  BY <1>0, <1>1, Parts, SeqTail DEF GroupInv
<1>3. p # Stop /\ p \in Producers /\ at[p] = "line"
  BY <1>1, <1>2 DEF GroupInv, StopIsLast, Places
<1>4. at'[p] = "answered" /\ answer'[p] = "failed"
      /\ \A q \in Producers \ {p} : at'[q] = at[q] /\ answer'[q] = answer[q]
  BY <1>1, <1>3 DEF GroupInv, TypeOK
<1>5. Fate(p) = "pending" /\ Fate(p)' = "failed"
  BY <1>3, <1>4, FateIs, FateWillBe
<1>6. \A q \in Producers \ {p} : Fate(q)' = Fate(q)
  BY <1>4 DEF Fate
<1>7. {p} \in SUBSET Producers /\ {p} # {}
  BY <1>3
<1> QED
  BY <1>1, <1>5, <1>6, <1>7, AloneFails

(* A producer takes its answer.                                            *)
LEMMA AloneReturns ==
  ASSUME GroupInv, NEW p \in Producers, Receive(p)
  PROVE  Alone!Next
<1>1. /\ at[p] = "answered" /\ at' = [at EXCEPT ![p] = "idle"]
      /\ req' = [req EXCEPT ![p] = NoRequest] /\ answer' = [answer EXCEPT ![p] = "none"]
      /\ UNCHANGED <<journal, rows>>
  BY DEF Receive, durable
<1>2. answer[p] \in Answers
  BY <1>1 DEF GroupInv, Hands, TypeOK
<1>3. at'[p] = "idle" /\ \A q \in Producers \ {p} : at'[q] = at[q] /\ answer'[q] = answer[q]
  BY <1>1 DEF GroupInv, TypeOK
<1>4. Fate(p) \in Answers /\ Fate(p)' = "idle"
  BY <1>1, <1>2, <1>3, FateIs, FateWillBe
<1>5. \A q \in Producers \ {p} : Fate(q)' = Fate(q)
  BY <1>3 DEF Fate
<1>6. [q \in Producers |-> Fate(q)]' = [[q \in Producers |-> Fate(q)] EXCEPT ![p] = "idle"]
  BY <1>4, <1>5
<1>7. Alone!Return(p)
  BY <1>1, <1>4, <1>6, AloneConstants DEF Alone!Return
<1> QED
  BY <1>7, AloneConstants DEF Alone!Next

(* Acknowledgements without the committer, and a new process.              *)
LEMMA AloneAcksAndCrashes ==
  ASSUME GroupInv, AckDirectly \/ Crash \/ Restart
  PROVE  Alone!Next
<1>1. CASE AckDirectly
  <2>1. Fate(Hooks) = "idle" /\ Hooks \in Producers
    BY <1>1, FateIs DEF AckDirectly, Producers
  <2>2. rows' \subseteq rows /\ UNCHANGED <<journal, req, at, answer>>
    BY <1>1 DEF AckDirectly
  <2>3. [q \in Producers |-> Fate(q)]' = [q \in Producers |-> Fate(q)]
    BY <2>2 DEF Fate
  <2>4. Alone!AckDirectly
    BY <2>1, <2>2, <2>3 DEF Alone!AckDirectly
  <2> QED
    BY <2>4 DEF Alone!Next
<1>2. CASE Crash \/ Restart
  <2>1. Reborn
    BY <1>2 DEF Crash, Restart
  <2>2. /\ req' = [p \in Producers |-> NoRequest] /\ at' = [p \in Producers |-> "idle"]
        /\ UNCHANGED <<journal, rows>>
    BY <2>1 DEF Reborn, durable
  <2>3. [q \in Producers |-> Fate(q)]' = [q \in Producers |-> "idle"]
    BY <2>2, FateWillBe
  <2>4. Alone!Crash
    BY <2>2, <2>3, AloneConstants DEF Alone!Crash
  <2> QED
    BY <2>4 DEF Alone!Next
<1> QED
  BY <1>1, <1>2

(* Steps inside the daemon.                                                *)
LEMMA AloneInside ==
  ASSUME GroupInv,
         \/ Acquire \/ Enter \/ TakeFirst \/ Collect \/ Close
         \/ BeginDraining \/ SendStop \/ JoinCommitter \/ UNCHANGED vars
  PROVE  UNCHANGED Alone!vars
<1>1. CASE Acquire
  <2>1. /\ UNCHANGED <<journal, rows, req, answer>> /\ at' = [at EXCEPT ![Head(waiters)] = "line"]
        /\ waiters # <<>>
    BY <1>1 DEF Acquire, durable
  <2>2. at[Head(waiters)] = "permit" /\ Head(waiters) \in Producers
    BY <2>1, Parts, SeqTail DEF GroupInv, Places
  <2>3. \A p \in Producers : /\ at'[p] = at[p] \/ (at[p] = "permit" /\ at'[p] = "line")
    BY <2>1, <2>2 DEF GroupInv, TypeOK
  <2>4. \A p \in Producers : Fate(p)' = Fate(p)
    BY <2>1, <2>3 DEF Fate
  <2> QED
    BY <2>1, <2>4, AloneStutters
<1>2. CASE Enter
  <2>1. /\ UNCHANGED <<journal, rows, req, answer>> /\ line # <<>>
        /\ at' = IF Head(line) = Stop THEN at ELSE [at EXCEPT ![Head(line)] = "queued"]
    BY <1>2 DEF Enter, durable
  <2>2. Head(line) # Stop => at[Head(line)] = "line" /\ Head(line) \in Producers
    BY <2>1, Parts, SeqTail DEF GroupInv, Places
  <2>3. \A p \in Producers : /\ at'[p] = at[p] \/ (at[p] = "line" /\ at'[p] = "queued")
    BY <2>1, <2>2 DEF GroupInv, TypeOK
  <2>4. \A p \in Producers : Fate(p)' = Fate(p)
    BY <2>1, <2>3 DEF Fate
  <2> QED
    BY <2>1, <2>4, AloneStutters
<1>3. CASE TakeFirst \/ Collect \/ Close \/ BeginDraining \/ SendStop \/ JoinCommitter \/ UNCHANGED vars
  <2>1. UNCHANGED <<journal, rows, req, at, answer>>
    BY <1>3 DEF TakeFirst, Collect, Close, BeginDraining, SendStop, JoinCommitter, vars, durable
  <2>2. \A p \in Producers : Fate(p)' = Fate(p)
    BY <2>1 DEF Fate
  <2> QED
    BY <2>1, <2>2, AloneStutters
<1> QED
  BY <1>1, <1>2, <1>3

(* Every step is a step of CommandStore, or none.                          *)
LEMMA AloneStep ==
  ASSUME GroupInv, [Next]_vars
  PROVE  [Alone!Next]_(Alone!vars)
<1>1. CASE \E s \in Sessions : Submit(s)
  <2>1. PICK s \in Sessions : Submit(s)
    BY <1>1
  <2>2. s \in Producers /\ s # Hooks
    BY Parts DEF GroupInv
  <2> QED
    BY <2>1, <2>2, AloneSubmits DEF Submit
<1>2. CASE SubmitAcks
  <2>1. PICK acks \in SUBSET rows \ {{}} :
          Ask(Hooks, [kind |-> "ack", acks |-> acks, weight |-> Cardinality(acks)])
    BY <1>2 DEF SubmitAcks
  <2>2. Cardinality(acks) \in Nat
    BY <2>1, FS_Subset, FS_CardinalityType DEF GroupInv, Admission
  <2>3. [kind |-> "ack", acks |-> acks, weight |-> Cardinality(acks)] \in AckRequests
    BY <2>1, <2>2 DEF AckRequests, GroupInv, TypeOK
  <2> QED
    BY <1>2, <2>1, <2>3, AloneSubmits DEF SubmitAcks, Producers
<1> QED
  BY <1>1, <1>2, AloneReturns, AloneAcksAndCrashes, AloneInside, AloneSendFails, AloneCommits,
     AloneCommitFails, AloneTakesStop DEF Next, Committer

(* The group is invisible: journal, dispatch rows and answers change as if *)
(* every request were a transaction of its own, and a command is replayed  *)
(* exactly when it is in the journal (GroupCommit implements CommandStore).*)
THEOREM GroupIsInvisible == Spec => EachAlone
<1>1. Init => Alone!Init
  BY AloneInit
<1>2. GroupInv /\ [Next]_vars => [Alone!Next]_(Alone!vars)
  BY AloneStep
<1> QED
  BY <1>1, <1>2, GroupInvariant, PTL DEF Spec, EachAlone, Alone!Spec
=============================================================================
