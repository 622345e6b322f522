------------------------ MODULE HookDispatchProofs -------------------------
(***************************************************************************)
(* Theorems about HookDispatch, for any number of sessions, events and     *)
(* faults and any page limit.                                              *)
(***************************************************************************)
EXTENDS HookDispatch, WellFoundedInduction, TLAPS

(* What the argument needs of the types.                                   *)
Typed ==
    /\ last \in [Sessions -> Nat]
    /\ rows \subseteq Sessions \X Nat
    /\ input \subseteq Sessions \X Nat
    /\ turn \subseteq Sessions \X Nat
    /\ facts \subseteq Sessions \X Nat
    /\ DOMAIN page = DOMAIN NoPage
    /\ page.acks \subseteq Sessions \X Nat
    /\ page.todo \subseteq Sessions \X Nat

(* Nothing, durable or in the hands of a page, is ahead of its journal:    *)
(* the coordinate of the next commit is fresh.                             *)
NothingAhead ==
    \A c \in rows \cup input \cup turn \cup facts \cup page.acks \cup page.todo :
        c[2] <= last[c[1]]

(* A page acknowledges an input only after the hooks handled it, or for    *)
(* one of the reasons to waive it.                                         *)
AcksAreEarned ==
    page.acks \cap input \subseteq done \cup waived

(* The inductive invariant.                                                *)
HookInv == Typed /\ NothingAhead /\ AcksAreEarned /\ NoInputDropped

(* A page begins with nothing to acknowledge.                              *)
LEMMA EmptyPage ==
  /\ NoPage.acks = {} /\ NoPage.todo = {} /\ NoPage.fenced = {}
  /\ DOMAIN NoPage = {"todo", "tails", "fenced", "acks", "ctx", "started", "waiting", "blocked",
                      "aborted"}
  BY DEF NoPage

(* The initial state. *)
LEMMA HookInit ==
  ASSUME Init
  PROVE  HookInv
  BY EmptyPage DEF Init, HookInv, Typed, NothingAhead, AcksAreEarned, NoInputDropped

(* Numbers that are not none have a least one.                             *)
LEMMA LeastNumber ==
  ASSUME NEW I \in SUBSET Nat, I # {}
  PROVE  \E m \in I : \A j \in I : m <= j
<1>1. IsWellFoundedOn(OpToRel(<, Nat), Nat)
  BY NatLessThanWellFounded
<1>2. PICK m \in I : \A j \in I : ~(<<j, m>> \in OpToRel(<, Nat))
  BY <1>1, WFMin
<1>3. \A j \in I : ~(j < m)
  BY <1>2 DEF OpToRel
<1> QED
  BY <1>3

(* The page has a next row until it is through.                            *)
LEMMA NextRow ==
  ASSUME Typed, page.todo # {}
  PROVE  Current \in page.todo
<1> DEFINE T == page.todo
<1>1. T \subseteq Sessions \X Nat /\ T # {} /\ Sessions \subseteq Nat
  BY HookAssumption DEF Typed, Sessions
<1> HIDE DEF T
<1>2. ASSUME NEW c \in T
      PROVE  c[1] \in Nat /\ c[2] \in Nat /\ c = <<c[1], c[2]>>
  <2>1. c \in Sessions \X Nat
    BY <1>1
  <2>2. c[1] \in Sessions /\ c[2] \in Nat /\ c = <<c[1], c[2]>>
    BY <2>1
  <2> QED
    BY <1>1, <2>2
<1>3. PICK s \in {c[1] : c \in T} : \A j \in {c[1] : c \in T} : s <= j
  <2>1. {c[1] : c \in T} \in SUBSET Nat /\ {c[1] : c \in T} # {}
    BY <1>1, <1>2
  <2> QED
    BY <2>1, LeastNumber
<1> DEFINE Q == {c[2] : c \in {d \in T : d[1] = s}}
<1>4. PICK n \in Q : \A j \in Q : n <= j
  <2>1. Q \in SUBSET Nat /\ Q # {}
    BY <1>2, <1>3
  <2> HIDE DEF Q
  <2> QED
    BY <2>1, LeastNumber
<1>5. <<s, n>> \in T
  BY <1>2, <1>4
<1>6. ASSUME NEW d \in T, d # <<s, n>>
      PROVE  Before(<<s, n>>, d)
  <2>1. s <= d[1] /\ s \in Nat /\ d[1] \in Nat /\ d[2] \in Nat
    BY <1>2, <1>3, <1>6
  <2>2. CASE d[1] = s
    <3>1. n <= d[2] /\ n \in Nat
      BY <1>2, <1>4, <2>2
    <3>2. d[2] # n
      BY <1>2, <1>6, <2>2
    <3> QED
      BY <2>1, <2>2, <3>1, <3>2 DEF Before
  <2>3. CASE d[1] # s
    BY <2>1, <2>3 DEF Before
  <2> QED
    BY <2>2, <2>3
<1>7. \E c \in T : \A d \in T \ {c} : Before(c, d)
  BY <1>5, <1>6
<1> QED
  BY <1>7 DEF Current, T

(* Most steps leave the outbox and its history alone, and of the page in   *)
(* hand they keep, or drop, what it has to do and to acknowledge.          *)
LEMMA HookQuiet ==
  ASSUME HookInv,
         UNCHANGED <<durable, history>>,
         DOMAIN page' = DOMAIN NoPage,
         page'.acks \subseteq page.acks, page'.todo \subseteq page.todo
  PROVE  HookInv'
<1>1. Typed'
  BY DEF HookInv, Typed, durable
<1>2. NothingAhead'
  BY DEF HookInv, NothingAhead, durable
<1>3. AcksAreEarned' /\ NoInputDropped'
  BY DEF HookInv, AcksAreEarned, NoInputDropped, durable, history
<1> QED
  BY <1>1, <1>2, <1>3 DEF HookInv

(* The coordinate of a commit is nobody's yet.                             *)
LEMMA Fresh ==
  ASSUME HookInv, NEW s \in Sessions
  PROVE  /\ Coming(s) \in Sessions \X Nat /\ Coming(s)[1] = s /\ Coming(s)[2] = last[s] + 1
         /\ last[s] \in Nat
         /\ Coming(s) \notin rows \cup input \cup turn \cup facts \cup page.acks \cup page.todo
<1>1. /\ last[s] \in Nat /\ Coming(s) \in Sessions \X Nat
      /\ Coming(s)[1] = s /\ Coming(s)[2] = last[s] + 1
  BY DEF HookInv, Typed, Coming
<1>2. ASSUME Coming(s) \in rows \cup input \cup turn \cup facts \cup page.acks \cup page.todo
      PROVE  FALSE
  <2>1. Coming(s)[2] <= last[Coming(s)[1]]
    BY <1>2 DEF HookInv, NothingAhead
  <2> QED
    BY <2>1, <1>1
<1> QED
  BY <1>1, <1>2

(* A commit writes its row with the event. What it removes is waived.      *)
LEMMA HookCommits ==
  ASSUME HookInv, NEW s \in Sessions, NEW kept, Commits(s, kept),
         kept \subseteq rows,
         (rows \ kept) \cap input \subseteq waived', waived \subseteq waived',
         input \subseteq input', input' \subseteq input \cup {Coming(s)},
         turn' \subseteq turn \cup {Coming(s)}, facts' \subseteq facts \cup {Coming(s)}
  PROVE  HookInv'
<1> DEFINE c == Coming(s)
<1>1. /\ last' = [last EXCEPT ![s] = @ + 1]
      /\ rows' = kept \cup {c}
      /\ page' = page /\ done' = done
  BY DEF Commits
<1>2. c \in Sessions \X Nat /\ c[1] = s /\ c[2] = last[s] + 1 /\ last[s] \in Nat
  BY Fresh
<1> DEFINE Old == rows \cup input \cup turn \cup facts \cup page.acks \cup page.todo
<1>3. c \notin Old
  BY Fresh
<1>4. Old \subseteq Sessions \X Nat /\ last \in [Sessions -> Nat]
  BY DEF HookInv, Typed
<1>5. \A d \in Old : d[2] <= last[d[1]]
  BY DEF HookInv, NothingAhead
<1> HIDE DEF c
<1>6. Typed'
  <2>1. last' \in [Sessions -> Nat]
    BY <1>1, <1>2, <1>4
  <2>2. rows' \subseteq Sessions \X Nat /\ input' \subseteq Sessions \X Nat
        /\ turn' \subseteq Sessions \X Nat /\ facts' \subseteq Sessions \X Nat
    BY <1>1, <1>2, <1>4 DEF c
  <2> QED
    BY <1>1, <2>1, <2>2 DEF HookInv, Typed
<1>7. NothingAhead'
  <2>1. ASSUME NEW d \in Old
        PROVE  d[2] <= last'[d[1]]
    <3>1. d[1] \in Sessions /\ d[2] \in Nat /\ last[d[1]] \in Nat /\ d[2] <= last[d[1]]
      BY <1>4, <1>5
    <3>2. last'[d[1]] = last[d[1]] \/ last'[d[1]] = last[d[1]] + 1
      BY <1>1, <1>4, <3>1
    <3> QED
      BY <3>1, <3>2
  <2>2. c[2] <= last'[c[1]]
    BY <1>1, <1>2, <1>4
  <2>3. rows' \cup input' \cup turn' \cup facts' \cup page'.acks \cup page'.todo \subseteq Old \cup {c}
    BY <1>1 DEF c
  <2> QED
    BY <2>1, <2>2, <2>3 DEF NothingAhead
<1>8. AcksAreEarned'
  BY <1>1, <1>3 DEF HookInv, AcksAreEarned, c
<1>9. NoInputDropped'
  BY <1>1 DEF HookInv, NoInputDropped, c
<1> QED
  BY <1>6, <1>7, <1>8, <1>9 DEF HookInv

(* The three commits: an event, the fact of an unavailable workspace, the  *)
(* selection of a workspace.                                               *)
LEMMA HookCommit ==
  ASSUME HookInv, NEW s \in Sessions, Commit(s) \/ JournalUnavailable(s) \/ SelectWorkspace(s)
  PROVE  HookInv'
<1>1. CASE Commit(s)
  <2>1. /\ Commits(s, rows) /\ waived' = waived /\ facts' = facts
        /\ input' \in {input, input \cup {Coming(s)}} /\ turn' \in {turn, turn \cup {Coming(s)}}
    BY <1>1 DEF Commit
  <2> QED
    BY <2>1, HookCommits
<1>2. CASE JournalUnavailable(s)
  <2>1. /\ Commits(s, rows) /\ waived' = waived /\ input' = input
        /\ facts' = facts \cup {Coming(s)} /\ turn' = turn \cup {Coming(s)}
    BY <1>2 DEF JournalUnavailable
  <2> QED
    BY <2>1, HookCommits
<1>3. CASE SelectWorkspace(s)
  <2>1. /\ Commits(s, rows \ RowsOf(s)) /\ waived' = waived \cup (RowsOf(s) \cap input)
        /\ input' = input /\ turn' = turn /\ facts' = facts
    BY <1>3 DEF SelectWorkspace
  <2>2. (rows \ (rows \ RowsOf(s))) \cap input \subseteq waived'
    BY <2>1
  <2> QED
    BY <2>1, <2>2, HookCommits
<1> QED
  BY <1>1, <1>2, <1>3

(* A row that leaves a page changes nothing durable, and of the page only  *)
(* what its fate does to it.                                               *)
LEMMA HookTurn ==
  ASSUME Typed, AtRow, NEW p, Turn(p), DOMAIN p = DOMAIN NoPage
  PROVE  /\ UNCHANGED durable
         /\ DOMAIN page' = DOMAIN NoPage
         /\ page'.acks = p.acks /\ page'.fenced = p.fenced
         /\ page'.todo = page.todo \ {Current}
         /\ Current \in page.todo
<1>1. page' = [p EXCEPT !.todo = page.todo \ {Current}] /\ UNCHANGED durable
  BY DEF Turn
<1>2. "acks" \in DOMAIN p /\ "todo" \in DOMAIN p /\ "fenced" \in DOMAIN p
  BY EmptyPage
<1>3. Current \in page.todo
  BY NextRow DEF AtRow
<1> QED
  BY <1>1, <1>2, <1>3

LEMMA HookConsider ==
  ASSUME Typed, AtRow, NEW d, NEW x, NEW p, Consider(d, x, p), DOMAIN p = DOMAIN NoPage
  PROVE  /\ UNCHANGED durable
         /\ DOMAIN page' = DOMAIN NoPage
         /\ page'.acks = p.acks /\ page'.fenced = p.fenced
         /\ page'.todo = page.todo \ {Current}
         /\ Current \in page.todo
<1> DEFINE q == [p EXCEPT !.ctx[Current[1]] = Cached(Current[1], x)]
<1>1. Turn(q)
  BY DEF Consider
<1>2. DOMAIN q = DOMAIN p /\ q.acks = p.acks /\ q.fenced = p.fenced
  BY EmptyPage
<1> HIDE DEF q
<1> QED
  BY <1>1, <1>2, HookTurn

(* The page without a row it acknowledges.                                 *)
LEMMA AcksPage ==
  ASSUME Typed
  PROVE  /\ DOMAIN Acks = DOMAIN NoPage
         /\ Acks.acks = page.acks \cup {Current} /\ Acks.fenced = page.fenced
  BY EmptyPage DEF Typed, Acks

(* A row is acknowledged with its page: the hooks ran for it, or it is     *)
(* waived.                                                                 *)
LEMMA HookAcks ==
  ASSUME HookInv, AtRow, UNCHANGED durable,
         DOMAIN page' = DOMAIN NoPage, page'.acks = page.acks \cup {Current},
         page'.todo = page.todo \ {Current}, Current \in page.todo,
         done \subseteq done', waived \subseteq waived',
         Current \in input => Current \in done' \cup waived'
  PROVE  HookInv'
<1>1. Typed'
  BY DEF HookInv, Typed, durable
<1>2. NothingAhead'
  BY DEF HookInv, NothingAhead, durable
<1>3. AcksAreEarned' /\ NoInputDropped'
  BY DEF HookInv, AcksAreEarned, NoInputDropped, durable
<1> QED
  BY <1>1, <1>2, <1>3 DEF HookInv

(* An acknowledgement: the row is no input, or it is waived.               *)
LEMMA HookAcknowledge ==
  ASSUME HookInv, Acknowledge \/ FenceOff
  PROVE  HookInv'
<1>1. Typed /\ AtRow /\ DOMAIN Acks = DOMAIN NoPage /\ Acks.acks = page.acks \cup {Current}
  BY AcksPage DEF HookInv, Acknowledge, FenceOff, Decides
<1>2. (\E x : Consider("acknowledge", x, Acks)) \/ Turn(Acks)
  BY DEF Acknowledge, FenceOff
<1>3. /\ UNCHANGED durable
      /\ DOMAIN page' = DOMAIN NoPage
      /\ page'.acks = page.acks \cup {Current}
      /\ page'.todo = page.todo \ {Current}
      /\ Current \in page.todo
  BY <1>1, <1>2, HookConsider, HookTurn
<1>4. waived' = waived \cup ({Current} \cap input) /\ done' = done
  BY DEF Acknowledge, FenceOff, Waive
<1> QED
  BY <1>1, <1>3, <1>4, HookAcks

(* A row handled in place is acknowledged with its page.                   *)
LEMMA HookInline ==
  ASSUME HookInv, HandleInline
  PROVE  HookInv'
<1>1. Typed /\ AtRow /\ DOMAIN Acks = DOMAIN NoPage /\ Acks.acks = page.acks \cup {Current}
  BY AcksPage DEF HookInv, HandleInline, Decides
<1>2. PICK x : /\ Consider("decode", x, Acks)
               /\ IF Fires(Current, x) THEN done' = done \cup {Current} /\ UNCHANGED waived
                  ELSE Waive
  BY DEF HandleInline
<1>3. /\ UNCHANGED durable
      /\ DOMAIN page' = DOMAIN NoPage
      /\ page'.acks = page.acks \cup {Current}
      /\ page'.todo = page.todo \ {Current}
      /\ Current \in page.todo
  BY <1>1, <1>2, HookConsider
<1>4. \/ done' = done \cup {Current} /\ waived' = waived
      \/ done' = done /\ waived' = waived \cup ({Current} \cap input)
  BY <1>2 DEF Waive
<1> QED
  BY <1>1, <1>3, <1>4, HookAcks

(* The other decisions acknowledge nothing.                                *)
LEMMA DecidesWithoutAcks ==
  ASSUME Typed, Retain \/ Vanished \/ Defer \/ HandlerFails
  PROVE  /\ AtRow
         /\ UNCHANGED <<durable, history>>
         /\ DOMAIN page' = DOMAIN NoPage
         /\ page'.acks = page.acks /\ page'.fenced = page.fenced
         /\ page'.todo = page.todo \ {Current}
         /\ Current \in page.todo
<1>1. DOMAIN page = DOMAIN NoPage
  BY DEF Typed
<1>2. AtRow /\ UNCHANGED history
  BY DEF Retain, Vanished, Defer, HandlerFails, Decides
<1>3. ASSUME NEW d, NEW x, NEW p, Consider(d, x, p), DOMAIN p = DOMAIN NoPage,
             p.acks = page.acks, p.fenced = page.fenced
      PROVE  /\ UNCHANGED durable
             /\ DOMAIN page' = DOMAIN NoPage
             /\ page'.acks = page.acks /\ page'.fenced = page.fenced
             /\ page'.todo = page.todo \ {Current}
             /\ Current \in page.todo
  BY <1>2, <1>3, HookConsider
<1>4. /\ DOMAIN [page EXCEPT !.started = TRUE] = DOMAIN NoPage
      /\ [page EXCEPT !.started = TRUE].acks = page.acks
      /\ [page EXCEPT !.started = TRUE].fenced = page.fenced
      /\ DOMAIN [page EXCEPT !.aborted = TRUE] = DOMAIN NoPage
      /\ [page EXCEPT !.aborted = TRUE].acks = page.acks
      /\ [page EXCEPT !.aborted = TRUE].fenced = page.fenced
  BY <1>1, EmptyPage
<1>5. \/ \E x : Consider("retain", x, page)
      \/ \E x : Consider("decode", x, page)
      \/ \E x : Consider("decode", x, [page EXCEPT !.started = TRUE])
      \/ \E x : Consider("decode", x, [page EXCEPT !.aborted = TRUE])
  BY DEF Retain, Vanished, Defer, HandlerFails
<1> QED
  BY <1>1, <1>2, <1>3, <1>4, <1>5

LEMMA HookDecides ==
  ASSUME HookInv, Retain \/ Vanished \/ Defer \/ HandlerFails
  PROVE  HookInv'
<1>1. Typed
  BY DEF HookInv
<1> QED
  BY <1>1, DecidesWithoutAcks, HookQuiet

(* The flush of a page removes what it has earned.                         *)
LEMMA HookFlush ==
  ASSUME HookInv, PageEnd
  PROVE  HookInv'
<1>1. rows' = rows \ page.acks /\ page' = NoPage /\ UNCHANGED <<input, turn, facts, last, history>>
  BY DEF PageEnd, kinds
<1> QED
  BY <1>1, EmptyPage
     DEF HookInv, Typed, NothingAhead, AcksAreEarned, NoInputDropped, history

(* A job acknowledges the row it has handled.                              *)
LEMMA HookJob ==
  ASSUME HookInv, NEW c \in Coordinates, JobAcks(c)
  PROVE  HookInv'
<1>1. /\ rows' = rows \ {c} /\ done' = done \cup {c}
      /\ UNCHANGED <<input, turn, facts, last, waived, page>>
  BY DEF JobAcks, kinds
<1> QED
  BY <1>1 DEF HookInv, Typed, NothingAhead, AcksAreEarned, NoInputDropped

(* A page begins with rows of the outbox, and with nothing to acknowledge. *)
LEMMA PageBegun ==
  ASSUME Typed, PageRead
  PROVE  /\ UNCHANGED <<durable, history>>
         /\ \/ page' = page
            \/ /\ DOMAIN page' = DOMAIN NoPage /\ flights' = flights
               /\ page'.acks = {} /\ page'.todo = PageRows
               /\ page'.fenced = {c \in PageRows : Marked(c)}
         /\ PageRows \subseteq rows
<1>1. UNCHANGED <<durable, history>>
  BY DEF PageRead
<1>2. \/ page' = page
      \/ /\ flights' = flights
         /\ page' = [NoPage EXCEPT !.todo = PageRows, !.tails = PageRows,
                                   !.fenced = {c \in PageRows : Marked(c)}]
  BY DEF PageRead
<1>3. PageRows \subseteq rows
  BY DEF PageRows, Pending
<1> HIDE DEF PageRows
<1> QED
  BY <1>1, <1>2, <1>3, EmptyPage

(* What a page does to its rows when it passes over one.                   *)
LEMMA PassedOver ==
  ASSUME Typed, PassOver
  PROVE  /\ UNCHANGED <<durable, history>>
         /\ DOMAIN page' = DOMAIN NoPage
         /\ page'.acks = page.acks /\ page'.fenced = page.fenced
         /\ page'.todo = page.todo \ {Current}
<1>1. DOMAIN page = DOMAIN NoPage
  BY DEF Typed
<1>2. /\ UNCHANGED <<durable, history>>
      /\ page' = [page EXCEPT !.todo = @ \ {Current},
                              !.blocked = @ \/ Current \in flights.blocked,
                              !.waiting = @ \/ Current \in flights.active \ flights.blocked]
  BY DEF PassOver
<1> QED
  BY <1>1, <1>2, EmptyPage

(* A page begins, passes over a row, or is dropped.                        *)
LEMMA HookRead ==
  ASSUME HookInv, PageRead \/ PassOver \/ FlushFails \/ Restart \/ Crash
  PROVE  HookInv'
<1>1. Typed /\ DOMAIN page = DOMAIN NoPage
  BY DEF HookInv, Typed
<1>2. CASE PageRead
  <2>1. CASE page' = page
    BY <1>1, <1>2, <2>1, PageBegun, HookQuiet
  <2>2. CASE page' # page
    <3>1. /\ UNCHANGED <<durable, history>>
          /\ DOMAIN page' = DOMAIN NoPage /\ page'.acks = {} /\ page'.todo \subseteq rows
      BY <1>1, <1>2, <2>2, PageBegun
    <3>2. Typed'
      BY <3>1 DEF HookInv, Typed, durable
    <3>3. NothingAhead'
      BY <3>1 DEF HookInv, NothingAhead, durable
    <3>4. AcksAreEarned' /\ NoInputDropped'
      BY <3>1 DEF HookInv, AcksAreEarned, NoInputDropped, durable, history
    <3> QED
      BY <3>2, <3>3, <3>4 DEF HookInv
  <2> QED
    BY <2>1, <2>2
<1>3. CASE PassOver
  BY <1>1, <1>3, PassedOver, HookQuiet
<1>4. CASE FlushFails \/ Restart \/ Crash
  <2>1. UNCHANGED <<durable, history>> /\ page' = NoPage
    BY <1>4 DEF FlushFails, Restart, Crash, NewProcess
  <2> QED
    BY <2>1, EmptyPage, HookQuiet
<1> QED
  BY <1>2, <1>3, <1>4

(* Every other step leaves outbox, history and page alone.                 *)
LEMMA HookElsewhere ==
  ASSUME HookInv,
         \/ TakeWake \/ TakeControl \/ DrainCheck \/ DrainCheckFails \/ DrainAwait
         \/ PageBegin \/ PageReadFails \/ ChangeTrust \/ Shutdown
         \/ \E c \in Coordinates : JobEnds(c) \/ JobFails(c)
         \/ \E s \in Sessions : EditHooks(s) \/ List(s) \/ AskDelete(s) \/ StopActor(s) \/ Erase(s)
         \/ \E s \in Sessions : MoveWorkspace(s) \/ PinTurn(s)
         \/ UNCHANGED vars
  PROVE  HookInv'
<1>1. UNCHANGED <<durable, history, page>>
  BY DEF TakeWake, TakeControl, DrainCheck, DrainCheckFails, DrainAwait, PageBegin,
         PageReadFails, ChangeTrust, Shutdown, SendControl, JobEnds, JobFails, EditHooks, List,
         AskDelete, StopActor, Erase, MoveWorkspace, PinTurn, vars, durable, history
<1>2. DOMAIN page' = DOMAIN NoPage
  BY <1>1 DEF HookInv, Typed
<1> QED
  BY <1>1, <1>2, HookQuiet

(* A step preserves the invariant.                                         *)
LEMMA HookStep ==
  ASSUME HookInv, [Next]_vars
  PROVE  HookInv'
<1>1. CASE Engine
  BY <1>1, HookElsewhere, HookRead, HookDecides, HookAcknowledge, HookInline, HookFlush DEF Engine
<1>2. CASE \E c \in Coordinates : Job(c)
  BY <1>2, HookElsewhere, HookJob DEF Job
<1>3. CASE \E s \in Sessions : Commit(s) \/ EditHooks(s) \/ List(s) \/ AskDelete(s)
                               \/ StopActor(s) \/ Erase(s)
  BY <1>3, HookElsewhere, HookCommit
<1>4. CASE \E s \in Sessions : MoveWorkspace(s) \/ PinTurn(s) \/ JournalUnavailable(s)
                               \/ SelectWorkspace(s)
  BY <1>4, HookElsewhere, HookCommit
<1>5. CASE ChangeTrust \/ Shutdown \/ Restart \/ Crash
  BY <1>5, HookElsewhere, HookRead
<1>6. CASE UNCHANGED vars
  BY <1>6, HookElsewhere
<1> QED
  BY <1>1, <1>2, <1>3, <1>4, <1>5, <1>6 DEF Next

(* No hook input is lost: through crashes, failed pages, handlers, jobs    *)
(* and flushes, selections and deletions, an event that may be a hook's    *)
(* input stays in the outbox until the hooks have handled it, or until one *)
(* of the decisions that waive it is made (hooks.rs:1981, 2180, 2733;      *)
(* event_store.rs:9930).                                                   *)
THEOREM NoInputIsDropped == Spec => []NoInputDropped
<1>1. Init => HookInv
  BY HookInit
<1>2. HookInv /\ [Next]_vars => HookInv'
  BY HookStep
<1>3. HookInv => NoInputDropped
  BY DEF HookInv
<1> QED
  BY <1>1, <1>2, <1>3, PTL DEF Spec

-----------------------------------------------------------------------------
(* Jobs and pages. *)

(* The page goes through rows of the outbox, each of them once; what its   *)
(* jobs hold is not among what it acknowledges.                            *)
PageOK ==
    /\ DOMAIN page = DOMAIN NoPage
    /\ DOMAIN flights = DOMAIN NoFlights
    /\ page.acks \cap page.todo = {}

OwnInv == PageOK /\ JobOwnsItsRow

(* The initial state. *)
LEMMA OwnInit ==
  ASSUME Init
  PROVE  OwnInv
  BY DEF Init, OwnInv, PageOK, JobOwnsItsRow, NoPage, NoFlights

(* A page that is dropped acknowledges nothing.                            *)
LEMMA OwnNothing ==
  ASSUME page' = NoPage, DOMAIN flights' = DOMAIN NoFlights
  PROVE  OwnInv'
  BY EmptyPage DEF OwnInv, PageOK, JobOwnsItsRow

(* The jobs change hands, the page stays.                                  *)
LEMMA OwnFlights ==
  ASSUME OwnInv, page' = page, DOMAIN flights' = DOMAIN NoFlights,
         flights'.active \cup flights'.blocked \subseteq flights.active \cup flights.blocked
  PROVE  OwnInv'
  BY DEF OwnInv, PageOK, JobOwnsItsRow

(* What follows a page leaves the jobs, or aborts them.                    *)
LEMMA ContinueFlights ==
  ASSUME NEW result, NEW armed, Continue(result, armed)
  PROVE  flights' = flights \/ flights' = NoFlights
  BY DEF Continue, Ends

(* A row is acknowledged with its page: it was nobody's.                   *)
LEMMA OwnAcks ==
  ASSUME OwnInv, Typed, Acknowledge \/ FenceOff \/ HandleInline
  PROVE  OwnInv'
<1>1. AtRow /\ DOMAIN Acks = DOMAIN NoPage /\ Acks.acks = page.acks \cup {Current}
  BY AcksPage DEF Acknowledge, FenceOff, HandleInline, Decides
<1>2. ((\E d, x : Consider(d, x, Acks)) \/ Turn(Acks)) /\ flights' = flights
  BY DEF Acknowledge, FenceOff, HandleInline
<1>3. /\ DOMAIN page' = DOMAIN NoPage
      /\ page'.acks = page.acks \cup {Current} /\ page'.todo = page.todo \ {Current}
  BY <1>1, <1>2, HookConsider, HookTurn
<1>4. ~Flying(Current)
  BY <1>1 DEF AtRow
<1> QED
  BY <1>2, <1>3, <1>4 DEF OwnInv, PageOK, JobOwnsItsRow, Flying

(* A row is decided on without that; it may be given to a job.             *)
LEMMA OwnDecides ==
  ASSUME OwnInv, Typed, Retain \/ Vanished \/ Defer \/ HandlerFails
  PROVE  OwnInv'
<1>1. /\ DOMAIN page' = DOMAIN NoPage
      /\ page'.acks = page.acks /\ page'.todo = page.todo \ {Current}
      /\ Current \in page.todo
  BY DecidesWithoutAcks
<1>2. CASE Retain \/ Vanished \/ HandlerFails
  <2>1. flights' = flights
    BY <1>2 DEF Retain, Vanished, HandlerFails
  <2> QED
    BY <1>1, <2>1 DEF OwnInv, PageOK, JobOwnsItsRow
<1>3. CASE Defer
  <2>1. flights' = [flights EXCEPT !.active = @ \cup {Current}]
    BY <1>3 DEF Defer
  <2>2. /\ DOMAIN flights' = DOMAIN NoFlights
        /\ flights'.active = flights.active \cup {Current} /\ flights'.blocked = flights.blocked
    BY <2>1 DEF OwnInv, PageOK, NoFlights
  <2>3. Current \notin page.acks
    BY <1>1 DEF OwnInv, PageOK
  <2> QED
    BY <1>1, <2>2, <2>3 DEF OwnInv, PageOK, JobOwnsItsRow
<1> QED
  BY <1>2, <1>3

(* A page begins, passes over a row, or ends.                              *)
LEMMA OwnPage ==
  ASSUME OwnInv, Typed, PageBegin \/ PageRead \/ PageReadFails \/ PassOver \/ PageEnd \/ FlushFails
  PROVE  OwnInv'
<1>1. /\ DOMAIN flights = {"active", "completed", "blocked"}
      /\ DOMAIN NoFlights = {"active", "completed", "blocked"}
      /\ NoFlights.active = {} /\ NoFlights.blocked = {}
  BY DEF OwnInv, PageOK, NoFlights
<1>2. CASE PageBegin
  <2>1. page' = page /\ flights' = [flights EXCEPT !.completed = {}]
    BY <1>2 DEF PageBegin
  <2>2. /\ DOMAIN flights' = DOMAIN flights
        /\ flights'.active = flights.active /\ flights'.blocked = flights.blocked
    BY <1>1, <2>1
  <2> QED
    BY <1>1, <2>1, <2>2, OwnFlights
<1>3. CASE PageReadFails \/ (PageRead /\ page' = page)
  <2>1. page' = page /\ (flights' = flights \/ flights' = NoFlights)
    BY <1>3, ContinueFlights DEF PageReadFails, PageRead
  <2> QED
    BY <1>1, <2>1, OwnFlights
<1>4. CASE PageRead /\ page' # page
  <2>1. DOMAIN page' = DOMAIN NoPage /\ page'.acks = {} /\ flights' = flights
    BY <1>4, PageBegun
  <2> QED
    BY <2>1 DEF OwnInv, PageOK, JobOwnsItsRow
<1>5. CASE PassOver
  <2>1. /\ flights' = flights
        /\ DOMAIN page' = DOMAIN NoPage
        /\ page'.acks = page.acks /\ page'.todo = page.todo \ {Current}
    BY <1>5, PassedOver DEF PassOver
  <2> QED
    BY <2>1 DEF OwnInv, PageOK, JobOwnsItsRow
<1>6. CASE PageEnd \/ FlushFails
  <2>1. page' = NoPage /\ (flights' = flights \/ flights' = NoFlights)
    BY <1>6, ContinueFlights DEF PageEnd, FlushFails
  <2> QED
    BY <1>1, <2>1, OwnNothing
<1> QED
  BY <1>2, <1>3, <1>4, <1>5, <1>6

(* Jobs end or fail, and everything else.                                  *)
LEMMA OwnElsewhere ==
  ASSUME OwnInv,
         \/ TakeWake \/ TakeControl \/ DrainCheck \/ DrainCheckFails \/ DrainAwait
         \/ ChangeTrust \/ Shutdown \/ Restart \/ Crash
         \/ \E c \in Coordinates : Job(c)
         \/ \E s \in Sessions : Commit(s) \/ EditHooks(s) \/ List(s) \/ AskDelete(s)
                                \/ StopActor(s) \/ Erase(s)
         \/ \E s \in Sessions : MoveWorkspace(s) \/ PinTurn(s) \/ JournalUnavailable(s)
                                \/ SelectWorkspace(s)
         \/ UNCHANGED vars
  PROVE  OwnInv'
<1>1. DOMAIN flights = {"active", "completed", "blocked"} /\ DOMAIN flights = DOMAIN NoFlights
  BY DEF OwnInv, PageOK, NoFlights
<1>2. CASE Restart \/ Crash
  <2>1. page' = NoPage /\ flights' = NoFlights
    BY <1>2 DEF Restart, Crash, NewProcess
  <2> QED
    BY <2>1, OwnNothing
<1>3. CASE \E c \in Coordinates : Job(c)
  <2>1. PICK c \in Coordinates : Job(c)
    BY <1>3
  <2>2. CASE JobAcks(c)
    <3>1. page' = page /\ flights' = flights
      BY <2>2 DEF JobAcks
    <3> QED
      BY <1>1, <3>1, OwnFlights
  <2>3. CASE JobEnds(c)
    <3>1. page' = page /\ flights' = [flights EXCEPT !.active = @ \ {c}, !.completed = @ \cup {c}]
      BY <2>3 DEF JobEnds
    <3>2. /\ DOMAIN flights' = DOMAIN flights
          /\ flights'.active = flights.active \ {c} /\ flights'.blocked = flights.blocked
      BY <1>1, <3>1
    <3> QED
      BY <1>1, <3>1, <3>2, OwnFlights
  <2>4. CASE JobFails(c)
    <3>1. /\ page' = page /\ c \in flights.active
          /\ flights' = [flights EXCEPT !.active = @ \ {c}, !.blocked = @ \cup {c}]
      BY <2>4 DEF JobFails
    <3>2. /\ DOMAIN flights' = DOMAIN flights
          /\ flights'.active = flights.active \ {c} /\ flights'.blocked = flights.blocked \cup {c}
      BY <1>1, <3>1
    <3> QED
      BY <1>1, <3>1, <3>2, OwnFlights
  <2> QED
    BY <2>1, <2>2, <2>3, <2>4 DEF Job
<1>4. CASE \/ TakeWake \/ TakeControl \/ DrainCheck \/ DrainCheckFails \/ DrainAwait
           \/ ChangeTrust \/ Shutdown
           \/ \E s \in Sessions : Commit(s) \/ EditHooks(s) \/ List(s) \/ AskDelete(s)
                                  \/ StopActor(s) \/ Erase(s)
           \/ \E s \in Sessions : MoveWorkspace(s) \/ PinTurn(s) \/ JournalUnavailable(s)
                                  \/ SelectWorkspace(s)
           \/ UNCHANGED vars
  <2>1. page' = page /\ flights' = flights
    BY <1>4 DEF TakeWake, TakeControl, DrainCheck, DrainCheckFails, DrainAwait, ChangeTrust, Shutdown,
         SendControl, Commit, Commits, EditHooks, List, AskDelete, StopActor, Erase, MoveWorkspace,
         PinTurn, JournalUnavailable, SelectWorkspace, vars
  <2> QED
    BY <1>1, <2>1, OwnFlights
<1> QED
  BY <1>2, <1>3, <1>4

(* A step preserves the invariant.                                         *)
LEMMA OwnStep ==
  ASSUME HookInv, OwnInv, [Next]_vars
  PROVE  OwnInv'
<1>1. Typed
  BY DEF HookInv
<1> QED
  BY <1>1, OwnAcks, OwnDecides, OwnPage, OwnElsewhere DEF Next, Engine

(* A row that a server hook's job holds, running or failed, is never       *)
(* acknowledged by a page: for any page limit, any number of sessions and  *)
(* rows and any mix of rescans, trust changes, deletions and faults.       *)
THEOREM JobsOwnTheirRows == Spec => []JobOwnsItsRow
<1>1. Init => HookInv /\ OwnInv
  BY HookInit, OwnInit
<1>2. HookInv /\ OwnInv /\ [Next]_vars => HookInv' /\ OwnInv'
  BY HookStep, OwnStep
<1>3. OwnInv => JobOwnsItsRow
  BY DEF OwnInv
<1> QED
  BY <1>1, <1>2, <1>3, PTL DEF Spec

-----------------------------------------------------------------------------
(* Turns without a workspace. *)

(* A row in hand of a turn that is known to be without its workspace was   *)
(* read with the mark, or the turn is pinned.                              *)
PinsHold ==
    \A c \in page.todo \cap turn \cap rows : Unavailable(c[1]) => c \in page.fenced \/ c[1] \in pinned

(* Whoever has the fact in hand, which will lift the pin, has read every   *)
(* row of the turn with the mark.                                          *)
FactComesMarked ==
    \A f \in facts \cap page.todo : \A c \in page.todo \cap turn \cap rows :
        c[1] = f[1] => c \in page.fenced

(* After a selection, which lifts the pin too, there is no row of the turn.*)
SelectionIsAlone ==
    \A p \in picks, c \in rows \cap turn : c[1] # p[1]

(* Rows are in hand only while a page is walked.                           *)
HandsFree ==
    /\ "pc" \in DOMAIN eng
    /\ page.todo # {} => eng.pc = "rows"

(* The fact itself is no hook's input.                                     *)
FactIsNoInput == facts \cap input = {}

FenceInv == PinsHold /\ FactComesMarked /\ SelectionIsAlone /\ HandsFree /\ FactIsNoInput

(* The initial state. *)
LEMMA FenceInit ==
  ASSUME Init
  PROVE  FenceInv
  BY EmptyPage DEF Init, FenceInv, PinsHold, FactComesMarked, SelectionIsAlone, HandsFree,
                   FactIsNoInput, Replaying

(* A step that commits nothing: rows may go, rows in hand are dropped or   *)
(* worked off, and pins are lifted with empty hands.                       *)
LEMMA FenceKeeps ==
  ASSUME FenceInv, UNCHANGED kinds, rows' \subseteq rows, HandsFree',
         \/ page'.todo = {}
         \/ page'.todo \subseteq page.todo /\ page'.fenced = page.fenced /\ pinned \subseteq pinned'
  PROVE  FenceInv'
<1>1. input' = input /\ turn' = turn /\ facts' = facts /\ picks' = picks
  BY DEF kinds
<1>2. SelectionIsAlone' /\ FactIsNoInput'
  BY <1>1 DEF FenceInv, SelectionIsAlone, FactIsNoInput
<1>3. PinsHold'
  BY <1>1 DEF FenceInv, PinsHold, Unavailable
<1>4. FactComesMarked'
  BY <1>1 DEF FenceInv, FactComesMarked
<1> QED
  BY <1>2, <1>3, <1>4 DEF FenceInv

(* A commit: the new coordinate is in nobody's hands, and a fact is only   *)
(* committed for a pinned turn.                                            *)
LEMMA FenceCommits ==
  ASSUME HookInv, FenceInv, NEW s \in Sessions, NEW kept, Commits(s, kept),
         kept \subseteq rows, pinned' = pinned,
         turn' \subseteq turn \cup {Coming(s)},
         facts' \subseteq facts \cup {Coming(s)}, input' \subseteq input \cup {Coming(s)},
         facts' = facts \/ (s \in pinned /\ input' = input),
         SelectionIsAlone'
  PROVE  FenceInv'
<1> DEFINE c == Coming(s)
<1>1. rows' = kept \cup {c} /\ page' = page /\ eng' = eng
  BY DEF Commits
<1>2. c[1] = s /\ c \notin rows \cup input \cup turn \cup facts \cup page.acks \cup page.todo
  BY Fresh
<1> HIDE DEF c
<1>3. HandsFree'
  BY <1>1 DEF FenceInv, HandsFree
<1>4. FactIsNoInput'
  BY <1>2 DEF FenceInv, FactIsNoInput, c
<1>5. PinsHold'
  <2> SUFFICES ASSUME NEW d \in page.todo \cap turn' \cap rows', Unavailable(d[1])'
               PROVE  d \in page.fenced \/ d[1] \in pinned
    BY <1>1 DEF PinsHold
  <2>1. d \in page.todo \cap turn \cap rows
    BY <1>1, <1>2 DEF c
  <2>2. PICK f \in facts' : f[1] = d[1]
    BY DEF Unavailable
  <2>3. CASE f \in facts
    BY <2>1, <2>2, <2>3 DEF FenceInv, PinsHold, Unavailable
  <2>4. CASE f \notin facts
    BY <1>2, <2>2, <2>4 DEF c
  <2> QED
    BY <2>3, <2>4
<1>6. FactComesMarked'
  <2> SUFFICES ASSUME NEW f \in facts' \cap page.todo, NEW d \in page.todo \cap turn' \cap rows',
                      d[1] = f[1]
               PROVE  d \in page.fenced
    BY <1>1 DEF FactComesMarked
  <2>1. f \in facts /\ d \in page.todo \cap turn \cap rows
    BY <1>1, <1>2 DEF c
  <2> QED
    BY <2>1 DEF FenceInv, FactComesMarked
<1> QED
  BY <1>3, <1>4, <1>5, <1>6 DEF FenceInv

LEMMA FenceCommit ==
  ASSUME HookInv, FenceInv, NEW s \in Sessions,
         Commit(s) \/ JournalUnavailable(s) \/ SelectWorkspace(s)
  PROVE  FenceInv'
<1>1. Coming(s)[1] = s /\ Coming(s) \notin rows \cup turn
  BY Fresh
<1>2. CASE Commit(s)
  <2>1. /\ Commits(s, rows) /\ facts' = facts /\ picks' = picks /\ pinned' = pinned
        /\ input' \in {input, input \cup {Coming(s)}}
        /\ turn' = turn \/ (~Selected(s) /\ turn' = turn \cup {Coming(s)})
    BY <1>2 DEF Commit
  <2>2. rows' = rows \cup {Coming(s)}
    BY <2>1 DEF Commits
  <2>3. SelectionIsAlone'
    BY <1>1, <2>1, <2>2 DEF FenceInv, SelectionIsAlone, Selected
  <2> QED
    BY <2>1, <2>3, FenceCommits
<1>3. CASE JournalUnavailable(s)
  <2>1. /\ Commits(s, rows) /\ picks' = picks /\ pinned' = pinned /\ input' = input /\ s \in pinned
        /\ facts' = facts \cup {Coming(s)} /\ turn' = turn \cup {Coming(s)} /\ ~Selected(s)
    BY <1>3 DEF JournalUnavailable
  <2>2. rows' = rows \cup {Coming(s)}
    BY <2>1 DEF Commits
  <2>3. SelectionIsAlone'
    BY <1>1, <2>1, <2>2 DEF FenceInv, SelectionIsAlone, Selected
  <2> QED
    BY <2>1, <2>3, FenceCommits
<1>4. CASE SelectWorkspace(s)
  <2>1. /\ Commits(s, rows \ RowsOf(s)) /\ picks' = picks \cup {Coming(s)} /\ pinned' = pinned
        /\ input' = input /\ facts' = facts /\ turn' = turn
    BY <1>4 DEF SelectWorkspace
  <2>2. rows' = (rows \ RowsOf(s)) \cup {Coming(s)}
    BY <2>1 DEF Commits
  <2>3. SelectionIsAlone'
    BY <1>1, <2>1, <2>2 DEF FenceInv, SelectionIsAlone, RowsOf
  <2> QED
    BY <2>1, <2>3, FenceCommits
<1> QED
  BY <1>2, <1>3, <1>4

(* A row is decided on. The fact lifts the pin with only marked rows of    *)
(* its turn left in hand, a selection with none.                           *)
LEMMA FenceDecides ==
  ASSUME Typed, FenceInv,
         Retain \/ Vanished \/ Defer \/ HandlerFails \/ Acknowledge \/ FenceOff \/ HandleInline
  PROVE  FenceInv'
<1>1. /\ AtRow /\ UNCHANGED durable /\ eng' = eng
      /\ page'.fenced = page.fenced /\ page'.todo = page.todo \ {Current} /\ Current \in page.todo
  <2>1. eng' = eng
    BY DEF Retain, Vanished, Defer, HandlerFails, Acknowledge, FenceOff, HandleInline, Consider, Turn
  <2>2. CASE Retain \/ Vanished \/ Defer \/ HandlerFails
    BY <2>1, <2>2, DecidesWithoutAcks
  <2>3. CASE Acknowledge \/ FenceOff \/ HandleInline
    <3>1. AtRow /\ DOMAIN Acks = DOMAIN NoPage /\ Acks.fenced = page.fenced
      BY <2>3, AcksPage DEF Acknowledge, FenceOff, HandleInline, Decides
    <3>2. (\E d, x : Consider(d, x, Acks)) \/ Turn(Acks)
      BY <2>3 DEF Acknowledge, FenceOff, HandleInline
    <3> QED
      BY <2>1, <3>1, <3>2, HookConsider, HookTurn
  <2> QED
    BY <2>2, <2>3
<1>2. UNCHANGED kinds /\ rows' = rows
  BY <1>1 DEF durable, kinds
<1>3. HandsFree'
  BY <1>1 DEF FenceInv, HandsFree
<1>4. CASE pinned' = pinned
  BY <1>1, <1>2, <1>3, <1>4, FenceKeeps
<1>5. CASE pinned' # pinned
  <2>1. HandleInline /\ pinned' = pinned \ {Current[1]} /\ Current \in facts \cup picks
        /\ Current \in rows
    BY <1>5 DEF Retain, Vanished, Defer, HandlerFails, Acknowledge, FenceOff, HandleInline, config
  <2>2. input' = input /\ turn' = turn /\ facts' = facts /\ picks' = picks
    BY <1>2 DEF kinds
  <2>3. SelectionIsAlone' /\ FactIsNoInput'
    BY <1>2, <2>2 DEF FenceInv, SelectionIsAlone, FactIsNoInput
  <2>4. FactComesMarked'
    BY <1>1, <1>2, <2>2 DEF FenceInv, FactComesMarked
  <2>5. PinsHold'
    <3> SUFFICES ASSUME NEW c \in page.todo \cap turn \cap rows, Unavailable(c[1])
                 PROVE  c \in page.fenced \/ c[1] \in pinned'
      BY <1>1, <1>2, <2>2 DEF PinsHold, Unavailable
    <3>1. CASE c[1] = Current[1] /\ Current \in facts
      BY <1>1, <3>1 DEF FenceInv, FactComesMarked
    <3>2. CASE c[1] = Current[1] /\ Current \in picks
      BY <3>2 DEF FenceInv, SelectionIsAlone
    <3>3. CASE c[1] # Current[1]
      BY <2>1, <3>3 DEF FenceInv, PinsHold
    <3> QED
      BY <2>1, <3>1, <3>2, <3>3
  <2> QED
    BY <1>3, <2>3, <2>4, <2>5 DEF FenceInv
<1> QED
  BY <1>4, <1>5

(* A page begins, passes over a row, or ends.                              *)
LEMMA FencePage ==
  ASSUME Typed, FenceInv, PageRead \/ PageReadFails \/ PassOver \/ PageEnd \/ FlushFails
  PROVE  FenceInv'
<1>1. CASE PageRead /\ page' # page
  <2>1. /\ UNCHANGED durable /\ pinned' = pinned
        /\ page'.todo = PageRows /\ page'.fenced = {c \in PageRows : Marked(c)}
    BY <1>1, PageBegun DEF PageRead, config
  <2>2. input' = input /\ turn' = turn /\ facts' = facts /\ picks' = picks /\ rows' = rows
    BY <2>1 DEF durable
  <2>3. eng' = [eng EXCEPT !.pc = "rows"]
    BY <1>1 DEF PageRead
  <2>4. HandsFree'
    BY <2>3 DEF FenceInv, HandsFree
  <2> HIDE DEF PageRows
  <2>5. PinsHold'
    BY <2>1, <2>2 DEF PinsHold, Unavailable, Marked
  <2>6. FactComesMarked'
    BY <2>1, <2>2 DEF FactComesMarked, Unavailable, Marked
  <2>7. SelectionIsAlone' /\ FactIsNoInput'
    BY <2>2 DEF FenceInv, SelectionIsAlone, FactIsNoInput
  <2> QED
    BY <2>4, <2>5, <2>6, <2>7 DEF FenceInv
<1>2. CASE PageReadFails \/ (PageRead /\ page' = page)
  <2>1. UNCHANGED <<kinds, rows, pinned>> /\ page' = page /\ eng.pc = "read"
    BY <1>2 DEF PageRead, PageReadFails, durable, kinds, config
  <2>2. page.todo = {} /\ "pc" \in DOMAIN eng
    BY <2>1 DEF FenceInv, HandsFree
  <2>3. "pc" \in DOMAIN eng'
    BY <1>2, <2>2 DEF PageRead, PageReadFails, Continue, Answers, Ends, Resting, Stopped
  <2>4. HandsFree'
    BY <2>1, <2>2, <2>3 DEF HandsFree
  <2> QED
    BY <2>1, <2>2, <2>4, FenceKeeps
<1>3. CASE PassOver
  <2>1. /\ UNCHANGED durable /\ page'.fenced = page.fenced /\ page'.todo = page.todo \ {Current}
        /\ eng' = eng /\ eng.pc = "rows" /\ pinned' = pinned
    BY <1>3, PassedOver DEF PassOver, config
  <2>2. HandsFree'
    BY <2>1 DEF FenceInv, HandsFree
  <2> QED
    BY <2>1, <2>2, FenceKeeps DEF durable, kinds
<1>4. CASE PageEnd \/ FlushFails
  <2>1. page'.todo = {} /\ UNCHANGED kinds /\ rows' \subseteq rows
    BY <1>4, EmptyPage DEF PageEnd, FlushFails, durable, kinds
  <2>2. "pc" \in DOMAIN eng
    BY DEF FenceInv, HandsFree
  <2>3. "pc" \in DOMAIN eng'
    BY <1>4, <2>2 DEF PageEnd, FlushFails, Continue, Answers, Ends, Resting, Stopped
  <2>4. HandsFree'
    BY <2>1, <2>3 DEF HandsFree
  <2> QED
    BY <2>1, <2>4, FenceKeeps
<1> QED
  BY <1>1, <1>2, <1>3, <1>4

(* The engine between pages; a session that is gone has no pin.            *)
LEMMA FenceBetween ==
  ASSUME FenceInv,
         \/ TakeWake \/ TakeControl \/ DrainCheck \/ DrainCheckFails \/ DrainAwait \/ PageBegin
         \/ Restart \/ Crash
  PROVE  FenceInv'
<1>1. "pc" \in DOMAIN eng
  BY DEF FenceInv, HandsFree
<1>2. UNCHANGED <<kinds, rows>>
  BY DEF TakeWake, TakeControl, DrainCheck, DrainCheckFails, DrainAwait, PageBegin, Restart,
         Crash, NewProcess, durable, kinds
<1>3. page'.todo = {}
  <2>1. CASE Restart \/ Crash
    BY <2>1, EmptyPage DEF Restart, Crash, NewProcess
  <2>2. CASE ~(Restart \/ Crash)
    <3>1. page' = page /\ eng.pc # "rows"
      BY <2>2 DEF TakeWake, TakeControl, DrainCheck, DrainCheckFails, DrainAwait, PageBegin
    <3> QED
      BY <3>1 DEF FenceInv, HandsFree
  <2> QED
    BY <2>1, <2>2
<1>4. "pc" \in DOMAIN eng'
  BY <1>1 DEF TakeWake, TakeControl, DrainCheck, DrainCheckFails, DrainAwait, PageBegin, Restart,
              Crash, NewProcess, Answers, Ends, Resting, Replaying, Stopped
<1>5. HandsFree'
  BY <1>3, <1>4 DEF HandsFree
<1> QED
  BY <1>2, <1>3, <1>5, FenceKeeps

(* Everything else leaves engine and page alone.                           *)
LEMMA FenceElsewhere ==
  ASSUME FenceInv,
         \/ ChangeTrust \/ Shutdown
         \/ \E c \in Coordinates : Job(c)
         \/ \E s \in Sessions : EditHooks(s) \/ List(s) \/ AskDelete(s) \/ StopActor(s) \/ Erase(s)
         \/ \E s \in Sessions : MoveWorkspace(s) \/ PinTurn(s)
         \/ UNCHANGED vars
  PROVE  FenceInv'
<1>1. /\ UNCHANGED <<kinds, page, eng>> /\ rows' \subseteq rows /\ pinned \subseteq pinned'
  BY DEF ChangeTrust, Shutdown, SendControl, Job, JobAcks, JobEnds, JobFails, EditHooks, List,
         AskDelete, StopActor, Erase, MoveWorkspace, PinTurn, vars, durable, kinds, config
<1>2. HandsFree'
  BY <1>1 DEF FenceInv, HandsFree
<1> QED
  BY <1>1, <1>2, FenceKeeps

(* A step preserves the invariant.                                         *)
LEMMA FenceStep ==
  ASSUME HookInv, FenceInv, [Next]_vars
  PROVE  FenceInv'
<1>1. Typed
  BY DEF HookInv
<1>2. CASE Engine
  BY <1>1, <1>2, FenceDecides, FencePage, FenceBetween DEF Engine
<1>3. CASE \E c \in Coordinates : Job(c)
  BY <1>3, FenceElsewhere
<1>4. CASE \E s \in Sessions : Commit(s) \/ EditHooks(s) \/ List(s) \/ AskDelete(s)
                               \/ StopActor(s) \/ Erase(s)
  BY <1>4, FenceElsewhere, FenceCommit
<1>5. CASE \E s \in Sessions : MoveWorkspace(s) \/ PinTurn(s) \/ JournalUnavailable(s)
                               \/ SelectWorkspace(s)
  BY <1>5, FenceElsewhere, FenceCommit
<1>6. CASE ChangeTrust \/ Shutdown \/ Restart \/ Crash
  BY <1>6, FenceElsewhere, FenceBetween
<1>7. CASE UNCHANGED vars
  BY <1>7, FenceElsewhere
<1> QED
  BY <1>2, <1>3, <1>4, <1>5, <1>6, <1>7 DEF Next

(* No step runs a hook for a turn that is known to be without workspace.   *)
NoneStarts ==
    \A c \in turn : c[1] \in pinned \/ Unavailable(c[1]) => (c \in Started' => c \in Started)

LEMMA FenceHolds ==
  ASSUME Typed, FenceInv, DOMAIN flights = DOMAIN NoFlights, [Next]_vars
  PROVE  NoneStarts
<1>1. DOMAIN flights = {"active", "completed", "blocked"} /\ NoFlights.active = {}
  BY DEF NoFlights
<1>2. CASE Started' \subseteq Started
  BY <1>2 DEF NoneStarts
<1>3. CASE HandleInline \/ Defer
  <2>1. /\ AtRow /\ Current \in rows /\ (Fenced(Current) => Current \in facts)
        /\ Current \in page.todo
    BY <1>3, NextRow DEF HandleInline, Defer, Decides, AtRow
  <2>2. Started' \subseteq Started \/ (Current \in input /\ Started' \subseteq Started \cup {Current})
    <3>1. CASE HandleInline
      <4>1. /\ flights' = flights
            /\ done' = done \/ (Current \in input /\ done' = done \cup {Current})
        BY <3>1 DEF HandleInline, Fires, Waive
      <4> QED
        BY <4>1 DEF Started
    <3>2. CASE Defer
      <4>1. /\ done' = done /\ flights' = [flights EXCEPT !.active = @ \cup {Current}]
            /\ Current \in input
        BY <3>2 DEF Defer, Fires, history
      <4> QED
        BY <1>1, <4>1 DEF Started
    <3> QED
      BY <1>3, <3>1, <3>2
  <2>3. ASSUME Current \in turn, Current[1] \in pinned \/ Unavailable(Current[1]), Current \in input
        PROVE  FALSE
    <3>1. Fenced(Current)
      BY <2>1, <2>3 DEF FenceInv, PinsHold, Fenced
    <3> QED
      BY <2>1, <2>3, <3>1 DEF FenceInv, FactIsNoInput
  <2> QED
    BY <2>2, <2>3 DEF NoneStarts
<1>4. ASSUME NEW c \in Coordinates, Job(c)
      PROVE  Started' \subseteq Started
  <2>1. CASE JobAcks(c)
    BY <2>1 DEF JobAcks, Started
  <2>2. CASE JobEnds(c) \/ JobFails(c)
    <3>1. done' = done /\ flights'.active = flights.active \ {c}
      BY <1>1, <2>2 DEF JobEnds, JobFails, history
    <3> QED
      BY <3>1 DEF Started
  <2> QED
    BY <1>4, <2>1, <2>2 DEF Job
<1>5. CASE PageBegin \/ PageRead \/ PageReadFails \/ PageEnd \/ FlushFails \/ Restart \/ Crash
  <2>1. done' = done
    BY <1>5 DEF PageBegin, PageRead, PageReadFails, PageEnd, FlushFails, Restart, Crash,
                NewProcess, history
  <2>2. flights' = flights \/ flights' = NoFlights \/ flights' = [flights EXCEPT !.completed = {}]
    BY <1>5, ContinueFlights DEF PageBegin, PageRead, PageReadFails, PageEnd, FlushFails,
                Restart, Crash, NewProcess
  <2>3. flights'.active = flights.active \/ flights'.active = {}
    BY <1>1, <2>2
  <2> QED
    BY <2>1, <2>3, <1>2 DEF Started
<1>6. CASE \/ TakeWake \/ TakeControl \/ DrainCheck \/ DrainCheckFails \/ DrainAwait
           \/ PassOver \/ FenceOff \/ Retain \/ Acknowledge \/ Vanished \/ HandlerFails
           \/ ChangeTrust \/ Shutdown
           \/ \E s \in Sessions : Commit(s) \/ EditHooks(s) \/ List(s) \/ AskDelete(s)
                                  \/ StopActor(s) \/ Erase(s)
           \/ \E s \in Sessions : MoveWorkspace(s) \/ PinTurn(s) \/ JournalUnavailable(s)
                                  \/ SelectWorkspace(s)
           \/ UNCHANGED vars
  <2>1. done' = done /\ flights' = flights
    BY <1>6 DEF TakeWake, TakeControl, DrainCheck, DrainCheckFails, DrainAwait, PassOver, FenceOff,
         Retain, Acknowledge, Waive, Vanished, HandlerFails, ChangeTrust, Shutdown, SendControl,
         Commit, Commits, EditHooks, List, AskDelete, StopActor, Erase, MoveWorkspace, PinTurn,
         JournalUnavailable, SelectWorkspace, vars, history
  <2> QED
    BY <2>1, <1>2 DEF Started
<1> QED
  BY <1>2, <1>3, <1>4, <1>5, <1>6 DEF Next, Engine

(* A turn that found its workspace gone runs no hook any more: the pin in  *)
(* memory covers the rows a page had read before the fact was durable, the *)
(* mark covers the rest once the fact, or the selection of a workspace,    *)
(* has lifted the pin, and the next process too (hooks.rs:2180, 2629).     *)
THEOREM UnavailableTurnsRunNoHooks == Spec => NoHooksOnceUnavailable
<1>1. Init => HookInv /\ OwnInv /\ FenceInv
  BY HookInit, OwnInit, FenceInit
<1>2. HookInv /\ OwnInv /\ FenceInv /\ [Next]_vars => HookInv' /\ OwnInv' /\ FenceInv'
  BY HookStep, OwnStep, FenceStep
<1>3. HookInv /\ OwnInv /\ FenceInv /\ [Next]_vars => [NoneStarts]_vars
  <2>1. ASSUME HookInv, OwnInv, FenceInv, [Next]_vars
        PROVE  NoneStarts
    <3>1. Typed /\ DOMAIN flights = DOMAIN NoFlights
      BY <2>1 DEF HookInv, OwnInv, PageOK
    <3> QED
      BY <2>1, <3>1, FenceHolds
  <2> QED
    BY <2>1
<1> QED
  BY <1>1, <1>2, <1>3, PTL DEF Spec, NoHooksOnceUnavailable, NoneStarts
=============================================================================
