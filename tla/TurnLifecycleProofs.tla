------------------------ MODULE TurnLifecycleProofs ------------------------
(***************************************************************************)
(* Theorems about TurnLifecycle, for any number of runs, any capacity of   *)
(* channel and queue and any number of disturbances.                       *)
(***************************************************************************)
EXTENDS TurnLifecycle, Integers, SequenceTheorems, FiniteSetTheorems,
        WellFoundedInduction, TLAPS

-----------------------------------------------------------------------------
(* The invariant behind TerminalIsFinal. *)

(* Runs are accepted in order.                                             *)
StateOK ==
    /\ state \in [Runs -> States]
    /\ \E n \in 0..MaxRuns : Accepted = 1..n

(* Of the supervisor only what decides about a start that failed.          *)
SupOK ==
    /\ DOMAIN sup = DOMAIN Fresh
    /\ sup.next # "failing"
    /\ sup.at = "failing" => sup.saw \in {"cancelled", "errored", "budget"}

(* There is a supervisor, and a turn at work, only behind a slot.          *)
SlotOK == slot = "none" => sup.at = "none" /\ sup.active = 0

(* What a sweep has still to do is open, and nobody else will end it: the  *)
(* slot is free and stays so, and recovery is over.                        *)
SweepOK ==
    /\ DOMAIN sweep = DOMAIN NoSweep
    /\ sweep.of = "none" => sweep.todo = {}
    /\ phase = "recovering" => slot = "none" /\ sweep.todo = {}
    /\ sweep.todo # {} => slot = "none"
    /\ \A t \in sweep.todo :
          /\ t.run \in Runs
          /\ state[t.run] \in Open
          /\ t.cancelling => state[t.run] = "cancelling"
    /\ \A t, u \in sweep.todo : t.run = u.run => t = u

(* The inductive invariant.                                                *)
TurnInv == StateOK /\ SupOK /\ SlotOK /\ SweepOK

(* The initial state. *)
LEMMA TurnInit ==
  ASSUME Init
  PROVE  TurnInv
<1>1. StateOK
  <2>1. Accepted = 1..0 /\ 0 \in 0..MaxRuns
    BY TurnAssumption DEF Init, Accepted
  <2> QED
    BY <2>1 DEF Init, StateOK, States
<1>2. SupOK
  BY DEF Init, SupOK, NoSup, Fresh
<1>3. SlotOK
  BY DEF Init, SlotOK, NoSup, Fresh
<1>4. SweepOK
  BY DEF Init, SweepOK, NoSweep
<1> QED
  BY <1>1, <1>2, <1>3, <1>4 DEF TurnInv

-----------------------------------------------------------------------------
(* What each step does to the runs. *)

(* What no step may do to a run.                                           *)
Final(r) ==
    /\ state[r] \in Ended => state'[r] = state[r]
    /\ state[r] = "cancelling" => \/ state'[r] \in {"cancelling", "cancelled"}
                                  \/ (state'[r] = "errored" /\ r \in spent)

(* The ends a writer may ask the store for.                                *)
Ends == Ended \cup {"budget"}

(* Every step but an acceptance.                                           *)
Lawful ==
    /\ state' \in [Runs -> States]
    /\ \A r \in Runs : Final(r) /\ (state[r] = "none") = (state'[r] = "none")

(* The two ways in which a step ends runs or moves one on.                 *)
LEMMA MovesLawfully ==
  ASSUME StateOK, NEW r, NEW s \in States \ {"none"},
         state[r] \notin Ended \cup {"none"},
         state[r] = "cancelling" => \/ s \in {"cancelling", "cancelled"}
                                    \/ (s = "errored" /\ r \in spent),
         state' = [state EXCEPT ![r] = s]
  PROVE  Lawful
  BY DEF StateOK, Lawful, Final

(* The same for a step that terminalizes a run and may settle the session. *)
LEMMA TerminalizesLawfully ==
  ASSUME StateOK, NEW r, NEW end \in Ends, state' = Terminalized(r, end)
  PROVE  Lawful
<1> DEFINE s == IF end = "budget" THEN "errored" ELSE end
<1>1. s \in States \ {"none"} /\ (end = "cancelled" => s = "cancelled")
  BY DEF States, Ended, Ends
<1>2. CASE state' = state
  BY <1>2 DEF StateOK, Lawful, Final
<1>3. CASE state' # state
  <2>1. /\ state[r] \in Open
        /\ state[r] = "cancelling" => end = "cancelled" \/ (end = "budget" /\ r \in spent)
        /\ state' = [state EXCEPT ![r] = s]
    BY <1>3 DEF Terminalized
  <2>2. state[r] \notin Ended \cup {"none"}
    BY <2>1 DEF Open, Ended, Waiting
  <2>3. state[r] = "cancelling" => \/ s \in {"cancelling", "cancelled"}
                                   \/ (s = "errored" /\ r \in spent)
    BY <1>1, <2>1
  <2> HIDE DEF s
  <2> QED
    BY <1>1, <2>1, <2>2, <2>3, MovesLawfully
<1> QED
  BY <1>2, <1>3

(* The budget takes the place of another end only.                         *)
LEMMA ClosingEnds ==
  ASSUME NEW r, NEW end \in Ends
  PROVE  Closing(r, end) \in Ends
  BY DEF Closing, Ends

(* The accepted runs stay the accepted ones.                               *)
LEMMA LawfulKeepsState ==
  ASSUME StateOK, Lawful
  PROVE  StateOK'
<1>1. Accepted' = Accepted
  BY DEF Lawful, Accepted
<1> QED
  BY <1>1 DEF Lawful, StateOK

(* The run that is accepted next is new.                                   *)
LEMMA NextIsNew ==
  ASSUME StateOK, NextRun \in Runs
  PROVE  /\ state[NextRun] = "none"
         /\ \E n \in 0..MaxRuns : Accepted \cup {NextRun} = 1..n
<1>1. MaxRuns \in Nat
  BY TurnAssumption
<1>2. PICK n \in 0..MaxRuns : Accepted = 1..n
  BY DEF StateOK
<1>3. Cardinality(Accepted) = n
  BY <1>1, <1>2, FS_Interval
<1>4. NextRun = n + 1
  BY <1>3 DEF NextRun
<1>5. NextRun \notin Accepted
  BY <1>1, <1>2, <1>4
<1>6. Accepted \cup {NextRun} = 1..(n + 1) /\ n + 1 \in 0..MaxRuns
  BY <1>1, <1>2, <1>4 DEF Runs
<1> QED
  BY <1>5, <1>6 DEF Accepted

(* An acceptance disturbs no other run.                                    *)
LEMMA Accepts ==
  ASSUME StateOK, Accept \/ AcceptShell
  PROVE  /\ StateOK'
         /\ \A r \in Runs : state[r] # "none" => state'[r] = state[r]
<1>1. PICK s \in {"queued", "shell"} : state' = [state EXCEPT ![NextRun] = s]
  BY DEF Accept, AcceptShell
<1>2. NextRun \in Runs
  BY DEF Accept, AcceptShell
<1>3. /\ state[NextRun] = "none"
      /\ \E n \in 0..MaxRuns : Accepted \cup {NextRun} = 1..n
  BY <1>2, NextIsNew
<1>4. state' \in [Runs -> States]
  BY <1>1 DEF StateOK, States, Open
<1>5. Accepted' = Accepted \cup {NextRun}
  BY <1>1, <1>2 DEF StateOK, Accepted
<1> QED
  BY <1>1, <1>3, <1>4, <1>5 DEF StateOK

(* Cancellation by a client.                                               *)
LEMMA CancelsLawfully ==
  ASSUME StateOK, NEW r \in Runs, Cancel(r) \/ Unqueue(r)
  PROVE  Lawful
<1>1. state' = [state EXCEPT ![r] = "cancelling"] /\ state[r] \in Open
  BY DEF Cancel, Unqueue, Cancelling, Held, Open
<1>2. state[r] \notin Ended \cup {"none"} /\ "cancelling" \in States \ {"none"}
  BY <1>1 DEF Open, Ended, Waiting, States
<1> QED
  BY <1>1, <1>2, MovesLawfully

(* The harness of the active turn.                                         *)
LEMMA HarnessLawful ==
  ASSUME StateOK, HarnessBegins \/ HarnessStep \/ HarnessEnds
  PROVE  Lawful
<1> DEFINE r == sup.active
<1>1. \/ UNCHANGED state
      \/ \E s \in {"running", "parked", "routed", "done", "errored", "cancelling"} :
           /\ state' = [state EXCEPT ![r] = s]
           /\ state[r] \in {"queued", "running", "parked", "routed"}
  BY DEF HarnessBegins, HarnessStep, HarnessEnds, Waiting
<1>2. CASE UNCHANGED state
  BY <1>2 DEF StateOK, Lawful, Final
<1>3. CASE \E s \in {"running", "parked", "routed", "done", "errored", "cancelling"} :
             /\ state' = [state EXCEPT ![r] = s]
             /\ state[r] \in {"queued", "running", "parked", "routed"}
  <2>1. PICK s \in {"running", "parked", "routed", "done", "errored", "cancelling"} :
             /\ state' = [state EXCEPT ![r] = s]
             /\ state[r] \in {"queued", "running", "parked", "routed"}
    BY <1>3
  <2>2. s \in States \ {"none"} /\ state[r] \notin Ended \cup {"none"} /\ state[r] # "cancelling"
    BY <2>1 DEF States, Open, Ended, Waiting
  <2> QED
    BY <2>1, <2>2, MovesLawfully
<1> QED
  BY <1>1, <1>2, <1>3

(* The supervisor: outcomes, failed starts, hints, wakes, shutdown, shell. *)
LEMMA SupervisorLawful ==
  ASSUME StateOK, SupOK, Supervisor
  PROVE  Lawful
<1>0. CASE UNCHANGED state
  BY <1>0 DEF StateOK, Lawful, Final
<1> DEFINE ends(r) == \E end \in Ends : state' = Terminalized(r, end)
<1>a. "errored" \in Ends /\ "cancelled" \in Ends /\ "budget" \in Ends
  BY DEF Ends, Ended
<1>b. ASSUME NEW r, ends(r)
      PROVE  Lawful
  BY <1>b, TerminalizesLawfully
<1>1. CASE FailStart
  <2>1. sup.saw \in Ends
    BY <1>1, <1>a DEF FailStart, SupOK
  <2>2. ends(sup.hint.run)
    BY <1>1, <1>a, <2>1, ClosingEnds DEF FailStart
  <2> QED
    BY <1>b, <2>2
<1>2. CASE Outcome
  <2>1. UNCHANGED state \/ ends(sup.active)
    BY <1>2, <1>a, ClosingEnds DEF Outcome
  <2> QED
    BY <1>0, <1>b, <2>1
<1>3. CASE TakeSubmit
  <2>1. UNCHANGED state \/ ends(Head(chan).run)
    BY <1>3, <1>a, ClosingEnds DEF TakeSubmit, Admit
  <2> QED
    BY <1>0, <1>b, <2>1
<1>8. CASE ExpireQueued
  BY <1>8, <1>a, <1>b DEF ExpireQueued
<1>4. CASE TakeShutdown
  <2>1. PICK Q \in SUBSET Runs :
          /\ \A q \in Q : state[q] = "queued"
          /\ state' = [q \in Runs |-> IF q \in Q THEN "cancelled" ELSE state[q]]
    BY <1>4 DEF TakeShutdown
  <2> QED
    BY <2>1 DEF StateOK, Lawful, Final, States, Ended
<1>5. CASE TakeWake
  <2>1. PICK Q \in SUBSET Runs :
          /\ \A q \in Q : state[q] = "cancelling"
          /\ state' = [q \in Runs |-> IF q \in Q THEN "cancelled" ELSE state[q]]
    BY <1>5 DEF TakeWake
  <2> QED
    BY <2>1 DEF StateOK, Lawful, Final, States, Ended
<1>6. CASE ShellEnds
  <2>1. ends(sup.hint.run)
    BY <1>6 DEF ShellEnds, ShellEnd, Ends, Ended
  <2> QED
    BY <1>b, <2>1
<1>7. CASE \/ RetireCheck \/ Exit \/ TakeDeferredShell \/ Refill \/ Pop \/ Wait \/ IdleFires
           \/ Settle \/ Start \/ StartFails \/ TakeShell \/ TakeRetire \/ ShellWake
  <2>1. UNCHANGED state
    BY <1>7 DEF RetireCheck, Exit, TakeDeferredShell, Refill, Pop, Wait, IdleFires, Settle, Start,
                StartFails, TakeShell, TakeRetire, ShellWake, durable
  <2> QED
    BY <1>0, <2>1
<1> QED
  BY <1>1, <1>2, <1>3, <1>4, <1>5, <1>6, <1>7, <1>8 DEF Supervisor, TakeCommand

(* A sweep ends what the store lets it end.                                *)
LEMMA SweepLawful ==
  ASSUME StateOK, SweepOK, SweepRun
  PROVE  Lawful
<1>1. CASE UNCHANGED state
  BY <1>1 DEF StateOK, Lawful, Final
<1>2. CASE ~UNCHANGED state
  <2>1. PICK t \in sweep.todo, end \in {"cancelled", "errored"} :
          state' = Terminalized(t.run, Closing(t.run, end))
    BY <1>2 DEF SweepRun
  <2>2. Closing(t.run, end) \in Ends
    BY ClosingEnds DEF Ends, Ended
  <2> QED
    BY <2>1, <2>2, TerminalizesLawfully
<1> QED
  BY <1>1, <1>2

(* Recovery ends what was at work.                                         *)
LEMMA RecoveryLawful ==
  ASSUME StateOK, RecoverRun
  PROVE  Lawful
<1>1. CASE UNCHANGED state
  BY <1>1 DEF StateOK, Lawful, Final
<1>2. CASE ~UNCHANGED state
  <2>1. PICK s \in {"cancelled", "errored"} :
          /\ state' = [state EXCEPT ![At] = s]
          /\ state[At] \in Interrupted
          /\ state[At] = "cancelling" => s = "cancelled" \/ (s = "errored" /\ At \in spent)
    BY <1>2 DEF RecoverRun
  <2>2. s \in States \ {"none"} /\ state[At] \notin Ended \cup {"none"}
    BY <2>1 DEF Interrupted, Waiting, States, Ended
  <2> QED
    BY <2>1, <2>2, MovesLawfully
<1> QED
  BY <1>1, <1>2

(* The steps that end or move no run.                                      *)
LEMMA QuietSteps ==
  ASSUME \/ \E r \in Runs : Repeat(r) \/ HandOff(r) \/ HandOffFails(r)
         \/ \E e \in {"expired", "refused"} : TakeEvent(e)
         \/ RetireSession \/ Join \/ SweepEnds \/ HarnessPanics \/ Budget \/ BeginDraining
         \/ ManagerShutdown \/ DrainSweep \/ Crash \/ Restart \/ RecoveryRead \/ HandOver \/ Listen
         \/ UNCHANGED vars
  PROVE  UNCHANGED state
  BY DEF Repeat, HandOff, HandOffFails, TakeEvent, RetireSession, Join, SweepEnds, HarnessPanics,
         Budget, BudgetFires, QueuedBudgetFires, BeginDraining, ManagerShutdown, DrainSweep,
         Crash, Restart, NewProcess, RecoveryRead, HandOver, Listen, vars, durable

(* Every step but an acceptance keeps the law of the runs.                 *)
LEMMA StepLawful ==
  ASSUME TurnInv, [Next]_vars, ~Accept, ~AcceptShell
  PROVE  Lawful
<1>1. CASE UNCHANGED state
  BY <1>1 DEF TurnInv, StateOK, Lawful, Final
<1>2. CASE \E r \in Runs : Cancel(r) \/ Unqueue(r)
  BY <1>2, CancelsLawfully DEF TurnInv
<1>3. CASE SweepRun
  BY <1>3, SweepLawful DEF TurnInv
<1>4. CASE Supervisor
  BY <1>4, SupervisorLawful DEF TurnInv
<1>5. CASE HarnessBegins \/ HarnessStep \/ HarnessEnds
  BY <1>5, HarnessLawful DEF TurnInv
<1>6. CASE RecoverRun
  BY <1>6, RecoveryLawful DEF TurnInv
<1> QED
  BY <1>1, <1>2, <1>3, <1>4, <1>5, <1>6, QuietSteps DEF Next, Clients, Manager, Drain, Startup

-----------------------------------------------------------------------------
(* The supervisor, its slot and the manager's sweep. *)

(* A supervisor's step does not end in a failed start, unless it says why. *)
LEMMA SupervisorKeepsSup ==
  ASSUME SupOK, Supervisor
  PROVE  SupOK'
<1>1. CASE StartFails
  BY <1>1 DEF SupOK, StartFails, Fresh
<1>2. CASE RetireCheck \/ Exit \/ TakeDeferredShell \/ Wait \/ IdleFires \/ Settle \/ Start
  BY <1>2 DEF SupOK, RetireCheck, Exit, TakeDeferredShell, Wait, IdleFires, Settle, Start, Fresh
<1>3. CASE Refill
  BY <1>3 DEF SupOK, Refill, Fresh
<1>4. CASE Pop
  BY <1>4 DEF SupOK, Pop, Fresh
<1>5. CASE FailStart \/ Outcome
  BY <1>5 DEF SupOK, FailStart, Outcome, Fresh
<1>6. CASE TakeSubmit
  BY <1>6 DEF SupOK, TakeSubmit, Admit, Active, Overflowed, Again, Fresh
<1>7. CASE TakeShell
  BY <1>7 DEF SupOK, TakeShell, Active, Listening, Fresh
<1>8. CASE TakeRetire \/ ShellWake \/ ShellEnds
  BY <1>8 DEF SupOK, TakeRetire, ShellWake, ShellEnds, ShellEnd, Again, Fresh
<1>9. CASE TakeShutdown
  BY <1>9 DEF SupOK, TakeShutdown, Listening, Fresh
<1>10. CASE TakeWake
  BY <1>10 DEF SupOK, TakeWake, Again, Fresh
<1>11. CASE ExpireQueued
  BY <1>11 DEF SupOK, ExpireQueued, Fresh
<1> QED
  BY <1>1, <1>2, <1>3, <1>4, <1>5, <1>6, <1>7, <1>8, <1>9, <1>10, <1>11 DEF Supervisor, TakeCommand

(* Nor does anything that others do to it.                                 *)
LEMMA OthersKeepSup ==
  ASSUME SupOK, [Next]_vars, ~Supervisor
  PROVE  SupOK'
<1>1. CASE sup' = sup
  BY <1>1 DEF SupOK
<1>2. CASE \E r \in Runs : Cancel(r) \/ Unqueue(r)
  BY <1>2 DEF SupOK, Cancel, Unqueue, Cancelling, Fresh
<1>3. CASE sup' = Fresh \/ sup' = NoSup
  <2>1. DOMAIN NoSup = DOMAIN Fresh /\ NoSup.at = "none" /\ NoSup.next = "none"
    BY DEF Fresh, NoSup
  <2>2. Fresh.at = "top" /\ Fresh.next = "top"
    BY DEF Fresh
  <2> QED
    BY <1>3, <2>1, <2>2 DEF SupOK
<1>4. CASE HarnessEnds \/ HarnessPanics \/ Budget
  BY <1>4 DEF SupOK, HarnessEnds, HarnessPanics, Budget, BudgetFires, QueuedBudgetFires, Fresh
<1>5. ASSUME \/ Accept \/ AcceptShell
             \/ \E r \in Runs : Repeat(r) \/ HandOff(r) \/ HandOffFails(r)
             \/ \E e \in {"expired", "refused"} : TakeEvent(e)
             \/ RetireSession \/ Join \/ SweepRun \/ SweepEnds \/ HarnessBegins \/ HarnessStep
             \/ BeginDraining \/ ManagerShutdown \/ DrainSweep \/ Crash \/ Startup
             \/ UNCHANGED vars
      PROVE  sup' = sup \/ sup' = Fresh \/ sup' = NoSup
  BY <1>5 DEF Accept, AcceptShell, Repeat, HandOff, HandOffFails, Send, TakeEvent, RetireSession,
              Join, SweepRun, SweepEnds, HarnessBegins, HarnessStep, BeginDraining,
              ManagerShutdown, DrainSweep, Crash, Startup, RecoverRun, RecoveryRead, HandOver,
              Listen, Restart, NewProcess, vars
<1> QED
  BY <1>1, <1>2, <1>3, <1>4, <1>5 DEF Next, Clients, Manager, Drain

(* Who works has a slot, and nothing is swept meanwhile.                   *)
LEMMA WorkNeedsSlot ==
  ASSUME SlotOK, SweepOK,
         Supervisor \/ HarnessBegins \/ HarnessStep \/ HarnessEnds \/ HarnessPanics \/ Budget
  PROVE  /\ slot # "none" /\ sweep.todo = {} /\ phase # "recovering"
         /\ slot' = slot /\ sweep' = sweep
         /\ phase' = phase \/ phase' = "draining"
<1>1. CASE Supervisor
  <2>1. sup.at # "none"
    BY <1>1 DEF Supervisor, TakeCommand, RetireCheck, Exit, TakeDeferredShell, Refill, Pop, Wait,
                IdleFires, Settle, Start, StartFails, FailStart, Outcome, ExpireQueued, TakeSubmit,
                TakeShell, TakeRetire, TakeShutdown, TakeWake, ShellEnds, ShellWake, Listening
  <2>2. slot' = slot /\ sweep' = sweep /\ (phase' = phase \/ phase' = "draining")
    BY <1>1 DEF Supervisor, TakeCommand, RetireCheck, Exit, TakeDeferredShell, Refill, Pop, Wait,
                IdleFires, Settle, Start, StartFails, FailStart, Outcome, ExpireQueued, TakeSubmit,
                TakeShell, TakeRetire, TakeShutdown, TakeWake, ShellEnds, ShellEnd, ShellWake,
                others, manager
  <2> QED
    BY <2>1, <2>2 DEF SlotOK, SweepOK
<1>2. CASE HarnessBegins \/ HarnessStep \/ HarnessEnds \/ HarnessPanics
  <2>1. sup.active # 0
    BY <1>2 DEF HarnessBegins, HarnessStep, HarnessEnds, HarnessPanics, Working
  <2>2. slot' = slot /\ sweep' = sweep /\ phase' = phase
    BY <1>2 DEF HarnessBegins, HarnessStep, HarnessEnds, HarnessPanics, manager
  <2> QED
    BY <2>1, <2>2 DEF SlotOK, SweepOK
<1>3. CASE Budget
  <2>1. sup.at = "live" /\ slot' = slot /\ sweep' = sweep /\ phase' = phase
    BY <1>3 DEF Budget, BudgetFires, QueuedBudgetFires, manager
  <2> QED
    BY <2>1 DEF SlotOK, SweepOK
<1> QED
  BY <1>1, <1>2, <1>3

(* The sweep that is begun lists open runs, each once.                     *)
LEMMA SweepsAreOpen ==
  ASSUME StateOK, NEW of, NEW S \in SUBSET Nonterminal
  PROVE  LET w == Sweep(of, S) IN
         /\ DOMAIN w = DOMAIN NoSweep
         /\ w.todo # {} => w.of = of
         /\ w.of # of => w = NoSweep
         /\ \A t \in w.todo :
               /\ t.run \in Runs
               /\ state[t.run] \in Open
               /\ t.cancelling => state[t.run] = "cancelling"
         /\ \A t, u \in w.todo : t.run = u.run => t = u
<1>1. CASE S = {}
  BY <1>1 DEF Sweep, NoSweep
<1>2. CASE S # {}
  <2>1. Sweep(of, S) = [of |-> of, todo |-> Todo(S)]
    BY <1>2 DEF Sweep
  <2>2. ASSUME NEW t \in Todo(S)
        PROVE  /\ t.run \in S
               /\ t = [run |-> t.run, cancelling |-> (state[t.run] = "cancelling")]
               /\ t.cancelling => state[t.run] = "cancelling"
    <3>1. PICK r \in S : t = [run |-> r, cancelling |-> (state[r] = "cancelling")]
      BY <2>2 DEF Todo
    <3> QED
      BY <3>1
  <2>3. \A t, u \in Todo(S) : t.run = u.run => t = u
    BY <2>2
  <2> QED
    BY <2>1, <2>2, <2>3 DEF NoSweep, Nonterminal
<1> QED
  BY <1>1, <1>2

(* A step keeps the slot's invariant: work starts behind a slot, and a slot *)
(* is freed with its supervisor gone.                                      *)
LEMMA StepKeepsSlot ==
  ASSUME TurnInv, [Next]_vars
  PROVE  SlotOK'
<1>1. CASE Supervisor \/ HarnessBegins \/ HarnessStep \/ HarnessEnds \/ HarnessPanics \/ Budget
  BY <1>1, WorkNeedsSlot DEF TurnInv, SlotOK
<1>2. CASE UNCHANGED <<slot, sup>>
  BY <1>2 DEF TurnInv, SlotOK
<1>3. CASE slot' # "none"
  BY <1>3 DEF SlotOK
<1>4. CASE sup' = NoSup
  BY <1>4 DEF SlotOK, NoSup, Fresh
<1>5. CASE \E r \in Runs : Cancel(r) \/ Unqueue(r)
  BY <1>5 DEF TurnInv, SlotOK, SupOK, Cancel, Unqueue, Cancelling, Fresh, manager
<1>6. CASE \/ \E r \in Runs : HandOff(r)
           \/ \E e \in {"expired", "refused"} : TakeEvent(e)
           \/ RetireSession \/ HandOver
  <2>1. slot' # "none" \/ UNCHANGED <<slot, sup>>
    BY <1>6 DEF HandOff, HandOver, Send, TakeEvent, RetireSession, RequestRetirement
  <2> QED
    BY <1>2, <1>3, <2>1
<1>7. CASE Join \/ Crash \/ Restart
  BY <1>4, <1>7 DEF Join, Crash, Restart, NewProcess
<1>8. ASSUME \/ Accept \/ AcceptShell \/ SweepRun \/ SweepEnds \/ BeginDraining
             \/ \E r \in Runs : Repeat(r) \/ HandOffFails(r)
             \/ ManagerShutdown \/ DrainSweep \/ RecoverRun \/ RecoveryRead \/ Listen
             \/ UNCHANGED vars
      PROVE  UNCHANGED <<slot, sup>>
  BY <1>8 DEF Accept, AcceptShell, SweepRun, SweepEnds, BeginDraining, Repeat, HandOffFails,
              ManagerShutdown, DrainSweep, RecoverRun, RecoveryRead, Listen, vars, manager
<1> QED
  BY <1>1, <1>2, <1>5, <1>6, <1>7, <1>8 DEF Next, Clients, Manager, Drain, Startup

(* What a sweep has to do stays open while others go on.                   *)
LEMMA SweepWaits ==
  ASSUME TurnInv, UNCHANGED sweep,
         phase' = "recovering" => slot' = "none" /\ sweep.todo = {},
         sweep.todo # {} => slot' = "none",
         \A r \in Runs : state[r] \in Open =>
            state'[r] = state[r] \/ state'[r] = "cancelling"
  PROVE  SweepOK'
<1>1. ASSUME NEW t \in sweep.todo
      PROVE  state'[t.run] \in Open /\ (t.cancelling => state'[t.run] = "cancelling")
  <2>1. /\ t.run \in Runs /\ state[t.run] \in Open
        /\ t.cancelling => state[t.run] = "cancelling"
    BY DEF TurnInv, SweepOK
  <2>2. "cancelling" \in Open
    BY DEF Open
  <2> QED
    BY <2>1, <2>2
<1> QED
  BY <1>1 DEF TurnInv, SweepOK

(* With nothing to sweep there is little to keep.                          *)
LEMMA NothingSwept ==
  ASSUME DOMAIN sweep' = DOMAIN NoSweep, sweep'.todo = {},
         phase' = "recovering" => slot' = "none"
  PROVE  SweepOK'
  BY DEF SweepOK

(* A sweep begins where a slot was freed, or with every slot free.         *)
LEMMA SweepBegins ==
  ASSUME TurnInv, Join \/ DrainSweep
  PROVE  SweepOK'
<1>1. slot' = "none" /\ state' = state
  BY DEF Join, DrainSweep, durable
<1>2. PICK of \in {"exit", "drain"}, S \in SUBSET Nonterminal :
         sweep' = Sweep(of, S) \/ sweep' = NoSweep
  BY DEF Join, DrainSweep
<1>3. phase' # "recovering"
  <2>1. CASE Join
    BY <2>1 DEF Join, TurnInv, SweepOK
  <2>2. CASE DrainSweep
    BY <2>2 DEF DrainSweep
  <2> QED
    BY <2>1, <2>2
<1>4. CASE sweep' = NoSweep
  BY <1>1, <1>3, <1>4, NothingSwept DEF NoSweep
<1>5. CASE sweep' = Sweep(of, S)
  <2>1. /\ DOMAIN sweep' = DOMAIN NoSweep
        /\ sweep'.todo # {} => sweep'.of = of
        /\ \A t \in sweep'.todo :
              /\ t.run \in Runs
              /\ state[t.run] \in Open
              /\ t.cancelling => state[t.run] = "cancelling"
        /\ \A t, u \in sweep'.todo : t.run = u.run => t = u
    BY <1>5, SweepsAreOpen DEF TurnInv
  <2>2. sweep'.of = "none" => sweep'.todo = {}
    BY <1>2, <2>1
  <2> QED
    BY <1>1, <1>3, <2>1, <2>2 DEF SweepOK
<1> QED
  BY <1>2, <1>4, <1>5

(* A sweep goes on: the run it has ended is off its list.                  *)
LEMMA SweepGoesOn ==
  ASSUME TurnInv, SweepRun
  PROVE  SweepOK'
<1>1. PICK t \in sweep.todo :
        \/ sweep' = [of |-> "given_up", todo |-> {}]
        \/ /\ sweep' = [sweep EXCEPT !.todo = @ \ {t}]
           /\ \A r \in Runs : r # t.run => state'[r] = state[r]
  BY DEF SweepRun, TurnInv, StateOK, Terminalized
<1>2. slot = "none" /\ slot' = slot /\ phase' = phase /\ phase # "recovering"
  BY <1>1 DEF SweepRun, TurnInv, SweepOK
<1>3. CASE sweep' = [of |-> "given_up", todo |-> {}]
  BY <1>2, <1>3, NothingSwept DEF NoSweep
<1>4. CASE /\ sweep' = [sweep EXCEPT !.todo = @ \ {t}]
           /\ \A r \in Runs : r # t.run => state'[r] = state[r]
  <2>1. DOMAIN sweep' = DOMAIN NoSweep /\ sweep'.todo = sweep.todo \ {t} /\ sweep'.of = sweep.of
    BY <1>4 DEF TurnInv, SweepOK, NoSweep
  <2>2. ASSUME NEW u \in sweep'.todo
        PROVE  /\ u \in sweep.todo /\ u.run \in Runs /\ state'[u.run] = state[u.run]
               /\ state[u.run] \in Open
               /\ u.cancelling => state[u.run] = "cancelling"
    <3>1. u \in sweep.todo /\ u # t
      BY <2>1, <2>2
    <3>2. u.run \in Runs /\ u.run # t.run
      BY <3>1 DEF TurnInv, SweepOK
    <3> QED
      BY <1>4, <3>1, <3>2 DEF TurnInv, SweepOK
  <2>3. \A u, v \in sweep'.todo : u.run = v.run => u = v
    BY <2>2 DEF TurnInv, SweepOK
  <2>4. sweep'.of = "none" => sweep'.todo = {}
    BY <2>1 DEF TurnInv, SweepOK
  <2> QED
    BY <1>2, <2>1, <2>2, <2>3, <2>4 DEF SweepOK
<1> QED
  BY <1>1, <1>3, <1>4

(* A step keeps what is known of the sweep.                                *)
LEMMA StepKeepsSweep ==
  ASSUME TurnInv, [Next]_vars
  PROVE  SweepOK'
<1>0. /\ DOMAIN sweep = DOMAIN NoSweep
      /\ sweep.of = "none" => sweep.todo = {}
      /\ phase = "recovering" => slot = "none" /\ sweep.todo = {}
      /\ sweep.todo # {} => slot = "none"
  BY DEF TurnInv, SweepOK
<1>1. CASE Supervisor \/ HarnessBegins \/ HarnessStep \/ HarnessEnds \/ HarnessPanics \/ Budget
  BY <1>0, <1>1, WorkNeedsSlot, NothingSwept DEF TurnInv
<1>2. CASE Accept \/ AcceptShell
  <2>1. \A r \in Runs : state[r] \in Open => state'[r] = state[r]
    BY <1>2, Accepts DEF TurnInv, Open, Waiting
  <2>2. UNCHANGED <<sweep, slot, phase>>
    BY <1>2 DEF Accept, AcceptShell, manager
  <2> QED
    BY <1>0, <2>1, <2>2, SweepWaits
<1>3. CASE \E r \in Runs : Cancel(r) \/ Unqueue(r)
  <2>1. \A r \in Runs : state'[r] = state[r] \/ state'[r] = "cancelling"
    BY <1>3 DEF Cancel, Unqueue, Cancelling, TurnInv, StateOK
  <2>2. UNCHANGED <<sweep, slot, phase>>
    BY <1>3 DEF Cancel, Unqueue, Cancelling, manager
  <2> QED
    BY <1>0, <2>1, <2>2, SweepWaits
<1>4. CASE \/ \E r \in Runs : HandOff(r)
           \/ \E e \in {"expired", "refused"} : TakeEvent(e)
           \/ RetireSession \/ HandOver
  <2>1. sweep.of = "none" /\ sweep' = sweep /\ phase' = phase
    BY <1>4 DEF HandOff, HandOver, Send, TakeEvent, RetireSession, Idling
  <2>2. phase = "recovering" => slot' = slot
    BY <1>0, <1>4 DEF HandOff, HandOver, TakeEvent, RetireSession
  <2> QED
    BY <1>0, <2>1, <2>2, NothingSwept
<1>5. CASE Join \/ DrainSweep
  BY <1>5, SweepBegins
<1>6. CASE SweepRun
  BY <1>6, SweepGoesOn
<1>7. CASE SweepEnds \/ Crash \/ Restart
  <2>1. sweep' = NoSweep
    BY <1>7 DEF SweepEnds, Crash, Restart, NewProcess
  <2>2. phase' = "recovering" => slot' = "none"
    BY <1>0, <1>7 DEF SweepEnds, Crash, Restart, NewProcess
  <2> QED
    BY <2>1, <2>2, NothingSwept DEF NoSweep
<1>8. CASE RecoverRun
  <2>1. UNCHANGED <<sweep, slot, phase>> /\ phase = "recovering"
    BY <1>8 DEF RecoverRun, manager
  <2> QED
    BY <1>0, <2>1, NothingSwept
<1>9. CASE \/ \E r \in Runs : Repeat(r) \/ HandOffFails(r)
           \/ BeginDraining \/ ManagerShutdown \/ RecoveryRead \/ Listen \/ UNCHANGED vars
  <2>1. /\ UNCHANGED <<state, sweep, slot>>
        /\ phase' = phase \/ phase' \in {"draining", "settling", "handing", "up"}
    BY <1>9 DEF Repeat, HandOffFails, BeginDraining, ManagerShutdown, RecoveryRead, Listen, vars,
                manager, durable
  <2> QED
    BY <1>0, <2>1, SweepWaits
<1> QED
  BY <1>1, <1>2, <1>3, <1>4, <1>5, <1>6, <1>7, <1>8, <1>9
     DEF Next, Clients, Manager, Drain, Startup

-----------------------------------------------------------------------------
(* Theorems. *)

(* A step preserves the invariant.                                         *)
LEMMA TurnStep ==
  ASSUME TurnInv, [Next]_vars
  PROVE  TurnInv'
<1>1. StateOK'
  BY Accepts, StepLawful, LawfulKeepsState DEF TurnInv
<1>2. SupOK'
  BY SupervisorKeepsSup, OthersKeepSup DEF TurnInv
<1> QED
  BY <1>1, <1>2, StepKeepsSlot, StepKeepsSweep DEF TurnInv

(* The invariant holds in every reachable state.                           *)
LEMMA TurnInvariant == Spec => []TurnInv
<1>1. Init => TurnInv
  BY TurnInit
<1>2. TurnInv /\ [Next]_vars => TurnInv'
  BY TurnStep
<1> QED
  BY <1>1, <1>2, PTL DEF Spec

(* A run that is over stays as it ended, and a cancelled run ends as       *)
(* Cancelled, or as Errored with the exhaustion of its budget on record,   *)
(* whichever of harness, supervisor, manager's sweep, shell command,       *)
(* budget, admission and recovery comes to end it, for any number of runs  *)
(* and any sequence of crashes, drains, panics and retirements.            *)
THEOREM EndsAreFinal == Spec => TerminalIsFinal
<1>1. ASSUME TurnInv, [Next]_vars, NEW r \in Runs
      PROVE  Final(r)
  <2>1. CASE Accept \/ AcceptShell
    BY <1>1, <2>1, Accepts DEF TurnInv, Ended, Final
  <2>2. CASE ~Accept /\ ~AcceptShell
    BY <1>1, <2>2, StepLawful DEF Lawful
  <2> QED
    BY <2>1, <2>2
<1>2. TurnInv /\ [Next]_vars =>
        [\A r \in Runs :
           /\ state[r] \in Ended => state'[r] = state[r]
           /\ state[r] = "cancelling" => \/ state'[r] \in {"cancelling", "cancelled"}
                                         \/ (state'[r] = "errored" /\ r \in spent)]_vars
  BY <1>1 DEF Final
<1> QED
  BY <1>2, TurnInvariant, PTL DEF Spec, TerminalIsFinal

-----------------------------------------------------------------------------
(* Queues and channels, by what is in them. *)

(* The members of a sequence.                                              *)
Members(q) == {q[i] : i \in 1..Len(q)}

(* A member has a place.                                                   *)
LEMMA SeqMembers ==
  ASSUME NEW S, NEW q \in Seq(S)
  PROVE  /\ Members(q) \subseteq S
         /\ q = <<>> <=> Members(q) = {}
         /\ \A x : Contains(q, x) <=> x \in Members(q)
<1>1. Len(q) \in Nat /\ DOMAIN q = 1..Len(q)
  BY LenProperties
<1>2. Members(q) \subseteq S
  BY DEF Members
<1>3. q = <<>> <=> Members(q) = {}
  <2>1. q = <<>> <=> Len(q) = 0
    BY EmptySeq, LenProperties
  <2>2. Len(q) = 0 <=> Members(q) = {}
    <3>1. ASSUME Len(q) # 0
          PROVE  q[1] \in Members(q)
      BY <1>1, <3>1 DEF Members
    <3> QED
      BY <3>1 DEF Members
  <2> QED
    BY <2>1, <2>2
<1>4. ASSUME NEW x
      PROVE  Contains(q, x) <=> x \in Members(q)
  BY DEF Members, Contains
<1> QED
  BY <1>2, <1>3, <1>4

(* Nothing, and a single member.                                           *)
LEMMA SeqSmall ==
  ASSUME NEW S, NEW x \in S
  PROVE  /\ Members(<<>>) = {} /\ <<>> \in Seq(S)
         /\ Members(<<x>>) = {x} /\ <<x>> \in Seq(S)
  BY DEF Members

(* A member joins at the end.                                              *)
LEMMA SeqAppend ==
  ASSUME NEW S, NEW q \in Seq(S), NEW x \in S
  PROVE  /\ Append(q, x) \in Seq(S)
         /\ Len(Append(q, x)) = Len(q) + 1
         /\ Members(Append(q, x)) = Members(q) \cup {x}
<1>1. /\ Append(q, x) \in Seq(S)
      /\ Len(Append(q, x)) = Len(q) + 1
      /\ \A i \in 1..Len(q) : Append(q, x)[i] = q[i]
      /\ Append(q, x)[Len(q) + 1] = x
  BY AppendProperties
<1>2. Len(q) \in Nat
  BY LenProperties
<1>3. 1..(Len(q) + 1) = 1..Len(q) \cup {Len(q) + 1}
  BY <1>2
<1> QED
  BY <1>1, <1>3 DEF Members

(* The first member leaves.                                                *)
LEMMA SeqTail ==
  ASSUME NEW S, NEW q \in Seq(S), q # <<>>
  PROVE  /\ Head(q) \in S
         /\ Tail(q) \in Seq(S)
         /\ Len(Tail(q)) = Len(q) - 1
         /\ Head(q) \in Members(q)
         /\ Members(q) = Members(Tail(q)) \cup {Head(q)}
<1>1. /\ Head(q) \in S
      /\ Tail(q) \in Seq(S)
      /\ Len(Tail(q)) = Len(q) - 1
      /\ \A i \in 1..Len(Tail(q)) : Tail(q)[i] = q[i + 1]
  BY HeadTailProperties
<1>2. Len(q) \in Nat \ {0} /\ Head(q) = q[1]
  BY EmptySeq, LenProperties
<1>3. ASSUME NEW x \in Members(q)
      PROVE  x \in Members(Tail(q)) \cup {Head(q)}
  <2>1. PICK i \in 1..Len(q) : x = q[i]
    BY <1>3 DEF Members
  <2>2. CASE i = 1
    BY <1>2, <2>1, <2>2
  <2>3. CASE i # 1
    <3>1. i - 1 \in 1..Len(Tail(q)) /\ (i - 1) + 1 = i
      BY <1>1, <1>2, <2>3
    <3>2. Tail(q)[i - 1] = q[i]
      BY <1>1, <3>1
    <3> QED
      BY <2>1, <3>1, <3>2 DEF Members
  <2> QED
    BY <2>2, <2>3
<1>4. Head(q) \in Members(q)
  BY <1>2 DEF Members
<1>5. ASSUME NEW x \in Members(Tail(q))
      PROVE  x \in Members(q)
  <2>1. PICK i \in 1..Len(Tail(q)) : x = Tail(q)[i]
    BY <1>5 DEF Members
  <2>2. i + 1 \in 1..Len(q)
    BY <1>1, <1>2
  <2> QED
    BY <1>1, <2>1, <2>2 DEF Members
<1> QED
  BY <1>1, <1>3, <1>4, <1>5

(* Every nonempty set of naturals has a least member.                      *)
LEMMA Least ==
  ASSUME NEW I \in SUBSET Nat, I # {}
  PROVE  \E m \in I : \A j \in I : m <= j
<1>1. IsWellFoundedOn(OpToRel(<, Nat), Nat)
  BY NatLessThanWellFounded
<1>2. PICK m \in I : \A j \in I : ~(<<j, m>> \in OpToRel(<, Nat))
  BY <1>1, WFMin
<1>3. \A j \in I : ~(j < m)
  BY <1>2 DEF OpToRel
<1> QED
  BY <1>3

(* An ascending listing.                                                   *)
Ascending(f, S) ==
    /\ f \in [1..Cardinality(S) -> S]
    /\ \A i, j \in 1..Cardinality(S) : i < j => f[i] < f[j]

(* With its least member in front, a listing of the rest is one of all.    *)
LEMMA ListingGrows ==
  ASSUME NEW S \in SUBSET Nat, IsFiniteSet(S), NEW m \in S, \A j \in S : m <= j,
         NEW g, Ascending(g, S \ {m})
  PROVE  \E f : Ascending(f, S)
<1> DEFINE n == Cardinality(S)
           f == [i \in 1..n |-> IF i = 1 THEN m ELSE g[i - 1]]
<1>1. n \in Nat \ {0} /\ Cardinality(S \ {m}) = n - 1
  BY FS_RemoveElement, FS_EmptySet, FS_CardinalityType
<1> HIDE DEF n
<1>2. /\ g \in [1..(n - 1) -> S \ {m}]
      /\ \A i, j \in 1..(n - 1) : i < j => g[i] < g[j]
  BY <1>1 DEF Ascending
<1>3. ASSUME NEW i \in 1..n, i # 1
      PROVE  i - 1 \in 1..(n - 1) /\ g[i - 1] \in S /\ m < g[i - 1]
  <2>1. i - 1 \in 1..(n - 1)
    BY <1>1, <1>3
  <2>2. g[i - 1] \in S \ {m}
    BY <1>2, <2>1
  <2>3. g[i - 1] \in Nat /\ m \in Nat /\ m <= g[i - 1] /\ m # g[i - 1]
    BY <2>2
  <2> QED
    BY <2>1, <2>2, <2>3
<1>4. f \in [1..n -> S]
  BY <1>3
<1>5. ASSUME NEW i \in 1..n, NEW j \in 1..n, i < j
      PROVE  f[i] < f[j]
  <2>1. j # 1 /\ i \in Nat /\ j \in Nat
    BY <1>1, <1>5
  <2>2. CASE i = 1
    BY <1>3, <2>1, <2>2
  <2>3. CASE i # 1
    <3>1. i - 1 \in 1..(n - 1) /\ j - 1 \in 1..(n - 1) /\ i - 1 < j - 1
      BY <1>1, <1>3, <1>5, <2>1, <2>3
    <3> QED
      BY <1>2, <2>1, <2>3, <3>1
  <2> QED
    BY <2>2, <2>3
<1> HIDE DEF f
<1> QED
  BY <1>4, <1>5 DEF Ascending, n

(* Every finite set of numbers has an ascending listing: a smallest one    *)
(* without would have a least member.                                      *)
LEMMA ListingExists ==
  ASSUME NEW S \in SUBSET Nat, IsFiniteSet(S)
  PROVE  \E f : Ascending(f, S)
<1> DEFINE Bad(K) == IsFiniteSet(K) /\ ~\E f : Ascending(f, K)
           N == {n \in Nat : \E K \in SUBSET Nat : Cardinality(K) = n /\ Bad(K)}
<1>1. SUFFICES ASSUME Bad(S)
               PROVE  FALSE
  OBVIOUS
<1>2. Cardinality(S) \in N
  BY <1>1, FS_CardinalityType
<1>3. PICK n \in N : \A k \in N : n <= k
  BY <1>2, Least
<1>4. PICK K \in SUBSET Nat : Cardinality(K) = n /\ Bad(K)
  BY <1>3
<1>5. CASE K = {}
  <2>1. Cardinality(K) = 0
    BY <1>5, FS_EmptySet
  <2>2. Ascending([i \in 1..0 |-> i], K)
    BY <2>1, <1>5 DEF Ascending
  <2> QED
    BY <1>4, <2>2
<1>6. CASE K # {}
  <2>1. PICK m \in K : \A j \in K : m <= j
    BY <1>6, Least
  <2>2. IsFiniteSet(K \ {m}) /\ Cardinality(K \ {m}) = n - 1 /\ n - 1 \in Nat
    <3>1. IsFiniteSet(K)
      BY <1>4
    <3>2. IsFiniteSet(K \ {m}) /\ Cardinality(K \ {m}) = Cardinality(K) - 1
      BY <2>1, <3>1, FS_RemoveElement
    <3>3. Cardinality(K \ {m}) \in Nat
      BY <3>2, FS_CardinalityType
    <3> QED
      BY <1>4, <3>2, <3>3
  <2>3. \E g : Ascending(g, K \ {m})
    <3>1. SUFFICES ASSUME Bad(K \ {m})
                   PROVE  FALSE
      BY <2>2
    <3>2. n - 1 \in N
      BY <2>2, <3>1
    <3>3. n <= n - 1 /\ n \in Nat
      BY <1>3, <3>2
    <3> QED
      BY <3>3
  <2> QED
    BY <1>4, <2>1, <2>3, ListingGrows
<1> QED
  BY <1>5, <1>6

(* InOrder lists exactly the set.                                          *)
LEMMA Lists ==
  ASSUME NEW S \in SUBSET Nat, IsFiniteSet(S)
  PROVE  /\ InOrder(S) \in Seq(S)
         /\ Len(InOrder(S)) = Cardinality(S)
         /\ Members(InOrder(S)) = S
<1> DEFINE n == Cardinality(S)
           f == InOrder(S)
<1>1. n \in Nat
  BY FS_CardinalityType
<1>2. Ascending(f, S)
  BY ListingExists DEF InOrder, Ascending
<1> HIDE DEF n, f
<1>3. f \in [1..n -> S] /\ \A i, j \in 1..n : i < j => f[i] < f[j]
  BY <1>2 DEF Ascending, n
<1>4. f \in Seq(S) /\ Len(f) = n
  BY <1>1, <1>3, IsASeq
<1>5. f \in Injection(1..n, S)
  <2>1. ASSUME NEW i \in 1..n, NEW j \in 1..n, f[i] = f[j]
        PROVE  i = j
    <3>1. f[i] \in Nat
      BY <1>3
    <3>2. ~(i < j) /\ ~(j < i)
      BY <1>3, <2>1, <3>1
    <3> QED
      BY <1>1, <3>2
  <2> QED
    BY <1>3, <2>1 DEF Injection, IsInjective
<1>6. Cardinality(1..n) = n
  BY <1>1, FS_Interval
<1>7. f \in Surjection(1..n, S)
  BY <1>5, <1>6, FS_Injection DEF n
<1>8. Members(f) = S
  BY <1>3, <1>4, <1>7 DEF Surjection, Members
<1> QED
  BY <1>4, <1>8 DEF n, f

(* What is retained of a queue.                                            *)
LEMMA Retains ==
  ASSUME NEW S, NEW q \in Seq(S), NEW gone
  PROVE  /\ Retained(q, gone) \in Seq(S)
         /\ Members(Retained(q, gone)) = {h \in Members(q) : h.run \notin gone}
         /\ Len(Retained(q, gone)) <= Len(q)
<1> DEFINE K == {i \in 1..Len(q) : q[i].run \notin gone}
           kept == InOrder(K)
<1>1. Len(q) \in Nat
  BY LenProperties
<1>2. IsFiniteSet(1..Len(q)) /\ Cardinality(1..Len(q)) = Len(q)
  BY <1>1, FS_Interval
<1>3. K \in SUBSET Nat /\ IsFiniteSet(K) /\ Cardinality(K) <= Len(q)
  BY <1>1, <1>2, FS_Subset
<1>4. kept \in Seq(K) /\ Members(kept) = K /\ Len(kept) = Cardinality(K)
  BY <1>3, Lists
<1>5. Len(kept) \in Nat
  BY <1>4, LenProperties
<1> DEFINE R == [i \in 1..Len(kept) |-> q[kept[i]]]
<1>6. Retained(q, gone) = R
  BY DEF Retained
<1> HIDE DEF kept
<1>7. \A i \in 1..Len(kept) : kept[i] \in K /\ q[kept[i]] \in S
  BY <1>4
<1>8. R \in Seq(S) /\ Len(R) = Len(kept)
  BY <1>5, <1>7, IsASeq
<1>9. Members(R) = {h \in Members(q) : h.run \notin gone}
  <2>1. ASSUME NEW i \in 1..Len(R)
        PROVE  R[i] \in Members(q) /\ R[i].run \notin gone
    BY <1>7, <1>8 DEF Members
  <2>2. ASSUME NEW h \in Members(q), h.run \notin gone
        PROVE  h \in Members(R)
    <3>1. PICK i \in K : h = q[i]
      BY <2>2 DEF Members
    <3>2. PICK j \in 1..Len(kept) : i = kept[j]
      BY <1>4 DEF Members
    <3> QED
      BY <1>8, <3>1, <3>2 DEF Members
  <2> QED
    BY <2>1, <2>2 DEF Members
<1> QED
  BY <1>3, <1>4, <1>6, <1>8, <1>9

-----------------------------------------------------------------------------
(* The types. *)

Ats == {"none", "top", "pop", "select", "settle", "starting", "failing", "live", "expiring",
        "shell", "exited"}

Commands == Hints \cup {Retire(TRUE), Retire(FALSE), Shutdown}

SupType ==
    [at : Ats, next : Ats, hint : Hints \cup {NoHint}, active : 0..MaxRuns,
     out : {"none", "ended", "stopped", "panicked"}, token : BOOLEAN, queue : Seq(Hints),
     shells : Seq(Hints), rescan : BOOLEAN, wake : BOOLEAN,
     saw : {"none", "cancelled", "errored", "budget", "quiescent"}, retire : BOOLEAN,
     idle : {"no", "armed", "expired"}, stopping : BOOLEAN, kept : BOOLEAN]

Typed ==
    /\ sup \in SupType
    /\ chan \in Seq(Commands)
    /\ slot \in {"none", "active", "retiring"}
    /\ phase \in {"up", "down", "recovering", "handing"} \cup Drains
    /\ work \in Seq(Runs)
    /\ ready \in 0..MaxRuns
    /\ row \in [Runs -> {"none", "held", "removed", "consumed", "shell"}]
    /\ hand \subseteq Runs /\ busy \subseteq Runs /\ born \subseteq Runs

(* Nobody supervises the session.                                          *)
Gone ==
    /\ sup.at = "none" /\ sup.next = "none" /\ sup.out = "none" /\ sup.saw = "none"
    /\ Members(sup.queue) = {} /\ Members(sup.shells) = {} /\ ~sup.rescan
    /\ ~sup.stopping /\ ~sup.kept
    /\ Members(chan) = {}

(* Where the steps of the supervisor stand, and where they go when the     *)
(* session is settled.                                                     *)
Where ==
    /\ sup.next \in {"none", "top", "pop", "live", "exited"}
    /\ sup.active # 0 <=> \/ sup.at \in {"live", "expiring"}
                          \/ (sup.at = "settle" /\ sup.next = "live")
    /\ sup.next = "exited" => sup.at \in {"settle", "exited"}
    /\ sup.saw = "quiescent" => sup.at = "exited"
    /\ sup.at \in {"starting", "failing", "shell", "expiring"} => sup.hint \in Hints
    /\ sup.out # "none" => sup.active # 0
    /\ slot = "none" => Gone

(* Without a supervisor, and with a fresh one.                             *)
LEMMA FreshTypes ==
  /\ Fresh \in SupType /\ NoSup \in SupType
  /\ 0 \in 0..MaxRuns /\ <<>> \in Seq(Hints)
<1>1. 0 \in 0..MaxRuns
  BY TurnAssumption
<1>2. <<>> \in Seq(Hints)
  OBVIOUS
<1>3. Fresh \in SupType
  BY <1>1, <1>2 DEF Fresh, SupType, Ats
<1>4. NoSup \in SupType
  BY <1>1, <1>2 DEF Fresh, NoSup, SupType, Ats
<1> QED
  BY <1>1, <1>2, <1>3, <1>4

(* What a command is about, and who has sent it.                           *)
LEMMA CommandKinds ==
  /\ \A h \in Hints : h.run \in Runs /\ h.via \in {"started", "queued", "recovered", "shell"}
  /\ \A h \in Commands : h.via \in {"started", "queued", "recovered", "shell"} => h \in Hints
  /\ \A h \in Commands : h \notin Hints =>
        h.run = 0 /\ h.via \in {"retire", "retire_idle", "shutdown"}
  /\ \A r \in Runs : r # 0 /\ r \in Nat /\ r \in 0..MaxRuns
  /\ Shutdown \in Commands /\ Shutdown.via = "shutdown" /\ Shutdown.run = 0
  /\ \A b \in BOOLEAN : /\ Retire(b) \in Commands /\ Retire(b).via \in {"retire", "retire_idle"}
                        /\ Retire(b).run = 0
<1>1. \A r \in Runs : r # 0 /\ r \in Nat /\ r \in 0..MaxRuns
  BY TurnAssumption DEF Runs
<1>2. Shutdown.via = "shutdown" /\ Shutdown.run = 0 /\ Shutdown \in Commands
  BY DEF Shutdown, Commands
<1>3. ASSUME NEW b \in BOOLEAN
      PROVE  /\ Retire(b) \in Commands /\ Retire(b).via \in {"retire", "retire_idle"}
             /\ Retire(b).run = 0
  BY DEF Retire, Commands
<1>4. \A h \in Hints : h.run \in Runs /\ h.via \in {"started", "queued", "recovered", "shell"}
  BY DEF Hints
<1>5. ASSUME NEW h \in Commands, h \notin Hints
      PROVE  h.run = 0 /\ h.via \in {"retire", "retire_idle", "shutdown"}
  BY <1>2, <1>3, <1>5 DEF Commands
<1> QED
  BY <1>1, <1>2, <1>3, <1>4, <1>5

(* The hints that are made.                                                *)
LEMMA HintTypes ==
  ASSUME NEW r \in Runs
  PROVE  /\ \A v \in {"started", "queued", "recovered", "shell"} :
               /\ Hint(r, v) \in Hints /\ Hint(r, v) \in Commands
               /\ Hint(r, v).run = r /\ Hint(r, v).via = v
         /\ Via(r) \in {"started", "queued", "shell"}
         /\ Via(r) = "shell" <=> row[r] = "shell"
  BY DEF Hint, Hints, Via, Commands

(* The runs that are read again after an overflow.                         *)
LEMMA QueuedRunsAre ==
  /\ QueuedRuns \in Seq(Runs)
  /\ Members(QueuedRuns) = {r \in Runs : state[r] = "queued"}
<1> DEFINE Q == {r \in Runs : state[r] = "queued"}
<1>1. MaxRuns \in Nat
  BY TurnAssumption
<1>2. IsFiniteSet(Runs) /\ Runs \subseteq Nat
  BY <1>1, FS_Interval DEF Runs
<1>3. Q \in SUBSET Nat /\ IsFiniteSet(Q)
  BY <1>2, FS_Subset
<1>4. InOrder(Q) \in Seq(Q) /\ Members(InOrder(Q)) = Q
  BY <1>3, Lists
<1>5. InOrder(Q) \in Seq(Runs)
  BY <1>4, SeqMonotonic
<1> QED
  BY <1>4, <1>5 DEF QueuedRuns

(* The queue that is read again: of queued runs, and of all of them unless *)
(* there are too many.                                                     *)
LEMMA Refilled ==
  LET fits == Min({Capacity, Len(QueuedRuns)})
      q == [i \in 1..fits |-> Hint(QueuedRuns[i], "queued")]
  IN  /\ q \in Seq(Hints)
      /\ Len(q) <= Capacity
      /\ \A h \in Members(q) : state[h.run] = "queued" /\ h.via = "queued"
      /\ Len(QueuedRuns) <= Capacity =>
           \A r \in Runs : state[r] = "queued" => \E h \in Members(q) : h.run = r
      /\ (Len(QueuedRuns) > Capacity) \in BOOLEAN
      /\ Len(QueuedRuns) \in Nat
<1> DEFINE n == Len(QueuedRuns)
           fits == Min({Capacity, n})
           q == [i \in 1..fits |-> Hint(QueuedRuns[i], "queued")]
<1>1. /\ QueuedRuns \in Seq(Runs) /\ n \in Nat /\ Capacity \in Nat
      /\ Members(QueuedRuns) = {r \in Runs : state[r] = "queued"}
  BY QueuedRunsAre, TurnAssumption, LenProperties
<1>2. fits \in Nat /\ fits <= n /\ fits <= Capacity /\ (fits = n \/ fits = Capacity)
  <2>1. \E x \in {Capacity, n} : \A y \in {Capacity, n} : x <= y
    BY <1>1
  <2>2. fits \in {Capacity, n} /\ \A y \in {Capacity, n} : fits <= y
    BY <2>1 DEF Min
  <2> QED
    BY <1>1, <2>2
<1> HIDE DEF fits
<1>3. ASSUME NEW i \in 1..fits
      PROVE  /\ i \in 1..n /\ QueuedRuns[i] \in Runs /\ state[QueuedRuns[i]] = "queued"
             /\ Hint(QueuedRuns[i], "queued") \in Hints
             /\ Hint(QueuedRuns[i], "queued").run = QueuedRuns[i]
             /\ Hint(QueuedRuns[i], "queued").via = "queued"
  <2>1. i \in 1..n
    BY <1>1, <1>2
  <2>2. QueuedRuns[i] \in Members(QueuedRuns)
    BY <2>1 DEF Members
  <2> QED
    BY <1>1, <2>1, <2>2, HintTypes
<1>4. q \in Seq(Hints) /\ Len(q) = fits
  BY <1>2, <1>3, IsASeq
<1>5. ASSUME NEW h \in Members(q)
      PROVE  state[h.run] = "queued" /\ h.via = "queued"
  <2>1. PICK i \in 1..fits : h = q[i]
    BY <1>4, <1>5 DEF Members
  <2> QED
    BY <1>3, <2>1
<1>6. ASSUME n <= Capacity, NEW r \in Runs, state[r] = "queued"
      PROVE  \E h \in Members(q) : h.run = r
  <2>1. fits = n
    BY <1>1, <1>2, <1>6
  <2>2. PICK i \in 1..n : r = QueuedRuns[i]
    BY <1>1, <1>6 DEF Members
  <2>3. q[i] \in Members(q) /\ q[i].run = r
    BY <1>3, <1>4, <2>1, <2>2 DEF Members
  <2> QED
    BY <2>3
<1>7. q \in Seq(Hints) /\ Len(q) <= Capacity
  BY <1>2, <1>4
<1>8. (Len(QueuedRuns) > Capacity) \in BOOLEAN
  OBVIOUS
<1> HIDE DEF q
<1> QED
  BY <1>1, <1>5, <1>6, <1>7, <1>8 DEF fits, q

-----------------------------------------------------------------------------
(* What each step of the supervisor does to it. *)

(* What most steps leave alone.                                            *)
KeepsTurn == sup'.active = sup.active /\ sup'.out = sup.out
KeepsQueue == sup'.queue = sup.queue /\ sup'.shells = sup.shells /\ sup'.rescan = sup.rescan
KeepsEnd == sup'.stopping = sup.stopping /\ sup'.kept = sup.kept

(* The run is terminalized, with whatever end.                             *)
Terminates(r) == \E end \in Ends : state' = Terminalized(r, end)

(* What every step of the supervisor leaves alone.                         *)
LEMMA SupervisorFrame ==
  ASSUME Supervisor
  PROVE  UNCHANGED <<hand, busy, born, slot, sweep, lost, work>>
  BY DEF Supervisor, TakeCommand, RetireCheck, Exit, TakeDeferredShell, Refill, Pop, Wait,
         IdleFires, Settle, Start, StartFails, FailStart, Outcome, ExpireQueued, TakeSubmit,
         TakeShell, TakeRetire, TakeShutdown, TakeWake, ShellEnds, ShellEnd, ShellWake, others,
         manager, startup, ledger

(* The loop looks for a reason to end.                                     *)
LEMMA RetireCheckDoes ==
  ASSUME sup \in SupType, RetireCheck
  PROVE  /\ sup' \in SupType /\ KeepsTurn /\ KeepsQueue /\ KeepsEnd
         /\ sup.at = "top" /\ sup'.next = sup.next /\ sup'.hint = sup.hint
         /\ \/ sup'.at = "exited" /\ sup'.saw = "quiescent" /\ Quiet
            \/ sup'.at = "top" /\ sup'.saw = sup.saw
         /\ UNCHANGED <<state, row, phase, chan, ready>>
<1>1. UNCHANGED <<state, row, phase, chan, ready>> /\ sup.at = "top"
  BY DEF RetireCheck, durable, others, startup
<1>2. \/ sup' = [sup EXCEPT !.at = "exited", !.saw = "quiescent"] /\ Quiet
      \/ sup' = [sup EXCEPT !.retire = FALSE, !.idle = "no"]
  BY DEF RetireCheck
<1> QED
  BY <1>1, <1>2 DEF SupType, Ats, KeepsTurn, KeepsQueue, KeepsEnd

(* It stops, once it was told to.                                          *)
LEMMA ExitDoes ==
  ASSUME sup \in SupType, Exit
  PROVE  /\ sup' \in SupType /\ KeepsTurn /\ KeepsQueue /\ KeepsEnd
         /\ sup.at = "top" /\ sup'.next = sup.next /\ sup'.hint = sup.hint
         /\ sup'.at = "exited" /\ sup'.saw = sup.saw /\ sup.stopping
         /\ UNCHANGED <<state, row, phase, chan, ready>>
<1>1. UNCHANGED <<state, row, phase, chan, ready>> /\ sup.at = "top" /\ sup.stopping
  BY DEF Exit, durable, others, startup
<1>2. sup' = [sup EXCEPT !.at = "exited"]
  BY DEF Exit
<1> QED
  BY <1>1, <1>2 DEF SupType, Ats, KeepsTurn, KeepsQueue, KeepsEnd

(* A shell command that waited for the turn to be reaped is taken up.      *)
LEMMA TakeDeferredShellDoes ==
  ASSUME sup \in SupType, TakeDeferredShell
  PROVE  /\ sup' \in SupType /\ KeepsTurn /\ KeepsEnd
         /\ sup.at = "top" /\ sup'.next = sup.next /\ sup'.saw = sup.saw
         /\ sup'.at = "shell"
         /\ sup'.queue = sup.queue /\ sup'.rescan = sup.rescan
         /\ sup'.hint \in Members(sup.shells)
         /\ Members(sup.shells) = Members(sup'.shells) \cup {sup'.hint}
         /\ UNCHANGED <<state, row, phase, chan, ready>>
<1>1. /\ UNCHANGED <<state, row, phase, chan, ready>> /\ sup.at = "top"
      /\ sup.shells # <<>>
      /\ sup' = [sup EXCEPT !.at = "shell", !.hint = Head(sup.shells), !.shells = Tail(sup.shells)]
  BY DEF TakeDeferredShell, durable, others, startup
<1>2. sup.shells \in Seq(Hints)
  BY DEF SupType
<1>3. /\ Head(sup.shells) \in Hints /\ Tail(sup.shells) \in Seq(Hints)
      /\ Head(sup.shells) \in Members(sup.shells)
      /\ Members(sup.shells) = Members(Tail(sup.shells)) \cup {Head(sup.shells)}
  BY <1>1, <1>2, SeqTail
<1> QED
  BY <1>1, <1>3 DEF SupType, Ats, KeepsTurn, KeepsEnd

(* The queue is refilled from the journal: unless some did not fit, every  *)
(* queued run is in it.                                                    *)
LEMMA RefillDoes ==
  ASSUME sup \in SupType, Refill
  PROVE  /\ sup' \in SupType /\ KeepsTurn /\ KeepsEnd
         /\ sup.at = "top" /\ sup'.next = sup.next /\ sup'.saw = sup.saw
         /\ sup'.at = "pop" /\ sup'.hint = sup.hint /\ sup'.shells = sup.shells
         /\ \/ sup'.queue = sup.queue /\ sup'.rescan = sup.rescan
            \/ /\ Members(sup.queue) = {}
               /\ \A h \in Members(sup'.queue) : state[h.run] = "queued" /\ h.via = "queued"
               /\ ~sup'.rescan => \A r \in Runs : state[r] = "queued" =>
                                     \E h \in Members(sup'.queue) : h.run = r
         /\ UNCHANGED <<state, row, phase, chan, ready>>
<1>1. UNCHANGED <<state, row, phase, chan, ready>> /\ sup.at = "top"
  BY DEF Refill, durable, others, startup
<1>2. CASE sup' = [sup EXCEPT !.at = "pop"]
  BY <1>1, <1>2 DEF SupType, Ats, KeepsTurn, KeepsEnd
<1>3. CASE sup' # [sup EXCEPT !.at = "pop"]
  <2> DEFINE fits == Min({Capacity, Len(QueuedRuns)})
             q == [i \in 1..fits |-> Hint(QueuedRuns[i], "queued")]
             b == Len(QueuedRuns) > Capacity
  <2>1. sup' = [sup EXCEPT !.at = "pop", !.queue = q, !.rescan = b] /\ sup.queue = <<>>
    BY <1>3 DEF Refill
  <2>2. /\ q \in Seq(Hints) /\ b \in BOOLEAN
        /\ \A h \in Members(q) : state[h.run] = "queued" /\ h.via = "queued"
        /\ Len(QueuedRuns) <= Capacity =>
             \A r \in Runs : state[r] = "queued" => \E h \in Members(q) : h.run = r
        /\ Len(QueuedRuns) \in Nat
    BY Refilled
  <2>4. ~b => Len(QueuedRuns) <= Capacity
    BY <2>2, TurnAssumption
  <2>3. Members(sup.queue) = {}
    BY <2>1 DEF Members
  <2> HIDE DEF fits, q, b
  <2>5. /\ sup' \in SupType /\ KeepsTurn /\ KeepsEnd
        /\ sup'.next = sup.next /\ sup'.saw = sup.saw
        /\ sup'.at = "pop" /\ sup'.hint = sup.hint /\ sup'.shells = sup.shells
        /\ sup'.queue = q /\ sup'.rescan = b
    BY <2>1, <2>2 DEF SupType, Ats, KeepsTurn, KeepsEnd
  <2> QED
    BY <1>1, <2>2, <2>3, <2>4, <2>5
<1> QED
  BY <1>2, <1>3

(* The head of the queue is to be started, or its hint is dropped: then it *)
(* has no row that waits.                                                  *)
LEMMA PopDoes ==
  ASSUME sup \in SupType, row \in [Runs -> {"none", "held", "removed", "consumed", "shell"}], Pop
  PROVE  /\ sup' \in SupType /\ KeepsTurn /\ KeepsEnd
         /\ sup.at = "pop" /\ sup'.next = sup.next /\ sup'.saw = sup.saw
         /\ sup'.shells = sup.shells /\ sup'.rescan = sup.rescan
         /\ sup'.hint \in Hints
         /\ Members(sup.queue) = Members(sup'.queue) \cup {sup'.hint}
         /\ \/ sup'.at = "starting"
            \/ /\ sup'.at = "pop" /\ sup'.hint.via = "queued"
               /\ ~Held(sup'.hint.run) /\ row[sup'.hint.run] # "consumed"
         /\ row' \in [Runs -> {"none", "held", "removed", "consumed", "shell"}]
         /\ \A r \in Runs : row'[r] = row[r] \/ (Held(r) /\ row'[r] = "consumed")
         /\ ~ShellOwns
         /\ UNCHANGED <<state, phase, chan, ready>>
<1> DEFINE h == Head(sup.queue)
           at == IF h.via # "queued" \/ Held(h.run) \/ row[h.run] = "consumed"
                 THEN "starting" ELSE "pop"
<1>1. /\ sup.at = "pop" /\ ~ShellOwns /\ sup.queue # <<>>
      /\ sup' = [sup EXCEPT !.queue = Tail(sup.queue), !.hint = h, !.at = at]
      /\ row' = IF h.via = "queued" /\ Held(h.run) THEN [row EXCEPT ![h.run] = "consumed"] ELSE row
      /\ UNCHANGED <<state, phase, chan, ready>>
  BY DEF Pop, others, startup
<1>2. sup.queue \in Seq(Hints)
  BY DEF SupType
<1>3. /\ h \in Hints /\ Tail(sup.queue) \in Seq(Hints)
      /\ Members(sup.queue) = Members(Tail(sup.queue)) \cup {h}
  BY <1>1, <1>2, SeqTail
<1>4. at \in {"starting", "pop"}
  OBVIOUS
<1>5. at = "pop" => h.via = "queued" /\ ~Held(h.run) /\ row[h.run] # "consumed"
  OBVIOUS
<1>6. h.run \in Runs
  BY <1>3, CommandKinds
<1>7. /\ row' \in [Runs -> {"none", "held", "removed", "consumed", "shell"}]
      /\ \A r \in Runs : row'[r] = row[r] \/ (Held(r) /\ row'[r] = "consumed")
  BY <1>1, <1>6
<1> HIDE DEF h, at
<1>8. /\ sup' \in SupType /\ KeepsTurn /\ KeepsEnd
      /\ sup'.next = sup.next /\ sup'.saw = sup.saw
      /\ sup'.shells = sup.shells /\ sup'.rescan = sup.rescan
      /\ sup'.hint = h /\ sup'.queue = Tail(sup.queue) /\ sup'.at = at
  BY <1>1, <1>3, <1>4 DEF SupType, Ats, KeepsTurn, KeepsEnd
<1> QED
  BY <1>1, <1>3, <1>4, <1>5, <1>7, <1>8

(* The loop waits, and its idle deadline fires.                            *)
LEMMA WaitDoes ==
  ASSUME sup \in SupType, Wait \/ IdleFires
  PROVE  /\ sup' \in SupType /\ KeepsTurn /\ KeepsQueue /\ KeepsEnd
         /\ sup.at \in {"pop", "select"} /\ sup'.next = sup.next /\ sup'.hint = sup.hint
         /\ sup'.at \in {"select", "top"} /\ sup'.saw = sup.saw
         /\ UNCHANGED <<state, row, phase, chan, ready>>
<1>1. UNCHANGED <<state, row, phase, chan, ready>> /\ sup.at \in {"pop", "select"}
  BY DEF Wait, IdleFires, durable, others, startup
<1>2. PICK a \in {"select", "top"}, i \in {"no", "armed", "expired"} :
         sup' = [sup EXCEPT !.at = a, !.idle = i]
  <2>1. sup.idle \in {"no", "armed", "expired"}
    BY DEF SupType
  <2>2. CASE Wait
    <3> DEFINE j == IF sup.idle = "no" /\ sup.queue = <<>> /\ ~sup.rescan /\ Quiet THEN "armed"
                    ELSE sup.idle
    <3>1. sup' = [sup EXCEPT !.at = "select", !.idle = j]
      BY <2>2 DEF Wait
    <3>2. j \in {"no", "armed", "expired"}
      BY <2>1
    <3> HIDE DEF j
    <3> QED
      BY <3>1, <3>2
  <2>3. CASE IdleFires
    BY <2>3 DEF IdleFires
  <2> QED
    BY <2>2, <2>3
<1> QED
  BY <1>1, <1>2 DEF SupType, Ats, KeepsTurn, KeepsQueue, KeepsEnd

(* The session is settled and the loop goes where it was to go.            *)
LEMMA SettleDoes ==
  ASSUME sup \in SupType, Settle
  PROVE  /\ sup' \in SupType /\ KeepsTurn /\ KeepsQueue /\ KeepsEnd
         /\ sup.at = "settle" /\ sup'.next = sup.next /\ sup'.hint = sup.hint
         /\ sup'.at = sup.next /\ sup'.saw = sup.saw
         /\ UNCHANGED <<state, row, phase, chan, ready>>
<1>1. UNCHANGED <<state, row, phase, chan, ready>> /\ sup.at = "settle"
  BY DEF Settle, others, startup
<1>2. sup' = [sup EXCEPT !.at = sup.next]
  BY DEF Settle
<1> QED
  BY <1>1, <1>2 DEF SupType, KeepsTurn, KeepsQueue, KeepsEnd

(* A turn is started, and startup told.                                    *)
LEMMA StartDoes ==
  ASSUME sup \in SupType, sup.hint \in Hints, Start
  PROVE  /\ sup' \in SupType /\ KeepsQueue /\ KeepsEnd
         /\ sup.at = "starting" /\ sup'.next = sup.next /\ sup'.hint = sup.hint
         /\ sup'.at = "live" /\ sup'.saw = sup.saw
         /\ sup'.active = sup.hint.run /\ sup'.out = "none"
         /\ ready' = IF sup.hint.run = ready THEN 0 ELSE ready
         /\ UNCHANGED <<state, row, phase, chan>>
<1>1. UNCHANGED <<state, row, phase, chan>> /\ sup.at = "starting" /\ ready' = Answered(sup.hint)
  BY DEF Start, durable, others
<1>2. sup' = [sup EXCEPT !.at = "live", !.active = sup.hint.run, !.out = "none", !.token = FALSE]
  BY DEF Start
<1>3. sup.hint.run \in 0..MaxRuns
  BY CommandKinds
<1> QED
  BY <1>1, <1>2, <1>3 DEF SupType, Ats, KeepsQueue, KeepsEnd, Answered

(* A start fails for a reason.                                             *)
LEMMA StartFailsDoes ==
  ASSUME sup \in SupType, StartFails
  PROVE  /\ sup' \in SupType /\ KeepsTurn /\ KeepsQueue /\ KeepsEnd
         /\ sup.at = "starting" /\ sup'.next = sup.next /\ sup'.hint = sup.hint
         /\ sup'.at = "failing" /\ sup'.saw \in {"cancelled", "errored", "budget"}
         /\ UNCHANGED <<state, row, phase, chan, ready>>
<1>1. UNCHANGED <<state, row, phase, chan, ready>> /\ sup.at = "starting"
  BY DEF StartFails, startup
<1>2. PICK s \in {"cancelled", "errored", "budget"} :
         sup' = [sup EXCEPT !.at = "failing", !.saw = s]
  BY DEF StartFails
<1>3. sup' \in SupType
  BY <1>2 DEF SupType, Ats
<1>4. KeepsTurn /\ KeepsQueue /\ KeepsEnd
  BY <1>2 DEF SupType, KeepsTurn, KeepsQueue, KeepsEnd
<1>5. sup'.next = sup.next /\ sup'.hint = sup.hint /\ sup'.at = "failing" /\ sup'.saw = s
  BY <1>2 DEF SupType
<1> QED
  BY <1>1, <1>3, <1>4, <1>5

(* The run of a failed start is over, and startup told.                    *)
LEMMA FailStartDoes ==
  ASSUME sup \in SupType, SupOK, FailStart
  PROVE  /\ sup' \in SupType /\ KeepsTurn /\ KeepsQueue /\ KeepsEnd
         /\ sup.at = "failing" /\ sup'.next = "pop" /\ sup'.hint = sup.hint
         /\ sup'.at = "settle" /\ sup'.saw = "none"
         /\ Terminates(sup.hint.run)
         /\ ready' = IF sup.hint.run = ready THEN 0 ELSE ready
         /\ UNCHANGED <<row, phase, chan>>
<1>1. UNCHANGED <<row, phase, chan>> /\ sup.at = "failing" /\ ready' = Answered(sup.hint)
  BY DEF FailStart, others
<1>3. Terminates(sup.hint.run)
  <2>1. sup.saw \in Ends /\ "errored" \in Ends
    BY <1>1 DEF SupOK, Ends, Ended
  <2> QED
    BY <2>1, ClosingEnds DEF FailStart, Terminates
<1>2. sup' = [sup EXCEPT !.at = "settle", !.next = "pop", !.saw = "none"]
  BY DEF FailStart
<1> QED
  BY <1>1, <1>2, <1>3 DEF SupType, Ats, KeepsTurn, KeepsQueue, KeepsEnd, Answered

(* The turn at work is reaped.                                             *)
LEMMA OutcomeDoes ==
  ASSUME sup \in SupType, Outcome
  PROVE  /\ sup' \in SupType /\ KeepsQueue /\ KeepsEnd
         /\ sup.at = "live" /\ sup.out # "none" /\ sup'.hint = sup.hint
         /\ sup'.saw = sup.saw
         /\ \/ sup'.at = "settle" /\ sup'.next \in {"exited", "top"}
            \/ sup'.at = "top" /\ sup'.next = "top"
         /\ sup'.active = 0 /\ sup'.out = "none"
         /\ \/ sup.out = "ended" /\ state[sup.active] # "cancelling" /\ state' = state
            \/ Terminates(sup.active)
         /\ UNCHANGED <<row, phase, chan, ready>>
<1>1. /\ UNCHANGED <<row, phase, chan, ready>> /\ sup.at = "live" /\ sup.out # "none"
      /\ \/ sup.out = "ended" /\ state[sup.active] # "cancelling" /\ state' = state
         \/ Terminates(sup.active)
  <2>1. "errored" \in Ends /\ "cancelled" \in Ends
    BY DEF Ends, Ended
  <2> QED
    BY <2>1, ClosingEnds DEF Outcome, others, startup, Terminates
<1>2. PICK a \in {"settle", "top"}, n \in {"exited", "top"} :
        /\ sup' = [sup EXCEPT !.at = a, !.active = 0, !.out = "none", !.token = FALSE, !.next = n]
        /\ a = "top" => n = "top"
  BY DEF Outcome
<1>3. 0 \in 0..MaxRuns
  BY FreshTypes
<1>4. sup' \in SupType
  <2>1. n \in Ats /\ a \in Ats
    BY DEF Ats
  <2> QED
    BY <1>2, <1>3, <2>1 DEF SupType
<1>5. /\ KeepsQueue /\ KeepsEnd /\ sup'.hint = sup.hint
      /\ sup'.at = a /\ sup'.saw = sup.saw /\ sup'.next = n
      /\ sup'.active = 0 /\ sup'.out = "none"
  BY <1>2 DEF SupType, KeepsQueue, KeepsEnd
<1> QED
  BY <1>1, <1>2, <1>4, <1>5

(* A queued run whose budget is over leaves the queue and ends.            *)
LEMMA ExpireQueuedDoes ==
  ASSUME sup \in SupType, row \in [Runs -> {"none", "held", "removed", "consumed", "shell"}],
         sup.hint \in Hints, ExpireQueued
  PROVE  /\ sup' \in SupType /\ KeepsTurn /\ KeepsEnd
         /\ sup.at = "expiring" /\ sup'.next = sup.next /\ sup'.saw = sup.saw
         /\ sup'.at = "live" /\ sup'.hint = sup.hint
         /\ sup'.shells = sup.shells /\ sup'.rescan = sup.rescan
         /\ Members(sup'.queue) = {h \in Members(sup.queue) : h.run # sup.hint.run}
         /\ sup.hint.run \in Runs /\ Terminates(sup.hint.run)
         /\ row' \in [Runs -> {"none", "held", "removed", "consumed", "shell"}]
         /\ \A r \in Runs : row'[r] = row[r] \/ (Held(r) /\ row'[r] = "consumed")
         /\ UNCHANGED <<phase, chan, ready>>
<1> DEFINE h == sup.hint
           q == Retained(sup.queue, {h.run})
<1>1. /\ sup.at = "expiring"
      /\ sup' = [sup EXCEPT !.at = "live", !.queue = q]
      /\ row' = IF Held(h.run) THEN [row EXCEPT ![h.run] = "consumed"] ELSE row
      /\ state' = Terminalized(h.run, "budget")
      /\ UNCHANGED <<phase, chan, ready>>
  BY DEF ExpireQueued, others, startup
<1>2. sup.queue \in Seq(Hints)
  BY DEF SupType
<1>3. /\ q \in Seq(Hints)
      /\ Members(q) = {g \in Members(sup.queue) : g.run # h.run}
  BY <1>2, Retains
<1>4. h.run \in Runs
  BY CommandKinds
<1>5. Terminates(h.run)
  BY <1>1 DEF Terminates, Ends
<1>6. /\ row' \in [Runs -> {"none", "held", "removed", "consumed", "shell"}]
      /\ \A r \in Runs : row'[r] = row[r] \/ (Held(r) /\ row'[r] = "consumed")
  BY <1>1, <1>4
<1> HIDE DEF q
<1>7. /\ sup' \in SupType /\ KeepsTurn /\ KeepsEnd /\ sup'.queue = q
      /\ sup'.next = sup.next /\ sup'.saw = sup.saw /\ sup'.at = "live" /\ sup'.hint = sup.hint
      /\ sup'.shells = sup.shells /\ sup'.rescan = sup.rescan
  BY <1>1, <1>3 DEF SupType, Ats, KeepsTurn, KeepsEnd
<1> QED
  BY <1>1, <1>3, <1>4, <1>5, <1>6, <1>7

(* A shell command ends, or looks at its own run.                          *)
LEMMA ShellDoes ==
  ASSUME sup \in SupType, ShellEnds \/ ShellWake
  PROVE  /\ sup' \in SupType /\ KeepsTurn /\ KeepsQueue /\ KeepsEnd
         /\ sup.at = "shell" /\ sup'.hint = sup.hint /\ sup'.saw = sup.saw
         /\ \/ sup'.at = "settle" /\ sup'.next = "top"
               /\ Terminates(sup.hint.run)
            \/ sup'.at = "shell" /\ sup'.next = sup.next /\ state' = state
         /\ UNCHANGED <<row, phase, chan, ready>>
<1>1. CASE ShellEnds
  <2>1. /\ sup.at = "shell" /\ UNCHANGED <<row, phase, chan, ready>>
        /\ sup' = [sup EXCEPT !.at = "settle", !.next = "top"]
        /\ Terminates(sup.hint.run)
    BY <1>1 DEF ShellEnds, ShellEnd, Terminates, Ends, Ended, others, startup
  <2> QED
    BY <2>1 DEF SupType, Ats, KeepsTurn, KeepsQueue, KeepsEnd
<1>2. CASE ShellWake
  <2>1. /\ sup.at = "shell" /\ UNCHANGED <<row, phase, chan, ready, state>>
        /\ sup' = [sup EXCEPT !.wake = FALSE]
    BY <1>2 DEF ShellWake, durable, others, startup
  <2> QED
    BY <2>1 DEF SupType, Ats, KeepsTurn, KeepsQueue, KeepsEnd
<1> QED
  BY <1>1, <1>2

(* A command that is taken off the channel.                                *)
LEMMA TakesHead ==
  ASSUME chan \in Seq(Commands), chan # <<>>
  PROVE  /\ Head(chan) \in Commands /\ Head(chan) \in Members(chan)
         /\ Tail(chan) \in Seq(Commands)
         /\ Members(chan) = Members(Tail(chan)) \cup {Head(chan)}
  BY SeqTail

(* What an admission does, by the kind of hint and the state of its run.   *)
AdmitQueues(h) ==
    /\ Checkpoint(h) \/ (state[h.run] = "queued" /\ ~Known(h.run))
    /\ Members(sup'.queue) = Members(sup.queue) \cup {h}
    /\ sup'.rescan = sup.rescan /\ sup'.at = Again /\ sup'.next = sup.next
    /\ ready' = (IF Checkpoint(h) THEN ready ELSE Answered(h)) /\ state' = state /\ phase' = phase

AdmitOverflows(h) ==
    /\ state[h.run] = "queued" /\ ~Known(h.run)
    /\ sup'.queue = sup.queue
    /\ \/ /\ h.via = "recovered" /\ Terminates(h.run)
          /\ sup'.at = "settle" /\ sup'.next = Again /\ sup'.rescan = sup.rescan
       \/ /\ h.via # "recovered" /\ state' = state
          /\ sup'.at = Again /\ sup'.next = sup.next /\ sup'.rescan
    /\ ready' = Answered(h) /\ phase' = phase

AdmitFails(h) ==
    /\ Checkpoint(h) /\ phase' = "draining" /\ state' = state /\ ready' = ready
    /\ sup'.queue = sup.queue /\ sup'.rescan = sup.rescan
    /\ sup'.at = Again /\ sup'.next = sup.next

AdmitDrops(h) ==
    /\ ~Checkpoint(h) /\ phase' = phase /\ ready' = Answered(h)
    /\ sup'.queue = sup.queue /\ sup'.rescan = sup.rescan
    /\ \/ /\ state[h.run] = "cancelling" /\ Terminates(h.run)
          /\ sup'.at = "settle" /\ sup'.next = Again
       \/ /\ state[h.run] # "cancelling" /\ state' = state
          /\ state[h.run] = "queued" => Known(h.run)
          /\ sup'.at = Again /\ sup'.next = sup.next

(* A hint is taken from the channel: one of the four fates.                *)
LEMMA TakeSubmitDoes ==
  ASSUME sup \in SupType, chan \in Seq(Commands), TakeSubmit
  PROVE  /\ sup' \in SupType /\ KeepsTurn /\ KeepsEnd
         /\ sup.at \in {"select", "live"} /\ sup'.hint = sup.hint /\ sup'.saw = sup.saw
         /\ sup'.shells = sup.shells
         /\ chan # <<>> /\ chan' = Tail(chan) /\ row' = row
         /\ Head(chan) \in Hints /\ Head(chan).via # "shell"
         /\ \/ AdmitQueues(Head(chan)) \/ AdmitOverflows(Head(chan)) \/ AdmitFails(Head(chan))
            \/ AdmitDrops(Head(chan))
<1> DEFINE h == Head(chan)
           room == Len(sup.queue) < Capacity
           w == [Active(sup) EXCEPT !.at = Again]
           z == [Active(sup) EXCEPT !.at = "settle", !.next = Again]
<1>1. /\ sup.at \in {"select", "live"} /\ chan # <<>> /\ chan' = Tail(chan) /\ row' = row
      /\ h.via \in {"started", "queued", "recovered"} /\ Admit(h)
      /\ phase' = IF Checkpoint(h) /\ Len(sup.queue) >= Capacity THEN "draining" ELSE phase
  BY DEF TakeSubmit, Listening
<1>2. h \in Commands
  BY <1>1, TakesHead
<1>3. h \in Hints /\ h.via # "shell"
  BY <1>1, <1>2, CommandKinds
<1>4. Again \in {"top", "live"}
  BY DEF Again
<1>5. sup.queue \in Seq(Hints) /\ Len(sup.queue) \in Nat /\ Capacity \in Nat
  BY TurnAssumption, LenProperties DEF SupType
<1>6. phase' = IF Checkpoint(h) /\ ~room THEN "draining" ELSE phase
  BY <1>1, <1>5
<1>7. /\ Append(sup.queue, h) \in Seq(Hints)
      /\ Members(Append(sup.queue, h)) = Members(sup.queue) \cup {h}
  BY <1>3, <1>5, SeqAppend
<1> DEFINE v == Active(sup)
<1>16. /\ v \in SupType /\ v.at = sup.at /\ v.next = sup.next
       /\ v.active = sup.active /\ v.out = sup.out /\ v.stopping = sup.stopping /\ v.kept = sup.kept
       /\ v.hint = sup.hint /\ v.saw = sup.saw /\ v.shells = sup.shells /\ v.queue = sup.queue
       /\ v.rescan = sup.rescan
  BY DEF Active, SupType
<1>17. Again \in Ats /\ "settle" \in Ats
  BY <1>4 DEF Ats
<1>8. /\ w \in SupType /\ w.at = Again /\ w.next = sup.next
      /\ w.active = sup.active /\ w.out = sup.out /\ w.stopping = sup.stopping /\ w.kept = sup.kept
      /\ w.hint = sup.hint /\ w.saw = sup.saw /\ w.shells = sup.shells /\ w.queue = sup.queue
      /\ w.rescan = sup.rescan
  <2> HIDE DEF v
  <2>1. w = [v EXCEPT !.at = Again]
    BY DEF v
  <2> HIDE DEF w
  <2> QED
    BY <1>16, <1>17, <2>1 DEF SupType
<1>9. /\ z \in SupType /\ z.at = "settle" /\ z.next = Again
      /\ z.active = sup.active /\ z.out = sup.out /\ z.stopping = sup.stopping /\ z.kept = sup.kept
      /\ z.hint = sup.hint /\ z.saw = sup.saw /\ z.shells = sup.shells /\ z.queue = sup.queue
      /\ z.rescan = sup.rescan
  <2> HIDE DEF v
  <2>1. z = [v EXCEPT !.at = "settle", !.next = Again]
    BY DEF v
  <2> HIDE DEF z
  <2> QED
    BY <1>16, <1>17, <2>1 DEF SupType
<1>10. \/ /\ Checkpoint(h) \/ (state[h.run] = "queued" /\ ~Known(h.run))
          /\ room /\ sup' = [w EXCEPT !.queue = Append(w.queue, h)]
          /\ ready' = (IF Checkpoint(h) THEN ready ELSE Answered(h)) /\ state' = state
       \/ /\ state[h.run] = "queued" /\ ~Known(h.run)
          /\ \/ h.via = "recovered" /\ Terminates(h.run) /\ sup' = z
             \/ h.via # "recovered" /\ state' = state /\ sup' = [w EXCEPT !.rescan = TRUE]
          /\ ready' = Answered(h)
       \/ Checkpoint(h) /\ ~room /\ sup' = w /\ state' = state /\ ready' = ready
       \/ /\ ~Checkpoint(h) /\ ready' = Answered(h)
          /\ \/ state[h.run] = "cancelling" /\ Terminates(h.run) /\ sup' = z
             \/ /\ state[h.run] # "cancelling" /\ state' = state /\ sup' = w
                /\ state[h.run] = "queued" => Known(h.run)
  <2>1. "errored" \in Ends /\ "cancelled" \in Ends
    BY DEF Ends, Ended
  <2>2. \A e \in {"errored", "cancelled"} :
           state' = Terminalized(h.run, Closing(h.run, e)) => Terminates(h.run)
    BY <2>1, ClosingEnds DEF Terminates
  <2> QED
    BY <1>1, <2>2 DEF Admit, Overflowed
<1>11. state[h.run] = "queued" => ~Checkpoint(h)
  BY DEF Checkpoint
<1> HIDE DEF w, z, room
<1>12. CASE /\ Checkpoint(h) \/ (state[h.run] = "queued" /\ ~Known(h.run))
            /\ room /\ sup' = [w EXCEPT !.queue = Append(w.queue, h)]
            /\ ready' = (IF Checkpoint(h) THEN ready ELSE Answered(h)) /\ state' = state
  <2>1. /\ sup' \in SupType /\ sup'.queue = Append(sup.queue, h)
        /\ sup'.at = Again /\ sup'.next = sup.next
        /\ sup'.active = sup.active /\ sup'.out = sup.out /\ sup'.stopping = sup.stopping
        /\ sup'.kept = sup.kept /\ sup'.hint = sup.hint /\ sup'.saw = sup.saw
        /\ sup'.shells = sup.shells /\ sup'.rescan = sup.rescan
    BY <1>7, <1>8, <1>12 DEF SupType
  <2>2. AdmitQueues(h)
    BY <1>6, <1>7, <1>12, <2>1 DEF AdmitQueues
  <2> QED
    BY <1>1, <1>3, <2>1, <2>2 DEF KeepsTurn, KeepsEnd
<1>13. CASE /\ state[h.run] = "queued" /\ ~Known(h.run)
            /\ \/ h.via = "recovered" /\ Terminates(h.run) /\ sup' = z
               \/ h.via # "recovered" /\ state' = state /\ sup' = [w EXCEPT !.rescan = TRUE]
            /\ ready' = Answered(h)
  <2>1. CASE h.via = "recovered" /\ Terminates(h.run) /\ sup' = z
    BY <1>1, <1>3, <1>6, <1>9, <1>8, <1>11, <1>13, <2>1 DEF AdmitOverflows, KeepsTurn, KeepsEnd
  <2>2. CASE h.via # "recovered" /\ state' = state /\ sup' = [w EXCEPT !.rescan = TRUE]
    <3>1. /\ sup' \in SupType /\ sup'.queue = sup.queue /\ sup'.rescan
          /\ sup'.at = Again /\ sup'.next = sup.next
          /\ sup'.active = sup.active /\ sup'.out = sup.out /\ sup'.stopping = sup.stopping
          /\ sup'.kept = sup.kept /\ sup'.hint = sup.hint /\ sup'.saw = sup.saw
          /\ sup'.shells = sup.shells
      BY <1>8, <2>2 DEF SupType
    <3>2. AdmitOverflows(h)
      BY <1>6, <1>11, <1>13, <2>2, <3>1 DEF AdmitOverflows
    <3> QED
      BY <1>1, <1>3, <3>1, <3>2 DEF KeepsTurn, KeepsEnd
  <2> QED
    BY <1>13, <2>1, <2>2
<1>14. CASE Checkpoint(h) /\ ~room /\ sup' = w /\ state' = state /\ ready' = ready
  BY <1>1, <1>3, <1>6, <1>8, <1>14 DEF AdmitFails, KeepsTurn, KeepsEnd
<1>15. CASE /\ ~Checkpoint(h) /\ ready' = Answered(h)
            /\ \/ state[h.run] = "cancelling" /\ Terminates(h.run) /\ sup' = z
               \/ /\ state[h.run] # "cancelling" /\ state' = state /\ sup' = w
                  /\ state[h.run] = "queued" => Known(h.run)
  <2>1. AdmitDrops(h)
    BY <1>6, <1>8, <1>9, <1>15 DEF AdmitDrops
  <2>2. sup' = z \/ sup' = w
    BY <1>15
  <2> QED
    BY <1>1, <1>3, <1>8, <1>9, <2>1, <2>2 DEF KeepsTurn, KeepsEnd
<1> QED
  BY <1>10, <1>12, <1>13, <1>14, <1>15

(* A shell command is taken from the channel: at once, or for later.       *)
LEMMA TakeShellDoes ==
  ASSUME sup \in SupType, chan \in Seq(Commands), TakeShell
  PROVE  /\ sup' \in SupType /\ KeepsTurn /\ KeepsEnd
         /\ sup.at \in {"select", "live"} /\ sup'.next = sup.next /\ sup'.saw = sup.saw
         /\ sup'.queue = sup.queue /\ sup'.rescan = sup.rescan
         /\ chan # <<>> /\ chan' = Tail(chan)
         /\ Head(chan) \in Hints /\ Head(chan).via = "shell"
         /\ \/ /\ sup.active = 0 /\ sup'.at = "shell" /\ sup'.hint = Head(chan)
               /\ sup'.shells = sup.shells
            \/ /\ sup.active # 0 /\ sup'.at = sup.at /\ sup'.hint = sup.hint
               /\ Members(sup'.shells) = Members(sup.shells) \cup {Head(chan)}
         /\ UNCHANGED <<state, row, phase, ready>>
<1> DEFINE h == Head(chan)
<1>1. /\ sup.at \in {"select", "live"} /\ chan # <<>> /\ chan' = Tail(chan) /\ h.via = "shell"
      /\ UNCHANGED <<state, row, phase, ready>>
  BY DEF TakeShell, Listening, durable, others, startup
<1>2. h \in Commands
  BY <1>1, TakesHead
<1>3. h \in Hints
  BY <1>1, <1>2, CommandKinds
<1>4. sup.shells \in Seq(Hints)
  BY DEF SupType
<1>5. /\ Append(sup.shells, h) \in Seq(Hints)
      /\ Members(Append(sup.shells, h)) = Members(sup.shells) \cup {h}
  BY <1>3, <1>4, SeqAppend
<1>6. \/ sup.active = 0 /\ sup' = [sup EXCEPT !.idle = "no", !.at = "shell", !.hint = h]
      \/ sup.active # 0 /\ h \in Members(sup.shells) /\ sup' = [sup EXCEPT !.idle = "no"]
      \/ sup.active # 0 /\ sup' = [sup EXCEPT !.idle = "no", !.shells = Append(sup.shells, h)]
  <2>1. Active(sup) = [sup EXCEPT !.idle = "no"] /\ Active(sup).shells = sup.shells
    BY DEF Active, SupType
  <2>2. CASE sup.active = 0
    <3>1. sup' = [Active(sup) EXCEPT !.at = "shell", !.hint = h]
      BY <2>2 DEF TakeShell
    <3> QED
      BY <2>1, <2>2, <3>1 DEF SupType
  <2>3. CASE sup.active # 0
    <3>1. \/ h \in Members(sup.shells) /\ sup' = Active(sup)
          \/ sup' = [Active(sup) EXCEPT !.shells = Append(Active(sup).shells, h)]
      BY <2>3 DEF TakeShell, Members
    <3> QED
      BY <2>1, <2>3, <3>1 DEF SupType
  <2> QED
    BY <2>2, <2>3
<1> HIDE DEF h
<1>7. CASE sup.active = 0 /\ sup' = [sup EXCEPT !.idle = "no", !.at = "shell", !.hint = h]
  BY <1>1, <1>3, <1>7 DEF h, SupType, Ats, KeepsTurn, KeepsEnd
<1>8. CASE sup.active # 0 /\ h \in Members(sup.shells) /\ sup' = [sup EXCEPT !.idle = "no"]
  <2>1. /\ sup' \in SupType /\ KeepsTurn /\ KeepsEnd
        /\ sup'.next = sup.next /\ sup'.saw = sup.saw /\ sup'.hint = sup.hint /\ sup'.at = sup.at
        /\ sup'.queue = sup.queue /\ sup'.rescan = sup.rescan /\ sup'.shells = sup.shells
    BY <1>8 DEF SupType, KeepsTurn, KeepsEnd
  <2>2. Members(sup'.shells) = Members(sup.shells) \cup {h}
    BY <1>8, <2>1
  <2> QED
    BY <1>1, <1>3, <1>8, <2>1, <2>2 DEF h
<1>9. CASE sup.active # 0 /\ sup' = [sup EXCEPT !.idle = "no", !.shells = Append(sup.shells, h)]
  <2>1. /\ sup' \in SupType /\ KeepsTurn /\ KeepsEnd
        /\ sup'.next = sup.next /\ sup'.saw = sup.saw /\ sup'.hint = sup.hint /\ sup'.at = sup.at
        /\ sup'.queue = sup.queue /\ sup'.rescan = sup.rescan
        /\ sup'.shells = Append(sup.shells, h)
    BY <1>5, <1>9 DEF SupType, KeepsTurn, KeepsEnd
  <2>2. Members(sup'.shells) = Members(sup.shells) \cup {h}
    BY <1>5, <2>1
  <2> QED
    BY <1>1, <1>3, <1>9, <2>1, <2>2 DEF h
<1> QED
  BY <1>6, <1>7, <1>8, <1>9

(* A retirement is taken from the channel.                                 *)
LEMMA TakeRetireDoes ==
  ASSUME sup \in SupType, chan \in Seq(Commands), TakeRetire
  PROVE  /\ sup' \in SupType /\ KeepsTurn /\ KeepsQueue /\ KeepsEnd
         /\ sup.at \in {"select", "live"} /\ sup'.next = sup.next /\ sup'.saw = sup.saw
         /\ sup'.hint = sup.hint /\ sup'.at = Again
         /\ chan # <<>> /\ chan' = Tail(chan) /\ Head(chan) \notin Hints /\ Head(chan).run = 0
         /\ UNCHANGED <<state, row, phase, ready>>
<1>1. /\ sup.at \in {"select", "live"} /\ chan # <<>> /\ chan' = Tail(chan)
      /\ Head(chan).via \in {"retire", "retire_idle"}
      /\ UNCHANGED <<state, row, phase, ready>>
  BY DEF TakeRetire, Listening, durable, others, startup
<1>2. Head(chan) \in Commands
  BY <1>1, TakesHead
<1>3. Head(chan) \notin Hints /\ Head(chan).run = 0
  BY <1>1, <1>2, CommandKinds
<1>4. Again \in {"top", "live"}
  BY DEF Again
<1>5. sup' = [sup EXCEPT !.at = Again] \/ sup' = [sup EXCEPT !.at = Again, !.retire = TRUE]
  BY DEF TakeRetire
<1>6. Again \in Ats
  BY <1>4 DEF Ats
<1>7. CASE sup' = [sup EXCEPT !.at = Again]
  BY <1>1, <1>3, <1>6, <1>7 DEF SupType, KeepsTurn, KeepsQueue, KeepsEnd
<1>8. CASE sup' = [sup EXCEPT !.at = Again, !.retire = TRUE]
  BY <1>1, <1>3, <1>6, <1>8 DEF SupType, KeepsTurn, KeepsQueue, KeepsEnd
<1> QED
  BY <1>5, <1>7, <1>8

(* The shutdown is taken: the queue is empty, the queued runs are over.    *)
LEMMA TakeShutdownDoes ==
  ASSUME sup \in SupType, chan \in Seq(Commands), TakeShutdown
  PROVE  /\ sup' \in SupType
         /\ sup.at \in {"select", "live"} /\ sup'.saw = sup.saw /\ sup'.hint = sup.hint
         /\ chan # <<>> /\ chan' = Tail(chan) /\ Head(chan).via = "shutdown" /\ Head(chan) \notin Hints
         /\ Members(sup'.queue) = {} /\ sup'.shells = sup.shells /\ sup'.rescan = sup.rescan
         /\ \/ /\ sup.active # 0 /\ state[sup.active] \in Waiting
               /\ sup'.at = "top" /\ sup'.next = sup.next /\ sup'.active = 0 /\ sup'.out = "none"
            \/ sup.active # 0 /\ sup'.at = sup.at /\ sup'.next = sup.next /\ KeepsTurn
            \/ sup.active = 0 /\ sup'.at \in {"top", "settle"} /\ sup'.next = "top" /\ KeepsTurn
         /\ \A r \in Runs : state'[r] = state[r] \/ (state[r] = "queued" /\ state'[r] = "cancelled")
         /\ UNCHANGED <<row, phase, ready>>
<1>1. /\ sup.at \in {"select", "live"} /\ chan # <<>> /\ chan' = Tail(chan)
      /\ Head(chan).via = "shutdown"
      /\ \A r \in Runs : state'[r] = state[r] \/ (state[r] = "queued" /\ state'[r] = "cancelled")
      /\ UNCHANGED <<row, phase, ready>>
  BY DEF TakeShutdown, Listening, others, startup
<1>2. Head(chan) \in Commands
  BY <1>1, TakesHead
<1>3. Head(chan) \notin Hints
  BY <1>1, <1>2, CommandKinds
<1> DEFINE t == [sup EXCEPT !.stopping = TRUE, !.queue = <<>>]
<1>4. \/ /\ sup.active # 0 /\ state[sup.active] \in Waiting
         /\ sup' = [t EXCEPT !.at = "top", !.active = 0, !.out = "none", !.kept = TRUE]
      \/ sup.active # 0 /\ sup' = [t EXCEPT !.token = TRUE]
      \/ \E a \in {"top", "settle"} : sup.active = 0 /\ sup' = [t EXCEPT !.at = a, !.next = "top"]
  BY DEF TakeShutdown
<1>5. /\ t \in SupType /\ t.queue = <<>> /\ t.shells = sup.shells /\ t.rescan = sup.rescan
      /\ t.saw = sup.saw /\ t.hint = sup.hint /\ t.at = sup.at /\ t.next = sup.next
      /\ t.active = sup.active /\ t.out = sup.out
  BY FreshTypes DEF SupType
<1>6. Members(<<>>) = {} /\ 0 \in 0..MaxRuns
  BY FreshTypes DEF Members
<1> HIDE DEF t
<1>7. CASE /\ sup.active # 0 /\ state[sup.active] \in Waiting
           /\ sup' = [t EXCEPT !.at = "top", !.active = 0, !.out = "none", !.kept = TRUE]
  <2>1. "top" \in Ats
    BY DEF Ats
  <2>2. sup' \in SupType
    BY <1>5, <1>6, <1>7, <2>1 DEF SupType
  <2>3. /\ sup'.at = "top" /\ sup'.next = t.next /\ sup'.active = 0 /\ sup'.out = "none"
        /\ sup'.queue = t.queue /\ sup'.shells = t.shells /\ sup'.rescan = t.rescan
        /\ sup'.saw = t.saw /\ sup'.hint = t.hint
    BY <1>5, <1>7 DEF SupType
  <2> QED
    BY <1>1, <1>3, <1>5, <1>6, <1>7, <2>2, <2>3
<1>8. CASE sup.active # 0 /\ sup' = [t EXCEPT !.token = TRUE]
  BY <1>1, <1>3, <1>5, <1>6, <1>8 DEF SupType, KeepsTurn
<1>9. CASE \E a \in {"top", "settle"} : sup.active = 0 /\ sup' = [t EXCEPT !.at = a, !.next = "top"]
  <2>1. PICK a \in {"top", "settle"} : sup.active = 0 /\ sup' = [t EXCEPT !.at = a, !.next = "top"]
    BY <1>9
  <2>2. a \in Ats /\ "top" \in Ats
    BY DEF Ats
  <2> QED
    BY <1>1, <1>3, <1>5, <1>6, <2>1, <2>2 DEF SupType, KeepsTurn
<1> QED
  BY <1>4, <1>7, <1>8, <1>9

(* A wake: the cancelling runs that nobody works on are over, and no other *)
(* hint leaves the queue.                                                  *)
LEMMA TakeWakeDoes ==
  ASSUME sup \in SupType, TakeWake
  PROVE  /\ sup' \in SupType /\ KeepsTurn /\ KeepsEnd
         /\ sup.at \in {"select", "live"} /\ sup'.saw = sup.saw /\ sup'.hint = sup.hint
         /\ sup'.shells = sup.shells /\ sup'.rescan = sup.rescan
         /\ sup'.at \in {Again, "settle"} /\ sup'.next = Again
         /\ \E gone \in SUBSET Runs :
              /\ \A r \in gone : state[r] = "cancelling" /\ r # sup.active
              /\ state' = [r \in Runs |-> IF r \in gone THEN "cancelled" ELSE state[r]]
              /\ Members(sup'.queue) = {h \in Members(sup.queue) : h.run \notin gone}
         /\ UNCHANGED <<row, phase, chan, ready>>
<1> DEFINE gone == {r \in Runs \ {sup.active} : state[r] = "cancelling"}
           told == sup.active # 0 /\ state[sup.active] = "cancelling"
           a == IF gone = {} THEN Again ELSE "settle"
<1>1. /\ sup.at \in {"select", "live"}
      /\ state' = [r \in Runs |-> IF r \in gone THEN "cancelled" ELSE state[r]]
      /\ sup' = [sup EXCEPT !.wake = FALSE, !.token = @ \/ told, !.queue = Retained(sup.queue, gone),
                            !.at = a, !.next = Again]
      /\ UNCHANGED <<row, phase, chan, ready>>
  BY DEF TakeWake, Listening, others, startup
<1>2. sup.queue \in Seq(Hints)
  BY DEF SupType
<1>3. /\ Retained(sup.queue, gone) \in Seq(Hints)
      /\ Members(Retained(sup.queue, gone)) = {h \in Members(sup.queue) : h.run \notin gone}
  BY <1>2, Retains
<1>4. gone \in SUBSET Runs /\ \A r \in gone : state[r] = "cancelling" /\ r # sup.active
  OBVIOUS
<1>5. a \in {Again, "settle"} /\ Again \in {"top", "live"}
  BY DEF Again
<1>6. a \in Ats /\ Again \in Ats
  BY <1>5 DEF Ats
<1>7. PICK b \in BOOLEAN : (sup.token \/ told) = b
  OBVIOUS
<1> HIDE DEF gone, told, a
<1>8. sup' = [sup EXCEPT !.wake = FALSE, !.token = b, !.queue = Retained(sup.queue, gone),
                         !.at = a, !.next = Again]
  BY <1>1, <1>7
<1>9. sup' \in SupType
  BY <1>3, <1>6, <1>8 DEF SupType
<1>10. /\ KeepsTurn /\ KeepsEnd /\ sup'.saw = sup.saw /\ sup'.hint = sup.hint
       /\ sup'.shells = sup.shells /\ sup'.rescan = sup.rescan
       /\ sup'.at = a /\ sup'.next = Again /\ sup'.queue = Retained(sup.queue, gone)
  BY <1>8 DEF SupType, KeepsTurn, KeepsEnd
<1> QED
  BY <1>1, <1>3, <1>4, <1>5, <1>9, <1>10

-----------------------------------------------------------------------------
(* What the others do to the supervisor. *)

KeepsPlace ==
    sup'.at = sup.at /\ sup'.next = sup.next /\ sup'.hint = sup.hint /\ sup'.saw = sup.saw

KeepsAll == KeepsPlace /\ KeepsTurn /\ KeepsQueue /\ KeepsEnd

(* A cancellation wakes it.                                                *)
LEMMA CancelDoes ==
  ASSUME sup \in SupType, NEW r \in Runs, Cancel(r) \/ Unqueue(r)
  PROVE  /\ sup' \in SupType /\ KeepsAll
         /\ state[r] \in Open \ {"cancelling"}
         /\ state' = [state EXCEPT ![r] = "cancelling"]
         /\ row' = row \/ (row' = [row EXCEPT ![r] = "removed"] /\ Held(r))
         /\ Serving
         /\ UNCHANGED <<phase, hand, busy, born, slot, sweep, chan, work, ready, lost>>
<1>1. /\ state' = [state EXCEPT ![r] = "cancelling"] /\ Serving
      /\ row' = row \/ (row' = [row EXCEPT ![r] = "removed"] /\ Held(r))
      /\ UNCHANGED <<phase, hand, busy, born, slot, sweep, chan, work, ready, lost>>
  BY DEF Cancel, Unqueue, Cancelling, manager, startup, ledger, Held
<1>2. state[r] \in Open \ {"cancelling"}
  BY DEF Cancel, Unqueue, Held, Open
<1>3. PICK b \in BOOLEAN : (sup.wake \/ Registered) = b
  OBVIOUS
<1>4. sup' = [sup EXCEPT !.wake = b]
  BY <1>3 DEF Cancel, Unqueue, Cancelling
<1> QED
  BY <1>1, <1>2, <1>4 DEF SupType, KeepsAll, KeepsPlace, KeepsTurn, KeepsQueue, KeepsEnd

(* The turn at work ends, or fails.                                        *)
LEMMA HarnessDoes ==
  ASSUME sup \in SupType, HarnessBegins \/ HarnessStep \/ HarnessEnds \/ HarnessPanics
  PROVE  /\ sup' \in SupType /\ KeepsPlace /\ KeepsQueue /\ KeepsEnd
         /\ sup'.active = sup.active /\ sup.active # 0 /\ sup.out = "none"
         /\ \/ sup'.out \in {"none", "panicked", "stopped"}
            \/ /\ sup'.out = "ended"
               /\ \/ state[sup.active] \in {"cancelling"} \cup Ended /\ state' = state
                  \/ /\ state[sup.active] = "running"
                     /\ \E s \in Ended : state' = [state EXCEPT ![sup.active] = s]
         /\ \/ state' = state
            \/ /\ state[sup.active] \in {"queued", "running", "parked", "routed"}
               /\ \E s \in {"running", "parked", "routed", "cancelling"} \cup Ended :
                     state' = [state EXCEPT ![sup.active] = s]
         /\ UNCHANGED <<row, phase, hand, busy, born, slot, sweep, chan, work, ready, lost>>
<1>1. /\ sup.active # 0 /\ sup.out = "none"
      /\ UNCHANGED <<row, phase, hand, busy, born, slot, sweep, chan, work, ready, lost>>
  BY DEF HarnessBegins, HarnessStep, HarnessEnds, HarnessPanics, Working, manager, startup, ledger,
         durable
<1>2. \/ state' = state
      \/ /\ state[sup.active] \in {"queued", "running", "parked", "routed"}
         /\ \E s \in {"running", "parked", "routed", "cancelling"} \cup Ended :
               state' = [state EXCEPT ![sup.active] = s]
  <2>1. CASE HarnessPanics
    BY <2>1 DEF HarnessPanics, durable
  <2>2. CASE HarnessBegins
    BY <2>2 DEF HarnessBegins
  <2>3. CASE HarnessStep
    BY <2>3 DEF HarnessStep, Waiting
  <2>4. CASE HarnessEnds
    BY <2>4 DEF HarnessEnds, Waiting, Ended
  <2> QED
    BY <2>1, <2>2, <2>3, <2>4
<1>3. \/ sup' = sup
      \/ sup' = [sup EXCEPT !.out = "panicked"] \/ sup' = [sup EXCEPT !.out = "stopped"]
      \/ /\ sup' = [sup EXCEPT !.out = "ended"]
         /\ \/ state[sup.active] \in {"cancelling"} \cup Ended /\ state' = state
            \/ /\ state[sup.active] = "running"
               /\ \E s \in Ended : state' = [state EXCEPT ![sup.active] = s]
  BY DEF HarnessBegins, HarnessStep, HarnessEnds, HarnessPanics, Ended
<1>4. CASE sup' = sup
  BY <1>1, <1>2, <1>4 DEF KeepsPlace, KeepsQueue, KeepsEnd
<1>5. CASE sup' = [sup EXCEPT !.out = "panicked"]
  BY <1>1, <1>2, <1>5 DEF SupType, KeepsPlace, KeepsQueue, KeepsEnd
<1>6. CASE sup' = [sup EXCEPT !.out = "stopped"]
  BY <1>1, <1>2, <1>6 DEF SupType, KeepsPlace, KeepsQueue, KeepsEnd
<1>7. CASE /\ sup' = [sup EXCEPT !.out = "ended"]
           /\ \/ state[sup.active] \in {"cancelling"} \cup Ended /\ state' = state
              \/ /\ state[sup.active] = "running"
                 /\ \E s \in Ended : state' = [state EXCEPT ![sup.active] = s]
  BY <1>1, <1>2, <1>7 DEF SupType, KeepsPlace, KeepsQueue, KeepsEnd
<1> QED
  BY <1>3, <1>4, <1>5, <1>6, <1>7

(* The budget of the turn at work, or of a queued run, is over.            *)
LEMMA BudgetDoes ==
  ASSUME sup \in SupType, Budget
  PROVE  /\ sup' \in SupType /\ KeepsTurn /\ KeepsQueue /\ KeepsEnd
         /\ sup.at = "live" /\ sup'.next = sup.next /\ sup'.saw = sup.saw
         /\ \/ sup'.at = "live" /\ sup'.hint = sup.hint
            \/ /\ sup'.at = "expiring" /\ sup'.hint \in Hints
               /\ state[sup'.hint.run] \in {"queued", "cancelling"}
         /\ UNCHANGED <<state, row, phase, hand, busy, born, slot, sweep, chan, work, ready, lost>>
<1>1. /\ sup.at = "live"
      /\ UNCHANGED <<state, row, phase, hand, busy, born, slot, sweep, chan, work, ready, lost>>
  BY DEF Budget, BudgetFires, QueuedBudgetFires, manager, startup
<1>2. CASE BudgetFires
  BY <1>1, <1>2 DEF BudgetFires, SupType, KeepsTurn, KeepsQueue, KeepsEnd
<1>3. ASSUME NEW r \in Runs, QueuedBudgetFires(r)
      PROVE  /\ sup' \in SupType /\ KeepsTurn /\ KeepsQueue /\ KeepsEnd
             /\ sup'.next = sup.next /\ sup'.saw = sup.saw
             /\ sup'.at = "expiring" /\ sup'.hint \in Hints
             /\ state[sup'.hint.run] \in {"queued", "cancelling"}
  <2> DEFINE h == Hint(r, "queued")
  <2>1. h \in Hints /\ h.run = r
    BY HintTypes
  <2>2. sup' = [sup EXCEPT !.at = "expiring", !.hint = h] /\ state[r] \in {"queued", "cancelling"}
    BY <1>3 DEF QueuedBudgetFires
  <2> HIDE DEF h
  <2> QED
    BY <2>1, <2>2 DEF SupType, Ats, KeepsTurn, KeepsQueue, KeepsEnd
<1> QED
  BY <1>1, <1>2, <1>3 DEF Budget

(* A supervisor that is gone, and one that is new.                         *)
LEMMA NoSupIs ==
  ASSUME sup' = NoSup, Members(chan') = {}
  PROVE  Gone' /\ sup'.active = 0
<1>1. /\ NoSup.at = "none" /\ NoSup.next = "none" /\ NoSup.out = "none" /\ NoSup.saw = "none"
      /\ NoSup.queue = <<>> /\ NoSup.shells = <<>> /\ ~NoSup.rescan
      /\ ~NoSup.stopping /\ ~NoSup.kept /\ NoSup.active = 0
  BY DEF NoSup, Fresh
<1>2. Members(<<>>) = {}
  BY DEF Members
<1> QED
  BY <1>1, <1>2 DEF Gone

(* A supervisor that was just spawned.                                     *)
LEMMA FreshIs ==
  /\ Fresh.at = "top" /\ Fresh.next = "top" /\ Fresh.out = "none" /\ Fresh.saw = "none"
  /\ Members(Fresh.queue) = {} /\ Members(Fresh.shells) = {} /\ ~Fresh.rescan
  /\ ~Fresh.stopping /\ ~Fresh.kept /\ Fresh.active = 0
  BY DEF Fresh, Members

(* A hint is sent.                                                         *)
LEMMA SendDoes ==
  ASSUME Typed, NEW h \in Hints, Send(h)
  PROVE  /\ slot' # "none" /\ chan' \in Seq(Commands) /\ sweep' = sweep /\ sweep.of = "none"
         /\ \/ slot = "none" /\ sup' = Fresh /\ Members(chan') = {h}
            \/ sup' = sup /\ Members(chan') = Members(chan) \cup {h} /\ sup.at # "exited"
<1>1. h \in Commands
  BY DEF Commands
<1>2. /\ <<h>> \in Seq(Commands) /\ Members(<<h>>) = {h}
      /\ Append(chan, h) \in Seq(Commands) /\ Members(Append(chan, h)) = Members(chan) \cup {h}
  BY <1>1, SeqSmall, SeqAppend DEF Typed
<1>3. sweep' = sweep /\ sweep.of = "none" /\ slot # "retiring" /\ ~(slot = "active" /\ sup.at = "exited")
  BY DEF Send, Idling, Deferred
<1>4. CASE slot = "none"
  BY <1>2, <1>3, <1>4 DEF Send
<1>5. CASE slot # "none"
  BY <1>2, <1>3, <1>5 DEF Send, Typed
<1> QED
  BY <1>4, <1>5

-----------------------------------------------------------------------------
(* Types and places are kept. *)

Rows == [Runs -> {"none", "held", "removed", "consumed", "shell"}]

Phases == {"up", "down", "recovering", "handing"} \cup Drains

(* Of the supervisor's own steps.                                          *)
LEMMA SupervisorTypes ==
  ASSUME TurnInv, Typed, Where, Supervisor
  PROVE  Typed' /\ Where'
<1>1. /\ sup \in SupType /\ chan \in Seq(Commands) /\ row \in Rows /\ ready \in 0..MaxRuns
      /\ phase \in Phases /\ 0 \in 0..MaxRuns /\ SupOK
  BY FreshTypes DEF Typed, Rows, Phases, TurnInv
<1>2. UNCHANGED <<hand, busy, born, slot, work>> /\ slot # "none"
  BY SupervisorFrame, WorkNeedsSlot DEF TurnInv
<1>3. Again = IF sup.active = 0 THEN "top" ELSE "live"
  BY DEF Again
<1> DEFINE Good == /\ sup' \in SupType /\ chan' \in Seq(Commands) /\ row' \in Rows
                   /\ ready' \in 0..MaxRuns /\ phase' \in Phases
                   /\ sup'.next \in {"none", "top", "pop", "live", "exited"}
                   /\ sup'.active # 0 <=> \/ sup'.at \in {"live", "expiring"}
                                          \/ (sup'.at = "settle" /\ sup'.next = "live")
                   /\ sup'.next = "exited" => sup'.at \in {"settle", "exited"}
                   /\ sup'.saw = "quiescent" => sup'.at = "exited"
                   /\ sup'.at \in {"starting", "failing", "shell", "expiring"} =>
                         sup'.hint \in Hints
                   /\ sup'.out # "none" => sup'.active # 0
<1>4. SUFFICES Good
  BY <1>2 DEF Typed, Where, Rows, Phases
<1>5. ASSUME chan # <<>>
      PROVE  Tail(chan) \in Seq(Commands)
  BY <1>1, <1>5, TakesHead
<1> USE DEF Where
<1>6. CASE RetireCheck
  BY <1>1, <1>6, RetireCheckDoes DEF KeepsTurn
<1>7. CASE Exit
  BY <1>1, <1>7, ExitDoes DEF KeepsTurn
<1>8. CASE TakeDeferredShell
  <2>1. Members(sup.shells) \subseteq Hints
    BY <1>1, SeqMembers DEF SupType
  <2> QED
    BY <1>1, <1>8, <2>1, TakeDeferredShellDoes DEF KeepsTurn
<1>9. CASE Refill
  BY <1>1, <1>9, RefillDoes DEF KeepsTurn
<1>10. CASE Pop
  BY <1>1, <1>10, PopDoes DEF KeepsTurn, Rows
<1>11. CASE Wait \/ IdleFires
  BY <1>1, <1>11, WaitDoes DEF KeepsTurn
<1>12. CASE Settle
  BY <1>1, <1>12, SettleDoes DEF KeepsTurn
<1>13. CASE Start
  <2>1. sup.at = "starting"
    BY <1>13 DEF Start
  <2>2. sup.hint \in Hints /\ sup.hint.run # 0
    BY <2>1, CommandKinds
  <2> QED
    BY <1>1, <1>13, <2>2, StartDoes
<1>14. CASE StartFails
  BY <1>1, <1>14, StartFailsDoes DEF KeepsTurn
<1>15. CASE FailStart
  BY <1>1, <1>15, FailStartDoes DEF KeepsTurn
<1>16. CASE Outcome
  BY <1>1, <1>16, OutcomeDoes
<1>17. CASE ShellEnds \/ ShellWake
  BY <1>1, <1>17, ShellDoes DEF KeepsTurn
<1>18. CASE TakeSubmit
  <2>1. "draining" \in Phases
    BY DEF Phases, Drains
  <2>2. /\ ready' \in 0..MaxRuns /\ phase' \in Phases
        /\ \/ sup'.at = Again /\ sup'.next = sup.next
           \/ sup'.at = "settle" /\ sup'.next = Again
    BY <1>1, <1>18, <2>1, TakeSubmitDoes
       DEF AdmitQueues, AdmitOverflows, AdmitFails, AdmitDrops, Answered
  <2> QED
    BY <1>1, <1>3, <1>5, <1>18, <2>2, TakeSubmitDoes DEF KeepsTurn
<1>19. CASE TakeShell
  BY <1>1, <1>5, <1>19, TakeShellDoes DEF KeepsTurn
<1>20. CASE TakeRetire
  BY <1>1, <1>3, <1>5, <1>20, TakeRetireDoes DEF KeepsTurn
<1>21. CASE TakeShutdown
  BY <1>1, <1>3, <1>5, <1>21, TakeShutdownDoes DEF KeepsTurn
<1>22. CASE TakeWake
  BY <1>1, <1>3, <1>22, TakeWakeDoes DEF KeepsTurn
<1>23. CASE ExpireQueued
  <2>1. sup.at = "expiring"
    BY <1>23 DEF ExpireQueued
  <2>2. sup.hint \in Hints
    BY <2>1
  <2> QED
    BY <1>1, <1>23, <2>2, ExpireQueuedDoes DEF KeepsTurn, Rows
<1> HIDE DEF Where
<1> QED
  BY <1>6, <1>7, <1>8, <1>9, <1>10, <1>11, <1>12, <1>13, <1>14, <1>15, <1>16, <1>17, <1>18,
     <1>19, <1>20, <1>21, <1>22, <1>23 DEF Supervisor, TakeCommand

(* Of everybody else's.                                                    *)
LEMMA OthersTypes ==
  ASSUME TurnInv, Typed, Where, [Next]_vars, ~Supervisor
  PROVE  Typed' /\ Where'
<1>1. /\ sup \in SupType /\ chan \in Seq(Commands) /\ row \in Rows /\ ready \in 0..MaxRuns
      /\ phase \in Phases /\ 0 \in 0..MaxRuns /\ work \in Seq(Runs)
      /\ slot \in {"none", "active", "retiring"}
      /\ hand \subseteq Runs /\ busy \subseteq Runs /\ born \subseteq Runs
  BY FreshTypes DEF Typed, Rows, Phases
<1> DEFINE Rest == /\ row' \in Rows /\ ready' \in 0..MaxRuns /\ phase' \in Phases
                   /\ work' \in Seq(Runs) /\ slot' \in {"none", "active", "retiring"}
                   /\ hand' \subseteq Runs /\ busy' \subseteq Runs /\ born' \subseteq Runs
<1>2. ASSUME Rest, sup' = sup, chan' = chan, slot' = slot
      PROVE  Typed' /\ Where'
  BY <1>2 DEF Typed, Where, Rows, Phases, Gone
<1>3. ASSUME Rest, sup' = sup, slot' # "none", chan' \in Seq(Commands)
      PROVE  Typed' /\ Where'
  BY <1>3 DEF Typed, Where, Rows, Phases
<1>4. ASSUME Rest, sup' = NoSup, chan' = <<>>
      PROVE  Typed' /\ Where'
  <2>1. Members(chan') = {} /\ chan' \in Seq(Commands)
    BY <1>4 DEF Members
  <2>2. Gone' /\ sup'.active = 0
    BY <1>4, <2>1, NoSupIs
  <2>3. sup' \in SupType
    BY <1>4, FreshTypes
  <2> QED
    BY <1>4, <2>1, <2>2, <2>3 DEF Typed, Where, Rows, Phases, Gone
<1>5. ASSUME Rest, sup' = Fresh, slot' # "none", chan' \in Seq(Commands)
      PROVE  Typed' /\ Where'
  <2>1. sup' \in SupType
    BY <1>5, FreshTypes
  <2> QED
    BY <1>5, <2>1, FreshIs DEF Typed, Where, Rows, Phases
<1>6. CASE \E r \in Runs : Cancel(r) \/ Unqueue(r)
  <2>1. PICK r \in Runs : Cancel(r) \/ Unqueue(r)
    BY <1>6
  <2>2. /\ sup' \in SupType /\ KeepsAll /\ row' \in Rows
        /\ UNCHANGED <<phase, hand, busy, born, slot, sweep, chan, work, ready, lost>>
    BY <1>1, <2>1, CancelDoes DEF Rows
  <2> QED
    BY <1>1, <2>2 DEF Typed, Where, Rows, Phases, Gone, KeepsAll, KeepsPlace, KeepsTurn, KeepsQueue,
                      KeepsEnd
<1>7. CASE HarnessBegins \/ HarnessStep \/ HarnessEnds \/ HarnessPanics
  <2>1. slot # "none"
    BY <1>7, WorkNeedsSlot DEF TurnInv
  <2> QED
    BY <1>1, <1>7, <2>1, HarnessDoes DEF Typed, Where, Rows, Phases, KeepsPlace
<1>16. CASE Budget
  <2>1. slot # "none"
    BY <1>16, WorkNeedsSlot DEF TurnInv
  <2> QED
    BY <1>1, <1>16, <2>1, BudgetDoes DEF Typed, Where, Rows, Phases, KeepsTurn
<1>8. CASE Accept \/ AcceptShell
  <2>1. Rest
    <3>1. NextRun \in Runs
      BY <1>8 DEF Accept, AcceptShell
    <3>2. \E v \in {"none", "held", "shell"} : row' = [row EXCEPT ![NextRun] = v]
      BY <1>8 DEF Accept, AcceptShell
    <3>3. row' \in Rows
      BY <1>1, <3>2 DEF Rows
    <3>4. /\ hand' = hand \cup {NextRun} /\ (born' = born \cup {NextRun} \/ born' = born)
          /\ UNCHANGED <<ready, phase, work, slot, busy>>
      BY <1>8 DEF Accept, AcceptShell, manager, startup
    <3> QED
      BY <1>1, <3>1, <3>3, <3>4
  <2>2. sup' = sup /\ chan' = chan /\ slot' = slot
    BY <1>8 DEF Accept, AcceptShell, manager
  <2> QED
    BY <1>2, <2>1, <2>2
<1>9. CASE \E r \in Runs : Repeat(r) \/ HandOffFails(r)
  <2>1. Rest
    BY <1>1, <1>9 DEF Repeat, HandOffFails, durable, manager, startup, Rows
  <2>2. sup' = sup /\ chan' = chan /\ slot' = slot
    BY <1>9 DEF Repeat, HandOffFails, manager
  <2> QED
    BY <1>2, <2>1, <2>2
<1>10. CASE SweepRun \/ SweepEnds \/ BeginDraining \/ DrainSweep \/ RecoveryRead \/ Listen \/ UNCHANGED vars
  <2>1. Rest
    <3>1. phase' \in Phases /\ ready' \in 0..MaxRuns
      BY <1>1, <1>10 DEF SweepRun, SweepEnds, BeginDraining, DrainSweep, RecoveryRead, Listen, vars,
                         startup, Phases, Drains
    <3>2. UNCHANGED <<row, work, slot, hand, busy, born>>
      BY <1>10 DEF SweepRun, SweepEnds, BeginDraining, DrainSweep, RecoveryRead, Listen, vars, manager,
                   startup, durable
    <3> QED
      BY <1>1, <3>1, <3>2
  <2>2. sup' = sup /\ chan' = chan /\ slot' = slot
    BY <1>10 DEF SweepRun, SweepEnds, BeginDraining, DrainSweep, RecoveryRead, Listen, vars, manager
  <2> QED
    BY <1>2, <2>1, <2>2
<1>11. CASE RecoverRun
  <2>1. At \in Runs
    BY <1>11 DEF RecoverRun, Accepted
  <2>2. work' = work \/ work' = Append(work, At)
    BY <1>11 DEF RecoverRun
  <2>3. work' \in Seq(Runs) /\ ready' \in 0..MaxRuns
    <3>1. ready' = At
      BY <1>11 DEF RecoverRun
    <3> QED
      BY <1>1, <2>1, <2>2, <3>1, SeqAppend, CommandKinds
  <2>4. UNCHANGED <<row, phase, slot, hand, busy, born, sup, chan>>
    BY <1>11 DEF RecoverRun, manager
  <2>5. Rest
    BY <1>1, <2>3, <2>4
  <2> QED
    BY <1>2, <2>4, <2>5
<1>12. CASE ManagerShutdown
  <2>1. Rest
    BY <1>1, <1>12 DEF ManagerShutdown, durable, manager, startup, Rows, Phases, Drains
  <2>2. Shutdown \in Commands
    BY CommandKinds
  <2>3. sup' = sup /\ slot' = slot
    BY <1>12 DEF ManagerShutdown, manager
  <2>4. chan' = chan \/ (slot # "none" /\ chan' = Append(chan, Shutdown))
    BY <1>12 DEF ManagerShutdown
  <2>5. Append(chan, Shutdown) \in Seq(Commands)
    BY <1>1, <2>2, SeqAppend
  <2> QED
    BY <1>2, <1>3, <2>1, <2>3, <2>4, <2>5
<1>13. CASE RetireSession \/ \E e \in {"expired", "refused"} : TakeEvent(e)
  <2>1. Rest /\ sup' = sup
    <3>1. UNCHANGED <<row, ready, phase, work, hand, busy, born, sup>>
      BY <1>13 DEF RetireSession, TakeEvent, durable, startup
    <3>2. slot' \in {"none", "active", "retiring"}
      BY <1>1, <1>13 DEF RetireSession, TakeEvent, RequestRetirement
    <3> QED
      BY <1>1, <3>1, <3>2
  <2>2. \/ chan' = chan /\ (slot' # "none" \/ slot' = slot)
        \/ slot' = "retiring" /\ \E b \in BOOLEAN : chan' = Append(chan, Retire(b))
    BY <1>13 DEF RetireSession, TakeEvent, RequestRetirement
  <2>3. \A b \in BOOLEAN : Append(chan, Retire(b)) \in Seq(Commands)
    BY <1>1, CommandKinds, SeqAppend
  <2> QED
    BY <1>1, <1>2, <1>3, <2>1, <2>2, <2>3
<1>14. CASE Join \/ Crash \/ Restart
  <2>1. sup' = NoSup /\ chan' = <<>>
    BY <1>14 DEF Join, Crash, Restart, NewProcess
  <2>2. Rest
    <3>1. UNCHANGED <<row, ready, phase, work, hand, busy, born>> \/ NewProcess
      BY <1>14 DEF Join, Crash, Restart, durable, startup
    <3>2. slot' = "none" /\ row' = row
      BY <1>14 DEF Join, Crash, Restart, NewProcess, durable
    <3>3. CASE NewProcess
      BY <1>1, <3>2, <3>3 DEF NewProcess, Phases
    <3> QED
      BY <1>1, <3>1, <3>2, <3>3
  <2> QED
    BY <1>4, <2>1, <2>2
<1>15. CASE HandOver \/ \E r \in Runs : HandOff(r)
  <2>1. PICK h \in Hints : Send(h)
    <3>1. CASE HandOver
      <4>1. Head(work) \in Runs
        BY <1>1, <3>1, SeqTail DEF HandOver
      <4> QED
        BY <3>1, <4>1, HintTypes DEF HandOver
    <3>2. CASE \E r \in Runs : HandOff(r)
      BY <3>2, HintTypes DEF HandOff
    <3> QED
      BY <1>15, <3>1, <3>2
  <2>2. /\ slot' # "none" /\ chan' \in Seq(Commands)
        /\ sup' = Fresh \/ sup' = sup
    BY <2>1, SendDoes
  <2>3. Rest
    <3>1. slot' \in {"none", "active", "retiring"}
      BY <1>1, <2>1 DEF Send
    <3>2. CASE HandOver
      <4>1. Head(work) \in Runs /\ Tail(work) \in Seq(Runs)
        BY <1>1, <3>2, SeqTail DEF HandOver
      <4> QED
        BY <1>1, <3>1, <3>2, <4>1, CommandKinds DEF HandOver, durable
    <3>3. CASE \E r \in Runs : HandOff(r)
      BY <1>1, <3>1, <3>3 DEF HandOff, durable, startup
    <3> QED
      BY <1>15, <3>2, <3>3
  <2> QED
    BY <1>3, <1>5, <2>2, <2>3
<1> HIDE DEF Rest
<1> QED
  BY <1>6, <1>7, <1>8, <1>9, <1>10, <1>11, <1>12, <1>13, <1>14, <1>15, <1>16
     DEF Next, Clients, Manager, Drain, Startup

-----------------------------------------------------------------------------
(* Runs and their rows. *)

(* What a step that accepts nothing may do to a run: leave it, cancel or   *)
(* end it, or move the turn at work.                                       *)
MovesRun(r) ==
    \/ state'[r] = state[r]
    \/ state[r] \in Open /\ state'[r] \in {"cancelling"} \cup Ended
    \/ /\ state[r] \in {"queued", "running", "parked", "routed"}
       /\ state'[r] \in {"running", "parked", "routed"}
       /\ r = sup.active /\ sup'.active = sup.active

MovesRow(r) ==
    \/ row'[r] = row[r]
    \/ row[r] = "held" /\ row'[r] = "consumed"
    \/ row[r] = "held" /\ row'[r] = "removed" /\ state'[r] = "cancelling"

(* To end a run is one of the moves.                                       *)
LEMMA TerminalizeMoves ==
  ASSUME StateOK, NEW q, Terminates(q)
  PROVE  \A r \in Runs : MovesRun(r)
<1>1. PICK end \in Ends : state' = Terminalized(q, end)
  BY DEF Terminates
<1> DEFINE s == IF end = "budget" THEN "errored" ELSE end
<1>2. s \in Ended
  BY DEF Ends, Ended
<1>3. state' = state \/ (state[q] \in Open /\ state' = [state EXCEPT ![q] = s])
  BY <1>1 DEF Terminalized
<1> HIDE DEF s
<1> QED
  BY <1>2, <1>3 DEF StateOK, MovesRun

(* What a sweep does to a run.                                             *)
LEMMA SweepTerminates ==
  ASSUME SweepOK, SweepRun
  PROVE  state' = state \/ \E q \in Runs : Terminates(q)
<1>1. CASE state' = state
  BY <1>1
<1>2. CASE state' # state
  <2>1. PICK t \in sweep.todo, end \in {"cancelled", "errored"} :
          state' = Terminalized(t.run, Closing(t.run, end))
    BY <1>2 DEF SweepRun
  <2>2. Closing(t.run, end) \in Ends /\ t.run \in Runs
    BY ClosingEnds DEF Ends, Ended, SweepOK
  <2> QED
    BY <2>1, <2>2 DEF Terminates
<1> QED
  BY <1>1, <1>2

(* So is all that the supervisor does.                                     *)
LEMMA SupervisorMoves ==
  ASSUME TurnInv, Typed, Where, Supervisor
  PROVE  \A r \in Runs : MovesRun(r) /\ MovesRow(r)
<1>1. /\ sup \in SupType /\ chan \in Seq(Commands)
      /\ row \in [Runs -> {"none", "held", "removed", "consumed", "shell"}]
      /\ StateOK /\ SupOK
  BY DEF Typed, TurnInv
<1>2. CASE UNCHANGED <<state, row>>
  BY <1>2 DEF MovesRun, MovesRow
<1>3. ASSUME NEW q, Terminates(q), row' = row
      PROVE  \A r \in Runs : MovesRun(r) /\ MovesRow(r)
  BY <1>1, <1>3, TerminalizeMoves DEF MovesRow
<1>4. "errored" \in Ended /\ "cancelled" \in Ended /\ "queued" \in Open /\ "cancelling" \in Open
  BY DEF Ended, Open
<1>5. CASE RetireCheck \/ Exit \/ TakeDeferredShell \/ Refill \/ Wait \/ IdleFires \/ Settle \/ Start
           \/ StartFails \/ ShellWake \/ TakeShell \/ TakeRetire
  <2>1. UNCHANGED <<state, row>>
    BY <1>5 DEF RetireCheck, Exit, TakeDeferredShell, Refill, Wait, IdleFires, Settle, Start,
                StartFails, TakeShell, TakeRetire, ShellWake, durable
  <2> QED
    BY <1>2, <2>1
<1>6. CASE Pop
  <2>1. state' = state /\ \A r \in Runs : row'[r] = row[r] \/ (Held(r) /\ row'[r] = "consumed")
    BY <1>1, <1>6, PopDoes
  <2> QED
    BY <2>1 DEF MovesRun, MovesRow, Held
<1>7. CASE FailStart
  BY <1>1, <1>3, <1>7, FailStartDoes
<1>8. CASE Outcome
  BY <1>1, <1>2, <1>3, <1>4, <1>8, OutcomeDoes
<1>9. CASE ShellEnds
  BY <1>1, <1>2, <1>3, <1>9, ShellDoes
<1>10. CASE TakeSubmit
  <2>1. row' = row /\ (state' = state \/ Terminates(Head(chan).run))
    BY <1>1, <1>10, TakeSubmitDoes DEF AdmitQueues, AdmitOverflows, AdmitFails, AdmitDrops
  <2> QED
    BY <1>2, <1>3, <1>4, <2>1
<1>11. CASE TakeShutdown
  BY <1>1, <1>4, <1>11, TakeShutdownDoes DEF MovesRun, MovesRow
<1>12. CASE TakeWake
  <2>1. row' = row /\ \A r \in Runs : state'[r] = state[r] \/ (state[r] = "cancelling" /\ state'[r] = "cancelled")
    BY <1>1, <1>12, TakeWakeDoes
  <2> QED
    BY <1>4, <2>1 DEF MovesRun, MovesRow
<1>13. CASE ExpireQueued
  <2>1. sup.hint \in Hints
    BY <1>13 DEF ExpireQueued, Where
  <2>2. /\ Terminates(sup.hint.run)
        /\ \A r \in Runs : row'[r] = row[r] \/ (Held(r) /\ row'[r] = "consumed")
    BY <1>1, <1>13, <2>1, ExpireQueuedDoes
  <2>3. \A r \in Runs : MovesRun(r)
    BY <1>1, <2>2, TerminalizeMoves
  <2> QED
    BY <2>2, <2>3 DEF MovesRow, Held
<1> QED
  BY <1>5, <1>6, <1>7, <1>8, <1>9, <1>10, <1>11, <1>12, <1>13 DEF Supervisor, TakeCommand

(* Every step but an acceptance.                                           *)
LEMMA StepMoves ==
  ASSUME TurnInv, Typed, Where, [Next]_vars, ~Accept, ~AcceptShell
  PROVE  \A r \in Runs : MovesRun(r) /\ MovesRow(r)
<1>1. /\ sup \in SupType /\ row \in [Runs -> {"none", "held", "removed", "consumed", "shell"}]
      /\ StateOK /\ SweepOK
  BY DEF Typed, TurnInv
<1>2. CASE UNCHANGED <<state, row>>
  BY <1>2 DEF MovesRun, MovesRow
<1>3. CASE Supervisor
  BY <1>3, SupervisorMoves
<1>4. CASE \E r \in Runs : Cancel(r) \/ Unqueue(r)
  <2>1. PICK q \in Runs : Cancel(q) \/ Unqueue(q)
    BY <1>4
  <2>2. /\ state[q] \in Open \ {"cancelling"} /\ state' = [state EXCEPT ![q] = "cancelling"]
        /\ row' = row \/ (row' = [row EXCEPT ![q] = "removed"] /\ Held(q))
    BY <1>1, <2>1, CancelDoes
  <2> QED
    BY <1>1, <2>2 DEF StateOK, MovesRun, MovesRow, Held
<1>5. CASE HarnessBegins \/ HarnessStep \/ HarnessEnds \/ HarnessPanics
  <2>1. /\ row' = row /\ sup'.active = sup.active
        /\ \/ state' = state
           \/ /\ state[sup.active] \in {"queued", "running", "parked", "routed"}
              /\ \E s \in {"running", "parked", "routed", "cancelling"} \cup Ended :
                    state' = [state EXCEPT ![sup.active] = s]
    BY <1>1, <1>5, HarnessDoes
  <2>2. {"queued", "running", "parked", "routed"} \subseteq Open
    BY DEF Open, Waiting
  <2> QED
    BY <1>1, <2>1, <2>2 DEF StateOK, MovesRun, MovesRow
<1>6. CASE SweepRun
  <2>1. row' = row
    BY <1>6 DEF SweepRun
  <2>2. state' = state \/ \E q \in Runs : Terminates(q)
    BY <1>1, <1>6, SweepTerminates
  <2> QED
    BY <1>1, <1>2, <2>1, <2>2, TerminalizeMoves DEF MovesRow
<1>7. CASE RecoverRun
  <2>1. row' = row
    BY <1>7 DEF RecoverRun
  <2>2. \/ state' = state
        \/ /\ state[At] \in Interrupted
           /\ \E s \in {"cancelled", "errored"} : state' = [state EXCEPT ![At] = s]
    BY <1>7 DEF RecoverRun
  <2> QED
    BY <1>1, <2>1, <2>2 DEF StateOK, MovesRun, MovesRow, Ended, Interrupted, Open, Waiting
<1>8. ASSUME \/ \E r \in Runs : Repeat(r) \/ HandOff(r) \/ HandOffFails(r)
             \/ \E e \in {"expired", "refused"} : TakeEvent(e)
             \/ RetireSession \/ Join \/ SweepEnds \/ Budget \/ BeginDraining
             \/ ManagerShutdown \/ DrainSweep \/ Crash \/ Restart \/ RecoveryRead \/ HandOver \/ Listen
             \/ UNCHANGED vars
      PROVE  UNCHANGED <<state, row>>
  BY <1>8 DEF Repeat, HandOff, HandOffFails, TakeEvent, RetireSession, Join, SweepEnds,
              Budget, BudgetFires, QueuedBudgetFires, BeginDraining, ManagerShutdown, DrainSweep, Crash, Restart, NewProcess, RecoveryRead,
              HandOver, Listen, vars, durable
<1> QED
  BY <1>2, <1>3, <1>4, <1>5, <1>6, <1>7, <1>8 DEF Next, Clients, Manager, Drain, Startup

(* The row of a run agrees with its state.                                 *)
RowsOK ==
    \A r \in Runs :
       /\ row[r] = "shell" => state[r] \in {"shell", "cancelling"} \cup Ended
       /\ state[r] = "shell" => row[r] = "shell"
       /\ state[r] = "queued" => row[r] \in {"none", "held", "consumed"}

(* Rows and runs stay in step.                                             *)
LEMMA RowsStep ==
  ASSUME TurnInv, Typed, Where, RowsOK, [Next]_vars
  PROVE  RowsOK'
<1>1. CASE ~Accept /\ ~AcceptShell
  <2>1. ASSUME NEW r \in Runs
        PROVE  /\ row'[r] = "shell" => state'[r] \in {"shell", "cancelling"} \cup Ended
               /\ state'[r] = "shell" => row'[r] = "shell"
               /\ state'[r] = "queued" => row'[r] \in {"none", "held", "consumed"}
    <3>1. MovesRun(r) /\ MovesRow(r)
      BY <1>1, StepMoves
    <3>2. "shell" \notin Ended /\ "queued" \notin Ended
      BY DEF Ended
    <3>3. state[r] = "shell" => state'[r] = "shell" \/ state'[r] \in {"cancelling"} \cup Ended
      BY <3>1 DEF MovesRun
    <3>4. state[r] \in {"cancelling"} \cup Ended => state'[r] \in {"cancelling"} \cup Ended
      BY <3>1 DEF MovesRun, Open, Waiting, Ended
    <3>5. state'[r] \in {"shell", "queued"} => state[r] = state'[r]
      BY <3>1, <3>2 DEF MovesRun
    <3> QED
      BY <3>1, <3>3, <3>4, <3>5 DEF MovesRow, RowsOK
  <2> QED
    BY <2>1 DEF RowsOK
<1>2. CASE Accept \/ AcceptShell
  <2>1. NextRun \in Runs /\ StateOK /\ row \in [Runs -> {"none", "held", "removed", "consumed", "shell"}]
    BY <1>2 DEF Accept, AcceptShell, TurnInv, Typed
  <2>2. \/ /\ state' = [state EXCEPT ![NextRun] = "queued"]
           /\ \E v \in {"none", "held"} : row' = [row EXCEPT ![NextRun] = v]
        \/ /\ state' = [state EXCEPT ![NextRun] = "shell"]
           /\ row' = [row EXCEPT ![NextRun] = "shell"]
    BY <1>2 DEF Accept, AcceptShell
  <2> QED
    BY <2>1, <2>2 DEF RowsOK, StateOK
<1> QED
  BY <1>1, <1>2

-----------------------------------------------------------------------------
(* Hints are about accepted runs. *)

(* A run that is accepted stays so, and its row stays a shell's or not.    *)
LEMMA AcceptedStay ==
  ASSUME TurnInv, Typed, Where, [Next]_vars, NEW r \in Runs, state[r] # "none"
  PROVE  state'[r] # "none" /\ (row'[r] = "shell" <=> row[r] = "shell")
<1>1. CASE ~Accept /\ ~AcceptShell
  <2>1. MovesRun(r) /\ MovesRow(r)
    BY <1>1, StepMoves
  <2> QED
    BY <2>1 DEF MovesRun, MovesRow, Ended
<1>2. CASE Accept \/ AcceptShell
  <2>1. NextRun \in Runs /\ StateOK /\ row \in [Runs -> {"none", "held", "removed", "consumed", "shell"}]
    BY <1>2 DEF Accept, AcceptShell, TurnInv, Typed
  <2>2. state[NextRun] = "none"
    BY <2>1, NextIsNew
  <2>3. \E v : row' = [row EXCEPT ![NextRun] = v]
    BY <1>2 DEF Accept, AcceptShell
  <2>4. \E v : state' = [state EXCEPT ![NextRun] = v]
    BY <1>2 DEF Accept, AcceptShell
  <2> QED
    BY <2>1, <2>2, <2>3, <2>4 DEF StateOK
<1> QED
  BY <1>1, <1>2

(* A hint in the channel: one that a client caused is only there when      *)
(* startup is over.                                                        *)
ChanHint(h) ==
    /\ state[h.run] # "none"
    /\ h.via = "shell" <=> row[h.run] = "shell"
    /\ h.via # "recovered" => ready = 0 /\ phase \notin {"handing", "recovering"}

(* Whatever names a run names an accepted one.                             *)
HintsOK ==
    /\ \A r \in hand : state[r] # "none"
    /\ \A h \in Members(chan) : h \in Hints => ChanHint(h)
    /\ \A h \in Members(sup.queue) : state[h.run] # "none"
    /\ sup.at \in {"starting", "failing"} => state[sup.hint.run] # "none"
    /\ sup.active # 0 => state[sup.active] # "none"
    /\ \A r \in Members(work) : state[r] # "none" /\ row[r] # "shell"

(* The phases of the daemon: nothing stops a supervisor before a drain.    *)
PhasesOK ==
    /\ phase = "up" => ready = 0 /\ Members(work) = {}
    /\ phase \in {"up", "handing"} =>
          ~sup.kept /\ ~sup.stopping /\ \A c \in Members(chan) : c.via # "shutdown"

(* The members of queues and channels are of their types.                  *)
LEMMA MemberTypes ==
  ASSUME Typed
  PROVE  /\ Members(chan) \subseteq Commands /\ Members(work) \subseteq Runs
         /\ Members(sup.queue) \subseteq Hints /\ Members(sup.shells) \subseteq Hints
         /\ \A h \in Members(sup.queue) : h.run \in Runs
  BY SeqMembers, CommandKinds DEF Typed, SupType

(* Of the supervisor's own steps.                                          *)
LEMMA SupervisorHints ==
  ASSUME TurnInv, Typed, Where, RowsOK, HintsOK, PhasesOK, Supervisor
  PROVE  HintsOK' /\ PhasesOK'
<1>1. /\ sup \in SupType /\ chan \in Seq(Commands)
      /\ row \in [Runs -> {"none", "held", "removed", "consumed", "shell"}]
      /\ sup.active \in 0..MaxRuns
  BY DEF Typed, SupType
<1>2. UNCHANGED <<hand, work>>
  BY SupervisorFrame
<1>3. \A r \in Runs : state[r] # "none" => state'[r] # "none" /\ (row'[r] = "shell" <=> row[r] = "shell")
  BY AcceptedStay DEF Next
<1>4. /\ Members(chan) \subseteq Commands /\ Members(work) \subseteq Runs
      /\ Members(sup.queue) \subseteq Hints
      /\ \A h \in Members(sup.queue) : h.run \in Runs
  BY MemberTypes
<1>5. hand \subseteq Runs
  BY DEF Typed
<1> DEFINE Base == /\ Members(chan') \subseteq Members(chan)
                   /\ \A h \in Members(sup'.queue) : h.run \in Runs /\ state[h.run] # "none"
                   /\ sup'.at \in {"starting", "failing"} =>
                         sup'.hint.run \in Runs /\ state[sup'.hint.run] # "none"
                   /\ sup'.active # 0 => sup'.active \in Runs /\ state[sup'.active] # "none"
                   /\ ready' \in {0, ready} /\ phase' \in {phase, "draining"}
                   /\ phase \in {"up", "handing"} => ~sup'.kept /\ ~sup'.stopping
<1>6. ASSUME Base
      PROVE  HintsOK' /\ PhasesOK'
  <2>1. \A h \in Members(chan') : h \in Hints => ChanHint(h)'
    <3>1. SUFFICES ASSUME NEW h \in Members(chan'), h \in Hints
                   PROVE  ChanHint(h)'
      OBVIOUS
    <3>2. ChanHint(h) /\ h.run \in Runs
      BY <1>6, <3>1, CommandKinds DEF HintsOK
    <3> QED
      BY <1>3, <1>6, <3>2 DEF ChanHint
  <2>2. \A r \in hand' : state'[r] # "none"
    BY <1>2, <1>3, <1>5 DEF HintsOK
  <2>3. \A r \in Members(work)' : state'[r] # "none" /\ row'[r] # "shell"
    BY <1>2, <1>3, <1>4 DEF HintsOK
  <2>4. PhasesOK'
    BY <1>2, <1>6 DEF PhasesOK
  <2> QED
    BY <1>3, <1>6, <2>1, <2>2, <2>3, <2>4 DEF HintsOK
<1>7. ASSUME chan # <<>>
      PROVE  Members(Tail(chan)) \subseteq Members(chan) /\ Head(chan) \in Members(chan)
  BY <1>1, <1>7, TakesHead
<1>8. sup.active # 0 => sup.active \in Runs
  BY <1>1, TurnAssumption DEF Runs
<1>9. \A h \in Hints : h.run \in Runs
  BY CommandKinds
<1>10. sup.at \in {"starting", "failing"} => sup.hint.run \in Runs
  BY <1>9 DEF Where
<1> USE DEF HintsOK, PhasesOK
<1>11. CASE RetireCheck
  <2>1. Base
    BY <1>1, <1>4, <1>8, <1>11, RetireCheckDoes DEF KeepsTurn, KeepsQueue, KeepsEnd
  <2> QED
    BY <1>6, <2>1
<1>12. CASE Exit
  <2>1. Base
    BY <1>1, <1>4, <1>8, <1>12, ExitDoes DEF KeepsTurn, KeepsQueue, KeepsEnd
  <2> QED
    BY <1>6, <2>1
<1>13. CASE TakeDeferredShell
  <2>1. Base
    BY <1>1, <1>4, <1>8, <1>13, TakeDeferredShellDoes DEF KeepsTurn, KeepsEnd
  <2> QED
    BY <1>6, <2>1
<1>14. CASE Refill
  <2>1. sup'.queue \in Seq(Hints)
    BY <1>1, <1>14, RefillDoes DEF SupType
  <2>2. \A h \in Members(sup'.queue) : h.run \in Runs
    BY <1>9, <2>1, SeqMembers
  <2>3. \A h \in Members(sup'.queue) : state[h.run] # "none"
    BY <1>1, <1>14, RefillDoes
  <2>4. Base
    BY <1>1, <1>8, <1>14, <2>2, <2>3, RefillDoes DEF KeepsTurn, KeepsEnd
  <2> QED
    BY <1>6, <2>4
<1>15. CASE Pop
  <2>1. Base
    BY <1>1, <1>4, <1>8, <1>15, PopDoes DEF KeepsTurn, KeepsEnd
  <2> QED
    BY <1>6, <2>1
<1>16. CASE Wait \/ IdleFires
  <2>1. Base
    BY <1>1, <1>4, <1>8, <1>16, WaitDoes DEF KeepsTurn, KeepsQueue, KeepsEnd
  <2> QED
    BY <1>6, <2>1
<1>17. CASE Settle
  <2>1. Base
    BY <1>1, <1>4, <1>8, <1>17, SettleDoes DEF KeepsTurn, KeepsQueue, KeepsEnd, Where
  <2> QED
    BY <1>6, <2>1
<1>18. CASE Start
  <2>1. sup.at = "starting" /\ sup.hint \in Hints
    BY <1>18 DEF Start, Where
  <2>2. Base
    BY <1>1, <1>4, <1>10, <1>18, <2>1, StartDoes DEF KeepsQueue, KeepsEnd
  <2> QED
    BY <1>6, <2>2
<1>19. CASE StartFails
  <2>1. Base
    BY <1>1, <1>4, <1>8, <1>10, <1>19, StartFailsDoes DEF KeepsTurn, KeepsQueue, KeepsEnd
  <2> QED
    BY <1>6, <2>1
<1>20. CASE FailStart
  <2>1. Base
    BY <1>1, <1>4, <1>8, <1>20, FailStartDoes DEF KeepsTurn, KeepsQueue, KeepsEnd, TurnInv
  <2> QED
    BY <1>6, <2>1
<1>21. CASE Outcome
  <2>1. Base
    BY <1>1, <1>4, <1>21, OutcomeDoes DEF KeepsQueue, KeepsEnd
  <2> QED
    BY <1>6, <2>1
<1>22. CASE ShellEnds \/ ShellWake
  <2>1. Base
    BY <1>1, <1>4, <1>8, <1>22, ShellDoes DEF KeepsTurn, KeepsQueue, KeepsEnd
  <2> QED
    BY <1>6, <2>1
<1>23. CASE TakeSubmit
  <2>1. /\ chan # <<>> /\ chan' = Tail(chan) /\ Head(chan) \in Hints
        /\ KeepsTurn /\ KeepsEnd /\ sup'.hint = sup.hint
    BY <1>1, <1>23, TakeSubmitDoes
  <2>2. /\ \/ Members(sup'.queue) = Members(sup.queue)
           \/ Members(sup'.queue) = Members(sup.queue) \cup {Head(chan)}
        /\ sup'.at \in {Again, "settle"}
        /\ ready' \in {0, ready} /\ phase' \in {phase, "draining"}
    BY <1>1, <1>23, TakeSubmitDoes
       DEF AdmitQueues, AdmitOverflows, AdmitFails, AdmitDrops, Answered
  <2>3. Head(chan).run \in Runs /\ state[Head(chan).run] # "none"
    BY <1>7, <1>9, <2>1 DEF ChanHint
  <2>4. sup'.at \notin {"starting", "failing"}
    BY <2>2 DEF Again
  <2>5. Base
    BY <1>4, <1>7, <1>8, <2>1, <2>2, <2>3, <2>4 DEF KeepsTurn, KeepsEnd
  <2> QED
    BY <1>6, <2>5
<1>24. CASE TakeShell
  <2>1. Base
    BY <1>1, <1>4, <1>7, <1>8, <1>24, TakeShellDoes DEF KeepsTurn, KeepsEnd
  <2> QED
    BY <1>6, <2>1
<1>25. CASE TakeRetire
  <2>1. Base
    BY <1>1, <1>4, <1>7, <1>8, <1>25, TakeRetireDoes DEF KeepsTurn, KeepsQueue, KeepsEnd, Again
  <2> QED
    BY <1>6, <2>1
<1>26. CASE TakeShutdown
  <2>1. chan # <<>> /\ chan' = Tail(chan) /\ Head(chan).via = "shutdown"
    BY <1>1, <1>26, TakeShutdownDoes
  <2>2. phase \notin {"up", "handing"}
    BY <1>7, <2>1
  <2>3. Base
    BY <1>1, <1>4, <1>7, <1>8, <1>26, <2>1, <2>2, TakeShutdownDoes DEF KeepsTurn
  <2> QED
    BY <1>6, <2>3
<1>27. CASE TakeWake
  <2>1. Base
    BY <1>1, <1>4, <1>8, <1>27, TakeWakeDoes DEF KeepsTurn, KeepsEnd, Again
  <2> QED
    BY <1>6, <2>1
<1>28. CASE ExpireQueued
  <2>1. sup.hint \in Hints
    BY <1>28 DEF ExpireQueued, Where
  <2>2. Base
    BY <1>1, <1>4, <1>8, <1>28, <2>1, ExpireQueuedDoes DEF KeepsTurn, KeepsEnd
  <2> QED
    BY <1>6, <2>2
<1> HIDE DEF HintsOK, PhasesOK
<1> QED
  BY <1>11, <1>12, <1>13, <1>14, <1>15, <1>16, <1>17, <1>18, <1>19, <1>20, <1>21, <1>22, <1>23,
     <1>24, <1>25, <1>26, <1>27, <1>28 DEF Supervisor, TakeCommand

(* Of everybody else's.                                                    *)
LEMMA OthersHints ==
  ASSUME TurnInv, Typed, Where, RowsOK, HintsOK, PhasesOK, [Next]_vars, ~Supervisor
  PROVE  HintsOK' /\ PhasesOK'
<1>1. /\ sup \in SupType /\ chan \in Seq(Commands) /\ work \in Seq(Runs)
      /\ row \in [Runs -> {"none", "held", "removed", "consumed", "shell"}]
      /\ sup.active \in 0..MaxRuns /\ hand \subseteq Runs
  BY DEF Typed, SupType
<1>2. \A r \in Runs : state[r] # "none" => state'[r] # "none" /\ (row'[r] = "shell" <=> row[r] = "shell")
  BY AcceptedStay
<1>3. /\ Members(chan) \subseteq Commands /\ Members(work) \subseteq Runs
      /\ \A h \in Members(sup.queue) : h.run \in Runs
      /\ sup.active # 0 => sup.active \in Runs
      /\ sup.at \in {"starting", "failing"} => sup.hint.run \in Runs
      /\ \A h \in Hints : h.run \in Runs
  BY <1>1, MemberTypes, CommandKinds, TurnAssumption DEF Where, Runs
<1>4. slot = "none" => Members(chan) = {}
  BY DEF Where, Gone
<1>5. phase = "recovering" => slot = "none"
  BY DEF TurnInv, SweepOK
(* Each group of steps leaves one of the following alone. *)
<1> DEFINE Sup == /\ \A h \in Members(sup'.queue) : h \in Members(sup.queue)
                  /\ sup'.at \in {"starting", "failing"} => sup'.at = sup.at /\ sup'.hint = sup.hint
                  /\ sup'.active \in {0, sup.active}
                  /\ sup'.kept => sup.kept
                  /\ sup'.stopping => sup.stopping
           Work == Members(work') = Members(work)
           Chan == Members(chan') = Members(chan)
           Phase == /\ phase' = "up" => phase = "up" \/ (ready = 0 /\ Members(work) = {})
                    /\ phase' \in {"up", "handing"} => phase \in {"up", "handing"} \/ slot = "none"
                    /\ phase' \in {"handing", "recovering"} =>
                         phase \in {"handing", "recovering"} \/ Members(chan') = {}
<1>6. ASSUME Sup
      PROVE  /\ \A h \in Members(sup'.queue) : state'[h.run] # "none"
             /\ sup'.at \in {"starting", "failing"} => state'[sup'.hint.run] # "none"
             /\ sup'.active # 0 => state'[sup'.active] # "none"
  BY <1>2, <1>3, <1>6 DEF HintsOK
<1>7. ASSUME \A h \in Members(chan') : h \in Members(chan), ready' \in {0, ready}, Phase
      PROVE  \A h \in Members(chan') : h \in Hints => ChanHint(h)'
  <2>1. SUFFICES ASSUME NEW h \in Members(chan'), h \in Hints
                 PROVE  ChanHint(h)'
    OBVIOUS
  <2>2. ChanHint(h) /\ h.run \in Runs
    BY <1>3, <1>7, <2>1 DEF HintsOK
  <2>3. phase' \in {"handing", "recovering"} => phase \in {"handing", "recovering"}
    BY <1>7, <2>1
  <2> QED
    BY <1>2, <1>7, <2>2, <2>3 DEF ChanHint
<1>8. ASSUME \A r \in Members(work') : r \in Members(work)
      PROVE  \A r \in Members(work') : state'[r] # "none" /\ row'[r] # "shell"
  BY <1>2, <1>3, <1>8 DEF HintsOK
<1>9. ASSUME hand' \subseteq hand \cup Accepted
      PROVE  \A r \in hand' : state'[r] # "none"
  BY <1>1, <1>2, <1>9 DEF HintsOK, Accepted
<1>10. ASSUME Sup, \A h \in Members(chan') : h.via = "shutdown" => h \in Members(chan),
              phase' \in {"up", "handing"} => phase \in {"up", "handing"} \/ slot = "none"
       PROVE  phase' \in {"up", "handing"} =>
                ~sup'.kept /\ ~sup'.stopping /\ \A c \in Members(chan') : c.via # "shutdown"
  <2>1. slot = "none" => ~sup.kept /\ ~sup.stopping /\ Members(chan) = {}
    BY DEF Where, Gone
  <2> QED
    BY <1>10, <2>1 DEF PhasesOK
(* The steps that leave the supervisor, the channel and the work alone. *)
<1>11. ASSUME Sup, Chan, Work, ready' \in {0, ready}, Phase,
              \A r \in hand' : state'[r] # "none"
       PROVE  HintsOK' /\ PhasesOK'
  <2>1. HintsOK'
    BY <1>6, <1>7, <1>8, <1>11 DEF HintsOK
  <2>2. phase' = "up" => ready' = 0 /\ Members(work') = {}
    BY <1>11 DEF PhasesOK
  <2> QED
    BY <1>10, <1>11, <2>1, <2>2 DEF PhasesOK
<1>12. CASE \E r \in Runs : Cancel(r) \/ Unqueue(r)
  <2>1. PICK r \in Runs : Cancel(r) \/ Unqueue(r)
    BY <1>12
  <2>2. KeepsAll /\ UNCHANGED <<phase, hand, slot, chan, work, ready>>
    BY <1>1, <2>1, CancelDoes
  <2>3. Sup
    BY <2>2 DEF KeepsAll, KeepsPlace, KeepsTurn, KeepsQueue, KeepsEnd
  <2> QED
    BY <1>9, <1>11, <2>2, <2>3
<1>13. CASE HarnessBegins \/ HarnessStep \/ HarnessEnds \/ HarnessPanics
  <2>1. /\ KeepsPlace /\ KeepsQueue /\ KeepsEnd /\ sup'.active = sup.active
        /\ UNCHANGED <<phase, hand, slot, chan, work, ready>>
    BY <1>1, <1>13, HarnessDoes
  <2>2. Sup
    BY <2>1 DEF KeepsPlace, KeepsQueue, KeepsEnd
  <2> QED
    BY <1>9, <1>11, <2>1, <2>2
<1>22. CASE Budget
  <2>1. /\ sup'.at \in {"live", "expiring"} /\ KeepsTurn /\ KeepsQueue /\ KeepsEnd
        /\ UNCHANGED <<phase, hand, slot, chan, work, ready>>
    BY <1>1, <1>22, BudgetDoes
  <2>2. Sup
    BY <2>1 DEF KeepsTurn, KeepsQueue, KeepsEnd
  <2> QED
    BY <1>9, <1>11, <2>1, <2>2
<1>14. CASE Accept \/ AcceptShell
  <2>1. /\ NextRun \in Runs /\ state'[NextRun] # "none"
        /\ hand' = hand \cup {NextRun}
        /\ UNCHANGED <<phase, slot, chan, work, ready, sup>>
    BY <1>14 DEF Accept, AcceptShell, manager, startup, TurnInv, StateOK
  <2>2. \A r \in hand' : state'[r] # "none"
    BY <1>1, <1>2, <2>1 DEF HintsOK
  <2> QED
    BY <1>11, <2>1, <2>2
<1>15. CASE \/ \E r \in Runs : Repeat(r) \/ HandOffFails(r)
            \/ SweepRun \/ SweepEnds \/ BeginDraining \/ DrainSweep \/ RecoveryRead \/ Listen
            \/ UNCHANGED vars
  <2>1. UNCHANGED <<slot, chan, work, sup>> /\ ready' \in {0, ready}
    BY <1>15 DEF Repeat, HandOffFails, SweepRun, SweepEnds, BeginDraining, DrainSweep, RecoveryRead,
                 Listen, vars, manager, startup
  <2>2. hand' \subseteq hand \cup Accepted
    BY <1>15 DEF Repeat, HandOffFails, SweepRun, SweepEnds, BeginDraining, DrainSweep, RecoveryRead,
                 Listen, vars
  <2>3. \/ phase' \in {phase, "down", "draining", "sweeping"}
        \/ phase = "recovering" /\ phase' = "handing"
        \/ phase = "handing" /\ phase' = "up" /\ ready = 0 /\ work = <<>>
    BY <1>15 DEF Repeat, HandOffFails, SweepRun, SweepEnds, BeginDraining, DrainSweep, RecoveryRead,
                 Listen, vars
  <2>4. work = <<>> => Members(work) = {}
    BY DEF Members
  <2>5. Phase
    BY <1>5, <2>3, <2>4
  <2> QED
    BY <1>9, <1>11, <2>1, <2>2, <2>5
<1>16. CASE RecoverRun
  <2>1. phase = "recovering" /\ UNCHANGED <<phase, hand, slot, chan, sup, row>>
    BY <1>16 DEF RecoverRun, manager
  <2>2. Members(chan') = {}
    BY <1>4, <1>5, <2>1
  <2>3. At \in Runs /\ state[At] # "none" /\ (work' = work \/ (work' = Append(work, At) /\ state[At] \in Resumable))
    BY <1>16 DEF RecoverRun, Accepted
  <2>4. state[At] \in Resumable => row[At] # "shell"
    BY <2>3 DEF RowsOK, Resumable, Waiting, Ended
  <2>5. Members(Append(work, At)) = Members(work) \cup {At}
    BY <1>1, <2>3, SeqAppend
  <2>6. \A r \in Members(work') : state'[r] # "none" /\ row'[r] # "shell"
    BY <1>2, <1>3, <2>1, <2>3, <2>4, <2>5 DEF HintsOK
  <2>7. HintsOK'
    BY <1>6, <1>9, <2>1, <2>2, <2>6 DEF HintsOK
  <2> QED
    BY <2>1, <2>7 DEF PhasesOK
<1>17. CASE ManagerShutdown
  <2>1. /\ UNCHANGED <<hand, sup, work, ready, slot>> /\ phase' = "settling"
        /\ chan' = chan \/ chan' = Append(chan, Shutdown)
    BY <1>17 DEF ManagerShutdown, manager, startup
  <2>2. /\ Shutdown \in Commands /\ Shutdown \notin Hints
        /\ Members(Append(chan, Shutdown)) = Members(chan) \cup {Shutdown}
    BY <1>1, CommandKinds, SeqAppend
  <2>3. ASSUME NEW h \in Members(chan'), h \in Hints
        PROVE  ChanHint(h)'
    <3>1. ChanHint(h) /\ h.run \in Runs
      BY <1>3, <2>1, <2>2, <2>3 DEF HintsOK
    <3> QED
      BY <1>2, <2>1, <3>1 DEF ChanHint
  <2>4. HintsOK'
    BY <1>6, <1>8, <1>9, <2>1, <2>3 DEF HintsOK
  <2> QED
    BY <2>1, <2>4 DEF PhasesOK
<1>18. CASE RetireSession \/ \E e \in {"expired", "refused"} : TakeEvent(e)
  <2>1. UNCHANGED <<hand, sup, work, ready, phase>>
    BY <1>18 DEF RetireSession, TakeEvent, durable, startup
  <2>2. chan' = chan \/ \E b \in BOOLEAN : chan' = Append(chan, Retire(b))
    BY <1>18 DEF RetireSession, TakeEvent, RequestRetirement
  <2>3. \A b \in BOOLEAN : /\ Retire(b) \notin Hints /\ Retire(b).via # "shutdown"
                           /\ Members(Append(chan, Retire(b))) = Members(chan) \cup {Retire(b)}
    BY <1>1, CommandKinds, SeqAppend
  <2>4. ASSUME NEW h \in Members(chan'), h \in Hints
        PROVE  ChanHint(h)'
    <3>1. ChanHint(h) /\ h.run \in Runs
      BY <1>3, <2>2, <2>3, <2>4 DEF HintsOK
    <3> QED
      BY <1>2, <2>1, <3>1 DEF ChanHint
  <2>5. HintsOK'
    BY <1>6, <1>8, <1>9, <2>1, <2>4 DEF HintsOK
  <2>6. \A h \in Members(chan') : h.via = "shutdown" => h \in Members(chan)
    BY <2>2, <2>3
  <2> QED
    BY <2>1, <2>5, <2>6 DEF PhasesOK
<1>19. CASE Join \/ Crash \/ Restart
  <2>1. sup' = NoSup /\ chan' = <<>>
    BY <1>19 DEF Join, Crash, Restart, NewProcess
  <2>2. Members(chan') = {} /\ Members(<<>>) = {}
    BY <2>1 DEF Members
  <2>3. Gone' /\ sup'.active = 0
    BY <2>1, <2>2, NoSupIs
  <2>4. CASE Join
    <3>1. UNCHANGED <<hand, work, ready, phase>>
      BY <2>4 DEF Join, startup
    <3>2. HintsOK'
      BY <1>8, <1>9, <2>2, <2>3, <3>1 DEF HintsOK, Gone
    <3> QED
      BY <2>2, <2>3, <3>1, <3>2 DEF PhasesOK, Gone
  <2>5. CASE NewProcess
    <3>1. hand' = {} /\ work' = <<>> /\ phase' = "recovering"
      BY <2>5 DEF NewProcess
    <3> QED
      BY <2>2, <2>3, <3>1 DEF HintsOK, PhasesOK, Gone
  <2> QED
    BY <1>19, <2>4, <2>5 DEF Crash, Restart
<1>20. CASE HandOver
  <2>1. /\ phase = "handing" /\ ready = 0 /\ work # <<>> /\ Send(Hint(Head(work), "recovered"))
        /\ ready' = Head(work) /\ work' = Tail(work) /\ UNCHANGED <<phase, hand, row, state>>
    BY <1>20 DEF HandOver, durable
  <2> DEFINE h == Hint(Head(work), "recovered")
  <2>2. /\ Head(work) \in Members(work) /\ Head(work) \in Runs
        /\ Members(work) = Members(Tail(work)) \cup {Head(work)}
    BY <1>1, <2>1, SeqTail
  <2>3. h \in Hints /\ h.run = Head(work) /\ h.via = "recovered"
    BY <2>2, HintTypes
  <2>4. \/ slot = "none" /\ sup' = Fresh /\ Members(chan') = {h}
        \/ sup' = sup /\ Members(chan') = Members(chan) \cup {h}
    BY <2>1, <2>3, SendDoes
  <2> HIDE DEF h
  <2>5. ASSUME NEW c \in Members(chan'), c \in Hints
        PROVE  ChanHint(c)'
    <3>1. CASE c = h
      BY <2>1, <2>2, <2>3, <3>1 DEF ChanHint, HintsOK
    <3>2. CASE c # h
      <4>1. ChanHint(c)
        BY <2>4, <2>5, <3>2 DEF HintsOK
      <4> QED
        BY <2>1, <4>1 DEF ChanHint
    <3> QED
      BY <3>1, <3>2
  <2>6. Sup
    BY <2>4, FreshIs
  <2>7. HintsOK'
    BY <1>6, <1>8, <1>9, <2>1, <2>2, <2>5, <2>6 DEF HintsOK
  <2>8. \A c \in Members(chan') : c.via = "shutdown" => c \in Members(chan)
    BY <2>3, <2>4
  <2> QED
    BY <1>10, <2>1, <2>6, <2>7, <2>8 DEF PhasesOK
<1>21. CASE \E r \in Runs : HandOff(r)
  <2>1. PICK r \in Runs : /\ phase = "up" /\ r \in hand /\ Send(Hint(r, Via(r)))
                          /\ hand' = hand \ {r} /\ UNCHANGED <<phase, row, state, work, ready>>
    BY <1>21 DEF HandOff, durable, startup
  <2> DEFINE h == Hint(r, Via(r))
  <2>2. h \in Hints /\ h.run = r /\ h.via \in {"started", "queued", "shell"} /\ (h.via = "shell" <=> row[r] = "shell")
    BY HintTypes
  <2>3. \/ slot = "none" /\ sup' = Fresh /\ Members(chan') = {h}
        \/ sup' = sup /\ Members(chan') = Members(chan) \cup {h}
    BY <2>1, <2>2, SendDoes
  <2> HIDE DEF h
  <2>4. ASSUME NEW c \in Members(chan'), c \in Hints
        PROVE  ChanHint(c)'
    <3>1. CASE c = h
      BY <2>1, <2>2, <3>1 DEF ChanHint, HintsOK, PhasesOK
    <3>2. CASE c # h
      <4>1. ChanHint(c)
        BY <2>3, <2>4, <3>2 DEF HintsOK
      <4> QED
        BY <2>1, <4>1 DEF ChanHint
    <3> QED
      BY <3>1, <3>2
  <2>5. Sup
    BY <2>3, FreshIs
  <2>6. HintsOK'
    BY <1>6, <1>8, <1>9, <2>1, <2>4, <2>5 DEF HintsOK
  <2>7. \A c \in Members(chan') : c.via = "shutdown" => c \in Members(chan)
    BY <2>2, <2>3
  <2> QED
    BY <1>10, <2>1, <2>5, <2>6, <2>7 DEF PhasesOK
<1> HIDE DEF Sup, Work, Chan, Phase
<1> QED
  BY <1>12, <1>13, <1>14, <1>15, <1>16, <1>17, <1>18, <1>19, <1>20, <1>21,
     <1>22 DEF Next, Clients, Manager, Drain, Startup

-----------------------------------------------------------------------------
(* One thing at a time. *)

(* A harness that is through has left its run cancelling or over.          *)
OutcomeOK == sup.out = "ended" => state[sup.active] \in {"cancelling"} \cup Ended

(* A run that the journal calls running is the turn at work, or recovered  *)
(* work whose turn has not come, or not read yet.                          *)
RunningOK ==
    \A r \in Runs : state[r] = "running" =>
       \/ r = sup.active \/ r \in Members(work)
       \/ IF phase = "recovering" THEN r > ready ELSE r = ready

(* The run that is at work, or about to be.                                *)
Chosen(r) == r = sup.active \/ (sup.at = "starting" /\ r = sup.hint.run)

(* No shell command beside it.                                             *)
ShellOK ==
    \A x \in Runs : Chosen(x) /\ state[x] \in Open => \A r \in Runs \ {x} : state[r] # "shell"

Layers == TurnInv /\ Typed /\ Where /\ RowsOK /\ HintsOK /\ PhasesOK

(* Nobody takes up again what the harness left.                            *)
LEMMA OutcomeStep ==
  ASSUME Layers, OutcomeOK, [Next]_vars
  PROVE  OutcomeOK'
<1> USE DEF Layers
<1>1. sup \in SupType /\ chan \in Seq(Commands) /\ sup.active \in 0..MaxRuns
      /\ row \in [Runs -> {"none", "held", "removed", "consumed", "shell"}] /\ SupOK
  BY DEF Typed, SupType, TurnInv
(* A run that is cancelling or over stays so. *)
<1>2. ASSUME sup'.out = sup.out, sup'.active = sup.active
      PROVE  OutcomeOK'
  <2>1. SUFFICES ASSUME sup.out = "ended"
                 PROVE  state'[sup.active] \in {"cancelling"} \cup Ended
    BY <1>2 DEF OutcomeOK
  <2>2. sup.active \in Runs /\ state[sup.active] \in {"cancelling"} \cup Ended
    BY <1>1, <2>1, TurnAssumption DEF OutcomeOK, Where, Runs
  <2>3. CASE Accept \/ AcceptShell
    BY <2>2, <2>3, Accepts DEF TurnInv, Ended
  <2>4. CASE ~Accept /\ ~AcceptShell
    <3>1. Final(sup.active)
      BY <2>2, <2>4, StepLawful DEF Lawful
    <3> QED
      BY <2>2, <3>1 DEF Final, Ended
  <2> QED
    BY <2>3, <2>4
<1>3. CASE sup'.out # "ended"
  BY <1>3 DEF OutcomeOK
<1>4. CASE Supervisor
  <2>1. \/ KeepsTurn
        \/ sup'.out = "none"
    <3>1. CASE RetireCheck \/ Exit \/ TakeDeferredShell \/ Refill \/ Wait \/ IdleFires \/ Settle
      BY <1>1, <3>1, RetireCheckDoes, ExitDoes, TakeDeferredShellDoes, RefillDoes, WaitDoes, SettleDoes
    <3>2. CASE Pop \/ StartFails \/ FailStart \/ Outcome \/ ShellEnds \/ ShellWake
      BY <1>1, <3>2, PopDoes, StartFailsDoes, FailStartDoes, OutcomeDoes, ShellDoes
    <3>3. CASE Start
      <4>1. sup.hint \in Hints
        BY <3>3 DEF Start, Where
      <4> QED
        BY <1>1, <3>3, <4>1, StartDoes
    <3>4. CASE TakeSubmit \/ TakeShell \/ TakeRetire \/ TakeShutdown \/ TakeWake
      BY <1>1, <3>4, TakeSubmitDoes, TakeShellDoes, TakeRetireDoes, TakeShutdownDoes, TakeWakeDoes
    <3>5. CASE ExpireQueued
      <4>1. sup.hint \in Hints
        BY <3>5 DEF ExpireQueued, Where
      <4> QED
        BY <1>1, <3>5, <4>1, ExpireQueuedDoes
    <3> QED
      BY <1>4, <3>1, <3>2, <3>3, <3>4, <3>5 DEF Supervisor, TakeCommand
  <2> QED
    BY <1>2, <1>3, <2>1 DEF KeepsTurn
<1>5. CASE Budget \/ \E r \in Runs : Cancel(r) \/ Unqueue(r)
  <2>1. KeepsTurn
    BY <1>1, <1>5, CancelDoes, BudgetDoes DEF KeepsAll
  <2> QED
    BY <1>2, <2>1 DEF KeepsTurn
<1>6. CASE HarnessBegins \/ HarnessStep \/ HarnessEnds \/ HarnessPanics
  <2>2. \/ sup'.out # "ended"
        \/ /\ sup'.active = sup.active
           /\ \/ state[sup.active] \in {"cancelling"} \cup Ended /\ state' = state
              \/ \E s \in Ended : state' = [state EXCEPT ![sup.active] = s]
    BY <1>1, <1>6, HarnessDoes
  <2>3. CASE sup'.active = sup.active /\ state[sup.active] \in {"cancelling"} \cup Ended /\ state' = state
    BY <2>3 DEF OutcomeOK
  <2>4. ASSUME NEW s \in Ended, sup'.active = sup.active, state' = [state EXCEPT ![sup.active] = s]
        PROVE  OutcomeOK'
    <3>1. sup.active \in DOMAIN state => state'[sup.active] = s
      BY <2>4
    <3>2. sup.active \in DOMAIN state
      BY <1>1, <1>6, HarnessDoes, TurnAssumption DEF TurnInv, StateOK, Runs
    <3> QED
      BY <2>4, <3>1, <3>2 DEF OutcomeOK
  <2> QED
    BY <1>3, <2>2, <2>3, <2>4
<1>7. CASE sup' = Fresh \/ sup' = NoSup
  <2>1. Fresh.out = "none" /\ NoSup.out = "none"
    BY DEF Fresh, NoSup
  <2> QED
    BY <1>3, <1>7, <2>1
<1>8. ASSUME \/ Accept \/ AcceptShell
             \/ \E r \in Runs : Repeat(r) \/ HandOff(r) \/ HandOffFails(r)
             \/ \E e \in {"expired", "refused"} : TakeEvent(e)
             \/ RetireSession \/ Join \/ SweepRun \/ SweepEnds
             \/ BeginDraining \/ ManagerShutdown \/ DrainSweep \/ Crash \/ Startup
             \/ UNCHANGED vars
      PROVE  sup' = sup \/ sup' = Fresh \/ sup' = NoSup
  BY <1>8 DEF Accept, AcceptShell, Repeat, HandOff, HandOffFails, Send, TakeEvent, RetireSession,
              Join, SweepRun, SweepEnds, BeginDraining,
              ManagerShutdown, DrainSweep, Crash, Startup, RecoverRun, RecoveryRead, HandOver,
              Listen, Restart, NewProcess, vars, manager
<1> QED
  BY <1>2, <1>4, <1>5, <1>6, <1>7, <1>8 DEF Next, Clients, Manager, Drain

(* A run that becomes running is the turn at work.                         *)
LEMMA BecomesRunning ==
  ASSUME Layers, [Next]_vars, NEW r \in Runs, state'[r] = "running"
  PROVE  state[r] = "running" \/ (r = sup.active /\ sup'.active = sup.active)
<1>1. CASE Accept \/ AcceptShell
  <2>1. NextRun \in Runs /\ \E s \in {"queued", "shell"} : state' = [state EXCEPT ![NextRun] = s]
    BY <1>1 DEF Accept, AcceptShell
  <2> QED
    BY <2>1 DEF Layers, TurnInv, StateOK
<1>2. CASE ~Accept /\ ~AcceptShell
  <2>1. MovesRun(r)
    BY <1>2, StepMoves DEF Layers
  <2> QED
    BY <2>1 DEF MovesRun, Ended
<1> QED
  BY <1>1, <1>2

(* A run that is terminalized and was neither over nor cancelling is over. *)
LEMMA TerminalizedIsOver ==
  ASSUME StateOK, NEW r \in Runs, Terminates(r)
  PROVE  state'[r] \notin {"queued", "running", "shell"} \cup Waiting
<1>1. PICK end \in Ends : state' = Terminalized(r, end)
  BY DEF Terminates
<1> DEFINE s == IF end = "budget" THEN "errored" ELSE end
<1>2. s \in Ended
  BY DEF Ends, Ended
<1>3. CASE state' = state
  <2>1. ~(state[r] \in Open \ {"cancelling"})
    <3>1. SUFFICES ASSUME state[r] \in Open \ {"cancelling"}
                   PROVE  FALSE
      OBVIOUS
    <3>2. state' = [state EXCEPT ![r] = s]
      BY <1>1, <3>1 DEF Terminalized
    <3>3. state'[r] = s
      BY <3>2 DEF StateOK
    <3> QED
      BY <1>2, <1>3, <3>1, <3>3 DEF Open, Ended, Waiting
  <2> QED
    BY <1>3, <2>1 DEF StateOK, States, Open, Waiting
<1>4. CASE state' = [state EXCEPT ![r] = s]
  BY <1>2, <1>4 DEF StateOK, Ended, Waiting
<1> QED
  BY <1>1, <1>3, <1>4 DEF Terminalized

(* The supervisor's steps do not lose a running turn.                      *)
LEMMA SupervisorRunning ==
  ASSUME Layers, OutcomeOK, RunningOK, Supervisor, NEW r \in Runs, state'[r] = "running"
  PROVE  r = sup'.active \/ r \in Members(work') \/ r = ready'
<1> USE DEF Layers
<1>1. /\ sup \in SupType /\ chan \in Seq(Commands) /\ sup.active \in 0..MaxRuns
      /\ row \in [Runs -> {"none", "held", "removed", "consumed", "shell"}]
      /\ StateOK /\ SupOK /\ r # 0
  BY CommandKinds DEF Typed, SupType, TurnInv
<1>2. work' = work /\ phase # "recovering"
  BY SupervisorFrame, WorkNeedsSlot DEF TurnInv
<1>3. state[r] = "running" \/ (r = sup.active /\ sup'.active = sup.active)
  BY BecomesRunning DEF Next
<1>4. SUFFICES ASSUME r \notin Members(work), state[r] = "running", r = sup.active \/ r = ready
               PROVE  r = sup'.active \/ r = ready'
  BY <1>2, <1>3 DEF RunningOK
<1>6. CASE sup'.active = sup.active /\ ready' = ready
  BY <1>4, <1>6
<1>7. CASE RetireCheck \/ Exit \/ TakeDeferredShell \/ Refill \/ Wait \/ IdleFires \/ Settle
           \/ Pop \/ StartFails \/ ShellEnds \/ ShellWake \/ TakeShell \/ TakeRetire \/ TakeWake
           \/ ExpireQueued
  <2>2. ExpireQueued => sup.hint \in Hints
    BY DEF ExpireQueued, Where
  <2>1. KeepsTurn /\ ready' = ready
    BY <2>2, ExpireQueuedDoes, <1>1, <1>7, RetireCheckDoes, ExitDoes, TakeDeferredShellDoes, RefillDoes, WaitDoes, SettleDoes,
       PopDoes, StartFailsDoes, ShellDoes, TakeShellDoes, TakeRetireDoes, TakeWakeDoes
  <2> QED
    BY <1>6, <2>1 DEF KeepsTurn
<1>8. CASE Start
  <2>1. sup.hint \in Hints /\ sup.active = 0
    BY <1>8 DEF Start, Where
  <2>2. sup'.active = sup.hint.run /\ ready' = IF sup.hint.run = ready THEN 0 ELSE ready
    BY <1>1, <1>8, <2>1, StartDoes
  <2> QED
    BY <1>1, <1>4, <2>1, <2>2
<1>9. CASE FailStart
  <2>1. /\ KeepsTurn /\ Terminates(sup.hint.run)
        /\ ready' = IF sup.hint.run = ready THEN 0 ELSE ready
    BY <1>1, <1>9, FailStartDoes
  <2>3. CASE r = sup.hint.run
    BY <1>1, <2>1, <2>3, TerminalizedIsOver
  <2> QED
    BY <1>4, <2>1, <2>3 DEF KeepsTurn
<1>10. CASE Outcome
  <2>1. /\ ready' = ready
        /\ (sup.out = "ended" /\ state' = state) \/ Terminates(sup.active)
    BY <1>1, <1>10, OutcomeDoes
  <2>2. r # sup.active
    <3>1. SUFFICES ASSUME r = sup.active
                   PROVE  FALSE
      OBVIOUS
    <3>2. CASE sup.out = "ended" /\ state' = state
      BY <1>4, <3>1, <3>2 DEF OutcomeOK, Ended
    <3>4. CASE Terminates(sup.active)
      BY <1>1, <3>1, <3>4, TerminalizedIsOver
    <3> QED
      BY <2>1, <3>2, <3>4
  <2> QED
    BY <1>4, <2>1, <2>2
<1>11. CASE TakeShutdown
  <2>1. ready' = ready /\ (KeepsTurn \/ state[sup.active] \in Waiting)
    BY <1>1, <1>11, TakeShutdownDoes
  <2> QED
    BY <1>4, <2>1 DEF KeepsTurn, Waiting
<1>12. CASE TakeSubmit
  <2> DEFINE h == Head(chan)
  <2>1. /\ KeepsTurn /\ chan # <<>> /\ h \in Hints
        /\ AdmitQueues(h) \/ AdmitOverflows(h) \/ AdmitFails(h) \/ AdmitDrops(h)
    BY <1>1, <1>12, TakeSubmitDoes
  <2>2. h \in Members(chan)
    BY <1>1, <2>1, TakesHead
  <2>3. ChanHint(h)
    BY <2>1, <2>2 DEF HintsOK
  <2> HIDE DEF h
  <2>4. CASE ready' = ready
    BY <1>6, <2>1, <2>4 DEF KeepsTurn
  <2>5. CASE ready' # ready
    <3>1. ~Checkpoint(h) /\ h.run = ready
      BY <2>1, <2>5 DEF AdmitQueues, AdmitOverflows, AdmitFails, AdmitDrops, Answered, Checkpoint
    <3>2. CASE r = ready
      <4>1. h.via # "recovered"
        BY <1>4, <3>1, <3>2 DEF Checkpoint
      <4> QED
        BY <1>1, <2>3, <3>2, <4>1 DEF ChanHint
    <3> QED
      BY <1>4, <2>1, <3>2 DEF KeepsTurn
  <2> QED
    BY <2>4, <2>5
<1> QED
  BY <1>7, <1>8, <1>9, <1>10, <1>11, <1>12 DEF Supervisor, TakeCommand

(* No step does.                                                           *)
LEMMA RunningStep ==
  ASSUME Layers, OutcomeOK, RunningOK, [Next]_vars
  PROVE  RunningOK'
<1> USE DEF Layers
<1>1. SUFFICES ASSUME NEW r \in Runs, state'[r] = "running"
               PROVE  \/ r = sup'.active \/ r \in Members(work')
                      \/ IF phase' = "recovering" THEN r > ready' ELSE r = ready'
  BY DEF RunningOK
<1>2. /\ sup \in SupType /\ work \in Seq(Runs) /\ r # 0 /\ r \in Nat /\ ready \in Nat
      /\ StateOK
  BY CommandKinds, TurnAssumption DEF Typed, TurnInv
<1>3. state[r] = "running" \/ (r = sup.active /\ sup'.active = sup.active)
  BY <1>1, BecomesRunning
<1>4. CASE Supervisor
  <2>1. phase # "recovering" /\ phase' # "recovering"
    BY <1>4, WorkNeedsSlot DEF TurnInv
  <2> QED
    BY <1>1, <1>4, <2>1, SupervisorRunning
<1>5. \/ r = sup.active \/ r \in Members(work)
      \/ IF phase = "recovering" THEN r > ready ELSE r = ready
  BY <1>3 DEF RunningOK
<1>6. ASSUME sup'.active = sup.active, work' = work, ready' = ready,
             phase' = "recovering" <=> phase = "recovering"
      PROVE  \/ r = sup'.active \/ r \in Members(work')
             \/ IF phase' = "recovering" THEN r > ready' ELSE r = ready'
  BY <1>5, <1>6
<1>7. CASE \E q \in Runs : Cancel(q) \/ Unqueue(q)
  <2>1. KeepsTurn /\ UNCHANGED <<phase, work, ready>>
    BY <1>2, <1>7, CancelDoes DEF KeepsAll
  <2> QED
    BY <1>6, <2>1 DEF KeepsTurn
<1>8. CASE HarnessBegins \/ HarnessStep \/ HarnessEnds \/ HarnessPanics \/ Budget
  <2>1. sup'.active = sup.active /\ UNCHANGED <<phase, work, ready>>
    BY <1>2, <1>8, HarnessDoes, BudgetDoes DEF KeepsTurn
  <2> QED
    BY <1>6, <2>1
<1>9. CASE \/ Accept \/ AcceptShell \/ RetireSession
           \/ \E q \in Runs : Repeat(q) \/ HandOffFails(q)
           \/ \E e \in {"expired", "refused"} : TakeEvent(e)
           \/ SweepRun \/ SweepEnds \/ BeginDraining \/ ManagerShutdown \/ DrainSweep \/ Listen
           \/ UNCHANGED vars
  <2>1. /\ UNCHANGED <<sup, work, ready>>
        /\ phase' = phase \/ (phase # "recovering" /\ phase' # "recovering")
    BY <1>9 DEF Accept, AcceptShell, RetireSession, Repeat, HandOffFails, TakeEvent, SweepRun,
                SweepEnds, BeginDraining, ManagerShutdown, DrainSweep, Listen, vars, manager, startup
  <2> QED
    BY <1>6, <2>1
<1>10. CASE Join
  <2>1. UNCHANGED <<phase, work, ready>> /\ sup.at = "exited"
    BY <1>10 DEF Join, startup
  <2>2. sup.active = 0
    BY <2>1 DEF Where
  <2> QED
    BY <1>2, <1>5, <2>1, <2>2
<1>11. CASE Crash \/ Restart
  <2>1. phase' = "recovering" /\ ready' = 0
    BY <1>11 DEF Crash, Restart, NewProcess
  <2> QED
    BY <1>2, <2>1
<1>12. CASE RecoverRun
  <2>1. phase = "recovering" /\ UNCHANGED <<phase, sup>> /\ ready' = At /\ At \in Accepted
    BY <1>12 DEF RecoverRun
  <2>2. \/ work' = Append(work, At)
        \/ work' = work /\ \E s \in Ended : state' = [state EXCEPT ![At] = s]
        \/ work' = work /\ state[At] \in Ended
    BY <1>12 DEF RecoverRun, Ended
  <2>3. At \in Runs /\ Members(Append(work, At)) = Members(work) \cup {At}
    BY <1>2, <2>1, SeqAppend DEF Accepted
  <2>4. sup.active = 0
    BY <2>1 DEF TurnInv, SweepOK, SlotOK
  <2>5. r \in Members(work) \/ r > ready
    BY <1>2, <1>5, <2>1, <2>4
  <2>6. CASE r = At
    <3>1. state[r] # "running" => state' # state
      BY <1>1
    <3>2. state[r] = "running"
      BY <1>2, <1>3, <2>4
    <3>3. work' = Append(work, At)
      BY <1>1, <1>2, <2>2, <2>3, <2>6, <3>2 DEF Ended, StateOK
    <3> QED
      BY <2>3, <2>6, <3>3
  <2>7. CASE r # At
    <3>1. r > ready => r > At
      BY <1>2, <2>7 DEF At
    <3> QED
      BY <2>1, <2>2, <2>3, <2>5, <3>1
  <2> QED
    BY <2>6, <2>7
<1>13. CASE RecoveryRead
  <2>1. phase = "recovering" /\ phase' = "handing" /\ At \notin Accepted /\ UNCHANGED <<sup, work, state>>
    BY <1>13 DEF RecoveryRead, durable
  <2>2. PICK n \in 0..MaxRuns : Accepted = 1..n
    BY <1>2 DEF StateOK
  <2>3. r \in 1..n
    BY <1>1, <2>1, <2>2 DEF Accepted
  <2>4. ~(r > ready)
    BY <1>2, <2>1, <2>2, <2>3, TurnAssumption DEF At
  <2> QED
    BY <1>5, <2>1, <2>4
<1>14. CASE HandOver \/ \E q \in Runs : HandOff(q)
  <2>1. sup'.active = sup.active
    <3>1. sup' = sup \/ (slot = "none" /\ sup' = Fresh)
      BY <1>14 DEF HandOver, HandOff, Send
    <3>2. slot = "none" => sup.active = 0
      BY DEF TurnInv, SlotOK
    <3> QED
      BY <3>1, <3>2, FreshIs
  <2>2. CASE \E q \in Runs : HandOff(q)
    <3>1. UNCHANGED <<phase, work, ready>>
      BY <2>2 DEF HandOff, startup
    <3> QED
      BY <1>6, <2>1, <3>1
  <2>3. CASE HandOver
    <3>1. /\ phase = "handing" /\ ready = 0 /\ work # <<>> /\ phase' = phase
          /\ ready' = Head(work) /\ work' = Tail(work)
      BY <2>3 DEF HandOver
    <3>2. Members(work) = Members(Tail(work)) \cup {Head(work)}
      BY <1>2, <3>1, SeqTail
    <3> QED
      BY <1>2, <1>5, <2>1, <3>1, <3>2
  <2> QED
    BY <1>14, <2>2, <2>3
<1> QED
  BY <1>4, <1>7, <1>8, <1>9, <1>10, <1>11, <1>12, <1>13, <1>14
     DEF Next, Clients, Manager, Drain, Startup

(* A step of the supervisor chooses a run only when no shell command owns  *)
(* the session.                                                            *)
LEMMA SupervisorChooses ==
  ASSUME Layers, Supervisor, NEW x \in Runs, Chosen(x)'
  PROVE  Chosen(x) \/ ~ShellOwns
<1> USE DEF Layers
<1>1. /\ sup \in SupType /\ chan \in Seq(Commands) /\ sup.active \in 0..MaxRuns
      /\ row \in [Runs -> {"none", "held", "removed", "consumed", "shell"}]
      /\ x # 0 /\ SupOK
  BY CommandKinds DEF Typed, SupType, TurnInv
<1>2. ASSUME KeepsTurn, sup'.at # "starting"
      PROVE  Chosen(x)
  BY <1>2 DEF Chosen, KeepsTurn
<1>3. CASE RetireCheck \/ Exit \/ TakeDeferredShell \/ Refill \/ Wait \/ IdleFires \/ StartFails
           \/ FailStart \/ ShellEnds \/ ShellWake
  <2>1. KeepsTurn /\ sup'.at # "starting"
    BY <1>1, <1>3, RetireCheckDoes, ExitDoes, TakeDeferredShellDoes, RefillDoes, WaitDoes,
       StartFailsDoes, FailStartDoes, ShellDoes
  <2> QED
    BY <1>2, <2>1
<1>4. CASE Settle
  <2>1. KeepsTurn /\ sup'.at # "starting"
    BY <1>1, <1>4, SettleDoes DEF Where
  <2> QED
    BY <1>2, <2>1
<1>5. CASE Pop
  BY <1>1, <1>5, PopDoes
<1>6. CASE Start
  <2>1. sup.hint \in Hints
    BY <1>6 DEF Start, Where
  <2>2. sup'.active = sup.hint.run /\ sup.at = "starting" /\ sup'.at = "live"
    BY <1>1, <1>6, <2>1, StartDoes
  <2> QED
    BY <2>2 DEF Chosen
<1>7. CASE Outcome
  <2>1. sup'.active = 0 /\ sup'.at \in {"settle", "top"}
    BY <1>1, <1>7, OutcomeDoes
  <2> QED
    BY <1>1, <2>1 DEF Chosen
<1>8. Again # "starting"
  BY DEF Again
<1>9. CASE TakeSubmit
  <2>1. KeepsTurn /\ sup'.at \in {"settle", Again}
    BY <1>1, <1>9, TakeSubmitDoes DEF AdmitQueues, AdmitOverflows, AdmitFails, AdmitDrops
  <2> QED
    BY <1>2, <1>8, <2>1
<1>10. CASE TakeShell \/ TakeRetire \/ TakeWake
  <2>1. KeepsTurn /\ sup'.at \in {"shell", "select", "live", "settle", Again}
    BY <1>1, <1>10, TakeShellDoes, TakeRetireDoes, TakeWakeDoes
  <2> QED
    BY <1>2, <1>8, <2>1
<1>11. CASE TakeShutdown
  <2>1. (KeepsTurn \/ sup'.active = 0) /\ sup'.at \in {"top", "select", "live", "settle"}
    BY <1>1, <1>11, TakeShutdownDoes
  <2> QED
    BY <1>1, <1>2, <2>1 DEF Chosen
<1>12. CASE ExpireQueued
  <2>1. sup.hint \in Hints
    BY <1>12 DEF ExpireQueued, Where
  <2>2. KeepsTurn /\ sup'.at = "live"
    BY <1>1, <1>12, <2>1, ExpireQueuedDoes
  <2> QED
    BY <1>2, <2>2
<1> QED
  BY <1>3, <1>4, <1>5, <1>6, <1>7, <1>9, <1>10, <1>11, <1>12 DEF Supervisor, TakeCommand

(* Nobody else chooses one.                                                *)
LEMMA OthersChoose ==
  ASSUME Layers, [Next]_vars, ~Supervisor, NEW x \in Runs, Chosen(x)'
  PROVE  Chosen(x)
<1> USE DEF Layers
<1>1. sup \in SupType /\ x # 0
  BY CommandKinds DEF Typed, SupType
<1>2. CASE \E r \in Runs : Cancel(r) \/ Unqueue(r)
  BY <1>1, <1>2, CancelDoes DEF KeepsAll, KeepsPlace, KeepsTurn, Chosen
<1>3. CASE HarnessBegins \/ HarnessStep \/ HarnessEnds \/ HarnessPanics
  BY <1>1, <1>3, HarnessDoes DEF KeepsPlace, Chosen
<1>4. CASE sup' = Fresh \/ sup' = NoSup
  <2>1. /\ Fresh.at = "top" /\ NoSup.at = "none"
        /\ Fresh.active = 0 /\ NoSup.active = 0
    BY DEF Fresh, NoSup
  <2> QED
    BY <1>1, <1>4, <2>1 DEF Chosen
<1>5. CASE sup' = sup
  BY <1>5 DEF Chosen
<1>6. ASSUME \/ Accept \/ AcceptShell
             \/ \E r \in Runs : Repeat(r) \/ HandOff(r) \/ HandOffFails(r)
             \/ \E e \in {"expired", "refused"} : TakeEvent(e)
             \/ RetireSession \/ Join \/ SweepRun \/ SweepEnds
             \/ BeginDraining \/ ManagerShutdown \/ DrainSweep \/ Crash \/ Startup
             \/ UNCHANGED vars
      PROVE  sup' = sup \/ sup' = Fresh \/ sup' = NoSup
  BY <1>6 DEF Accept, AcceptShell, Repeat, HandOff, HandOffFails, Send, TakeEvent, RetireSession,
              Join, SweepRun, SweepEnds, BeginDraining,
              ManagerShutdown, DrainSweep, Crash, Startup, RecoverRun, RecoveryRead, HandOver,
              Listen, Restart, NewProcess, vars, manager
<1>7. CASE Budget
  BY <1>1, <1>7, BudgetDoes DEF KeepsTurn, Chosen
<1> QED
  BY <1>2, <1>3, <1>4, <1>5, <1>6, <1>7 DEF Next, Clients, Manager, Drain

(* The run that is chosen keeps the session to itself.                     *)
LEMMA ShellStep ==
  ASSUME Layers, ShellOK, [Next]_vars
  PROVE  ShellOK'
<1> USE DEF Layers
<1>1. SUFFICES ASSUME NEW x \in Runs, Chosen(x)', state'[x] \in Open, NEW r \in Runs \ {x},
                      state'[r] = "shell"
               PROVE  FALSE
  BY DEF ShellOK, Chosen, Runs
<1>2. StateOK /\ x # 0
  BY CommandKinds DEF TurnInv
<1>3. CASE Accept \/ AcceptShell
  <2>1. Chosen(x)
    <3>1. sup' = sup
      BY <1>3 DEF Accept, AcceptShell
    <3> QED
      BY <1>1, <3>1 DEF Chosen
  <2>2. state[x] # "none"
    BY <1>2, <2>1 DEF HintsOK, Chosen
  <2>3. NextRun \in Runs /\ state[NextRun] = "none"
    BY <1>2, <1>3, NextIsNew DEF Accept, AcceptShell
  <2>4. \/ state' = [state EXCEPT ![NextRun] = "queued"]
        \/ state' = [state EXCEPT ![NextRun] = "shell"] /\ Quiet
    BY <1>3 DEF Accept, AcceptShell
  <2>5. state'[x] = state[x]
    BY <1>2, <2>2, <2>3, <2>4 DEF StateOK
  <2>6. state[r] = "shell" \/ Quiet
    BY <1>1, <1>2, <2>3, <2>4 DEF StateOK
  <2> QED
    BY <1>1, <2>1, <2>5, <2>6 DEF ShellOK, Quiet, Nonterminal
<1>4. CASE ~Accept /\ ~AcceptShell
  <2>1. MovesRun(r) /\ MovesRun(x)
    BY <1>4, StepMoves
  <2>2. state[r] = "shell" /\ state[x] \in Open
    BY <1>1, <2>1 DEF MovesRun, Ended, Open, Waiting
  <2>3. Chosen(x) \/ ~ShellOwns
    BY <1>1, SupervisorChooses, OthersChoose
  <2> QED
    BY <1>1, <2>2, <2>3 DEF ShellOK, ShellOwns
<1> QED
  BY <1>3, <1>4

(* What is chosen, running and listed makes one thing at a time.           *)
LEMMA OneAtWorkHolds ==
  ASSUME Layers, RunningOK, ShellOK
  PROVE  OneAtWork
<1> USE DEF Layers
<1>1. SUFFICES ASSUME Working, state[sup.active] \in Open, NEW r \in Runs \ {sup.active}
               PROVE  state[r] # "shell" /\ (state[r] = "running" => r = ready \/ Contains(work, r))
  BY DEF OneAtWork
<1>2. sup.active \in Runs /\ work \in Seq(Runs)
  BY <1>1, TurnAssumption DEF Working, Typed, SupType, Runs
<1>3. state[r] # "shell"
  BY <1>1, <1>2 DEF ShellOK, Chosen
<1>4. phase # "recovering"
  BY <1>1, <1>2, CommandKinds DEF TurnInv, SweepOK, SlotOK
<1>5. state[r] = "running" => r = ready \/ Contains(work, r)
  BY <1>1, <1>2, <1>4, SeqMembers DEF RunningOK
<1> QED
  BY <1>3, <1>5

-----------------------------------------------------------------------------
(* No turn is forgotten. *)

Hinted(q, r) == \E h \in Members(q) : h.run = r

Swept(r) == \E t \in sweep.todo : t.run = r

Exiting == sup.at = "exited" \/ sup.next = "exited"

(* Who will come back to a queued turn.                                    *)
QueuedHeld(r) ==
    \/ r \in hand \cup busy \/ r \in Members(work) \/ Swept(r) \/ Exiting
    \/ Hinted(chan, r) \/ Hinted(sup.queue, r) \/ r = sup.active \/ sup.rescan
    \/ sup.at \in {"starting", "failing"} /\ sup.hint.run = r

(* Who will come back to a direct shell command.                           *)
ShellHeld(r) ==
    \/ r \in hand \cup busy \/ Swept(r) \/ Exiting
    \/ Hinted(chan, r) \/ Hinted(sup.shells, r)
    \/ sup.at = "shell" /\ sup.hint.run = r

(* One run, while clients or startup's own work come in.  A supervisor     *)
(* that retired leaves no run behind but those whose hand-off is to come.  *)
RunHeld(r) ==
    /\ state[r] = "queued" /\ row[r] # "none" => QueuedHeld(r)
    /\ state[r] = "shell" => ShellHeld(r)
    /\ state[r] \in {"queued", "shell"} /\ sup.saw = "quiescent" => r \in hand \cup busy

HeldOK == phase \in {"up", "handing"} /\ ~lost => \A r \in Runs : RunHeld(r)

(* What recovery has not read yet, or has listed.                          *)
UnreadOK ==
    phase = "recovering" =>
       \A r \in Runs :
          /\ state[r] = "queued" => r > ready \/ r \in Members(work)
          /\ state[r] = "shell" => r > ready

(* A step of the supervisor passes a queued turn on.                       *)
LEMMA SupervisorHoldsQueued ==
  ASSUME Layers, OutcomeOK, Supervisor, phase \in {"up", "handing"}, phase' \in {"up", "handing"},
         NEW r \in Runs, state[r] = "queued", row[r] # "none", QueuedHeld(r), state'[r] = "queued"
  PROVE  QueuedHeld(r)'
<1> USE DEF Layers
<1>1. /\ sup \in SupType /\ chan \in Seq(Commands) /\ sup.active \in 0..MaxRuns
      /\ row \in [Runs -> {"none", "held", "removed", "consumed", "shell"}]
      /\ StateOK /\ SupOK /\ r # 0
  BY CommandKinds DEF Typed, SupType, TurnInv
<1>2. UNCHANGED <<hand, busy, sweep, work>>
  BY SupervisorFrame
<1>3. SUFFICES ASSUME ~(r \in hand \cup busy), ~(r \in Members(work)), ~Swept(r)
               PROVE  \/ sup'.at = "exited" \/ sup'.next = "exited"
                      \/ Hinted(chan', r) \/ Hinted(sup'.queue, r) \/ r = sup'.active \/ sup'.rescan
                      \/ sup'.at \in {"starting", "failing"} /\ sup'.hint.run = r
  BY <1>2 DEF QueuedHeld, Swept, Exiting
<1>4. \/ sup.at = "exited" \/ sup.next = "exited"
      \/ Hinted(chan, r) \/ Hinted(sup.queue, r) \/ r = sup.active \/ sup.rescan
      \/ sup.at \in {"starting", "failing"} /\ sup.hint.run = r
  BY <1>3 DEF QueuedHeld, Exiting
<1>5. CASE RetireCheck \/ Exit \/ TakeDeferredShell \/ Wait \/ IdleFires
  <2>1. /\ KeepsTurn /\ sup'.queue = sup.queue /\ sup'.rescan = sup.rescan /\ sup'.next = sup.next
        /\ chan' = chan /\ sup.at \in {"top", "pop", "select"}
    BY <1>1, <1>5, RetireCheckDoes, ExitDoes, TakeDeferredShellDoes, WaitDoes DEF KeepsQueue
  <2> QED
    BY <1>4, <2>1 DEF KeepsTurn
<1>6. CASE Refill
  <2>1. /\ KeepsTurn /\ sup'.next = sup.next /\ chan' = chan /\ sup.at = "top"
        /\ \/ sup'.queue = sup.queue /\ sup'.rescan = sup.rescan
           \/ /\ Members(sup.queue) = {}
              /\ ~sup'.rescan => \E h \in Members(sup'.queue) : h.run = r
    BY <1>1, <1>6, RefillDoes
  <2> QED
    BY <1>4, <2>1 DEF KeepsTurn, Hinted
<1>7. CASE Pop
  <2>1. /\ KeepsTurn /\ sup'.next = sup.next /\ chan' = chan /\ sup.at = "pop" /\ sup'.rescan = sup.rescan
        /\ Members(sup.queue) = Members(sup'.queue) \cup {sup'.hint}
        /\ \/ sup'.at = "starting"
           \/ ~Held(sup'.hint.run) /\ row[sup'.hint.run] # "consumed"
    BY <1>1, <1>7, PopDoes
  <2>2. row[r] \in {"held", "consumed"}
    BY DEF RowsOK
  <2>3. Held(r) \/ row[r] = "consumed"
    BY <2>2 DEF Held
  <2> QED
    BY <1>4, <2>1, <2>3 DEF KeepsTurn, Hinted
<1>8. CASE Settle
  <2>1. /\ KeepsTurn /\ KeepsQueue /\ sup.at = "settle" /\ sup'.next = sup.next /\ chan' = chan
    BY <1>1, <1>8, SettleDoes
  <2> QED
    BY <1>4, <2>1 DEF KeepsTurn, KeepsQueue
<1>9. CASE Start
  <2>1. sup.hint \in Hints
    BY <1>9 DEF Start, Where
  <2>2. /\ KeepsQueue /\ sup.at = "starting" /\ sup'.next = sup.next /\ sup'.active = sup.hint.run
        /\ chan' = chan
    BY <1>1, <1>9, <2>1, StartDoes
  <2>3. sup.active = 0
    BY <2>2 DEF Where
  <2> QED
    BY <1>1, <1>4, <2>2, <2>3 DEF KeepsQueue
<1>10. CASE StartFails
  <2>1. /\ KeepsTurn /\ KeepsQueue /\ sup.at = "starting" /\ sup'.next = sup.next
        /\ sup'.hint = sup.hint /\ sup'.at = "failing" /\ chan' = chan
    BY <1>1, <1>10, StartFailsDoes
  <2> QED
    BY <1>4, <2>1 DEF KeepsTurn, KeepsQueue
<1>11. CASE FailStart
  <2>1. /\ KeepsTurn /\ KeepsQueue /\ sup.at = "failing" /\ chan' = chan
        /\ Terminates(sup.hint.run)
    BY <1>1, <1>11, FailStartDoes
  <2>3. r # sup.hint.run
    BY <1>1, <2>1, TerminalizedIsOver
  <2>4. sup.next # "exited"
    BY <2>1 DEF Where
  <2> QED
    BY <1>4, <2>1, <2>3, <2>4 DEF KeepsTurn, KeepsQueue
<1>12. CASE Outcome
  <2>1. /\ KeepsQueue /\ sup.at = "live" /\ chan' = chan
        /\ \/ sup.out = "ended" /\ state' = state
           \/ Terminates(sup.active)
    BY <1>1, <1>12, OutcomeDoes
  <2>2. r # sup.active
    <3>2. SUFFICES ASSUME r = sup.active PROVE FALSE
      OBVIOUS
    <3>3. CASE sup.out = "ended" /\ state' = state
      BY <3>2, <3>3 DEF OutcomeOK, Ended
    <3>4. CASE Terminates(sup.active)
      BY <1>1, <3>2, <3>4, TerminalizedIsOver
    <3> QED
      BY <2>1, <3>3, <3>4
  <2>3. sup.next # "exited"
    BY <2>1 DEF Where
  <2> QED
    BY <1>4, <2>1, <2>2, <2>3 DEF KeepsQueue
<1>13. CASE ShellEnds \/ ShellWake
  <2>1. KeepsTurn /\ KeepsQueue /\ sup.at = "shell" /\ chan' = chan
    BY <1>1, <1>13, ShellDoes
  <2>2. sup.next # "exited"
    BY <2>1 DEF Where
  <2> QED
    BY <1>4, <2>1, <2>2 DEF KeepsTurn, KeepsQueue
<1>14. sup.at \in {"select", "live"} => sup.next # "exited"
  BY DEF Where
<1>15. CASE TakeSubmit
  <2> DEFINE h == Head(chan)
  <2>1. /\ KeepsTurn /\ sup.at \in {"select", "live"}
        /\ chan # <<>> /\ chan' = Tail(chan) /\ h \in Hints
        /\ AdmitQueues(h) \/ AdmitOverflows(h) \/ AdmitFails(h) \/ AdmitDrops(h)
    BY <1>1, <1>15, TakeSubmitDoes
  <2>2. Members(chan) = Members(Tail(chan)) \cup {h}
    BY <1>1, <2>1, TakesHead
  <2> HIDE DEF h
  <2>3. Members(sup.queue) \subseteq Members(sup'.queue)
    BY <2>1 DEF AdmitQueues, AdmitOverflows, AdmitFails, AdmitDrops
  <2>4. sup.rescan => sup'.rescan
    BY <2>1 DEF AdmitQueues, AdmitOverflows, AdmitFails, AdmitDrops
  <2>5. ASSUME h.run = r
        PROVE  r = sup'.active \/ Hinted(sup'.queue, r) \/ sup'.rescan
    <3>1. CASE AdmitQueues(h)
      BY <2>5, <3>1 DEF AdmitQueues, Hinted
    <3>2. CASE AdmitOverflows(h)
      BY <1>1, <2>5, <3>2, TerminalizedIsOver DEF AdmitOverflows
    <3>3. CASE AdmitFails(h)
      BY <3>3 DEF AdmitFails
    <3>4. CASE AdmitDrops(h)
      <4>1. Known(r)
        BY <2>5, <3>4 DEF AdmitDrops
      <4>2. r = sup.active \/ Hinted(sup.queue, r)
        BY <4>1 DEF Known, InQueue, Hinted, Members
      <4> QED
        BY <2>1, <2>3, <4>2 DEF KeepsTurn, Hinted
    <3> QED
      BY <2>1, <3>1, <3>2, <3>3, <3>4
  <2> QED
    BY <1>4, <1>14, <2>1, <2>2, <2>3, <2>4, <2>5 DEF KeepsTurn, Hinted
<1>16. CASE TakeShell
  <2>1. /\ KeepsTurn /\ sup.at \in {"select", "live"} /\ sup'.queue = sup.queue /\ sup'.rescan = sup.rescan
        /\ chan # <<>> /\ chan' = Tail(chan) /\ Head(chan) \in Hints /\ Head(chan).via = "shell"
    BY <1>1, <1>16, TakeShellDoes
  <2>2. Head(chan) \in Members(chan) /\ Members(chan) = Members(Tail(chan)) \cup {Head(chan)}
    BY <1>1, <2>1, TakesHead
  <2>3. ChanHint(Head(chan))
    BY <2>1, <2>2 DEF HintsOK
  <2>4. Head(chan).run # r
    BY <2>1, <2>3 DEF ChanHint, RowsOK
  <2> QED
    BY <1>4, <1>14, <2>1, <2>2, <2>4 DEF KeepsTurn, Hinted
<1>17. CASE TakeRetire
  <2>1. /\ KeepsTurn /\ KeepsQueue /\ sup.at \in {"select", "live"}
        /\ chan # <<>> /\ chan' = Tail(chan) /\ Head(chan).run = 0
    BY <1>1, <1>17, TakeRetireDoes
  <2>2. Members(chan) = Members(Tail(chan)) \cup {Head(chan)}
    BY <1>1, <2>1, TakesHead
  <2> QED
    BY <1>1, <1>4, <1>14, <2>1, <2>2 DEF KeepsTurn, KeepsQueue, Hinted
<1>18. CASE TakeShutdown
  <2>1. chan # <<>> /\ Head(chan).via = "shutdown"
    BY <1>1, <1>18, TakeShutdownDoes
  <2>2. Head(chan) \in Members(chan)
    BY <1>1, <2>1, TakesHead
  <2> QED
    BY <2>1, <2>2 DEF PhasesOK
<1>19. CASE TakeWake
  <2>1. /\ KeepsTurn /\ sup.at \in {"select", "live"} /\ sup'.rescan = sup.rescan /\ chan' = chan
    BY <1>1, <1>19, TakeWakeDoes
  <2>2. PICK gone \in SUBSET Runs :
              /\ \A q \in gone : state[q] = "cancelling"
              /\ Members(sup'.queue) = {h \in Members(sup.queue) : h.run \notin gone}
    BY <1>1, <1>19, TakeWakeDoes
  <2> QED
    BY <1>4, <1>14, <2>1, <2>2 DEF KeepsTurn, Hinted
<1>20. CASE ExpireQueued
  <2>1. sup.hint \in Hints
    BY <1>20 DEF ExpireQueued, Where
  <2>2. /\ KeepsTurn /\ sup.at = "expiring" /\ sup'.next = sup.next /\ sup'.rescan = sup.rescan
        /\ chan' = chan /\ Terminates(sup.hint.run) /\ sup.hint.run \in Runs
        /\ Members(sup'.queue) = {h \in Members(sup.queue) : h.run # sup.hint.run}
    BY <1>1, <1>20, <2>1, ExpireQueuedDoes
  <2>3. r # sup.hint.run
    BY <1>1, <2>2, TerminalizedIsOver
  <2> QED
    BY <1>4, <2>2, <2>3 DEF KeepsTurn, Hinted
<1> QED
  BY <1>5, <1>6, <1>7, <1>8, <1>9, <1>10, <1>11, <1>12, <1>13, <1>15, <1>16, <1>17, <1>18, <1>19, <1>20
     DEF Supervisor, TakeCommand

(* And a direct shell command.                                             *)
LEMMA SupervisorHoldsShell ==
  ASSUME Layers, Supervisor, phase \in {"up", "handing"}, phase' \in {"up", "handing"},
         NEW r \in Runs, state[r] = "shell", ShellHeld(r), state'[r] = "shell"
  PROVE  ShellHeld(r)'
<1> USE DEF Layers
<1>1. /\ sup \in SupType /\ chan \in Seq(Commands) /\ sup.active \in 0..MaxRuns
      /\ row \in [Runs -> {"none", "held", "removed", "consumed", "shell"}]
      /\ StateOK /\ SupOK /\ r # 0 /\ row[r] = "shell"
  BY CommandKinds DEF Typed, SupType, TurnInv, RowsOK
<1>2. UNCHANGED <<hand, busy, sweep>>
  BY SupervisorFrame
<1>3. SUFFICES ASSUME ~(r \in hand \cup busy), ~Swept(r)
               PROVE  \/ sup'.at = "exited" \/ sup'.next = "exited"
                      \/ Hinted(chan', r) \/ Hinted(sup'.shells, r)
                      \/ sup'.at = "shell" /\ sup'.hint.run = r
  BY <1>2 DEF ShellHeld, Swept, Exiting
<1>4. \/ sup.at = "exited" \/ sup.next = "exited"
      \/ Hinted(chan, r) \/ Hinted(sup.shells, r)
      \/ sup.at = "shell" /\ sup.hint.run = r
  BY <1>3 DEF ShellHeld, Exiting
<1>5. sup.at \in {"select", "live", "starting", "failing", "pop", "top", "shell", "expiring"}
      => sup.next # "exited"
  BY DEF Where
<1>6. CASE RetireCheck \/ Exit \/ Refill \/ Wait \/ IdleFires \/ Pop \/ StartFails \/ FailStart \/ Outcome
           \/ Settle
  <2>1. /\ sup'.shells = sup.shells /\ chan' = chan
        /\ sup.at \in {"top", "pop", "select", "starting", "failing", "live"}
           \/ (sup.at = "settle" /\ sup'.next = sup.next)
    BY <1>1, <1>6, RetireCheckDoes, ExitDoes, RefillDoes, WaitDoes, PopDoes, StartFailsDoes, FailStartDoes,
       OutcomeDoes, SettleDoes DEF KeepsQueue
  <2> QED
    BY <1>4, <1>5, <2>1
<1>7. CASE Start
  <2>1. sup.hint \in Hints
    BY <1>7 DEF Start, Where
  <2>2. KeepsQueue /\ sup.at = "starting" /\ chan' = chan
    BY <1>1, <1>7, <2>1, StartDoes
  <2> QED
    BY <1>4, <1>5, <2>2 DEF KeepsQueue
<1>8. CASE TakeDeferredShell
  <2>1. /\ sup.at = "top" /\ sup'.at = "shell" /\ chan' = chan
        /\ Members(sup.shells) = Members(sup'.shells) \cup {sup'.hint}
    BY <1>1, <1>8, TakeDeferredShellDoes
  <2> QED
    BY <1>4, <1>5, <2>1 DEF Hinted
<1>9. CASE ShellEnds \/ ShellWake
  <2>1. /\ KeepsQueue /\ sup.at = "shell" /\ chan' = chan /\ sup'.hint = sup.hint
        /\ \/ Terminates(sup.hint.run)
           \/ sup'.at = "shell"
    BY <1>1, <1>9, ShellDoes
  <2>2. sup'.at = "shell" \/ r # sup.hint.run
    BY <1>1, <2>1, TerminalizedIsOver
  <2> QED
    BY <1>4, <1>5, <2>1, <2>2 DEF KeepsQueue
<1>10. CASE TakeSubmit
  <2>1. /\ sup.at \in {"select", "live"} /\ sup'.shells = sup.shells
        /\ chan # <<>> /\ chan' = Tail(chan) /\ Head(chan) \in Hints /\ Head(chan).via # "shell"
    BY <1>1, <1>10, TakeSubmitDoes
  <2>2. Head(chan) \in Members(chan) /\ Members(chan) = Members(Tail(chan)) \cup {Head(chan)}
    BY <1>1, <2>1, TakesHead
  <2>3. ChanHint(Head(chan))
    BY <2>1, <2>2 DEF HintsOK
  <2>4. Head(chan).run # r
    BY <1>1, <2>1, <2>3 DEF ChanHint
  <2> QED
    BY <1>4, <1>5, <2>1, <2>2, <2>4 DEF Hinted
<1>11. CASE TakeShell
  <2>1. /\ sup.at \in {"select", "live"}
        /\ chan # <<>> /\ chan' = Tail(chan)
        /\ \/ sup'.at = "shell" /\ sup'.hint = Head(chan) /\ sup'.shells = sup.shells
           \/ Members(sup'.shells) = Members(sup.shells) \cup {Head(chan)}
    BY <1>1, <1>11, TakeShellDoes
  <2>2. Members(chan) = Members(Tail(chan)) \cup {Head(chan)}
    BY <1>1, <2>1, TakesHead
  <2> QED
    BY <1>4, <1>5, <2>1, <2>2 DEF Hinted
<1>12. CASE TakeRetire
  <2>1. /\ KeepsQueue /\ sup.at \in {"select", "live"}
        /\ chan # <<>> /\ chan' = Tail(chan) /\ Head(chan).run = 0
    BY <1>1, <1>12, TakeRetireDoes
  <2>2. Members(chan) = Members(Tail(chan)) \cup {Head(chan)}
    BY <1>1, <2>1, TakesHead
  <2> QED
    BY <1>1, <1>4, <1>5, <2>1, <2>2 DEF KeepsQueue, Hinted
<1>13. CASE TakeShutdown
  <2>1. chan # <<>> /\ Head(chan).via = "shutdown"
    BY <1>1, <1>13, TakeShutdownDoes
  <2>2. Head(chan) \in Members(chan)
    BY <1>1, <2>1, TakesHead
  <2> QED
    BY <2>1, <2>2 DEF PhasesOK
<1>14. CASE TakeWake
  <2>1. sup.at \in {"select", "live"} /\ sup'.shells = sup.shells /\ chan' = chan
    BY <1>1, <1>14, TakeWakeDoes
  <2> QED
    BY <1>4, <1>5, <2>1
<1>15. CASE ExpireQueued
  <2>1. sup.hint \in Hints
    BY <1>15 DEF ExpireQueued, Where
  <2>2. sup.at = "expiring" /\ sup'.shells = sup.shells /\ chan' = chan
    BY <1>1, <1>15, <2>1, ExpireQueuedDoes
  <2> QED
    BY <1>4, <1>5, <2>2
<1> QED
  BY <1>6, <1>7, <1>8, <1>9, <1>10, <1>11, <1>12, <1>13, <1>14, <1>15 DEF Supervisor, TakeCommand

(* A supervisor that retires has seen no open run.                         *)
LEMMA SupervisorRetires ==
  ASSUME Layers, Supervisor, sup'.saw = "quiescent"
  PROVE  Quiet /\ state' = state
<1> USE DEF Layers
<1>1. /\ sup \in SupType /\ chan \in Seq(Commands)
      /\ row \in [Runs -> {"none", "held", "removed", "consumed", "shell"}]
      /\ SupOK
  BY DEF Typed, TurnInv
<1>2. sup.at # "exited" => sup.saw # "quiescent"
  BY DEF Where
<1>3. CASE RetireCheck
  BY <1>1, <1>2, <1>3, RetireCheckDoes
<1>4. CASE Exit \/ TakeDeferredShell \/ Refill \/ Wait \/ IdleFires \/ Pop \/ StartFails \/ FailStart
           \/ Outcome \/ Settle \/ ShellEnds \/ ShellWake
  BY <1>1, <1>2, <1>4, ExitDoes, TakeDeferredShellDoes, RefillDoes, WaitDoes, PopDoes,
     StartFailsDoes, FailStartDoes, OutcomeDoes, SettleDoes, ShellDoes
<1>5. CASE Start
  <2>1. sup.hint \in Hints
    BY <1>5 DEF Start, Where
  <2> QED
    BY <1>1, <1>2, <1>5, <2>1, StartDoes
<1>6. CASE TakeSubmit \/ TakeShell \/ TakeRetire \/ TakeShutdown \/ TakeWake
  BY <1>1, <1>2, <1>6, TakeSubmitDoes, TakeShellDoes, TakeRetireDoes, TakeShutdownDoes, TakeWakeDoes
<1>7. CASE ExpireQueued
  <2>1. sup.hint \in Hints
    BY <1>7 DEF ExpireQueued, Where
  <2> QED
    BY <1>1, <1>2, <1>7, <2>1, ExpireQueuedDoes
<1> QED
  BY <1>3, <1>4, <1>5, <1>6, <1>7 DEF Supervisor, TakeCommand

(* A queued run and a shell command were one before the step.              *)
LEMMA WasHeld ==
  ASSUME Layers, [Next]_vars, ~Accept, ~AcceptShell, NEW r \in Runs
  PROVE  /\ state'[r] = "queued" => state[r] = "queued"
         /\ row'[r] # "none" => row[r] # "none"
         /\ state'[r] = "shell" => state[r] = "shell"
<1>1. MovesRun(r) /\ MovesRow(r)
  BY StepMoves DEF Layers
<1> QED
  BY <1>1 DEF MovesRun, MovesRow, Ended

(* The session changes hands without a change of who holds what.           *)
LEMMA HoldsOn ==
  ASSUME NEW r \in Runs, RunHeld(r), KeepsPlace, KeepsQueue, sup'.active = sup.active,
         hand \cup busy \subseteq hand' \cup busy', work' = work,
         Members(chan) \subseteq Members(chan'),
         state'[r] = "queued" => state[r] = "queued",
         row'[r] # "none" => row[r] # "none",
         state'[r] = "shell" => state[r] = "shell",
         state'[r] \in {"queued", "shell"} /\ Swept(r) => Swept(r)'
  PROVE  RunHeld(r)'
<1>1. ASSUME state'[r] = "queued", row'[r] # "none"
      PROVE  QueuedHeld(r)'
  <2>1. QueuedHeld(r)
    BY <1>1 DEF RunHeld
  <2> QED
    BY <1>1, <2>1 DEF QueuedHeld, Exiting, Hinted, KeepsPlace, KeepsQueue
<1>2. ASSUME state'[r] = "shell"
      PROVE  ShellHeld(r)'
  <2>1. ShellHeld(r)
    BY <1>2 DEF RunHeld
  <2> QED
    BY <1>2, <2>1 DEF ShellHeld, Exiting, Hinted, KeepsPlace, KeepsQueue
<1>3. ASSUME state'[r] \in {"queued", "shell"}, sup'.saw = "quiescent"
      PROVE  r \in hand' \cup busy'
  BY <1>3 DEF RunHeld, KeepsPlace
<1> QED
  BY <1>1, <1>2, <1>3 DEF RunHeld

(* A hint is sent, out of an rpc task or out of the recovered work.        *)
LEMMA SendHolds ==
  ASSUME Layers, NEW h \in Hints, Send(h), UNCHANGED <<state, row>>,
         NEW r \in Runs, RunHeld(r),
         r \in hand \cup busy => r \in hand' \cup busy' \/ r = h.run,
         r \in Members(work) => r \in Members(work') \/ r = h.run
  PROVE  RunHeld(r)'
<1> USE DEF Layers
<1>1. /\ sweep' = sweep
      /\ \/ slot = "none" /\ sup' = Fresh /\ Members(chan') = {h}
         \/ sup' = sup /\ Members(chan') = Members(chan) \cup {h} /\ sup.at # "exited"
  BY SendDoes
<1>2. CASE slot = "none" /\ sup' = Fresh /\ Members(chan') = {h}
  <2>1. Gone /\ sup.active = 0 /\ r # 0
    BY <1>2, CommandKinds DEF Where, TurnInv, SlotOK
  <2>2. sup'.saw = "none"
    BY <1>2, FreshIs
  <2>3. QueuedHeld(r) => QueuedHeld(r)'
    <3>1. QueuedHeld(r) => r \in hand \cup busy \/ r \in Members(work) \/ Swept(r)
      BY <2>1 DEF QueuedHeld, Gone, Exiting, Hinted
    <3> QED
      BY <1>1, <1>2, <3>1 DEF QueuedHeld, Hinted, Swept
  <2>4. ShellHeld(r) => ShellHeld(r)'
    <3>1. ShellHeld(r) => r \in hand \cup busy \/ Swept(r)
      BY <2>1 DEF ShellHeld, Gone, Exiting, Hinted
    <3> QED
      BY <1>1, <1>2, <3>1 DEF ShellHeld, Hinted, Swept
  <2> QED
    BY <2>2, <2>3, <2>4 DEF RunHeld
<1>3. CASE sup' = sup /\ Members(chan') = Members(chan) \cup {h} /\ sup.at # "exited"
  <2>1. sup.saw # "quiescent"
    BY <1>3 DEF Where
  <2>2. QueuedHeld(r) => QueuedHeld(r)'
    BY <1>1, <1>3 DEF QueuedHeld, Hinted, Swept, Exiting
  <2>3. ShellHeld(r) => ShellHeld(r)'
    BY <1>1, <1>3 DEF ShellHeld, Hinted, Swept, Exiting
  <2> QED
    BY <1>3, <2>1, <2>2, <2>3 DEF RunHeld
<1> QED
  BY <1>1, <1>2, <1>3

(* The runs a sweep lists.                                                 *)
LEMMA SweepLists ==
  ASSUME NEW of, of # "none", NEW S, NEW r \in S
  PROVE  LET w == Sweep(of, S) IN w.of = of /\ (\E t \in w.todo : t.run = r) /\ w # NoSweep
<1>1. Sweep(of, S) = [of |-> of, todo |-> Todo(S)]
  BY DEF Sweep
<1>2. [run |-> r, cancelling |-> (state[r] = "cancelling")] \in Todo(S)
  BY DEF Todo
<1>3. Sweep(of, S).of # NoSweep.of
  BY <1>1 DEF NoSweep
<1> QED
  BY <1>1, <1>2, <1>3

(* A supervisor that is joined leaves its runs to the sweep.               *)
LEMMA JoinHolds ==
  ASSUME Layers, Join, phase \in {"up", "handing"}, NEW r \in Runs, RunHeld(r)
  PROVE  RunHeld(r)'
<1> USE DEF Layers
<1>1. /\ UNCHANGED <<state, row, hand, busy, work>> /\ sup.at = "exited" /\ sup' = NoSup
      /\ sweep' = IF sup.saw = "quiescent" \/ sup.kept \/ phase \in Drains THEN NoSweep
                  ELSE Sweep("exit", Nonterminal)
  BY DEF Join, durable, startup
<1>2. ~sup.kept /\ phase \notin Drains
  BY DEF PhasesOK, Drains
<1>3. NoSup.saw = "none"
  BY DEF NoSup, Fresh
<1>4. CASE sup.saw = "quiescent"
  BY <1>1, <1>3, <1>4 DEF RunHeld, QueuedHeld, ShellHeld
<1>5. CASE sup.saw # "quiescent"
  <2>1. state[r] \in {"queued", "shell"} => r \in Nonterminal
    BY DEF Nonterminal, Open
  <2>2. sweep' = Sweep("exit", Nonterminal)
    BY <1>1, <1>2, <1>5
  <2>3. r \in Nonterminal => \E t \in sweep'.todo : t.run = r
    BY <2>2, SweepLists
  <2> QED
    BY <1>1, <1>3, <2>1, <2>3 DEF RunHeld, QueuedHeld, ShellHeld, Swept
<1> QED
  BY <1>4, <1>5

(* One run of a sweep: the others are still listed.                        *)
LEMMA SweepRunLeaves ==
  ASSUME TurnInv, SweepRun, ~lost'
  PROVE  /\ ~lost /\ sweep'.of = sweep.of
         /\ \A r \in Runs : state'[r] \in {"queued", "running", "shell"} /\ Swept(r) => Swept(r)'
<1>1. PICK t \in sweep.todo :
         /\ \E end \in {"cancelled", "errored"} : state' = Terminalized(t.run, Closing(t.run, end))
         /\ sweep' = [sweep EXCEPT !.todo = @ \ {t}]
         /\ UNCHANGED lost
  BY DEF SweepRun
<1>2. Terminates(t.run)
  BY <1>1, ClosingEnds DEF Terminates, Ends, Ended
<1>3. DOMAIN sweep = {"of", "todo"} /\ state \in [Runs -> States] /\ t.run \in Runs
  BY DEF TurnInv, SweepOK, NoSweep, StateOK
<1>4. sweep'.of = sweep.of /\ sweep'.todo = sweep.todo \ {t}
  BY <1>1, <1>3
<1>5. state'[t.run] \notin {"queued", "running", "shell"}
  BY <1>2, <1>3, TerminalizedIsOver DEF TurnInv
<1>6. ASSUME NEW r \in Runs, state'[r] \in {"queued", "running", "shell"}, Swept(r)
      PROVE  Swept(r)'
  <2>1. PICK u \in sweep.todo : u.run = r
    BY <1>6 DEF Swept
  <2>2. u # t
    BY <1>5, <1>6, <2>1
  <2> QED
    BY <1>4, <2>1, <2>2 DEF Swept
<1> QED
  BY <1>1, <1>4, <1>6

(* Recovery has read every run when it ends.                               *)
LEMMA ReadHolds ==
  ASSUME Layers, UnreadOK, RecoveryRead, NEW r \in Runs
  PROVE  RunHeld(r)'
<1> USE DEF Layers
<1>1. phase = "recovering" /\ At \notin Accepted /\ UNCHANGED <<state, work, sup>>
  BY DEF RecoveryRead, durable
<1>2. PICK n \in 0..MaxRuns : Accepted = 1..n
  BY DEF TurnInv, StateOK
<1>3. state[r] # "none" => r \in 1..n
  BY <1>2 DEF Accepted
<1>4. r \in Nat /\ ready \in Nat
  BY CommandKinds, TurnAssumption DEF Typed
<1>5. state[r] # "none" => ~(r > ready)
  BY <1>1, <1>2, <1>3, <1>4, TurnAssumption DEF At
<1>6. sup.saw # "quiescent"
  BY <1>1 DEF TurnInv, SweepOK, Where, Gone
<1> QED
  BY <1>1, <1>5, <1>6 DEF UnreadOK, RunHeld, QueuedHeld

(* A new run is on its way to the manager.                                 *)
LEMMA AcceptHolds ==
  ASSUME Layers, Accept \/ AcceptShell, NEW r \in Runs, RunHeld(r)
  PROVE  RunHeld(r)'
<1>1. /\ UNCHANGED <<busy, sup, work, chan, sweep>> /\ hand' = hand \cup {NextRun} /\ NextRun \in Runs
      /\ \E s \in {"queued", "shell"} : state' = [state EXCEPT ![NextRun] = s]
      /\ \E w \in {"none", "held", "shell"} : row' = [row EXCEPT ![NextRun] = w]
  BY DEF Accept, AcceptShell, manager, startup
<1>2. CASE r = NextRun
  BY <1>1, <1>2 DEF RunHeld, QueuedHeld, ShellHeld
<1>3. CASE r # NextRun
  <2>1. state'[r] = state[r] /\ row'[r] = row[r]
    BY <1>1, <1>3 DEF Layers, TurnInv, StateOK, Typed
  <2>2. KeepsPlace /\ KeepsQueue /\ sup'.active = sup.active
    BY <1>1 DEF KeepsPlace, KeepsQueue
  <2>3. Swept(r) => Swept(r)'
    BY <1>1 DEF Swept
  <2> QED
    BY <1>1, <2>1, <2>2, <2>3, HoldsOn
<1> QED
  BY <1>2, <1>3

(* Every step leaves every run held.                                       *)
LEMMA HeldStep ==
  ASSUME Layers, OutcomeOK, HeldOK, UnreadOK, [Next]_vars
  PROVE  HeldOK'
<1> USE DEF Layers
<1>1. SUFFICES ASSUME phase' \in {"up", "handing"}, ~lost', NEW r \in Runs
               PROVE  RunHeld(r)'
  BY DEF HeldOK, Runs, RunHeld
<1>2. CASE RecoveryRead
  BY <1>2, ReadHolds
<1>3. CASE Crash \/ Restart \/ RecoverRun \/ BeginDraining \/ ManagerShutdown \/ DrainSweep
  BY <1>1, <1>3 DEF Crash, Restart, NewProcess, RecoverRun, BeginDraining, ManagerShutdown, DrainSweep
<1>4. CASE Supervisor
  <2>1. phase \in {"up", "handing"} /\ lost' = lost
    <3>1. lost' = lost
      BY <1>4, SupervisorFrame
    <3>2. phase' = phase \/ phase' = "draining"
      BY <1>4, WorkNeedsSlot DEF TurnInv
    <3> QED
      BY <1>1, <3>1, <3>2
  <2>2. RunHeld(r)
    BY <1>1, <2>1 DEF HeldOK
  <2>3. /\ state'[r] = "queued" => state[r] = "queued"
        /\ row'[r] # "none" => row[r] # "none"
        /\ state'[r] = "shell" => state[r] = "shell"
    <3>1. MovesRun(r) /\ MovesRow(r)
      BY <1>4, SupervisorMoves
    <3> QED
      BY <3>1 DEF MovesRun, MovesRow, Ended
  <2>4. ASSUME state'[r] = "queued", row'[r] # "none"
        PROVE  QueuedHeld(r)'
    BY <1>1, <1>4, <2>1, <2>2, <2>3, <2>4, SupervisorHoldsQueued DEF RunHeld
  <2>5. ASSUME state'[r] = "shell"
        PROVE  ShellHeld(r)'
    BY <1>1, <1>4, <2>1, <2>2, <2>3, <2>5, SupervisorHoldsShell DEF RunHeld
  <2>6. ASSUME state'[r] \in {"queued", "shell"}, sup'.saw = "quiescent"
        PROVE  FALSE
    <3>1. Quiet /\ state' = state
      BY <1>4, <2>6, SupervisorRetires
    <3> QED
      BY <2>6, <3>1 DEF Quiet, Nonterminal, Open
  <2> QED
    BY <2>4, <2>5, <2>6 DEF RunHeld
<1>5. ASSUME phase \in {"up", "handing"}, ~lost
      PROVE  RunHeld(r)
  BY <1>5 DEF HeldOK
<1>6. CASE Accept \/ AcceptShell
  <2>1. phase \in {"up", "handing"} /\ ~lost
    BY <1>1, <1>6 DEF Accept, AcceptShell, ledger
  <2> QED
    BY <1>5, <1>6, <2>1, AcceptHolds
<1>7. CASE Join
  <2>1. phase \in {"up", "handing"} /\ ~lost
    BY <1>1, <1>7 DEF Join, ledger
  <2> QED
    BY <1>5, <1>7, <2>1, JoinHolds
<1>8. CASE \E q \in Runs : HandOff(q)
  <2>1. PICK q \in Runs : HandOff(q)
    BY <1>8
  <2>2. /\ phase \in {"up", "handing"} /\ ~lost /\ UNCHANGED <<state, row, busy, work>>
        /\ hand' = hand \ {q} /\ Send(Hint(q, Via(q)))
    BY <1>1, <2>1 DEF HandOff, ledger, startup, durable
  <2>3. Hint(q, Via(q)) \in Hints /\ Hint(q, Via(q)).run = q
    BY HintTypes
  <2> QED
    BY <1>5, <2>2, <2>3, SendHolds
<1>9. CASE HandOver
  <2>1. /\ phase \in {"up", "handing"} /\ ~lost /\ UNCHANGED <<state, row, busy, hand>>
        /\ work # <<>> /\ work' = Tail(work) /\ Send(Hint(Head(work), "recovered"))
    BY <1>1, <1>9 DEF HandOver, ledger, durable
  <2>2. work \in Seq(Runs)
    BY DEF Typed
  <2>3. Head(work) \in Runs /\ Members(work) = Members(Tail(work)) \cup {Head(work)}
    BY <2>1, <2>2, SeqTail
  <2>4. Hint(Head(work), "recovered") \in Hints /\ Hint(Head(work), "recovered").run = Head(work)
    BY <2>3, HintTypes
  <2> QED
    BY <1>5, <2>1, <2>3, <2>4, SendHolds
<1>10. ASSUME ~Accept, ~AcceptShell, phase \in {"up", "handing"}, ~lost,
              KeepsPlace, KeepsQueue, sup'.active = sup.active,
              hand \cup busy \subseteq hand' \cup busy', work' = work,
              Members(chan) \subseteq Members(chan'),
              state'[r] \in {"queued", "shell"} /\ Swept(r) => Swept(r)'
       PROVE  RunHeld(r)'
  <2>1. RunHeld(r)
    BY <1>5, <1>10
  <2>2. /\ state'[r] = "queued" => state[r] = "queued"
        /\ row'[r] # "none" => row[r] # "none"
        /\ state'[r] = "shell" => state[r] = "shell"
    BY <1>10, WasHeld
  <2> QED
    BY <1>10, <2>1, <2>2, HoldsOn
<1>11. sup \in SupType
  BY DEF Typed
<1>12. ASSUME sweep' = sweep
       PROVE  Swept(r) => Swept(r)'
  BY <1>12 DEF Swept
<1>13. CASE /\ ~Accept /\ ~AcceptShell
            /\ \/ \E q \in Runs : Cancel(q) \/ Unqueue(q)
               \/ HarnessBegins \/ HarnessStep \/ HarnessEnds \/ HarnessPanics
  <2>1. /\ KeepsPlace /\ KeepsQueue /\ sup'.active = sup.active
        /\ UNCHANGED <<phase, hand, busy, sweep, chan, work, lost>>
    BY <1>11, <1>13, CancelDoes, HarnessDoes DEF KeepsAll, KeepsTurn
  <2> QED
    BY <1>1, <1>10, <1>12, <1>13, <2>1
<1>14. CASE /\ ~Accept /\ ~AcceptShell
            /\ \/ \E q \in Runs : Repeat(q) \/ HandOffFails(q)
               \/ \E e \in {"expired", "refused"} : TakeEvent(e)
               \/ RetireSession \/ SweepEnds \/ Listen \/ UNCHANGED vars
  <2>1. /\ sup' = sup /\ work' = work /\ lost' = lost
        /\ hand \cup busy \subseteq hand' \cup busy'
        /\ \/ chan' = chan
           \/ \E b \in BOOLEAN : chan' = Append(chan, Retire(b))
        /\ sweep' = sweep \/ sweep.todo = {}
    BY <1>14 DEF Repeat, HandOffFails, TakeEvent, RetireSession, SweepEnds, Listen, vars, manager, startup,
                 ledger, RequestRetirement
  <2>2. phase \in {"up", "handing"}
    BY <1>1, <1>14 DEF Repeat, HandOffFails, TakeEvent, RetireSession, SweepEnds, Listen, vars
  <2>3. Members(chan) \subseteq Members(chan')
    <3>1. \A b \in BOOLEAN : Members(Append(chan, Retire(b))) = Members(chan) \cup {Retire(b)}
      BY SeqAppend, CommandKinds DEF Typed
    <3> QED
      BY <2>1, <3>1
  <2>4. Swept(r) => Swept(r)'
    BY <1>12, <2>1 DEF Swept
  <2>5. KeepsPlace /\ KeepsQueue /\ sup'.active = sup.active
    BY <2>1 DEF KeepsPlace, KeepsQueue
  <2> QED
    BY <1>1, <1>10, <1>14, <2>1, <2>2, <2>3, <2>4, <2>5
<1>15. CASE ~Accept /\ ~AcceptShell /\ SweepRun
  <2>1. UNCHANGED <<phase, hand, busy, chan, sup, work>>
    BY <1>15 DEF SweepRun, startup
  <2>2. ~lost /\ (state'[r] \in {"queued", "shell"} /\ Swept(r) => Swept(r)')
    BY <1>1, <1>15, SweepRunLeaves
  <2>3. KeepsPlace /\ KeepsQueue /\ sup'.active = sup.active
    BY <2>1 DEF KeepsPlace, KeepsQueue
  <2> QED
    BY <1>1, <1>10, <1>15, <2>1, <2>2, <2>3
<1>16. CASE Budget
  <2>1. /\ KeepsTurn /\ KeepsQueue /\ sup.at = "live" /\ sup'.at \in {"live", "expiring"}
        /\ sup'.next = sup.next /\ sup'.saw = sup.saw
        /\ UNCHANGED <<state, row, phase, hand, busy, sweep, chan, work, lost>>
    BY <1>11, <1>16, BudgetDoes
  <2>2. RunHeld(r) /\ sup.saw # "quiescent"
    BY <1>1, <1>5, <2>1 DEF Where
  <2>3. QueuedHeld(r) => QueuedHeld(r)'
    BY <2>1 DEF QueuedHeld, Exiting, Hinted, Swept, KeepsTurn, KeepsQueue
  <2>4. ShellHeld(r) => ShellHeld(r)'
    BY <2>1 DEF ShellHeld, Exiting, Hinted, Swept, KeepsQueue
  <2> QED
    BY <2>1, <2>2, <2>3, <2>4 DEF RunHeld
<1> QED
  BY <1>2, <1>3, <1>4, <1>6, <1>7, <1>8, <1>9, <1>13, <1>14, <1>15, <1>16
     DEF Next, Clients, Manager, Drain, Startup

(* Recovery reads the runs in their order.                                 *)
LEMMA UnreadStep ==
  ASSUME Layers, UnreadOK, [Next]_vars
  PROVE  UnreadOK'
<1> USE DEF Layers
<1>1. SUFFICES ASSUME phase' = "recovering", NEW r \in Runs
               PROVE  /\ state'[r] = "queued" => r > ready' \/ r \in Members(work')
                      /\ state'[r] = "shell" => r > ready'
  BY DEF UnreadOK, Runs
<1>2. r \in Nat /\ r # 0 /\ ready \in Nat /\ work \in Seq(Runs) /\ state \in [Runs -> States]
  BY CommandKinds, TurnAssumption DEF Typed, TurnInv, StateOK
<1>3. CASE Crash \/ Restart
  BY <1>2, <1>3 DEF Crash, Restart, NewProcess
<1>4. CASE RecoverRun
  <2>1. phase = "recovering" /\ ready' = ready + 1 /\ At = ready + 1 /\ At \in Accepted
    BY <1>4 DEF RecoverRun, At
  <2>2. \/ state[At] \in Resumable /\ work' = Append(work, At) /\ state' = state
        \/ work' = work /\ \E s \in Ended : state' = [state EXCEPT ![At] = s]
        \/ work' = work /\ state[At] \in Ended /\ state' = state
    BY <1>4 DEF RecoverRun, Ended
  <2>3. At \in Runs /\ Members(Append(work, At)) = Members(work) \cup {At}
    BY <1>2, <2>1, SeqAppend DEF Accepted
  <2>4. CASE r = At
    BY <1>2, <2>2, <2>3, <2>4 DEF Ended, Resumable, Waiting
  <2>5. CASE r # At
    <3>1. state'[r] = state[r] /\ Members(work) \subseteq Members(work')
      BY <1>2, <2>2, <2>3, <2>5
    <3>2. r > ready => r > ready'
      BY <1>2, <2>1, <2>5
    <3> QED
      BY <2>1, <3>1, <3>2 DEF UnreadOK
  <2> QED
    BY <2>4, <2>5
<1>5. CASE Supervisor \/ HarnessBegins \/ HarnessStep \/ HarnessEnds \/ HarnessPanics \/ Budget
  BY <1>1, <1>5, WorkNeedsSlot DEF TurnInv
<1>6. CASE \/ Accept \/ AcceptShell \/ RetireSession \/ BeginDraining \/ ManagerShutdown \/ DrainSweep
           \/ \E q \in Runs : Cancel(q) \/ Unqueue(q) \/ Repeat(q) \/ HandOff(q) \/ HandOffFails(q)
           \/ RecoveryRead \/ HandOver \/ Listen
  BY <1>1, <1>6 DEF Accept, AcceptShell, RetireSession, BeginDraining, ManagerShutdown, DrainSweep,
         Cancel, Unqueue, Cancelling, Repeat, HandOff, HandOffFails, RecoveryRead, HandOver, Listen, Serving,
         Drains
<1>7. CASE \/ \E e \in {"expired", "refused"} : TakeEvent(e)
           \/ Join \/ SweepRun \/ SweepEnds \/ UNCHANGED vars
  <2>1. work' = work /\ ready' = ready /\ phase = "recovering"
    BY <1>1, <1>7 DEF TakeEvent, Join, SweepRun, SweepEnds, startup, vars
  <2>2. state' = state
    <3>1. ~SweepRun
      BY <2>1 DEF SweepRun, TurnInv, SweepOK
    <3> QED
      BY <1>7, <3>1 DEF TakeEvent, Join, SweepEnds, durable, vars
  <2> QED
    BY <2>1, <2>2 DEF UnreadOK
<1> QED
  BY <1>3, <1>4, <1>5, <1>6, <1>7 DEF Next, Clients, Manager, Drain, Startup

(* Runs that a drain has to end.                                           *)
AtStake == {"queued", "running", "shell"}

(* Behind a drain's sweep there is no supervisor left, and what was not    *)
(* on its way to the manager is listed, or over.                           *)
DrainOK ==
    /\ phase \in {"sweeping", "down"} => slot = "none"
    /\ phase = "down" => sweep.of = "none"
    /\ sweep.of = "given_up" => lost
    /\ phase = "sweeping" /\ ~lost =>
          \A r \in Runs \ (hand \cup busy) : state[r] \in AtStake => Swept(r)
    /\ DrainIsComplete

(* The steps that can be taken behind it.                                  *)
LEMMA DrainStep ==
  ASSUME Layers, DrainOK, [Next]_vars
  PROVE  DrainOK'
<1> USE DEF Layers
<1>1. CASE Supervisor \/ HarnessBegins \/ HarnessStep \/ HarnessEnds \/ HarnessPanics \/ Budget
  <2>1. /\ slot # "none" /\ slot' = slot /\ sweep' = sweep
        /\ phase' = phase \/ phase' = "draining"
    BY <1>1, WorkNeedsSlot DEF TurnInv
  <2>2. lost' = lost
    BY <1>1, SupervisorFrame, BudgetDoes
       DEF HarnessBegins, HarnessStep, HarnessEnds, HarnessPanics, ledger, Typed
  <2> QED
    BY <2>1, <2>2 DEF DrainOK, DrainIsComplete
<1>2. CASE DrainSweep
  <2> DEFINE S == {r \in Nonterminal : state[r] # "parked"}
  <2>1. /\ slot' = "none" /\ UNCHANGED <<state, hand, busy, lost>>
        /\ sweep' = Sweep("drain", S)
        /\ phase' = IF sweep' = NoSweep THEN "down" ELSE "sweeping"
    BY <1>2 DEF DrainSweep, durable, ledger
  <2>2. \A r \in Runs : state[r] \in AtStake => r \in S
    BY DEF AtStake, Nonterminal, Open
  <2>3. ASSUME NEW r \in S
        PROVE  (\E t \in sweep'.todo : t.run = r) /\ sweep' # NoSweep
    <3> HIDE DEF S
    <3>1. LET w == Sweep("drain", S) IN (\E t \in w.todo : t.run = r) /\ w # NoSweep
      BY <2>3, SweepLists
    <3> QED
      BY <2>1, <3>1
  <2>4. sweep'.of # "given_up" /\ NoSweep.of = "none"
    BY <2>1 DEF Sweep, NoSweep
  <2> HIDE DEF S
  <2> QED
    BY <2>1, <2>2, <2>3, <2>4 DEF DrainOK, DrainIsComplete, AtStake, Swept
<1>3. CASE Crash \/ Restart
  <2>1. phase' = "recovering" /\ sweep'.of = "none"
    BY <1>3 DEF Crash, Restart, NewProcess, NoSweep
  <2> QED
    BY <2>1 DEF DrainOK, DrainIsComplete
<1>4. CASE SweepRun
  <2>1. UNCHANGED <<phase, hand, busy, slot>> /\ \E t \in sweep.todo : TRUE
    BY <1>4 DEF SweepRun
  <2>2. sweep.of # "none"
    BY <2>1 DEF TurnInv, SweepOK
  <2>3. CASE lost'
    BY <2>1, <2>2, <2>3 DEF DrainOK, DrainIsComplete
  <2>4. CASE ~lost'
    <3>1. /\ ~lost /\ sweep'.of = sweep.of
          /\ \A r \in Runs : state'[r] \in AtStake /\ Swept(r) => Swept(r)'
      BY <1>4, <2>4, SweepRunLeaves DEF AtStake
    <3>2. \A r \in Runs : state'[r] \in AtStake => state[r] \in AtStake
      <4>1. state' = state \/ \E q \in Runs : Terminates(q)
        BY <1>4, SweepTerminates DEF TurnInv
      <4>2. ASSUME NEW q \in Runs, Terminates(q), NEW r \in Runs
            PROVE  MovesRun(r)
        BY <4>2, TerminalizeMoves DEF TurnInv
      <4>3. ASSUME NEW r \in Runs
            PROVE  r # sup.active
        BY <2>1, CommandKinds DEF TurnInv, SweepOK, SlotOK
      <4> QED
        BY <4>1, <4>2, <4>3 DEF MovesRun, AtStake, Ended
    <3> QED
      BY <2>1, <2>2, <3>1, <3>2 DEF DrainOK, DrainIsComplete
  <2> QED
    BY <2>3, <2>4
<1>5. CASE SweepEnds
  <2>1. /\ UNCHANGED <<state, hand, busy, slot, lost>> /\ sweep.todo = {} /\ sweep' = NoSweep
        /\ phase' = IF phase = "sweeping" THEN "down" ELSE phase
        /\ NoSweep.of = "none"
    BY <1>5 DEF SweepEnds, NoSweep, ledger
  <2>2. phase' = "sweeping" => FALSE
    BY <2>1
  <2> QED
    BY <2>1, <2>2 DEF DrainOK, DrainIsComplete, Swept, AtStake
<1>6. CASE Accept \/ AcceptShell
  <2>1. /\ UNCHANGED <<phase, busy, slot, sweep, lost>> /\ hand' = hand \cup {NextRun} /\ phase # "down"
        /\ \E s \in States : state' = [state EXCEPT ![NextRun] = s]
    BY <1>6 DEF Accept, AcceptShell, manager, ledger, Serving, Drains, States, Open
  <2>2. \A r \in Runs \ (hand' \cup busy') : state'[r] = state[r] /\ r \in Runs \ (hand \cup busy)
    BY <2>1 DEF TurnInv, StateOK
  <2> QED
    BY <2>1, <2>2 DEF DrainOK, DrainIsComplete, Swept
<1>7. CASE \E q \in Runs : Cancel(q) \/ Unqueue(q)
  <2>1. PICK q \in Runs : Cancel(q) \/ Unqueue(q)
    BY <1>7
  <2>2. /\ UNCHANGED <<phase, hand, busy, slot, sweep, lost>> /\ state' = [state EXCEPT ![q] = "cancelling"]
    BY <2>1, CancelDoes DEF Typed
  <2>3. \A r \in Runs : state'[r] \in AtStake => state[r] \in AtStake
    BY <2>2 DEF TurnInv, StateOK, AtStake
  <2> QED
    BY <2>2, <2>3 DEF DrainOK, DrainIsComplete, Swept, AtStake
<1>8. CASE \E q \in Runs : HandOffFails(q)
  <2>1. /\ UNCHANGED <<state, phase, slot, sweep, lost>> /\ hand' \cup busy' = hand \cup busy
    BY <1>8 DEF HandOffFails, durable, manager, ledger
  <2> QED
    BY <2>1 DEF DrainOK, DrainIsComplete, Swept
<1>9. CASE \/ \E q \in Runs : Repeat(q) \/ HandOff(q)
           \/ RetireSession \/ BeginDraining \/ ManagerShutdown
           \/ RecoverRun \/ RecoveryRead \/ HandOver \/ Listen
  <2>1. phase' \notin {"sweeping", "down"} /\ sweep' = sweep /\ lost' = lost
    BY <1>9 DEF Repeat, HandOff, Send, RetireSession, BeginDraining, ManagerShutdown, RecoverRun, RecoveryRead,
                HandOver, Listen, manager, ledger
  <2> QED
    BY <2>1 DEF DrainOK, DrainIsComplete
<1>10. CASE \/ \E e \in {"expired", "refused"} : TakeEvent(e)
            \/ UNCHANGED vars
  <2>1. /\ UNCHANGED <<state, phase, hand, busy, sweep, lost>>
        /\ slot = "none" => slot' = "none"
    BY <1>10 DEF TakeEvent, RequestRetirement, vars, durable, ledger
  <2> QED
    BY <2>1 DEF DrainOK, DrainIsComplete, Swept
<1>11. CASE Join
  <2>1. /\ UNCHANGED <<state, phase, hand, busy, lost>> /\ slot # "none"
        /\ sweep'.of \in {"none", "exit"}
    BY <1>11 DEF Join, Sweep, NoSweep, durable, ledger
  <2> QED
    BY <2>1 DEF DrainOK, DrainIsComplete
<1> QED
  BY <1>1, <1>2, <1>3, <1>4, <1>5, <1>6, <1>7, <1>8, <1>9, <1>10, <1>11
     DEF Next, Clients, Manager, Drain, Startup

-----------------------------------------------------------------------------
(* The combined invariant. *)

SessionInv ==
    Layers /\ OutcomeOK /\ RunningOK /\ ShellOK /\ HeldOK /\ UnreadOK /\ DrainOK

(* A daemon that starts for the first time.                                *)
LEMMA SessionInit ==
  ASSUME Init
  PROVE  SessionInv
<1>1. /\ state = [r \in Runs |-> "none"] /\ row = [r \in Runs |-> "none"]
      /\ phase = "up" /\ slot = "none" /\ sup = NoSup /\ chan = <<>> /\ work = <<>>
      /\ ready = 0 /\ hand = {} /\ busy = {} /\ born = {} /\ sweep = NoSweep /\ lost = FALSE
  BY DEF Init
<1>2. Members(<<>>) = {} /\ <<>> \in Seq(Commands) /\ <<>> \in Seq(Runs) /\ NoSup \in SupType
  <2>1. Members(<<>>) = {}
    BY DEF Members
  <2> QED
    BY <2>1, FreshTypes
<1>3. /\ NoSup.at = "none" /\ NoSup.next = "none" /\ NoSup.out = "none" /\ NoSup.saw = "none"
      /\ NoSup.active = 0 /\ NoSup.queue = <<>> /\ NoSup.shells = <<>> /\ ~NoSup.rescan
      /\ ~NoSup.stopping /\ ~NoSup.kept /\ NoSweep.of = "none"
  BY DEF NoSup, Fresh, NoSweep
<1>4. TurnInv
  BY TurnInit
<1>5. Typed
  BY <1>1, <1>2, FreshTypes DEF Typed
<1>6. Where
  BY <1>1, <1>2, <1>3 DEF Where, Gone
<1>7. RowsOK /\ HintsOK /\ PhasesOK
  BY <1>1, <1>2, <1>3 DEF RowsOK, HintsOK, PhasesOK, Ended
<1>8. OutcomeOK /\ RunningOK /\ ShellOK
  BY <1>1, <1>3 DEF OutcomeOK, RunningOK, ShellOK
<1>9. HeldOK /\ UnreadOK /\ DrainOK
  BY <1>1, <1>3 DEF HeldOK, RunHeld, UnreadOK, DrainOK, DrainIsComplete
<1> QED
  BY <1>4, <1>5, <1>6, <1>7, <1>8, <1>9 DEF SessionInv, Layers

(* Every step keeps it.                                                    *)
LEMMA SessionStep ==
  ASSUME SessionInv, [Next]_vars
  PROVE  SessionInv'
<1> USE DEF SessionInv
<1>1. TurnInv /\ Typed /\ Where /\ RowsOK /\ HintsOK /\ PhasesOK
  BY DEF Layers
<1>2. TurnInv'
  BY <1>1, TurnStep
<1>3. Typed' /\ Where'
  BY <1>1, SupervisorTypes, OthersTypes
<1>4. RowsOK'
  BY <1>1, RowsStep
<1>5. HintsOK' /\ PhasesOK'
  BY <1>1, SupervisorHints, OthersHints
<1>6. Layers'
  BY <1>2, <1>3, <1>4, <1>5 DEF Layers
<1> QED
  BY <1>6, OutcomeStep, RunningStep, ShellStep, HeldStep, UnreadStep, DrainStep

(* It holds in every state of every behaviour.                             *)
LEMMA SessionInvariant == Spec => []SessionInv
<1>1. Init => SessionInv
  BY SessionInit
<1>2. SessionInv /\ [Next]_vars => SessionInv'
  BY SessionStep
<1> QED
  BY <1>1, <1>2, PTL DEF Spec

(* Nobody is forgotten: the holders of the invariant are those of the      *)
(* property, and a turn at work is the supervisor's.                       *)
LEMMA NothingForgotten ==
  ASSUME SessionInv
  PROVE  NoTurnForgotten
<1> USE DEF SessionInv, Layers
<1>1. SUFFICES ASSUME phase = "up", ~lost, NEW r \in Runs,
                      \/ state[r] = "queued" /\ row[r] # "none"
                      \/ state[r] \in {"running", "shell"}
               PROVE  Pending(r)
  BY DEF NoTurnForgotten
<1>2. /\ \A q : Hinted(chan, q) => InChannel(q)
      /\ \A q : Hinted(sup.queue, q) => Known(q)
      /\ \A q : Hinted(sup.shells, q) => \E i \in 1..Len(sup.shells) : sup.shells[i].run = q
  BY DEF Hinted, Members, InChannel, Known, InQueue
<1>3. Members(work) = {} /\ ready = 0 /\ r # 0 /\ RunHeld(r)
  BY <1>1, CommandKinds DEF PhasesOK, HeldOK
<1>4. CASE state[r] = "queued" /\ row[r] # "none"
  BY <1>2, <1>3, <1>4 DEF RunHeld, QueuedHeld, Swept, Exiting, Pending, Known
<1>5. CASE state[r] = "shell"
  BY <1>2, <1>3, <1>5 DEF RunHeld, ShellHeld, Swept, Exiting, Pending
<1>6. CASE state[r] = "running"
  BY <1>1, <1>3, <1>6 DEF RunningOK, Pending, Known
<1> QED
  BY <1>1, <1>4, <1>5, <1>6

(* While a turn is at work no direct shell command of its session is, and  *)
(* no other run is called running but recovered ones that wait their turn, *)
(* for any number of runs and whatever crashes, drains, retirements and    *)
(* repeated commands came before (direct_shell_owns_session, and the slot  *)
(* that outlives its task).                                                *)
THEOREM OneThingAtATime == Spec => []OneAtWork
<1>1. SessionInv => OneAtWork
  BY OneAtWorkHolds DEF SessionInv
<1> QED
  BY <1>1, SessionInvariant, PTL

(* While the daemon is up and no sweep gave up, a queued turn with a row,  *)
(* a running turn and a shell command always have someone who will come    *)
(* back to them, for any number of runs and any capacity: full channels    *)
(* and queues, failed hand-offs, retirements and panics lose none.         *)
THEOREM TurnsAreNotForgotten == Spec => []NoTurnForgotten
<1>1. SessionInv => NoTurnForgotten
  BY NothingForgotten
<1> QED
  BY <1>1, SessionInvariant, PTL

(* A drain that ended has left no run queued, running or in a shell,       *)
(* except those whose client was never told of a success, unless its sweep *)
(* gave up.                                                                *)
THEOREM DrainsAreComplete == Spec => []DrainIsComplete
<1>1. SessionInv => DrainIsComplete
  BY DEF SessionInv, DrainOK
<1> QED
  BY <1>1, SessionInvariant, PTL
=============================================================================
