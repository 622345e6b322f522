--------------------------- MODULE CommandStore ---------------------------
(***************************************************************************)
(* What the writers of the journal are promised: every request is a        *)
(* transaction of its own. A session actor hands over one request at a     *)
(* time; the request is carried out entirely or not at all, a command id   *)
(* at most once, and whoever else is served in the same breath has no      *)
(* influence on its fate.                                                  *)
(*                                                                         *)
(* The specification knows of no queue, no byte budget, no group and no    *)
(* receipt. GroupCommit is shown to implement it.                          *)
(***************************************************************************)
EXTENDS Naturals, Sequences

CONSTANTS Sessions,      \* session actors, each the only writer of its journal
          Hooks,         \* the hook engine, which acknowledges dispatch rows
          MaxRequests,   \* requests that the clients of a session make
          Weights        \* byte weights of requests

VARIABLES journal,   \* session -> ids of committed requests, a sequence
          rows,      \* pending hook dispatches: session and sequence number
          req,       \* producer -> the request it makes
          fate       \* producer -> "idle", "pending" or its answer

vars == <<journal, rows, req, fate>>

Producers == Sessions \cup {Hooks}

Ids == 1..MaxRequests

Coordinates == Sessions \X Ids

\* A turn or a new session is accepted under a command id and may be asked for
\* again; an append of a worker may not.
SessionRequests == [kind : {"accept", "append"}, id : Ids, weight : Weights]

AckRequests == [kind : {"ack"}, acks : SUBSET Coordinates, weight : Nat]

NoRequest == [kind |-> "none", weight |-> 0]

Answers == {"committed", "replayed", "refused", "failed"}

Durable(s, id) == \E i \in 1..Len(journal[s]) : journal[s][i] = id

\* The answer that a request deserves, by its own session alone. R are the
\* producers whose request fails the store's semantic checks (generation, branch,
\* run state, metadata) at this attempt.
Deserved(p, R) ==
    IF p = Hooks THEN "committed"
    ELSE IF req[p].kind = "accept" /\ Durable(p, req[p].id) THEN "replayed"
    ELSE IF p \in R THEN "refused" ELSE "committed"

Writes(s, P, R) == s \in P /\ Deserved(s, R) = "committed"

Init ==
    /\ journal = [s \in Sessions |-> <<>>]
    /\ rows = {}
    /\ req = [p \in Producers |-> NoRequest]
    /\ fate = [p \in Producers |-> "idle"]

\* A producer without a request makes one.
Submit(p) ==
    /\ fate[p] = "idle"
    /\ req'[p] \in IF p = Hooks THEN AckRequests ELSE SessionRequests
    /\ req' = [req EXCEPT ![p] = req'[p]]
    /\ fate' = [fate EXCEPT ![p] = "pending"]
    /\ UNCHANGED <<journal, rows>>

\* Some pending requests are carried out, each as if it were alone.
Commit(P, R) ==
    /\ P # {}
    /\ \A p \in P : fate[p] = "pending"
    /\ journal' = [s \in Sessions |-> IF Writes(s, P, R) THEN Append(journal[s], req[s].id)
                                                      ELSE journal[s]]
    /\ rows' = (IF Hooks \in P THEN rows \ req[Hooks].acks ELSE rows)
               \cup {<<s, Len(journal[s]) + 1>> : s \in {t \in Sessions : Writes(t, P, R)}}
    /\ fate' = [p \in Producers |-> IF p \in P THEN Deserved(p, R) ELSE fate[p]]
    /\ UNCHANGED req

\* Some pending requests fail and leave nothing behind.
Fail(P) ==
    /\ P # {}
    /\ \A p \in P : fate[p] = "pending"
    /\ fate' = [p \in Producers |-> IF p \in P THEN "failed" ELSE fate[p]]
    /\ UNCHANGED <<journal, rows, req>>

\* The hook engine writes acknowledgements by itself.
AckDirectly ==
    /\ fate[Hooks] = "idle"
    /\ rows' \subseteq rows
    /\ UNCHANGED <<journal, req, fate>>

Return(p) ==
    /\ fate[p] \in Answers
    /\ fate' = [fate EXCEPT ![p] = "idle"]
    /\ req' = [req EXCEPT ![p] = NoRequest]
    /\ UNCHANGED <<journal, rows>>

\* A crash leaves what is durable.
Crash ==
    /\ fate' = [p \in Producers |-> "idle"]
    /\ req' = [p \in Producers |-> NoRequest]
    /\ UNCHANGED <<journal, rows>>

Next ==
    \/ \E p \in Producers : Submit(p) \/ Return(p)
    \/ \E P \in SUBSET Producers : Fail(P) \/ \E R \in SUBSET P : Commit(P, R)
    \/ AckDirectly
    \/ Crash

Spec == Init /\ [][Next]_vars
============================================================================
