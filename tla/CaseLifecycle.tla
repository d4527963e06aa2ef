---------------------------- MODULE CaseLifecycle ----------------------------
(* What the runner and its store promise a caller, without tasks, slots or a
   dictionary: every accepted submission moves

       queued -> running -> succeeded | failed | cancelled -> dropped,

   begins in the order it was accepted, with at most MaxConcurrent running; a
   caller may drop it at any time, the store only once it is settled; and it
   does not stay queued or running for ever.  (models/README.md draws the
   diagram, models/enums.py and services/runner.py state the promises.) *)
EXTENDS Naturals, FiniteSets

CONSTANTS MaxSubmits, MaxConcurrent

VARIABLE status   \* submission -> where it has got to

Submissions == 1..MaxSubmits
Unsettled == {"queued", "running"}
Final == {"succeeded", "failed", "cancelled"}

With(s) == {n \in Submissions : status[n] = s}

\* The statuses after the cases of V have been dropped.
Dropping(V) == [n \in Submissions |-> IF n \in V THEN "dropped" ELSE status[n]]

(* Accept submission n, which may push settled cases V out of the store. *)
Accept(n, V) ==
    /\ status[n] = "none"
    /\ \A m \in Submissions : m < n => status[m] # "none"
    /\ \A v \in V : status[v] \in Final
    /\ status' = [Dropping(V) EXCEPT ![n] = "queued"]

(* The store expires settled cases. *)
Expire(V) ==
    /\ \A v \in V : status[v] \in Final
    /\ status' = Dropping(V)

(* n gets a slot: nobody accepted before it is still queued. *)
Begin(n) ==
    /\ status[n] = "queued"
    /\ \A m \in Submissions : m < n => status[m] # "queued"
    /\ Cardinality(With("running")) < MaxConcurrent
    /\ status' = [status EXCEPT ![n] = "running"]

(* The run of n ends in its one outcome. *)
Settle(n) ==
    /\ status[n] = "running"
    /\ \E s \in Final : status' = [status EXCEPT ![n] = s]

(* Shutdown reaches a case that never began. *)
Abandon(n) ==
    /\ status[n] = "queued"
    /\ status' = [status EXCEPT ![n] = "cancelled"]

(* The caller deletes the case. *)
Drop(n) ==
    /\ status[n] \in Unsettled \cup Final
    /\ status' = [status EXCEPT ![n] = "dropped"]

Init == status = [n \in Submissions |-> "none"]

Next ==
    \/ \E n \in Submissions :
          \/ \E V \in SUBSET Submissions : Accept(n, V)
          \/ Begin(n)
          \/ Settle(n)
          \/ Abandon(n)
          \/ Drop(n)
    \/ \E V \in SUBSET Submissions : Expire(V)

(* A running case is eventually settled, and a slot that stays free is
   eventually given to the case whose turn it is. *)
Fairness == \A n \in Submissions :
               WF_status(Settle(n)) /\ WF_status(Begin(n))

SafeSpec == Init /\ [][Next]_status
Spec == SafeSpec /\ Fairness
=============================================================================
