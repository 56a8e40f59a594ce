------------------------------ MODULE StageWork ------------------------------
(***************************************************************************)
(* What the queue promises, without threads, claims, leases or fences:     *)
(* each piece of stage work is opened once and decided once.  Completing   *)
(* it moves its item one version on and leaves a debt, the work of the     *)
(* next stage, which is paid by opening that work (or finding it open).    *)
(* Work of a later stage is opened in no other way.                        *)
(***************************************************************************)
EXTENDS Naturals

CONSTANTS Items, Stages, Inputs, Outputs, FirstStage, LastStage,
          Following(_)      \* the stage after a stage

Work == Items \X Stages \X (Inputs \cup Outputs)

VARIABLES
    outcome,    \* "none", "open", "done" or "dead" for each piece of work
    version,    \* commits of each item, plus one once it is registered
    owed        \* completed work whose next stage has not been opened yet

workVars == <<outcome, version, owed>>

Init ==
    /\ outcome = [k \in Work |-> "none"]
    /\ version = [i \in Items |-> 0]
    /\ owed = {}

Register(i) ==
    /\ version[i] = 0
    /\ version' = [version EXCEPT ![i] = 1]
    /\ UNCHANGED <<outcome, owed>>

(* A client opens work of the first stage.                                 *)
Open(k) ==
    /\ k[2] = FirstStage
    /\ version[k[1]] > 0
    /\ outcome[k] = "none"
    /\ outcome' = [outcome EXCEPT ![k] = "open"]
    /\ UNCHANGED <<version, owed>>

Complete(k) ==
    /\ outcome[k] = "open"
    /\ outcome' = [outcome EXCEPT ![k] = "done"]
    /\ version' = [version EXCEPT ![k[1]] = @ + 1]
    /\ owed' = IF k[2] = LastStage THEN owed ELSE owed \cup {k}

Pay(k) ==
    /\ k \in owed
    /\ \E o \in Outputs :
          LET next == <<k[1], Following(k[2]), o>> IN
          outcome' = [outcome EXCEPT ![next] = IF @ = "none" THEN "open" ELSE @]
    /\ owed' = owed \ {k}
    /\ UNCHANGED version

(* A reset makes the work worthless.                                       *)
Discard(k) ==
    /\ outcome[k] = "open"
    /\ outcome' = [outcome EXCEPT ![k] = "dead"]
    /\ UNCHANGED <<version, owed>>

Next ==
    \/ \E i \in Items : Register(i)
    \/ \E k \in Work : Open(k) \/ Complete(k) \/ Pay(k) \/ Discard(k)

Spec == Init /\ [][Next]_workVars

(* Debts are paid.                                                         *)
FairSpec == Spec /\ \A k \in Work : WF_workVars(Pay(k))
=============================================================================
