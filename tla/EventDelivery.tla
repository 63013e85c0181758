------------------------------ MODULE EventDelivery ------------------------------
(***************************************************************************)
(* What the operator promises about a webhook event and a binding it was   *)
(* addressed to (README.md, "signed inbound webhooks with retry/dead-      *)
(* letter storage"): the application may handle it any number of times,    *)
(* also after the operator has given up, and it ends delivered, which the  *)
(* application has then acknowledged, or dead-lettered, or - only with the *)
(* process, or with the database refusing the dead letter - lost.  How it  *)
(* ended never changes.                                                    *)
(***************************************************************************)
CONSTANT Deliveries   \* pairs of an event and a binding

VARIABLES
  outcome,    \* what became of each delivery
  handled     \* history: has the application seen it?

deliveryVars == <<outcome, handled>>

DeliveryInit ==
  /\ outcome = [d \in Deliveries |-> "none"]
  /\ handled = [d \in Deliveries |-> FALSE]

\* The event is addressed to some bindings.
Address(D) ==
  /\ \A d \in D : outcome[d] = "none"
  /\ outcome' = [d \in Deliveries |-> IF d \in D THEN "owed" ELSE outcome[d]]
  /\ UNCHANGED handled

Handle(d) ==
  /\ outcome[d] # "none"
  /\ handled' = [handled EXCEPT ![d] = TRUE]
  /\ UNCHANGED outcome

Acknowledge(d) ==
  /\ outcome[d] = "owed"
  /\ handled' = [handled EXCEPT ![d] = TRUE]
  /\ outcome' = [outcome EXCEPT ![d] = "delivered"]

GiveUp(d) ==
  /\ outcome[d] = "owed"
  /\ outcome' = [outcome EXCEPT ![d] = "dead_letter"]
  /\ UNCHANGED handled

Lose(D) ==
  /\ \A d \in D : outcome[d] = "owed"
  /\ outcome' = [d \in Deliveries |-> IF d \in D THEN "lost" ELSE outcome[d]]
  /\ UNCHANGED handled

DeliveryNext ==
  \/ \E D \in SUBSET Deliveries : Address(D) \/ Lose(D)
  \/ \E d \in Deliveries : Handle(d) \/ Acknowledge(d) \/ GiveUp(d)

DeliverySpec == DeliveryInit /\ [][DeliveryNext]_deliveryVars

-----------------------------------------------------------------------------
(* What the promise amounts to.                                            *)

\* An event that ended delivered was handled, and none that nobody was owed.
DeliveredWasHandled ==
  \A d \in Deliveries : /\ outcome[d] = "delivered" => handled[d]
                        /\ handled[d] => outcome[d] # "none"

\* How a delivery ended never changes, whatever the application still does with the event.
EndsAreFinal ==
  [][\A d \in Deliveries :
       outcome[d] \in {"delivered", "dead_letter", "lost"} => outcome'[d] = outcome[d]]_deliveryVars

=============================================================================
