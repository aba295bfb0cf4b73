---------------------------- MODULE MCEventBroker ----------------------------
(* Small instances of EventBroker.  The events are numbered per            *)
(* subscription history: MaxOffered bounds how many publications one       *)
(* subscription sees, which is what makes the state space finite.          *)
EXTENDS EventBroker

CONSTANT MaxOffered

BoundedPublish(d, event) ==
  /\ \A s \in Subs : Len(offered[s]) < MaxOffered
  /\ Publish(d, event)

MCNext ==
  \/ Manage
  \/ \E d \in Dialogs, event \in Events : BoundedPublish(d, event)

MCSpec == Init /\ [][MCNext]_brokerVars /\ Fairness
=============================================================================
