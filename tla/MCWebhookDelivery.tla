-------------------------- MODULE MCWebhookDelivery --------------------------
(* A queued job that is given an artifact, and one that stays as it is. *)
EXTENDS WebhookDelivery

CONSTANTS p1, p2, w1, o1, a1

QueuedJob(artifacts) == [status |-> "queued", phase |-> 1,
                         artifacts |-> artifacts]

SmallJob == {QueuedJob({}), QueuedJob({a1})}
StillJob == {QueuedJob({})}
==============================================================================
