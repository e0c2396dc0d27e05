-------------------------- MODULE MCEventConsumer --------------------------
(* Small instances of EventConsumer: two replicas, two events.              *)
EXTENDS EventConsumer, TLC

CONSTANTS c1, c2

MCConsumers == {c1, c2}

\* Two events of one aggregate, in order.
MCEvents == 1 .. 2
MCAggOf == [e \in MCEvents |-> "A"]
MCCreatedAt == [e \in MCEvents |-> e]

\* Two replicas of one service; or of two, one without the topic of event 2.
MCTopics == [c \in MCConsumers |-> MCEvents]
MCMixedTopics == (c1 :> {1, 2}) @@ (c2 :> {1})

\* No own events; or: event 1 was published by the service of c2.
MCNoOwn == [c \in MCConsumers |-> {}]
MCOwn == (c1 :> {}) @@ (c2 :> {1})

\* Fan-out to two handlers for the first event.
MCHandlers == [e \in MCEvents |-> IF e = 1 THEN 2 ELSE 1]

\* A single event with two handlers, for the retry path.
MCOneEvent == {1}
MCOneAggOf == [e \in MCOneEvent |-> "A"]
MCOneCreatedAt == [e \in MCOneEvent |-> e]
MCOneTopics == [c \in MCConsumers |-> MCOneEvent]
MCTwoHandlers == [e \in MCOneEvent |-> 2]

Symmetry == Permutations(MCConsumers)
=============================================================================
