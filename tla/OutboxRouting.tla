---------------------------- MODULE OutboxRouting ----------------------------
(***************************************************************************)
(* The routing policy the API relay and the worker share                   *)
(* (packages/sync-protocol/src/outbox-routing.ts) and the schema check the *)
(* relay applies before it.  An outbox payload is abstracted to the two    *)
(* fields the policy reads; a missing eventType is the string "none".      *)
(***************************************************************************)
EXTENDS Naturals

\* Payloads, as [aggregateType, eventType].
Payload(aggregate, event) == [aggregateType |-> aggregate, eventType |-> event]

ProjectionAggregates == {"road_run", "transport_order", "manifest", "stop"}

\* Aggregates with an event of their own, the only one the policy routes.
DedicatedEvent ==
  [manifest_intake     |-> [event |-> "manifest_intake.requested",     queue |-> "intake"],
   manifest_extraction |-> [event |-> "manifest_extraction.requested", queue |-> "extraction"],
   driver_alert        |-> [event |-> "driver_alert.requested",        queue |-> "alerts"]]

Queues == {"intake", "extraction", "erp", "projections", "alerts"}
Rejections == {"invalid_payload", "unknown_aggregate", "unknown_event_type"}

\* OutboxPayloadSchema: both strings present.
ValidPayload(p) == p.aggregateType # "none" /\ p.eventType # "none"

\* routeOutboxRow: the queue of a payload, or the reason it is rejected.
RouteOutboxRow(p) ==
  CASE p.aggregateType \in DOMAIN DedicatedEvent ->
         IF p.eventType = DedicatedEvent[p.aggregateType].event
         THEN DedicatedEvent[p.aggregateType].queue
         ELSE "unknown_event_type"
    [] p = Payload("manifest", "manifest.committed") -> "erp"
    [] p.aggregateType \in ProjectionAggregates /\ p # Payload("manifest", "manifest.committed") ->
         "projections"
    [] OTHER -> "unknown_aggregate"

\* What the relay does with a claimed payload: schema first, then the policy.
Decision(p) == IF ValidPayload(p) THEN RouteOutboxRow(p) ELSE "invalid_payload"

Routable(p) == Decision(p) \in Queues
=============================================================================
