---------------------------- MODULE MCOutboxRelay ----------------------------
EXTENDS OutboxRelay
CONSTANTS p1, p2
MCRows == 1..2
MCPayloads == {Payload("road_run", "road_run.created"), Payload("road_run", "none")}
MCRelays == {p1, p2}
=============================================================================
