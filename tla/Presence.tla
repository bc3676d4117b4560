------------------------------ MODULE Presence ------------------------------
(* What the server promises about one player it has seen: a player whose    *)
(* control connection is lost stays known, with its playlist and volume,    *)
(* for a full grace period, and only then is forgotten; a player that comes *)
(* back in time is online again and loses nothing.                          *)
EXTENDS Integers

CONSTANT Grace      \* FORGET_DISCONNECTED_TIME, in keepalive intervals

VARIABLES
    player,         \* "absent", "online" or "offline"
    away            \* intervals passed since it went offline, up to Grace

vars == <<player, away>>

Init == player = "absent" /\ away = 0

Appear == player' = "online" /\ away' = 0

Vanish == player = "online" /\ player' = "offline" /\ away' = 0

Wait == player = "offline" /\ away < Grace /\ away' = away + 1 /\ UNCHANGED player

Forget == player = "offline" /\ away = Grace /\ player' = "absent" /\ away' = 0

Next == Appear \/ Vanish \/ Wait \/ Forget

Spec == Init /\ [][Next]_vars
=============================================================================
