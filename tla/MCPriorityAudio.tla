-------------------------- MODULE MCPriorityAudio --------------------------
(***************************************************************************)
(* The production wiring of PriorityAudio: the voice worker records,       *)
(* speaks and lists devices; the proximity worker lists devices, plays the *)
(* deferred notice and makes the urgent calls.                             *)
(***************************************************************************)
EXTENDS PriorityAudio

CONSTANTS Voice, Proximity

MCCallers == {Voice, Proximity}
MCRepertoire ==
    [c \in MCCallers |-> IF c = Voice THEN {"devices", "record", "play"}
                         ELSE {"devices", "background", "urgent"}]
=============================================================================
