------------------------- MODULE MCProximitySpotter -------------------------
(***************************************************************************)
(* ProximitySpotter fed with frames of a short drive: progressing ticks,   *)
(* repetitions, jumps, a reused publication buffer, another driver,        *)
(* refused fields and a late capture.                                      *)
(***************************************************************************)
EXTENDS ProximitySpotter

CONSTANTS MaxTick, Seen

Frame(fitness, who, tick, buffer, code, captured) ==
    [fitness |-> fitness, context |-> who, tick |-> tick, buffer |-> buffer,
     time |-> tick, code |-> code, captured |-> captured]

MCFrames ==
    {Frame("FIT", 1, k, k, c, k + d) : k \in 0..MaxTick, c \in Seen, d \in 0..1}
        \cup {Frame("FIT", 1, 2, 3, 2, 2), Frame("FIT", 1, 3, 2, 2, 3)}
        \cup {Frame("FIT", 2, k, k, 1, k) : k \in 2..3}
        \cup {Frame(b, 1, 2, 2, 2, 2) : b \in {"UNAVAILABLE", "WAIT_CAR"}}
        \cup {Frame("FIT", 1, 2, 2, 0, 2)}
=============================================================================
