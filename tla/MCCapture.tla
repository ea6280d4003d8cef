----------------------------- MODULE MCCapture -----------------------------
(***************************************************************************)
(* Samples of one connection for TLC: any of three ticks and two clocks,   *)
(* and two ticks at which one other field is away from its usual value.    *)
(* The usual payload names a track length and an event; another says       *)
(* nothing of the event, one names no length, and one names another event. *)
(***************************************************************************)
EXTENDS Capture

Sample(t, c) ==
    [tick |-> t, update |-> 2, session |-> 1, time |-> 2, values |-> 1,
     schema |-> 1, info |-> 1, scope |-> 1, clock |-> c]

MCSamples ==
    {Sample(t, c) : t \in {1, 2, 4}, c \in {1, 3}} \cup UNION {
        {[s EXCEPT !.update = 1], [s EXCEPT !.session = 2], [s EXCEPT !.time = 1],
         [s EXCEPT !.values = 2], [s EXCEPT !.schema = 2], [s EXCEPT !.info = 2],
         [s EXCEPT !.scope = 2], [s EXCEPT !.clock = NoClock]} :
        s \in {Sample(1, 1), Sample(2, 3)}}
    \cup {[Sample(2, 3) EXCEPT !.info = 3], [Sample(2, 3) EXCEPT !.info = 4],
          [Sample(2, 3) EXCEPT !.values = 3]}

MCTrackOf == <<1, 1, 0, 1>>
MCEventOf == <<1, 0, 1, 2>>
MCCarOf == <<1, 0, 2>>

MCLine == [k \in Kinds \cup {"receipt"} |-> 2]
============================================================================
