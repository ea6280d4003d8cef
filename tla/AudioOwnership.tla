--------------------------- MODULE AudioOwnership ---------------------------
(***************************************************************************)
(* What the audio arbiter promises, without saying how: one call at a time *)
(* owns the sound hardware, a call may be revoked while it owns it, and    *)
(* the result of a revoked call is never delivered to its caller.          *)
(***************************************************************************)
CONSTANTS Callers,    \* threads that use the sound hardware
          NoCaller,   \* "nobody owns the hardware"
          Kinds       \* the operations a caller may ask for

VARIABLES owner,      \* the caller that owns the hardware, or NoCaller
          request,    \* request[c]: the kind of call c is making, or "none"
          revoked,    \* revoked[c]: c's current call lost its ownership
          verdict     \* verdict[c]: how c's current or last call was settled

avars == <<owner, request, revoked, verdict>>

Init ==
    /\ owner = NoCaller
    /\ request = [c \in Callers |-> "none"]
    /\ revoked = [c \in Callers |-> FALSE]
    /\ verdict = [c \in Callers |-> "undelivered"]

Ask(c, k) ==
    /\ request[c] = "none"
    /\ request' = [request EXCEPT ![c] = k]
    /\ revoked' = [revoked EXCEPT ![c] = FALSE]
    /\ verdict' = [verdict EXCEPT ![c] = "open"]
    /\ UNCHANGED owner

Refuse(c) ==
    /\ request[c] # "none"
    /\ owner # c
    /\ request' = [request EXCEPT ![c] = "none"]
    /\ verdict' = [verdict EXCEPT ![c] = "undelivered"]
    /\ UNCHANGED <<owner, revoked>>

(* Ownership is granted only while nobody holds it: a revoked owner is     *)
(* waited for, it is never overtaken.                                      *)
Grant(c) ==
    /\ request[c] # "none"
    /\ owner = NoCaller
    /\ owner' = c
    /\ UNCHANGED <<request, revoked, verdict>>

Revoke(c) ==
    /\ owner = c
    /\ revoked' = [revoked EXCEPT ![c] = TRUE]
    /\ UNCHANGED <<owner, request, verdict>>

Settle(c, v) ==
    /\ owner = c
    /\ verdict[c] = "open"
    /\ v = "delivered" => ~revoked[c]
    /\ verdict' = [verdict EXCEPT ![c] = v]
    /\ UNCHANGED <<owner, request, revoked>>

Release(c) ==
    /\ owner = c
    /\ verdict[c] # "open"
    /\ owner' = NoCaller
    /\ request' = [request EXCEPT ![c] = "none"]
    /\ UNCHANGED <<revoked, verdict>>

Next ==
    \E c \in Callers :
        \/ \E k \in Kinds : Ask(c, k)
        \/ Refuse(c)
        \/ Grant(c)
        \/ Revoke(c)
        \/ \E v \in {"delivered", "undelivered"} : Settle(c, v)
        \/ Release(c)

Spec == Init /\ [][Next]_avars
=============================================================================
