----------------------------- MODULE ReaderLease -----------------------------
(***************************************************************************)
(* What run_reader promises to the controller that starts it: it owns at   *)
(* most one SDK handle at a time, opens no other one after a handle it     *)
(* could not give back, and ends only without one in its hands.            *)
(***************************************************************************)

VARIABLES phase,   \* "off", "running" or "ended"
          handle   \* "none", "held" or "lost"

rvars == <<phase, handle>>

Init == phase = "running" /\ handle = "none"

(* A new reader knows nothing of the handles of the readers before it.     *)
Begin == phase # "running" /\ phase' = "running" /\ handle' = "none"
Acquire == phase = "running" /\ handle = "none" /\ handle' = "held" /\ UNCHANGED phase
Release == handle = "held" /\ handle' = "none" /\ UNCHANGED phase
Lose == handle = "held" /\ handle' = "lost" /\ UNCHANGED phase
End == phase = "running" /\ handle # "held" /\ phase' = "ended" /\ UNCHANGED handle

Next == Acquire \/ Release \/ Lose \/ End

Spec == Init /\ [][Next]_rvars
=============================================================================
