---------------------------- MODULE ProximityFeed ----------------------------
(***************************************************************************)
(* What the proximity detector promises to whoever turns its candidates    *)
(* into sound: one mailbox whose candidate always agrees with the latest   *)
(* observation, is withdrawn with it and never survives a loss of          *)
(* continuity, and whose sequence numbers are never used twice.            *)
(***************************************************************************)
EXTENDS Integers

CONSTANTS Codes,     \* occupancy codes an observation may have
          Nothing    \* no observation, no candidate

VARIABLES ready,     \* the observation may be acted upon
          code,      \* the latest observation, or Nothing
          candidate, \* [sequence, epoch, state], or Nothing
          epoch,     \* changes whenever continuity is lost
          serial     \* the last sequence number used

fvars == <<ready, code, candidate, epoch, serial>>

Init ==
    /\ ready = FALSE
    /\ code = Nothing
    /\ candidate = Nothing
    /\ epoch = 0
    /\ serial = 0

(* Continuity is lost; a sample that starts anew may come with the loss.   *)
Lose ==
    /\ ready' = FALSE
    /\ candidate' = Nothing
    /\ code' \in Codes \cup {Nothing}
    /\ epoch' = IF code = Nothing THEN epoch ELSE epoch + 1
    /\ UNCHANGED serial

Keep == candidate' = candidate /\ serial' = serial
Drop == candidate' = Nothing /\ serial' = serial
Post(c) ==
    /\ candidate' = [sequence |-> serial + 1, epoch |-> epoch, state |-> c]
    /\ serial' = serial + 1

(* The next progressing sample of the same context.                        *)
Observe(c) ==
    /\ code # Nothing
    /\ ready' = TRUE
    /\ code' = c
    /\ \/ Keep /\ (candidate # Nothing => candidate.state = c)
       \/ Drop
       \/ Post(c)
    /\ UNCHANGED epoch

Withdraw == Drop /\ UNCHANGED <<ready, code, epoch>>

Next == Lose \/ (\E c \in Codes : Observe(c)) \/ Withdraw

Spec == Init /\ [][Next]_fvars
=============================================================================
