---------------------------- MODULE PriorityAudio ----------------------------
(***************************************************************************)
(* priority_audio.PriorityAudio over the one AudioIO lock of               *)
(* voice_audio.AudioIO: several threads, one sound device.  A call of a    *)
(* thread holds a token (its _LinkedStop); since a thread makes one call   *)
(* at a time, the caller names the token.  Condition-protected blocks are  *)
(* single actions, everything between two blocks interleaves.              *)
(***************************************************************************)
EXTENDS Integers, FiniteSets

CONSTANTS Callers,      \* the threads that share the arbiter
          NoCaller,     \* Python's None in _active
          Repertoire    \* Repertoire[c]: the operations thread c ever calls

Rank == [devices |-> 1, record |-> 1, play |-> 1, background |-> 0, urgent |-> 2]
Kinds == {"devices", "record", "play", "background", "urgent"}

(* "Only one proximity worker calls this API" (PriorityAudio.urgent).      *)
ASSUME RepertoireAssumption ==
    /\ NoCaller \notin Callers
    /\ Repertoire \in [Callers -> SUBSET Kinds]
    /\ \A c, d \in Callers :
         "urgent" \in Repertoire[c] \cap Repertoire[d] => c = d

VARIABLES
    pc,             \* where each thread stands in its call
    kind,           \* the operation it calls
    active,         \* PriorityAudio._active
    urgentWaiting,  \* PriorityAudio._urgent_waiting
    cancelled,      \* the token's own Event, set by others and by AudioIO
    stopped,        \* the caller's Event, token.parent
    overdue,        \* the 250 ms wait or the candidate deadline has passed
    warranted,      \* the caller's guard still returns true
    lock,           \* AudioIO._lock
    stream,         \* the PortAudio stream of the call
    fault,          \* an AudioError is propagating
    hung,           \* the driver never returns from the current device call
    outcome         \* what the call gave its caller

token == <<cancelled, stopped, overdue, warranted>>
device == <<lock, stream, fault, hung>>
vars == <<pc, kind, active, urgentWaiting, token, device, outcome>>

InDevice == {"backend", "resolve", "open", "recheck", "start", "run", "dispose"}
Stages == {"idle", "enter", "yield", "granted", "admit", "await"}
            \cup InDevice \cup {"settle", "release", "leave"}
Outcomes == {"none", "delivered", "empty", "preempted", "withdrawn", "failed"}

TypeOK ==
    /\ pc \in [Callers -> Stages]
    /\ kind \in [Callers -> Kinds]
    /\ active \in Callers \cup {NoCaller}
    /\ urgentWaiting \in BOOLEAN
    /\ cancelled \in [Callers -> BOOLEAN]
    /\ stopped \in [Callers -> BOOLEAN]
    /\ overdue \in [Callers -> BOOLEAN]
    /\ warranted \in [Callers -> BOOLEAN]
    /\ lock \in Callers \cup {NoCaller}
    /\ stream \in [Callers -> {"none", "open", "started"}]
    /\ fault \in [Callers -> BOOLEAN]
    /\ hung \in [Callers -> BOOLEAN]
    /\ outcome \in [Callers -> Outcomes]

Init ==
    /\ pc = [c \in Callers |-> "idle"]
    /\ kind = [c \in Callers |-> "devices"]
    /\ active = NoCaller
    /\ urgentWaiting = FALSE
    /\ cancelled = [c \in Callers |-> FALSE]
    /\ stopped = [c \in Callers |-> FALSE]
    /\ overdue = [c \in Callers |-> FALSE]
    /\ warranted = [c \in Callers |-> TRUE]
    /\ lock = NoCaller
    /\ stream = [c \in Callers |-> "none"]
    /\ fault = [c \in Callers |-> FALSE]
    /\ hung = [c \in Callers |-> FALSE]
    /\ outcome = [c \in Callers |-> "none"]

At(c, stage) == pc[c] = stage /\ ~hung[c]
Goto(c, stage) == pc' = [pc EXCEPT ![c] = stage]
Give(c, o) == outcome' = [outcome EXCEPT ![c] = o]

(* _LinkedStop.is_set: the token's own Event or its parent.                *)
IsSet(c) == cancelled[c] \/ stopped[c]

(* urgent's admitted() and SpotterVoice's can_start().                     *)
Admitted(c) == ~IsSet(c) /\ ~overdue[c] /\ warranted[c]
Guarded(c) == kind[c] \in {"urgent", "background"}
GuardFails(c) == Guarded(c) /\ ~Admitted(c)

-----------------------------------------------------------------------------
(* The callers and their context.                                          *)

Call(c, k) ==
    /\ pc[c] = "idle"
    /\ Goto(c, "enter")
    /\ kind' = [kind EXCEPT ![c] = k]
    /\ cancelled' = [cancelled EXCEPT ![c] = FALSE]
    /\ stopped' = [stopped EXCEPT ![c] = FALSE]
    /\ overdue' = [overdue EXCEPT ![c] = FALSE]
    /\ warranted' = [warranted EXCEPT ![c] = TRUE]
    /\ fault' = [fault EXCEPT ![c] = FALSE]
    /\ Give(c, "none")
    /\ UNCHANGED <<active, urgentWaiting, lock, stream, hung>>

(* The driver releases the key, or the service cancels the call.           *)
Stop(c) ==
    /\ pc[c] # "idle"
    /\ kind[c] # "devices"
    /\ stopped' = [stopped EXCEPT ![c] = TRUE]
    /\ UNCHANGED <<pc, kind, active, urgentWaiting, cancelled, overdue, warranted,
                   device, outcome>>

(* Occupancy moved on: the call's guard is false from now on.              *)
Withdraw(c) ==
    /\ pc[c] # "idle"
    /\ Guarded(c)
    /\ warranted' = [warranted EXCEPT ![c] = FALSE]
    /\ UNCHANGED <<pc, kind, active, urgentWaiting, cancelled, stopped, overdue,
                   device, outcome>>

Expire(c) ==
    /\ pc[c] # "idle"
    /\ overdue' = [overdue EXCEPT ![c] = TRUE]
    /\ UNCHANGED <<pc, kind, active, urgentWaiting, cancelled, stopped, warranted,
                   device, outcome>>

(* A driver call that never returns.                                       *)
Hang(c) ==
    /\ pc[c] \in {"resolve", "open", "start", "dispose"}
    /\ hung' = [hung EXCEPT ![c] = TRUE]
    /\ UNCHANGED <<pc, kind, active, urgentWaiting, token, lock, stream, fault, outcome>>

-----------------------------------------------------------------------------
(* _normal: devices, record, play and background_play.                     *)

Cancel(c) == cancelled' = [cancelled EXCEPT ![c] = TRUE]
CallerState == <<kind, stopped, overdue, warranted>>

(* PTT may interrupt a notice, never a proximity call.                     *)
MayInterruptPeer(c) ==
    active # NoCaller /\ Rank[kind[active]] <= Rank[kind[c]] /\ ~urgentWaiting
MayInterrupt(c) ==
    active # NoCaller /\ Rank[kind[active]] < Rank[kind[c]] /\ ~urgentWaiting

Refused(c) ==
    /\ Give(c, "preempted")
    /\ Goto(c, "idle")
    /\ UNCHANGED active

TakeWhenFree(c) ==
    IF active # NoCaller
    THEN Refused(c)
    ELSE active' = c /\ Goto(c, "granted") /\ UNCHANGED outcome
TakeNormal(c) ==
    IF active # NoCaller \/ urgentWaiting
    THEN Refused(c)
    ELSE /\ active' = c
         /\ Goto(c, "granted")
         /\ UNCHANGED outcome

NormalEnter(c) ==
    /\ At(c, "enter")
    /\ kind[c] # "urgent"
    /\ IF MayInterrupt(c)
       THEN Cancel(active) /\ Goto(c, "yield") /\ UNCHANGED <<active, outcome>>
       ELSE TakeNormal(c) /\ UNCHANGED cancelled
    /\ UNCHANGED <<CallerState, urgentWaiting, device>>

(* The wait ends when the owner released, an urgent call arrived, the      *)
(* caller was cancelled, or 250 ms passed; then the same test as on entry. *)
WaitUntilReleased(c) == active = NoCaller \/ urgentWaiting \/ IsSet(c)
WaitOver(c) == active = NoCaller \/ urgentWaiting \/ IsSet(c) \/ overdue[c]

NormalWaited(c) ==
    /\ At(c, "yield")
    /\ WaitOver(c)
    /\ TakeNormal(c)
    /\ UNCHANGED <<CallerState, cancelled, urgentWaiting, device>>

(* if token.is_set(): return None                                          *)
NormalBegin(c) ==
    /\ At(c, "granted")
    /\ IF IsSet(c)
       THEN Give(c, "empty") /\ Goto(c, "release")
       ELSE Goto(c, "backend") /\ UNCHANGED outcome
    /\ UNCHANGED <<CallerState, cancelled, active, urgentWaiting, device>>

-----------------------------------------------------------------------------
(* urgent: the proximity call.                                             *)

UrgentEnter(c) ==
    /\ At(c, "enter")
    /\ kind[c] = "urgent"
    /\ IF urgentWaiting
       THEN Refused(c) /\ UNCHANGED urgentWaiting
       ELSE urgentWaiting' = TRUE /\ Goto(c, "admit") /\ UNCHANGED <<active, outcome>>
    /\ UNCHANGED <<CallerState, cancelled, device>>

Abandon(c) ==
    /\ Give(c, "withdrawn")
    /\ Goto(c, "leave")
    /\ UNCHANGED active

TakeUrgent(c) ==
    /\ active' = c
    /\ Goto(c, "backend")
    /\ UNCHANGED outcome

UrgentAdmit(c) ==
    /\ At(c, "admit")
    /\ \/ /\ ~Admitted(c)
          /\ Abandon(c)
          /\ UNCHANGED cancelled
       \/ /\ Admitted(c)
          /\ active # NoCaller
          /\ Cancel(active)
          /\ Goto(c, "await")
          /\ UNCHANGED <<active, outcome>>
       \/ /\ Admitted(c)
          /\ active = NoCaller
          /\ TakeUrgent(c)
          /\ UNCHANGED cancelled
    /\ UNCHANGED <<CallerState, urgentWaiting, device>>

(* The owner must actually have released before the call may take over.    *)
OwnerCancelled == active = NoCaller \/ cancelled[active]
OwnerReleased == active = NoCaller

UrgentWaited(c) ==
    /\ At(c, "await")
    /\ \/ ~Admitted(c) /\ Abandon(c)
       \/ Admitted(c) /\ OwnerReleased /\ TakeUrgent(c)
    /\ UNCHANGED <<CallerState, cancelled, urgentWaiting, device>>

-----------------------------------------------------------------------------
(* AudioIO.devices, record and play, up to the disposal of the stream.     *)

Playback == {"play", "background", "urgent"}
ArbiterState == <<CallerState, active, urgentWaiting, outcome>>

(* A stop seen on entry returns at once; otherwise the lock is tried       *)
(* without blocking and AUDIO_BUSY is raised when somebody holds it.       *)
DeviceEnter(c) ==
    /\ At(c, "backend")
    /\ \/ /\ kind[c] # "devices" /\ IsSet(c)
          /\ Goto(c, "settle")
          /\ UNCHANGED <<lock, fault>>
       \/ /\ kind[c] = "devices" \/ ~IsSet(c)
          /\ IF lock = NoCaller
             THEN lock' = c /\ Goto(c, "resolve") /\ UNCHANGED fault
             ELSE fault' = [fault EXCEPT ![c] = TRUE] /\ Goto(c, "settle") /\ UNCHANGED lock
    /\ UNCHANGED <<ArbiterState, cancelled, stream, hung>>

DeviceFault(c) ==
    /\ pc[c] \in {"resolve", "open", "start", "run"}
    /\ ~hung[c]
    /\ fault' = [fault EXCEPT ![c] = TRUE]
    /\ Goto(c, "dispose")
    /\ UNCHANGED <<ArbiterState, cancelled, lock, stream, hung>>

(* Device lookup, then the start guard; a refused guard sets the stop.     *)
Resolve(c) ==
    /\ At(c, "resolve")
    /\ IF GuardFails(c) THEN Cancel(c) ELSE UNCHANGED cancelled
    /\ IF kind[c] = "devices" \/ IsSet(c) \/ GuardFails(c)
       THEN Goto(c, "dispose")
       ELSE Goto(c, "open")
    /\ UNCHANGED <<ArbiterState, device>>

(* A recording starts as soon as it is open; playback looks again.         *)
Open(c) ==
    /\ At(c, "open")
    /\ stream' = [stream EXCEPT ![c] = "open"]
    /\ Goto(c, IF kind[c] = "record" THEN "start" ELSE "recheck")
    /\ UNCHANGED <<ArbiterState, cancelled, lock, fault, hung>>

Recheck(c) ==
    /\ At(c, "recheck")
    /\ IF IsSet(c) \/ GuardFails(c)
       THEN Cancel(c) /\ Goto(c, "dispose")
       ELSE Goto(c, "start") /\ UNCHANGED cancelled
    /\ UNCHANGED <<ArbiterState, device>>

Start(c) ==
    /\ At(c, "start")
    /\ stream' = [stream EXCEPT ![c] = "started"]
    /\ Goto(c, "run")
    /\ UNCHANGED <<ArbiterState, cancelled, lock, fault, hung>>

(* The last sample, the recording cap or a stop ends the stream.           *)
RunEnds(c) ==
    /\ At(c, "run")
    /\ Goto(c, "dispose")
    /\ UNCHANGED <<ArbiterState, cancelled, device>>

(* abort and close; a failing close is an AudioError of its own.           *)
Dispose(c) ==
    /\ At(c, "dispose")
    /\ \/ UNCHANGED fault
       \/ stream[c] # "none" /\ fault' = [fault EXCEPT ![c] = TRUE]
    /\ stream' = [stream EXCEPT ![c] = "none"]
    /\ lock' = NoCaller
    /\ Goto(c, "settle")
    /\ UNCHANGED <<ArbiterState, cancelled, hung>>

-----------------------------------------------------------------------------
(* Back in the arbiter.                                                    *)

(* Only the token's own Event discards: a key release is parent's.         *)
DiscardsUnlessReleased(c) == cancelled[c] /\ ~stopped[c]
Discards(c) == cancelled[c]

Verdict(c) ==
    CASE fault[c] -> "failed"
      [] ~fault[c] /\ kind[c] = "urgent" -> IF IsSet(c) THEN "withdrawn" ELSE "delivered"
      [] OTHER -> IF Discards(c) THEN "preempted" ELSE "delivered"

Settle(c) ==
    /\ At(c, "settle")
    /\ Give(c, Verdict(c))
    /\ Goto(c, "release")
    /\ UNCHANGED <<CallerState, cancelled, active, urgentWaiting, device>>

Release(c) ==
    /\ At(c, "release")
    /\ active' = NoCaller
    /\ Goto(c, IF kind[c] = "urgent" THEN "leave" ELSE "idle")
    /\ UNCHANGED <<CallerState, cancelled, urgentWaiting, device, outcome>>

UrgentLeave(c) ==
    /\ At(c, "leave")
    /\ urgentWaiting' = FALSE
    /\ Goto(c, "idle")
    /\ UNCHANGED <<CallerState, cancelled, active, device, outcome>>

-----------------------------------------------------------------------------
Arbitrate(c) ==
    \/ NormalEnter(c) \/ NormalWaited(c) \/ NormalBegin(c)
    \/ UrgentEnter(c) \/ UrgentAdmit(c) \/ UrgentWaited(c)
    \/ Settle(c) \/ Release(c) \/ UrgentLeave(c)

Operate(c) ==
    \/ DeviceEnter(c) \/ DeviceFault(c) \/ Resolve(c) \/ Open(c)
    \/ Recheck(c) \/ Start(c) \/ RunEnds(c) \/ Dispose(c)

Environment(c) ==
    \/ \E k \in Repertoire[c] : Call(c, k)
    \/ Stop(c) \/ Withdraw(c) \/ Expire(c) \/ Hang(c)

Next == \E c \in Callers : Environment(c) \/ Arbitrate(c) \/ Operate(c)

(* A thread runs on unless the driver holds it, and the clock passes the   *)
(* deadline of whoever waits.  Nobody is obliged to call, stop or withdraw.*)
Fairness == \A c \in Callers : WF_vars(Arbitrate(c)) /\ WF_vars(Operate(c))
                                 /\ WF_vars(Expire(c))

Spec == Init /\ [][Next]_vars
FairSpec == Spec /\ Fairness
-----------------------------------------------------------------------------
(* Properties.                                                             *)

Owns(c) == pc[c] \in InDevice \cup {"granted", "settle", "release"}

(* "never overlapping streams" (PriorityAudio docstring): whatever is      *)
(* cancelled or hung, at most one call is inside the device, the arbiter   *)
(* knows which, and so AudioIO never answers AUDIO_BUSY.                   *)
OneOwner ==
    /\ \A c, d \in Callers : Owns(c) /\ Owns(d) => c = d
    /\ \A c \in Callers : stream[c] # "none" => active = c /\ lock = c
    /\ \A c \in Callers : pc[c] = "backend" => lock = NoCaller

(* A cancellation of a token by another thread, and the rank it needs: a   *)
(* proximity call is never interrupted, a question or an answer only by a  *)
(* proximity call, a notice by anything (PROXIMITY_SPOTTER.md, lanes).     *)
OnlyUpwards ==
    [][\A c \in Callers :
         ~cancelled[c] /\ cancelled'[c] /\ pc'[c] = pc[c] /\ pc[c] # "idle" =>
           \E d \in Callers \ {c} : /\ Rank[kind[d]] > Rank[kind[c]]
                                    /\ pc'[d] \in {"yield", "await"}]_vars

(* Proximity first: once a proximity call waits, no other call gets the    *)
(* device before it, however the pending cancellation turns out.           *)
NoOvertaking ==
    [][urgentWaiting /\ active' # active /\ active' # NoCaller =>
         kind[active'] = "urgent"]_vars

(* A stuck owner bounds everyone else's wait: a call that waits for the    *)
(* device gets it or gives up, and a call not stuck itself returns.        *)
WaitsEnd ==
    \A c \in Callers :
        /\ pc[c] \in {"yield", "await"} ~> pc[c] \notin {"yield", "await"}
        /\ pc[c] = "enter" ~> pc[c] = "idle" \/ hung[c]

-----------------------------------------------------------------------------
(* The arbiter implements AudioOwnership: the token held is the ownership, *)
(* a cancelled token a revoked one, and the outcome the verdict.           *)
Requested(c) == IF pc[c] \in {"idle", "leave"} THEN "none" ELSE kind[c]
Judged(c) ==
    IF outcome[c] = "delivered" THEN "delivered"
    ELSE IF outcome[c] = "none" /\ pc[c] # "idle" THEN "open" ELSE "undelivered"

Ownership == INSTANCE AudioOwnership WITH
    owner   <- active,
    request <- [c \in Callers |-> Requested(c)],
    revoked <- cancelled,
    verdict <- [c \in Callers |-> Judged(c)]

ImplementsOwnership == Ownership!Spec
=============================================================================
