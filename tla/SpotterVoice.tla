---------------------------- MODULE SpotterVoice ----------------------------
(***************************************************************************)
(* spotter_voice.SpotterVoice: the thread that turns the detector's        *)
(* candidates into cached phrases, the 20 ms guard thread that withdraws   *)
(* them, and the callers that configure, suspend and close it.  A block    *)
(* under the state lock is one action; source(), the device and the        *)
(* guard's verdict are read outside it.  Time passes unseen: a deadline or *)
(* a one-second wait may be over whenever the code looks, or not yet.      *)
(* _revision and _notice_serial are only ever compared with a copy taken   *)
(* earlier: the two comparisons are kept (superseded, overtaken), not the  *)
(* numbers, so that configurations and questions are not counted.          *)
(***************************************************************************)
EXTENDS Integers

CONSTANTS Codes, Nothing,
          MaxSerial, MaxEpoch      \* bounds of the detector's counters

ASSUME SpotterVoiceAssumption ==
    /\ Codes \subseteq 1..6
    /\ Nothing \notin 1..6
    /\ {MaxSerial, MaxEpoch} \subseteq Nat

VARIABLES
    ready, code, candidate, epoch, serial,   \* the detector (ProximityFeed)
    lost,            \* the status is STALE, UNAVAILABLE, ERROR or DISCONNECTED
    superseded,      \* _revision has moved on from the one the worker copied
    status, prepared,                        \* _status, _cache
    seen,            \* _seen, the last candidate chosen
    noticePending, clearing,                 \* ..., _clear_since
    overtaken,       \* _notice_serial has moved on from the notice in hand
    losing, armed, lossReported,             \* _lost_since, ...
    shutdown,
    active,          \* _active: [event, cancel, started]
    attempted,       \* sequence of the last call ATTEMPTED since configure, or 0
    warned,          \* no READY snapshot since the last DATA_LOST or configure
    at, held, event, result,                 \* the worker and its locals
    guardAt, asStarting,                     \* the guard thread and its argument
    closing                                  \* close()

feed == <<ready, code, candidate, epoch, serial, lost>>
settings == <<superseded, prepared, shutdown>>
notices == <<noticePending, overtaken>>
losses == <<losing, armed, lossReported, warned>>
worker == <<at, held, event, result>>
guard == <<guardAt, asStarting>>
vars == <<feed, settings, status, seen, notices, clearing, losses, active,
          attempted, worker, guard, closing>>

Feed == INSTANCE ProximityFeed

Idle == {"OFF", "PAUSED", "ERROR", "STOPPING", "CLOSED"}
Statuses == Idle \cup {"PREPARING", "WAIT_DATA", "READY", "PLAYING"}
Ids == Int \X Nat
Events == [kind : {"CALL", "PTT_CANCELLED", "DATA_LOST"}, id : Ids, state : 0..6]
Candidates == [sequence : Nat \ {0}, epoch : Nat, state : Codes]
Snapshots == [ready : BOOLEAN, code : Codes \cup {Nothing},
              candidate : Candidates \cup {Nothing}, epoch : Nat, lost : BOOLEAN]
Playbacks == [event : Events, cancel : BOOLEAN, started : BOOLEAN]
ASSUME NothingAssumption ==
    Nothing \notin Ids \cup Events \cup Candidates \cup Snapshots \cup Playbacks

Stages == {"loop", "prepare", "look", "choose", "begin", "precheck", "acquire", "open",
           "start", "run", "settle", "preempted", "finish", "clear", "latch", "done"}

TypeOK ==
    /\ ready \in BOOLEAN /\ lost \in BOOLEAN /\ code \in Codes \cup {Nothing}
    /\ candidate \in Candidates \cup {Nothing} /\ epoch \in Nat /\ serial \in Nat
    /\ superseded \in BOOLEAN /\ status \in Statuses /\ prepared \in BOOLEAN
    /\ seen \in Ids \cup {Nothing}
    /\ noticePending \in BOOLEAN /\ overtaken \in BOOLEAN /\ clearing \in BOOLEAN
    /\ losing \in BOOLEAN /\ armed \in BOOLEAN /\ lossReported \in BOOLEAN
    /\ shutdown \in BOOLEAN
    /\ active \in Playbacks \cup {Nothing}
    /\ attempted \in Nat /\ warned \in BOOLEAN
    /\ at \in Stages /\ held \in Snapshots \cup {Nothing}
    /\ event \in Events \cup {Nothing}
    /\ result \in {"none", "complete", "incomplete", "preempted", "error"}
    /\ guardAt \in {"idle", "holds", "cancels", "done"} /\ asStarting \in BOOLEAN
    /\ closing \in {"open", "shut", "joining", "closed"}

Init ==
    /\ Feed!Init /\ lost = FALSE
    /\ superseded = FALSE /\ status = "OFF" /\ prepared = FALSE /\ seen = Nothing
    /\ noticePending = FALSE /\ overtaken = FALSE /\ clearing = FALSE
    /\ losing = FALSE /\ armed = FALSE /\ lossReported = FALSE
    /\ shutdown = FALSE /\ active = Nothing /\ attempted = 0 /\ warned = TRUE
    /\ at = "loop" /\ held = Nothing /\ event = Nothing /\ result = "none"
    /\ guardAt = "idle" /\ asStarting = FALSE
    /\ closing = "open"

-----------------------------------------------------------------------------
(* What the worker and the guard make of a snapshot.                       *)

Snapshot == [ready |-> ready, code |-> code, candidate |-> candidate,
             epoch |-> epoch, lost |-> lost]

Current == ~shutdown /\ ~superseded

(* _candidate: the mailbox is believed only if it agrees with its snapshot. *)
Callable(s) ==
    /\ s.ready
    /\ s.candidate # Nothing
    /\ s.candidate.epoch = s.epoch
    /\ s.candidate.state = s.code

CallOf(s) == [kind |-> "CALL", id |-> <<s.epoch, s.candidate.sequence>>,
              state |-> s.code]
NoticeOf(s) == [kind |-> "PTT_CANCELLED", id |-> <<s.epoch, 0>>, state |-> 1]
DataLost == [kind |-> "DATA_LOST", id |-> <<-1, 0>>, state |-> 0]

(* guard(False): the phrase still agrees with the detector.                *)
SupportedByContext(e) ==
    IF e.kind = "DATA_LOST" THEN lost ELSE ready /\ epoch = e.id[1]
Supported(e) ==
    IF e.kind = "DATA_LOST" THEN lost ELSE ready /\ epoch = e.id[1] /\ code = e.state

(* guard(True): a call must still be the mailbox's candidate.              *)
Startable(e) ==
    /\ Supported(e)
    /\ e.kind = "CALL" => Callable(Snapshot) /\ CallOf(Snapshot).id = e.id

(* The worker holds a notice, and with it a copy of _notice_serial.         *)
NoticeUnderWay == event # Nothing /\ event.kind = "PTT_CANCELLED"

MayStart == ~active.cancel /\ Current /\ Startable(event)

-----------------------------------------------------------------------------
(* The callers: VoiceService's threads.                                    *)

KeepActive == UNCHANGED active
CancelActive ==
    active' = IF active = Nothing THEN Nothing ELSE [active EXCEPT !.cancel = TRUE]

ForgetLossesStayArmed == losing' = FALSE /\ warned' = TRUE /\ UNCHANGED <<armed, lossReported>>
ForgetLosses == losing' = FALSE /\ armed' = FALSE /\ lossReported' = FALSE /\ warned' = TRUE

Supersede ==
    /\ superseded' = TRUE
    /\ prepared' = FALSE
    /\ noticePending' = FALSE
    /\ UNCHANGED overtaken

(* spotter_enabled false, volume zero, or the phrases are to be prepared.  *)
Configure ==
    /\ ~shutdown
    /\ CancelActive
    /\ Supersede
    /\ status' \in {"OFF", "PAUSED", "PREPARING"}
    /\ seen' = Nothing
    /\ attempted' = 0
    /\ clearing' = FALSE
    /\ ForgetLosses
    /\ UNCHANGED <<feed, shutdown, worker, guard, closing>>

SuspendWith(s) ==
    /\ CancelActive
    /\ Supersede
    /\ status' = s
    /\ UNCHANGED <<feed, shutdown, seen, clearing, losses, attempted, worker, guard>>

Suspend == SuspendWith("PAUSED") /\ UNCHANGED closing

InterruptedQuestion ==
    /\ noticePending' = TRUE
    /\ overtaken' = NoticeUnderWay
    /\ clearing' = FALSE
    /\ UNCHANGED <<feed, settings, status, seen, losses, active, attempted, worker,
                   guard, closing>>

(* _shutdown.set() takes no lock; suspend and the joins follow.            *)
Close ==
    /\ closing = "open"
    /\ closing' = "shut"
    /\ shutdown' = TRUE
    /\ UNCHANGED <<feed, superseded, prepared, status, seen, notices, clearing, losses,
                   active, attempted, worker, guard>>

CloseSuspend ==
    /\ closing = "shut"
    /\ closing' = "joining"
    /\ SuspendWith("STOPPING")

(* The steps that increment _revision.                                     *)
Superseding == Configure \/ Suspend \/ CloseSuspend

CloseJoined ==
    /\ closing = "joining"
    /\ at = "done" /\ guardAt = "done"
    /\ closing' = "closed"
    /\ status' = "CLOSED"
    /\ UNCHANGED <<feed, settings, seen, notices, clearing, losses, active, attempted,
                   worker, guard>>

(* The detector moves on; a source that is not ready may count as lost.    *)
Observe ==
    /\ Feed!Next
    /\ serial' <= MaxSerial /\ epoch' <= MaxEpoch
    /\ lost' \in (IF ready' THEN {FALSE} ELSE BOOLEAN)
    /\ UNCHANGED <<settings, status, seen, notices, clearing, losses, active, attempted,
                   worker, guard, closing>>

-----------------------------------------------------------------------------
(* _run and _choose.                                                       *)

Service == <<settings, status, seen, notices, clearing, losses, active, attempted>>
Goto(stage) == at' = stage
(* Back to the top of _run, where the worker holds nothing.                *)
Return == Goto("loop") /\ event' = Nothing /\ overtaken' = FALSE
Around == <<feed, guard, closing>>

Allowed == status \notin Idle

LoopEndsOnClosed == status = "CLOSED"
LoopEnds == shutdown

Loop ==
    /\ at = "loop"
    /\ superseded' = FALSE
    /\ Goto(IF LoopEnds THEN "done"
            ELSE IF ~Allowed THEN "loop"
            ELSE IF prepared THEN "look" ELSE "prepare")
    /\ UNCHANGED <<prepared, shutdown, status, seen, notices, clearing, losses, active,
                   attempted, held, event, result, Around>>

(* _prepare: the device list is refused while the device is owned; the     *)
(* list or the synthesis may fail; a superseded cache is thrown away.      *)
Prepare ==
    /\ at = "prepare"
    /\ IF Current
       THEN prepared' = TRUE /\ status' = "WAIT_DATA"
       ELSE UNCHANGED <<prepared, status>>
    /\ Goto("loop")
    /\ UNCHANGED <<superseded, shutdown, seen, notices, clearing, losses, active, attempted,
                   held, event, result, Around>>

PrepareRefused ==
    /\ at = "prepare"
    /\ Goto("loop")
    /\ UNCHANGED <<Service, held, event, result, Around>>

PrepareFails ==
    /\ at = "prepare"
    /\ Goto("latch")
    /\ UNCHANGED <<Service, held, event, result, Around>>

Look ==
    /\ at = "look"
    /\ held' = Snapshot
    /\ Goto("choose")
    /\ UNCHANGED <<Service, event, result, Around>>

ChosenAnew(e) == TRUE
NotSeen(e) == e.id # seen

Take(e) == event' = e /\ Goto("begin") /\ UNCHANGED overtaken

ChooseCall ==
    /\ Callable(held)
    /\ NotSeen(CallOf(held))
    /\ seen' = CallOf(held).id
    /\ Take(CallOf(held))
    /\ UNCHANGED clearing

(* The notice waits for one second of clear sides.                         *)
ChooseNotice ==
    /\ ~(Callable(held) /\ NotSeen(CallOf(held)))
    /\ \/ held.code # 1 /\ clearing' = FALSE /\ Return
       \/ held.code = 1 /\ noticePending /\ clearing' = TRUE /\ Return
       \/ held.code = 1 /\ noticePending /\ clearing /\ UNCHANGED clearing
            /\ Take(NoticeOf(held))
       \/ held.code = 1 /\ ~noticePending /\ UNCHANGED clearing /\ Return
    /\ UNCHANGED seen

ChooseReady ==
    /\ held.ready
    /\ status' = "READY"
    /\ armed' = TRUE /\ losing' = FALSE /\ lossReported' = FALSE /\ warned' = FALSE
    /\ ChooseCall \/ ChooseNotice

LossUntold == UNCHANGED lossReported
LossTold == lossReported' = TRUE

(* A second of loss is reported once, or silently within the 30 s floor.   *)
ChooseLost ==
    /\ ~held.ready
    /\ status' = "WAIT_DATA"
    /\ clearing' = FALSE
    /\ UNCHANGED seen
    /\ IF armed /\ held.lost
       THEN /\ losing' = TRUE
            /\ UNCHANGED armed
            /\ \/ Return /\ UNCHANGED <<lossReported, warned>>
               \/ losing /\ ~lossReported /\ LossTold /\ Return /\ UNCHANGED warned
               \/ losing /\ ~lossReported /\ LossTold /\ Take(DataLost) /\ warned' = TRUE
       ELSE /\ armed' = FALSE /\ losing' = FALSE
            /\ Return
            /\ UNCHANGED <<lossReported, warned>>

Choose ==
    /\ at = "choose"
    /\ Current
    /\ ChooseReady \/ ChooseLost
    /\ held' = Nothing
    /\ UNCHANGED <<settings, noticePending, active, attempted, result, Around>>

ChooseStale ==
    /\ at = "choose"
    /\ ~Current
    /\ Goto("loop") /\ held' = Nothing
    /\ UNCHANGED <<Service, event, result, Around>>

-----------------------------------------------------------------------------
(* _play, with PriorityAudio and AudioIO under it.                         *)

Urgent == event.kind # "PTT_CANCELLED"
PlayState == <<settings, seen, notices, clearing, losses>>
Yield(stage) == Goto(stage) /\ UNCHANGED <<Service, held, event, result, Around>>

Attempt ==
    /\ active' = [event |-> event, cancel |-> FALSE, started |-> FALSE]
    /\ status' = "PLAYING"
    /\ UNCHANGED <<event, overtaken>>
    /\ attempted' = IF event.kind = "CALL" THEN event.id[2] ELSE attempted
    /\ Goto(IF Urgent THEN "acquire" ELSE "precheck")

Begin ==
    /\ at = "begin"
    /\ IF Current
       THEN Attempt
       ELSE Return /\ UNCHANGED <<active, status, attempted>>
    /\ UNCHANGED <<settings, seen, noticePending, clearing, losses, held, result, Around>>

(* can_start before a notice; the deadline may be over at any check.       *)
Precheck ==
    /\ at = "precheck"
    /\ \/ Yield("settle")
       \/ MayStart /\ Yield("acquire")

(* A call waits for the owner to release until it is withdrawn or late; a  *)
(* notice is refused by any owner, and returns unplayed when cancelled.    *)
Acquire ==
    /\ at = "acquire"
    /\ \/ Urgent /\ Yield("settle")
       \/ Urgent /\ MayStart /\ Yield("open")
       \/ ~Urgent /\ Yield("preempted")
       \/ ~Urgent /\ active.cancel /\ Yield("settle")
       \/ ~Urgent /\ ~active.cancel /\ Yield("open")

(* The start guard around the opening: a refusal sets the token itself,    *)
(* which PriorityAudio reports to a notice as a preemption.                *)
Refused == IF Urgent THEN "settle" ELSE "preempted"
Open ==
    /\ at = "open"
    /\ \/ Yield(Refused)
       \/ MayStart /\ Yield("start")

Start ==
    /\ at = "start"
    /\ active' = [active EXCEPT !.started = TRUE]
    /\ Goto("run")
    /\ UNCHANGED <<PlayState, status, attempted, held, event, result, Around>>

DeviceFails ==
    /\ at \in {"acquire", "open", "start", "run"}
    /\ result' = "error"
    /\ Goto("finish")
    /\ UNCHANGED <<Service, held, event, Around>>

(* The phrase ends, or a new question takes the device from a notice.      *)
RunEnds ==
    /\ at = "run"
    /\ Yield("settle") \/ (~Urgent /\ Yield("preempted"))

RunCancelled == at = "run" /\ active.cancel /\ Yield("settle")

Settle ==
    /\ at = "settle"
    /\ result' = IF active.started /\ ~active.cancel THEN "complete" ELSE "incomplete"
    /\ Goto("finish")
    /\ UNCHANGED <<Service, held, event, Around>>

AnswersAny == TRUE
Answers == ~overtaken

DropNotice ==
    /\ noticePending' = (noticePending /\ ~(Current /\ event.kind = "PTT_CANCELLED" /\ Answers))

Preempted ==
    /\ at = "preempted"
    /\ DropNotice
    /\ result' = "preempted"
    /\ Goto("finish")
    /\ UNCHANGED <<overtaken, settings, status, seen, clearing, losses, active, attempted,
                   held, event, Around>>

(* The finally clause, and then _run's handlers or _step's last lines.     *)
AfterPlay ==
    CASE result = "error" -> "latch"
      [] result = "complete" /\ ~Urgent -> "clear"
      [] OTHER -> "loop"

Finish ==
    /\ at = "finish"
    /\ active' = Nothing
    /\ status' = IF Current /\ status = "PLAYING" THEN "WAIT_DATA" ELSE status
    /\ guardAt' = IF guardAt = "done" THEN "done" ELSE "idle"
    /\ asStarting' = FALSE
    /\ result' = "none"
    /\ IF AfterPlay = "loop" THEN Return ELSE Goto(AfterPlay) /\ UNCHANGED <<event, overtaken>>
    /\ UNCHANGED <<settings, seen, noticePending, clearing, losses, attempted, held, feed,
                   closing>>

ClearNotice ==
    /\ at = "clear"
    /\ DropNotice
    /\ Return
    /\ UNCHANGED <<settings, status, seen, clearing, losses, active, attempted, held,
                   result, Around>>

Latched == "ERROR"
Latch ==
    /\ at = "latch"
    /\ status' = IF Current THEN Latched ELSE status
    /\ Return
    /\ UNCHANGED <<settings, seen, noticePending, clearing, losses, active, attempted, held,
                   result, Around>>

-----------------------------------------------------------------------------
(* _guard.  Finish puts a guard that holds a playback at rest: what it     *)
(* still does to a playback that is over, nobody sees.                     *)

Aside == <<feed, settings, status, seen, notices, clearing, losses, attempted, worker, closing>>

Watch ==
    /\ guardAt = "idle"
    /\ ~shutdown
    /\ active # Nothing
    /\ guardAt' = "holds"
    /\ asStarting' = ~active.started
    /\ UNCHANGED <<Aside, active>>

Valid(e) == Current /\ IF asStarting THEN Startable(e) ELSE Supported(e)

Judge ==
    /\ guardAt = "holds"
    /\ guardAt' = IF Valid(active.event) THEN "idle" ELSE "cancels"
    /\ asStarting' = FALSE
    /\ UNCHANGED <<Aside, active>>

CancelObsolete ==
    /\ guardAt = "cancels"
    /\ active' = [active EXCEPT !.cancel = TRUE]
    /\ guardAt' = "idle"
    /\ UNCHANGED <<Aside, asStarting>>

GuardEnds ==
    /\ guardAt = "idle"
    /\ shutdown
    /\ guardAt' = "done"
    /\ UNCHANGED <<Aside, active, asStarting>>

-----------------------------------------------------------------------------
Callers == Configure \/ Suspend \/ InterruptedQuestion \/ Close \/ CloseSuspend \/ CloseJoined

Work ==
    \/ Loop \/ Prepare \/ Look \/ Choose \/ ChooseStale \/ Begin \/ Precheck \/ Acquire
    \/ Open \/ Start \/ RunCancelled \/ Settle \/ Preempted \/ Finish \/ ClearNotice
    \/ Latch

Chance == PrepareRefused \/ PrepareFails \/ DeviceFails \/ RunEnds

Watcher == Watch \/ Judge \/ CancelObsolete \/ GuardEnds

Next == Callers \/ Observe \/ Work \/ Chance \/ Watcher

Spec == Init /\ [][Next]_vars

(* The two threads run and close goes on; the source, the callers, faults, *)
(* refusals and the end of an uncancelled phrase are left to themselves.   *)
FairSpec ==
    Spec /\ WF_at(Work) /\ WF_guard(Watcher) /\ WF_closing(CloseSuspend \/ CloseJoined)
-----------------------------------------------------------------------------
(* Properties.                                                             *)

(* configure and suspend supersede from another thread, at any point of    *)
(* the worker's call: whatever is being played for an older revision has   *)
(* been told to stop (PROXIMITY_SPOTTER.md: "stop and reconfiguration      *)
(* cancel obsolete output").                                               *)
ObsoleteIsCancelled ==
    active # Nothing /\ superseded => active.cancel

(* Calls are attempted in the order the detector issued them and never     *)
(* twice in one configuration, although the worker chooses from a snapshot *)
(* that may be old and the mailbox still shows a call it has attempted.    *)
AttemptsAdvance ==
    [][active = Nothing /\ active' # Nothing /\ active'.event.kind = "CALL"
         => active'.event.id[2] > attempted]_vars

(* A cancelled question's notice is dropped only by a new configuration, a *)
(* stop, or an attempt at that very notice: the end of an older notice     *)
(* does not take the newer one with it.                                    *)
NoticeKept ==
    [][noticePending /\ ~noticePending' =>
         \/ Superseding
         \/ event # Nothing /\ event.kind = "PTT_CANCELLED" /\ ~overtaken]_vars

(* "Output errors are latched until settings are reapplied."               *)
ErrorLatched ==
    [][status = "ERROR" /\ status' # "ERROR" => Superseding]_vars

(* One warning per outage, and none before the configuration has seen      *)
(* ready data ("do not invent ... normal startup warnings").               *)
OneWarningPerOutage ==
    [][event' # event /\ event' # Nothing /\ event'.kind = "DATA_LOST" => ~warned]_vars

(* A phrase that has started and that the detector no longer supports is   *)
(* silenced by the guard thread, or becomes true again; it never goes on   *)
(* to its end as an obsolete call (Contradicted ~> ~Contradicted).         *)
Contradicted ==
    /\ active # Nothing
    /\ active.started
    /\ LET e == active.event IN
         IF e.kind = "DATA_LOST" THEN ~lost ELSE ~ready \/ <<epoch, code>> # <<e.id[1], e.state>>
ObsoleteIsSilenced == []<>~Contradicted

(* close() joins two threads that may be preparing, playing or judging: it *)
(* never stays half way (closing leaves "open" once and does not go back). *)
Closes == []<>(closing \in {"open", "closed"})
=============================================================================
