---------------------------- MODULE VoiceService ----------------------------
(***************************************************************************)
(* voice_service.VoiceService: push-to-talk questions, the two-press tyre  *)
(* record and the settings of the voice lanes.  The window and the input   *)
(* poller call it, one worker takes its jobs, a guard thread watches what  *)
(* is played.  A block under the state lock is one action.  An epoch is    *)
(* only ever compared with the current one, so a job carries whether it    *)
(* still is (valid), and whether its cancel (cut) and its release Event    *)
(* are set.  The audio device, the recogniser and the model are outside.   *)
(* _status and _notice are what the window shows: only _auto reads the     *)
(* status, and here it may speak whatever it is.                           *)
(***************************************************************************)
EXTENDS Integers, Sequences

CONSTANTS MaxJobs,    \* queue.Queue(maxsize=8)
          Pressers,   \* callers with a talk button: the window has one too
          Nothing

Callers == {"window", "poller"}
ASSUME VoiceAssumption == MaxJobs \in Nat \ {0} /\ Pressers \subseteq Callers

VARIABLES
    jobs,            \* _jobs
    latest,          \* whose Event _cancel is: a press or test's, or auto's
    held, enabled, pending,                  \* ..., _pending_configurations
    review,          \* _tire_review
    paused,          \* _spotter_paused
    bindPending,     \* _binding_pending is not None
    started,         \* _poller_started
    shutdown, closing,
    spotter,         \* whether SpotterVoice was last configured or suspended
    input, bindActive, selected, pressed,    \* InputPoller; the selected edge
    putting, failing, bound, lifting,        \* callers between two blocks
    at, cur, talk,                           \* the worker, its job, a prompt
    fresh,           \* the draft's binding is current and it has not expired
    readback                                 \* what its playing came to

Spoken == {"listen", "test", "auto"}
Jobs == [action : {"initialize", "configure", "refresh", "bind"} \cup Spoken,
         on : BOOLEAN, valid : BOOLEAN, cut : BOOLEAN, released : BOOLEAN]
ASSUME NothingAssumption == Nothing \notin Jobs

queue == <<jobs, putting, cur>>
service == <<held, enabled, pending, latest, shutdown>>
draft == <<review, fresh, readback>>
sides == <<paused, spotter>>
poller == <<input, bindActive, selected, pressed, started>>
between == <<failing, bound, lifting>>
vars == <<queue, service, draft, sides, poller, between, at, talk, bindPending,
          closing>>

Drafts == {"none", "draft", "armed"}
Stages == {"get", "save", "apply", "closing", "refresh", "bind", "autoTake",
           "listen", "cue", "record", "recognize", "intent", "draft", "confirm", "submit",
           "await", "say", "play", "arm", "drop", "preempted", "error", "finally",
           "done"}

TypeOK ==
    /\ jobs \in Seq(Jobs) /\ Len(jobs) <= MaxJobs
    /\ putting \in [Callers -> Jobs \cup {Nothing}]
    /\ cur \in Jobs \cup {Nothing}
    /\ latest \in {"job", "auto"}
    /\ held \in BOOLEAN /\ enabled \in BOOLEAN
    /\ pending \in 0..MaxJobs + 1
    /\ review \in Drafts /\ fresh \in BOOLEAN
    /\ readback \in {"none", "returned", "heard"}
    /\ paused \in BOOLEAN /\ spotter \in {"on", "off"}
    /\ bindPending \in BOOLEAN /\ started \in BOOLEAN
    /\ shutdown \in BOOLEAN
    /\ closing \in {"open", "shut", "joining", "input", "closed"}
    /\ input \in {"closed", "running", "stopping"}
    /\ bindActive \in BOOLEAN /\ selected \in BOOLEAN /\ pressed \in BOOLEAN
    /\ failing \subseteq Callers /\ bound \in BOOLEAN /\ lifting \in BOOLEAN
    /\ at \in Stages /\ talk \in {"plain", "prompt", "answer"}

Job(a) == [action |-> a, on |-> FALSE, valid |-> TRUE, cut |-> FALSE, released |-> FALSE]

(* start() has queued the first job and started the threads.               *)
Init ==
    /\ jobs = <<Job("initialize")>> /\ putting = [c \in Callers |-> Nothing] /\ cur = Nothing
    /\ latest = "job" /\ held = FALSE /\ enabled = FALSE /\ pending = 0
    /\ review = "none" /\ fresh = FALSE /\ readback = "none"
    /\ paused = FALSE /\ spotter = "off"
    /\ bindPending = FALSE /\ started = FALSE
    /\ shutdown = FALSE /\ closing = "open"
    /\ input = "closed" /\ bindActive = FALSE /\ selected = FALSE /\ pressed = FALSE
    /\ failing = {} /\ bound = FALSE /\ lifting = FALSE
    /\ at = "get" /\ talk = "plain"

-----------------------------------------------------------------------------
(* _invalidate: the current job loses its epoch, _cancel and _release are  *)
(* set.  What _cancel does not name any more is not told.                  *)

Named(j) == latest = (IF j.action = "auto" THEN "auto" ELSE "job")
LeftReleased(j) ==
    IF j # Nothing /\ j.action \in Spoken /\ j.valid
    THEN [j EXCEPT !.valid = FALSE, !.cut = @ \/ Named(j)]
    ELSE j
Left(j) ==
    IF j # Nothing /\ j.action \in Spoken /\ j.valid
    THEN [j EXCEPT !.valid = FALSE, !.cut = @ \/ Named(j), !.released = TRUE]
    ELSE j

(* _binding_revision moves on: a queued bind request is no longer pending. *)
Unbound(j) == IF j # Nothing /\ j.action = "bind" THEN [j EXCEPT !.valid = FALSE] ELSE j

LeftJobs == [i \in DOMAIN jobs |-> Left(jobs[i])]
UnboundJobs == [i \in DOMAIN jobs |-> Unbound(Left(jobs[i]))]
LeftPutting == [c \in Callers |-> Left(putting[c])]

Forget == review' = "none" /\ fresh' = FALSE /\ readback' = "none"

Invalidate == held' = FALSE /\ jobs' = LeftJobs /\ putting' = LeftPutting /\ cur' = Left(cur)

Full == Len(jobs) >= MaxJobs
Refused == shutdown \/ Full

(* A caller does one thing at a time, the poller also ends what it began.  *)
Free(c) == putting[c] = Nothing /\ c \notin failing
PollerFree == Free("poller") /\ ~bound /\ ~lifting

-----------------------------------------------------------------------------
(* Callers.                                                                *)

Admits == ~held /\ enabled /\ ~shutdown /\ pending = 0 /\ ~bindPending

(* The window's button, or an edge that the poller sees (_edge).           *)
Pushes(c) ==
    IF c = "poller" THEN PollerFree /\ input = "running" /\ ~bindActive /\ ~pressed
                    ELSE Free(c) /\ closing = "open"

(* press: the draft survives, everything else is superseded.               *)
Accept(c) ==
    /\ Admits
    /\ held' = TRUE /\ latest' = "job"
    /\ jobs' = LeftJobs /\ cur' = Left(cur)
    /\ putting' = [LeftPutting EXCEPT ![c] = Job("listen")]
Ignore == ~Admits /\ UNCHANGED <<held, latest, queue>>

Press(c) ==
    /\ Pushes(c)
    /\ Accept(c) \/ Ignore
    /\ pressed' = (pressed \/ c = "poller")
    /\ UNCHANGED <<enabled, pending, shutdown, draft, sides, input, bindActive, selected,
                   started, between, at, talk, bindPending, closing>>

(* The job is queued after the block; a press that finds no room is an     *)
(* input error, a test raises to its caller.                               *)
Put(c) ==
    /\ putting[c] # Nothing
    /\ jobs' = IF Refused THEN jobs ELSE Append(jobs, putting[c])
    /\ failing' = IF Refused /\ putting[c].action = "listen" THEN failing \cup {c} ELSE failing
    /\ putting' = [putting EXCEPT ![c] = Nothing]
    /\ UNCHANGED <<cur, service, draft, sides, poller, bound, lifting, at, talk,
                   bindPending, closing>>

(* release sets the newest press's Event.                                  *)
Lifted(j) == IF j # Nothing /\ j.action = "listen" /\ j.valid
             THEN [j EXCEPT !.released = TRUE] ELSE j
Release ==
    /\ held' = FALSE
    /\ jobs' = [i \in DOMAIN jobs |-> Lifted(jobs[i])]
    /\ putting' = [c \in Callers |-> Lifted(putting[c])]
    /\ cur' = Lifted(cur)
    /\ UNCHANGED <<enabled, pending, latest, shutdown, draft, sides, failing,
                   bound, at, talk, bindPending, closing>>

Test ==
    /\ pending = 0
    /\ held' = FALSE /\ Forget /\ latest' = "job"
    /\ jobs' = LeftJobs /\ cur' = Left(cur)
    /\ putting' = [LeftPutting EXCEPT !["window"] = Job("test")]
    /\ UNCHANGED <<enabled, pending, shutdown, sides, poller, between, at, talk,
                   bindPending, closing>>

Stop ==
    /\ Invalidate /\ Forget
    /\ paused' = TRUE /\ spotter' = "off"
    /\ UNCHANGED <<enabled, pending, latest, shutdown, poller, between, at, talk,
                   bindPending, closing>>

(* _queue_configuration: a queue without room leaves proximity suspended.  *)
QueueConfiguration(on) ==
    /\ held' = FALSE /\ Forget
    /\ putting' = LeftPutting /\ cur' = Unbound(Left(cur))
    /\ bindPending' = FALSE /\ bindActive' = FALSE
    /\ spotter' = "off"
    /\ IF Refused
       THEN jobs' = UnboundJobs /\ UNCHANGED <<pending, paused>>
       ELSE /\ jobs' = Append(UnboundJobs, [Job("configure") EXCEPT !.on = on])
            /\ pending' = pending + 1
            /\ paused' = FALSE
    /\ UNCHANGED <<enabled, latest, shutdown, input, selected, pressed, started,
                   lifting, at, talk, closing>>

Configure ==
    /\ \E on \in BOOLEAN : QueueConfiguration(on)
    /\ UNCHANGED <<failing, bound>>

Refresh ==
    /\ ~Refused
    /\ jobs' = Append(jobs, Job("refresh"))
    /\ UNCHANGED <<putting, cur, service, draft, sides, poller, between, at, talk,
                   bindPending, closing>>

Bind ==
    /\ held' = FALSE /\ Forget
    /\ putting' = LeftPutting /\ cur' = Unbound(Left(cur))
    /\ jobs' = IF Refused THEN UnboundJobs ELSE Append(UnboundJobs, Job("bind"))
    /\ bindPending' = ~Refused
    /\ UNCHANGED <<enabled, pending, latest, shutdown, sides, poller, between,
                   at, talk, closing>>

(* The configured target is restored under a selection on its way.         *)
CancelBind ==
    /\ bindPending' = FALSE /\ bindActive' = FALSE
    /\ jobs' = [i \in DOMAIN jobs |-> Unbound(jobs[i])] /\ cur' = Unbound(cur)
    /\ selected' = (selected /\ (~started \/ shutdown))
    /\ UNCHANGED <<putting, service, draft, sides, input, pressed, started, between,
                   at, talk, closing>>

(* The controller's close, on the same thread, refuses what comes later.   *)
Window ==
    /\ Free("window") /\ closing = "open"
    /\ \/ Release /\ UNCHANGED <<poller, lifting>>
       \/ Test \/ Stop \/ Configure \/ Refresh \/ Bind \/ CancelBind

-----------------------------------------------------------------------------
(* _input_error, and the poller.                                           *)

InputError ==
    /\ Invalidate /\ Forget
    /\ UNCHANGED <<enabled, pending, latest, shutdown, sides, at, talk, bindPending, closing>>

Fail(c) ==
    /\ c \in failing
    /\ InputError
    /\ failing' = failing \ {c}
    /\ UNCHANGED <<poller, bound, lifting>>

Polling == UNCHANGED <<input, bindActive, selected, started>>

PollRelease ==
    /\ PollerFree /\ pressed /\ input = "running"
    /\ pressed' = FALSE
    /\ Release
    /\ Polling /\ UNCHANGED lifting

(* A failing poll, or a binding, a device or the poller itself that went   *)
(* away: the error first, then the release of a held button.               *)
PollError ==
    /\ PollerFree /\ (pressed \/ input = "running")
    /\ InputError
    /\ lifting' = pressed
    /\ UNCHANGED <<poller, failing, bound>>

PollLift ==
    /\ lifting
    /\ lifting' = FALSE /\ pressed' = FALSE
    /\ Release
    /\ Polling

PollBind ==
    /\ PollerFree /\ input = "running" /\ bindActive /\ ~pressed
    /\ bindActive' = FALSE /\ selected' = TRUE /\ bound' = TRUE
    /\ UNCHANGED <<queue, service, draft, sides, input, pressed, started, failing, lifting,
                   at, talk, bindPending, closing>>

(* _bound: only the request still pending, and the poller's latest edge.   *)
BoundAdmits == ~shutdown /\ bindPending /\ pending = 0 /\ ~bindActive /\ selected
PollBound ==
    /\ bound
    /\ bound' = FALSE
    /\ IF BoundAdmits
       THEN /\ QueueConfiguration(enabled)
            /\ failing' = IF Refused THEN failing \cup {"poller"} ELSE failing
       ELSE UNCHANGED <<queue, service, draft, sides, poller, failing, lifting, at, talk,
                        bindPending, closing>>

PollEnd ==
    /\ PollerFree /\ input = "stopping" /\ ~pressed
    /\ input' = "closed" /\ bindActive' = FALSE
    /\ UNCHANGED <<queue, service, draft, sides, selected, pressed, started, between,
                   at, talk, bindPending, closing>>

-----------------------------------------------------------------------------
(* The worker.                                                             *)

Valid == cur.valid /\ ~cur.cut /\ ~shutdown
Goto(stage) == at' = stage
Beside == <<sides, poller, between, bindPending, closing>>
Yields(stages) == at' \in stages /\ UNCHANGED <<queue, service, draft, talk, Beside>>

FirstStage == [initialize |-> "save", configure |-> "save", refresh |-> "refresh",
               bind |-> "bind", listen |-> "listen", test |-> "say"]

Get ==
    /\ at = "get"
    /\ \/ shutdown /\ Goto("done") /\ UNCHANGED <<jobs, cur>>
       \/ /\ ~shutdown /\ jobs # <<>>
          /\ cur' = Head(jobs) /\ jobs' = Tail(jobs)
          /\ Goto(FirstStage[Head(jobs).action])
    /\ UNCHANGED <<putting, service, draft, talk, Beside>>

(* _auto looks twice: before it reads the source and before it speaks.     *)
AutoAdmitsHeld == enabled /\ ~shutdown /\ pending = 0 /\ ~bindPending
AutoAdmits == enabled /\ ~held /\ ~shutdown /\ pending = 0 /\ ~bindPending
AutoLook ==
    /\ at = "get" /\ jobs = <<>> /\ AutoAdmits
    /\ cur' = Job("auto")
    /\ Goto("autoTake")
    /\ UNCHANGED <<jobs, putting, service, draft, talk, Beside>>

AutoTake ==
    /\ at = "autoTake"
    /\ IF AutoAdmits /\ cur.valid
       THEN latest' = "auto" /\ Goto("say")
       ELSE Goto("finally") /\ UNCHANGED latest
    /\ UNCHANGED <<queue, held, enabled, pending, shutdown, draft, talk, Beside>>

(* store.load with its default, or store.save, which may fail.             *)
Save ==
    /\ at = "save"
    /\ \/ shutdown /\ Yields({"finally"})
       \/ ~shutdown /\ cur.action = "configure" /\ Yields({"apply", "error"})
       \/ /\ ~shutdown /\ cur.action = "initialize"
          /\ \E on \in BOOLEAN : cur' = [cur EXCEPT !.on = on]
          /\ Goto("apply")
          /\ UNCHANGED <<jobs, putting, service, draft, talk, Beside>>

AppliesPaused == pending <= 1
Applies == pending <= 1 /\ ~paused

StartInput ==
    /\ input' = "running" /\ started' = TRUE
    /\ pressed' = (pressed /\ started)

Applied == IF cur.action = "initialize" THEN "refresh" ELSE "finally"
Apply ==
    /\ at = "apply"
    /\ IF shutdown
       THEN Yields({"finally"})
       ELSE /\ enabled' = cur.on
            /\ spotter' = IF Applies THEN "on" ELSE spotter
            /\ IF cur.on
               THEN StartInput /\ bindActive' = FALSE /\ selected' = FALSE
               ELSE UNCHANGED poller
            /\ Goto(IF ~cur.on /\ started THEN "closing" ELSE Applied)
            /\ UNCHANGED <<queue, held, pending, latest, shutdown, draft, talk,
                           paused, between, bindPending, closing>>

StopInputLater == UNCHANGED <<input, bindActive, selected, pressed>>
StopInput ==
    /\ input' = IF input = "running" THEN "stopping" ELSE input
    /\ bindActive' = FALSE
    /\ UNCHANGED <<selected, pressed>>

(* _close_input: InputPoller.close has a bounded join, so it is asked and  *)
(* watched until the poller has ended.                                     *)
CloseInput ==
    /\ at = "closing"
    /\ IF input = "closed"
       THEN started' = FALSE /\ Goto(Applied) /\ UNCHANGED <<input, bindActive, selected, pressed>>
       ELSE StopInput /\ UNCHANGED <<at, started>>
    /\ UNCHANGED <<queue, service, draft, talk, sides, between, bindPending, closing>>

(* Devices are listed through the arbiter, which may refuse.               *)
ListDevices == at = "refresh" /\ Yields({"finally", "preempted", "error"})

BeginBind ==
    /\ at = "bind"
    /\ IF shutdown \/ ~cur.valid \/ pending > 0
       THEN UNCHANGED poller
       ELSE StartInput /\ bindActive' = TRUE /\ selected' = (selected /\ started)
    /\ Goto("finally")
    /\ UNCHANGED <<queue, service, draft, talk, sides, between, bindPending, closing>>

-----------------------------------------------------------------------------
(* _listen and _tire_record.                                               *)

Listen ==
    /\ at = "listen"
    /\ IF ~Valid \/ cur.released
       THEN Yields({"finally"})
       ELSE Yields({"cue"})

Cue ==
    /\ at = "cue"
    /\ \/ Yields({"preempted", "error"})
       \/ Yields({IF Valid /\ ~cur.released THEN "record" ELSE "finally"})

(* Nothing usable was heard: it is said, and the draft goes.               *)
Unheard ==
    /\ Valid
    /\ Forget
    /\ Goto("say")
    /\ UNCHANGED <<queue, service, talk, Beside>>

(* The recording's own stop is the release, or the twelve-second cap.      *)
Record ==
    /\ at = "record"
    /\ \/ Yields({"preempted", "error"})
       \/ ~Valid /\ Yields({"finally"})
       \/ Valid /\ cur.released /\ Yields({"recognize"})
       \/ Unheard

Recognize ==
    /\ at = "recognize"
    /\ \/ Yields({"preempted", "error"})
       \/ ~Valid /\ Yields({"finally"})
       \/ Valid /\ Yields({"intent"})
       \/ Unheard

(* The draft is taken by whatever was said; only a confirmation uses it.   *)
Confirmable == review = "armed" /\ fresh

Intent ==
    /\ at = "intent"
    /\ review' = "none"
    /\ \/ ~Valid /\ Goto("finally") /\ UNCHANGED <<fresh, readback>>
       \/ /\ Valid
          /\ at' \in {"submit", "say", "finally", "draft"}
          /\ fresh' = FALSE /\ readback' = "none"
       \/ Valid /\ Confirmable /\ Goto("confirm") /\ UNCHANGED <<fresh, readback>>
    /\ UNCHANGED <<queue, service, talk, Beside>>

Draft ==
    /\ at = "draft"
    /\ IF Valid
       THEN review' = "draft" /\ fresh' = TRUE /\ talk' = "prompt" /\ Goto("say")
       ELSE UNCHANGED <<review, fresh, talk>> /\ Goto("finally")
    /\ UNCHANGED <<queue, service, readback, Beside>>

Authorised == Valid /\ enabled /\ pending = 0

(* The callback checks the binding once more before it queues the record.  *)
Confirm ==
    /\ at = "confirm"
    /\ Yields({IF ~Authorised THEN "finally" ELSE IF fresh THEN "await" ELSE "say"})

Submit ==
    /\ at = "submit"
    /\ Yields(IF Authorised THEN {"await", "say"} ELSE {"finally"})

(* The acknowledgement or the answer, which has a guard, or no more time   *)
(* for it, which is said without one.                                      *)
Await ==
    /\ at = "await"
    /\ \/ Yields({"finally"})
       \/ Valid /\ Yields({"say"})
       \/ Valid /\ talk' = "answer" /\ Goto("say") /\ UNCHANGED <<queue, service, draft, Beside>>

-----------------------------------------------------------------------------
(* _say, and what follows a draft's readback.                              *)

Say ==
    /\ at = "say"
    /\ \/ Yields({"error", IF talk = "prompt" THEN "drop" ELSE "finally"})
       \/ Valid /\ Yields({"play"})

(* play has returned: the device has played it all, or was cut short by    *)
(* this question's own Event, or never began because a proximity call took *)
(* the claim back before the first look at it (priority_audio.py:71).      *)
(* _say looks at its epoch and at the draft's visit, and not at which.     *)
Said == Valid /\ fresh
Play ==
    /\ at = "play"
    /\ \/ Yields({"preempted", "error"})
       \/ /\ Goto(IF talk # "prompt" THEN "finally" ELSE IF Said THEN "arm" ELSE "drop")
          /\ readback' \in IF talk = "prompt" /\ Said THEN {"heard", "returned"} ELSE {readback}
          /\ UNCHANGED <<queue, service, review, fresh, talk, Beside>>

ArmableUnplayed == review = "draft" /\ Valid
Armable == at = "arm" /\ review = "draft" /\ Valid
Arm ==
    /\ at \in {"arm", "drop"}
    /\ review' = IF Armable THEN "armed" ELSE "none"
    /\ Goto("finally")
    /\ UNCHANGED <<queue, service, fresh, readback, talk, Beside>>

-----------------------------------------------------------------------------
(* The end of a job.                                                       *)

(* AudioPreempted: the whole service's current question or speech ends.    *)
Preempted ==
    /\ at = "preempted"
    /\ IF cur.action \in Spoken
       THEN Invalidate /\ Forget
       ELSE UNCHANGED <<queue, held, draft>>
    /\ Goto("finally")
    /\ UNCHANGED <<enabled, pending, latest, shutdown, talk, Beside>>

(* Whatever else was raised: a question loses the draft with it.           *)
Error ==
    /\ at = "error"
    /\ IF cur.action = "listen" THEN Forget ELSE UNCHANGED draft
    /\ Goto("finally")
    /\ UNCHANGED <<queue, service, talk, Beside>>

Settled == IF cur.action = "configure" THEN pending - 1 ELSE pending

Finally ==
    /\ at = "finally"
    /\ pending' = Settled
    /\ cur' = Nothing /\ talk' = "plain"
    /\ Goto("get")
    /\ UNCHANGED <<jobs, putting, held, enabled, latest, shutdown, draft, Beside>>

-----------------------------------------------------------------------------
(* The guard thread, the parked visit, and close.                          *)

(* An answer, a fuel call and a readback have a guard that looks at what   *)
(* they are about, and may find it gone at any time.                       *)
Guarded == talk # "plain" \/ cur.action = "auto"
Guard ==
    /\ at = "play" /\ cur.valid /\ Guarded
    /\ cur' = [cur EXCEPT !.cut = TRUE]
    /\ UNCHANGED <<jobs, putting, service, draft, talk, at, Beside>>

(* The car leaves its stall, or the draft's thirty seconds are over.       *)
VisitEnds ==
    /\ fresh
    /\ fresh' = FALSE /\ readback' = "none"
    /\ UNCHANGED <<queue, service, review, talk, at, Beside>>

Close ==
    /\ closing = "open" /\ Free("window")
    /\ closing' = "shut" /\ shutdown' = TRUE
    /\ held' = FALSE /\ Forget
    /\ putting' = LeftPutting /\ cur' = Unbound(Left(cur)) /\ jobs' = UnboundJobs
    /\ bindPending' = FALSE
    /\ UNCHANGED <<enabled, pending, latest, sides, poller, between, at, talk>>

CloseParts ==
    /\ closing = "shut"
    /\ closing' = "joining"
    /\ spotter' = "off"
    /\ StopInput
    /\ UNCHANGED <<queue, service, draft, paused, started, between, at, talk,
                   bindPending>>

CloseJoined ==
    /\ closing = "joining" /\ at = "done"
    /\ closing' = "input"
    /\ StopInput
    /\ UNCHANGED <<queue, service, draft, sides, started, between, at, talk, bindPending>>

CloseEnds ==
    /\ closing = "input" /\ input = "closed"
    /\ closing' = "closed" /\ started' = FALSE
    /\ UNCHANGED <<queue, service, draft, sides, input, bindActive, selected, pressed, between,
                   at, talk, bindPending>>

-----------------------------------------------------------------------------
Speak == Listen \/ Cue \/ Record \/ Recognize \/ Intent \/ Draft \/ Confirm \/ Submit
           \/ Await \/ Say \/ Play \/ Arm
Work == Get \/ AutoLook \/ AutoTake \/ Save \/ Apply \/ CloseInput \/ ListDevices
          \/ BeginBind \/ Speak \/ Preempted \/ Error \/ Finally
PollerEnds == PollLift \/ PollBound \/ PollEnd \/ (input = "stopping" /\ PollError)
Closing == CloseParts \/ CloseJoined \/ CloseEnds

Next ==
    \/ Window \/ Work \/ Guard \/ VisitEnds
    \/ \E c \in Pressers : Press(c)
    \/ PollRelease \/ PollError \/ PollBind
    \/ PollLift \/ PollBound \/ PollEnd
    \/ \E c \in Callers : Put(c) \/ Fail(c)
    \/ Close \/ Closing

Spec == Init /\ [][Next]_vars

(* The worker's calls return, a caller leaves the service, the poller ends *)
(* what it began and stops when told, and close goes on.                   *)
Fairness ==
    /\ WF_vars(Work) /\ WF_vars(PollerEnds) /\ WF_vars(Closing)
    /\ \A c \in Callers : WF_vars(Put(c)) /\ WF_vars(Fail(c))
FairSpec == Spec /\ Fairness

-----------------------------------------------------------------------------
(* Properties.                                                             *)

(* The microphone is for a held button: once a question is under way its   *)
(* release Event is set the moment it is no longer held, or a stop, a      *)
(* configuration, a binding or a close has taken it back.                  *)
MicrophoneHeld ==
    cur # Nothing /\ cur.action = "listen" /\ ~cur.released =>
        held /\ pending = 0 /\ ~bindPending /\ ~shutdown

(* "Stop or disabling voice cancels the current operation" (WINDOWS_       *)
(* DESKTOP.md): a question that was taken back has been told to be silent. *)
QuestionSilenced ==
    at \in {"cue", "record", "recognize", "say", "play"} /\ cur.action = "listen"
        /\ ~cur.valid => cur.cut /\ cur.released

(* A record is queued only if the call that plays its readback returned    *)
(* normally in this visit, with its epoch still the current one, and       *)
(* nothing took the draft back since.                                      *)
ConfirmedAsRead == [][at = "confirm" /\ at' = "await" => readback # "none"]_vars

(* "A draft becomes confirmable only after software completion of its      *)
(* readback" (VR_TIRE_CONFIRMATION.md): more than the code ensures, since  *)
(* a call that returns unplayed counts as one that played.                 *)
ConfirmedAsHeard == [][at = "confirm" /\ at' = "await" => readback = "heard"]_vars

(* A save in flight does not undo the stop that came after it (_apply).    *)
PausedIsOff == paused => spotter = "off"

(* close ends, whatever the worker, the poller and the callers were at.    *)
Closes == closing = "shut" ~> closing = "closed"
=============================================================================
