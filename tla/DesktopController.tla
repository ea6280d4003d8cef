-------------------------- MODULE DesktopController --------------------------
(***************************************************************************)
(* The desktop controller and the model service it owns:                   *)
(* desktop_controller.py and EngineerService of llm_engineer.py, over any  *)
(* reader that keeps ReaderLease.                                          *)
(*                                                                         *)
(* The window's thread starts, configures, toggles recording, asks and     *)
(* closes; one background job at a time (_schedule) restarts the reader or *)
(* replaces the service; a closing thread waits for everything to end; the *)
(* service's worker answers one question at a time.  Bytes are counted in  *)
(* units of the smallest useful recording, 32 MiB.                         *)
(***************************************************************************)
EXTENDS Integers

CONSTANTS Cap,          \* the recording budget of a run of the application
          MaxService,   \* bound on services created
          MaxSerial,    \* bound on questions a service is asked
          MaxCharge,    \* bound on what recording changes have charged, and
          MaxLost       \* on handles lost, before another change is asked for

ASSUME BoundsAssumption ==
    {Cap, MaxService, MaxSerial, MaxCharge, MaxLost} \subseteq Nat /\ Cap > 0

VARIABLES
    started, closing,
    closer,       \* place of the closing thread
    job,          \* the background job
    form,         \* settings a configure has copied and not yet scheduled
    recording,    \* _settings.recording_enabled
    phase, handle,\* the reader, as in ReaderLease
    stop,         \* its stop event
    readers,      \* reader threads alive
    lost,         \* SDK handles earlier readers could not give back
    directory,    \* the reader records
    written,      \* what it has recorded
    reported,     \* what the recording worker attached last has reported
    charged,      \* _capture_bytes
    total,        \* what was recorded since the application started
    trial,        \* the trial journal: "none", "open"
    trialFailed,
    service,      \* the model service in use
    alive,        \* services that have not been closed
    used,         \* its requests, carried over from the one before
    sent,         \* requests ever sent to the provider
    serial,       \* its last question
    work,         \* its worker's question, 0 if idle, and the place it is at
    answer        \* the question its answer is for, 0 for none

Lease == INSTANCE ReaderLease

control == <<started, closing, closer, job, form>>
readerVars == <<phase, handle, stop, readers, lost, directory>>
bytes == <<written, reported, charged, total>>
journal == <<trial, trialFailed>>
engineer == <<service, alive, used, sent, serial, work, answer>>
vars == <<control, recording, readerVars, bytes, journal, engineer>>

NoJob == [kind |-> "none", place |-> "done", value |-> FALSE, id |-> 0, carried |-> 0]
Configuring == job.place # "done"
Rested == [serial |-> 0, place |-> "idle"]
Busy == work.place # "idle"

Init ==
    /\ started = FALSE /\ closing = FALSE /\ closer = "none"
    /\ job = NoJob /\ form = "none"
    /\ recording \in BOOLEAN
    /\ phase = "off" /\ handle = "none" /\ stop = FALSE /\ readers = 0 /\ lost = 0
    /\ directory = FALSE
    /\ written = 0 /\ reported = 0 /\ charged = 0 /\ total = 0
    /\ trial = "none" /\ trialFailed = FALSE
    /\ service = 0 /\ alive = {0} /\ used = 0 /\ sent = 0
    /\ serial = 0 /\ work = Rested /\ answer = 0

----------------------------------------------------------------------------
(* The reader's thread.                                                    *)

RemainingWhole(c) == Cap
Remaining(c) == IF c < Cap THEN Cap - c ELSE 0

(* _start_reader: a fresh stop event; recording only within what is left.  *)
StartReader(rec, c) ==
    /\ phase' = "running" /\ handle' = "none"
    /\ stop' = FALSE /\ readers' = readers + 1
    /\ lost' = IF handle = "lost" THEN lost + 1 ELSE lost
    /\ directory' \in IF rec /\ Remaining(c) >= 1 THEN BOOLEAN ELSE {FALSE}
    /\ written' = 0 /\ charged' = c
    /\ trial' \in IF directory' /\ ~trialFailed THEN {"none", "open"} ELSE {trial}

Reading == UNCHANGED <<control, recording, stop, lost, directory, charged, journal, engineer>>

(* Every connection attaches a recorder, which reports what the recorders  *)
(* of this reader have written before it.                                  *)
Acquire ==
    /\ ~stop /\ Lease!Acquire /\ Reading
    /\ reported' = IF directory THEN written ELSE reported
    /\ UNCHANGED <<readers, written, total>>

Record ==
    /\ handle = "held" /\ directory /\ written < Remaining(charged)
    /\ written' = written + 1 /\ total' = total + 1 /\ reported' = written'
    /\ Reading /\ UNCHANGED <<phase, handle, readers>>

LetGo ==
    /\ Lease!Release \/ Lease!Lose
    /\ Reading /\ UNCHANGED <<readers, written, reported, total>>

ReaderEnds ==
    /\ stop \/ handle = "lost"
    /\ Lease!End /\ Reading
    /\ readers' = readers - 1 /\ UNCHANGED <<written, reported, total>>

ReaderStep == Acquire \/ Record \/ LetGo \/ ReaderEnds
ReaderAlive == phase = "running"

----------------------------------------------------------------------------
(* The window's thread.                                                    *)

Start ==
    /\ ~started /\ ~closing /\ form = "none"
    /\ started' = TRUE /\ StartReader(recording, charged)
    /\ UNCHANGED <<closing, closer, job, form, recording, reported, total, trialFailed, engineer>>

(* _schedule refuses while another job runs or a question is under way.    *)
Free == ~closing /\ ~Configuring /\ ~Busy
Schedule(j) == Free /\ job' = j

(* desktop_app starts the controller before its window takes input.        *)
SetRecording ==
    /\ started /\ form = "none"
    /\ charged < MaxCharge /\ lost < MaxLost
    /\ Schedule([NoJob EXCEPT !.kind = "recording", !.place = "stopping", !.value = ~recording])
    /\ UNCHANGED <<started, closing, closer, form, recording, readerVars, bytes, journal, engineer>>

(* configure copies the settings before it asks for a job.                 *)
CopySettings ==
    /\ ~closing /\ service < MaxService
    /\ form = "none" /\ form' = IF recording THEN "on" ELSE "off"
    /\ UNCHANGED <<started, closing, closer, job, recording, readerVars, bytes, journal, engineer>>

Configure ==
    /\ form # "none" /\ form' = "none"
    /\ IF Free
       THEN job' = [NoJob EXCEPT !.kind = "service", !.place = "building", !.value = (form = "on")]
       ELSE UNCHANGED job
    /\ UNCHANGED <<started, closing, closer, recording, readerVars, bytes, journal, engineer>>

(* load_session reads the settings in the job, where nothing else changes  *)
(* them.                                                                   *)
LoadSession ==
    /\ form = "none" /\ service < MaxService
    /\ Schedule([NoJob EXCEPT !.kind = "service", !.place = "building", !.value = recording])
    /\ UNCHANGED <<started, closing, closer, form, recording, readerVars, bytes, journal, engineer>>

(* Replays, reviews and calibrations are read in a job of their own, which *)
(* asks closing whether to go on.                                          *)
Replay ==
    /\ form = "none" /\ Schedule([NoJob EXCEPT !.kind = "replay", !.place = "reading"])
    /\ UNCHANGED <<started, closing, closer, form, recording, readerVars, bytes, journal, engineer>>

(* A question: answered at once from the facts, or queued for the worker,  *)
(* which may ask the provider.                                             *)
Admitted == ~closing /\ ~Configuring /\ service \in alive /\ serial < MaxSerial
Asking == UNCHANGED <<control, recording, readerVars, bytes, journal, service, alive>>
AskLocal ==
    /\ form = "none" /\ Admitted /\ Asking
    /\ serial' = serial + 1 /\ answer' = serial'
    /\ UNCHANGED <<used, sent, work>>

AskModel ==
    /\ form = "none" /\ Admitted /\ ~Busy /\ Asking
    /\ serial' = serial + 1 /\ answer' = 0
    /\ work' = [serial |-> serial', place |-> "queued"]
    /\ \E cloud \in 0..1 : used' = used + cloud /\ sent' = sent + cloud

StopUnlessJob == stop' = (stop \/ ~Configuring)
StopAlways == stop' = TRUE
Close ==
    /\ ~closing /\ form = "none"
    /\ closing' = TRUE /\ closer' = "service" /\ StopAlways
    /\ UNCHANGED <<started, job, form, recording, phase, handle, readers, lost, directory,
                   bytes, journal, engineer>>

----------------------------------------------------------------------------
(* The background job.                                                     *)

Job(k, a) == job.kind = k /\ job.place = a
Then(b) == job' = [job EXCEPT !.place = b]
JobOnly == UNCHANGED <<started, closing, closer, form>>
FinishTrial ==
    /\ trial' = "none"
    /\ trialFailed' \in IF trial = "open" THEN BOOLEAN ELSE {trialFailed}

StopReader ==
    /\ Job("recording", "stopping") /\ Then("joining") /\ JobOnly
    /\ stop' = TRUE
    /\ UNCHANGED <<recording, phase, handle, readers, lost, directory, bytes, journal, engineer>>

(* The reader ends, or is given up after eight seconds.                    *)
JoinedOrLate == TRUE
Joined == ~ReaderAlive
JoinReader ==
    /\ Job("recording", "joining") /\ JobOnly
    /\ Then(IF Joined THEN "trial" ELSE "done")
    /\ UNCHANGED <<recording, readerVars, bytes, journal, engineer>>

EndTrial ==
    /\ Job("recording", "trial") /\ Then("switching") /\ JobOnly
    /\ FinishTrial
    /\ UNCHANGED <<recording, readerVars, bytes, engineer>>

MayAlways == TRUE
MayApply == ~closing
SwitchRecording ==
    /\ Job("recording", "switching") /\ JobOnly
    /\ IF MayApply
       THEN /\ Then("saving") /\ recording' = job.value
            /\ StartReader(job.value, charged + reported)
            /\ UNCHANGED <<reported, total, trialFailed, engineer>>
       ELSE Then("done") /\ UNCHANGED <<recording, readerVars, bytes, journal, engineer>>

(* Saving is tried last and its failure is only told.                      *)
SaveRecording ==
    /\ Job("recording", "saving") /\ Then("done") /\ JobOnly
    /\ UNCHANGED <<recording, readerVars, bytes, journal, engineer>>

Replacing == JobOnly /\ UNCHANGED <<readerVars, bytes, journal, sent>>
(* The replacement takes over the count of requests; creating it may fail. *)
Carried == used
BuildService ==
    /\ Job("service", "building") /\ Replacing
    /\ UNCHANGED <<recording, service, used, serial, work, answer>>
    /\ \/ Then("done") /\ UNCHANGED alive
       \/ /\ alive' = alive \cup {service + 1}
          /\ job' = [job EXCEPT !.place = "storing", !.id = service + 1, !.carried = Carried]

(* save may fail, and closing may have begun.                              *)
StoreSettings ==
    /\ Job("service", "storing") /\ Replacing
    /\ \/ ~closing /\ Then("swapping")
       \/ Then("undoing")
    /\ UNCHANGED <<recording, service, alive, used, serial, work, answer>>

SwapService ==
    /\ Job("service", "swapping") /\ Replacing
    /\ IF MayApply
       THEN /\ job' = [job EXCEPT !.place = "undoing", !.id = service]
            /\ service' = job.id /\ used' = job.carried
            /\ recording' = job.value
            /\ serial' = 0 /\ work' = Rested /\ answer' = 0
            /\ UNCHANGED alive
       ELSE Then("undoing") /\ UNCHANGED <<recording, service, alive, used, serial, work, answer>>

(* The service that is not in use, the old or the new one, is closed.      *)
CloseOther ==
    /\ Job("service", "undoing") /\ Then("done") /\ Replacing
    /\ alive' = alive \ {job.id}
    /\ UNCHANGED <<recording, service, used, serial, work, answer>>

EndReplay ==
    /\ Job("replay", "reading") /\ Then("done") /\ JobOnly
    /\ UNCHANGED <<recording, readerVars, bytes, journal, engineer>>

JobStep ==
    \/ StopReader \/ JoinReader \/ EndTrial \/ SwitchRecording \/ SaveRecording
    \/ BuildService \/ StoreSettings \/ SwapService \/ CloseOther \/ EndReplay

----------------------------------------------------------------------------
(* The service's worker, and the closing thread.                           *)

TakeQuestion ==
    /\ work.place = "queued" /\ service \in alive
    /\ work' = [work EXCEPT !.place = "answering"]
    /\ UNCHANGED <<control, recording, readerVars, bytes, journal, service, alive, used, sent,
                   serial, answer>>

NewestOrNot == TRUE
Newest == work.serial = serial
GiveAnswer ==
    /\ work.place = "answering" /\ work' = Rested
    /\ answer' = IF service \in alive /\ Newest THEN work.serial ELSE answer
    /\ UNCHANGED <<control, recording, readerVars, bytes, journal, service, alive, used, sent,
                   serial>>

Closer(a, b) == closer = a /\ closer' = b /\ UNCHANGED <<started, closing, job, form, recording>>
CloseService ==
    /\ Closer("service", "worker")
    /\ alive' = alive \ {service}
    /\ UNCHANGED <<readerVars, bytes, journal, service, used, sent, serial, work, answer>>

JoinWorker ==
    /\ work.place # "answering" /\ Closer("worker", "waiting")
    /\ UNCHANGED <<readerVars, bytes, journal, engineer>>

Quiet == ~ReaderAlive /\ ~Configuring
Wait ==
    /\ Quiet /\ Closer("waiting", "trial")
    /\ UNCHANGED <<readerVars, bytes, journal, engineer>>

Finish ==
    /\ Closer("trial", "closed") /\ FinishTrial
    /\ UNCHANGED <<readerVars, bytes, engineer>>

CloserStep == CloseService \/ JoinWorker \/ Wait \/ Finish

Closed == closer = "closed" /\ UNCHANGED vars

Next ==
    \/ ReaderStep \/ JobStep \/ CloserStep \/ TakeQuestion \/ GiveAnswer
    \/ Start \/ SetRecording \/ CopySettings \/ Configure \/ LoadSession \/ Replay \/ AskLocal \/ AskModel \/ Close
    \/ Closed

(* Threads keep running and what they wait for ends: SDK calls, file       *)
(* operations and the provider's timeout.                                  *)
Spec == Init /\ [][Next]_vars
FairSpec ==
    /\ Spec /\ WF_vars(ReaderStep) /\ WF_vars(JobStep) /\ WF_vars(CloserStep)
    /\ WF_vars(TakeQuestion \/ GiveAnswer)

----------------------------------------------------------------------------
(* Properties                                                              *)

TypeOK ==
    /\ {started, closing, recording, stop, directory, trialFailed} \subseteq BOOLEAN
    /\ closer \in {"none", "service", "worker", "waiting", "trial", "closed"}
    /\ job \in [kind : {"none", "recording", "service", "replay"},
               place : {"done", "stopping", "joining", "trial", "switching", "saving",
                        "building", "storing", "swapping", "undoing", "reading"},
               value : BOOLEAN, id : Nat, carried : Nat]
    /\ form \in {"none", "on", "off"}
    /\ phase \in {"off", "running", "ended"} /\ handle \in {"none", "held", "lost"}
    /\ {readers, lost, written, reported, charged, total} \subseteq Nat
    /\ trial \in {"none", "open"}
    /\ {service, used, sent, serial, answer} \subseteq Nat /\ alive \subseteq Nat
    /\ work \in [serial : Nat, place : {"idle", "queued", "answering"}]

(* A change of recording never leaves two readers on the simulator: a new  *)
(* one is started only after the old thread has been seen to end.          *)
OneReader == readers = IF ReaderAlive THEN 1 ELSE 0

(* Whatever was scheduled when the window was closed, CLOSED means that no *)
(* thread, journal or model service is left behind.                        *)
ClosedIsQuiet ==
    closer = "closed" =>
        readers = 0 /\ ~Configuring /\ trial = "none" /\ alive = {} /\ work.place # "answering"

(* However often recording is turned off and on, and whatever the last     *)
(* worker reports, a run of the application records no more than its       *)
(* budget.                                                                 *)
BudgetKept == total <= Cap

(* Replacing the model service neither forgets nor repeats a request to    *)
(* the provider: the limit holds for the run of the application.           *)
RequestsCarried == used = sent

(* Neither budget of a run is spent twice by what replaces its spender.    *)
BudgetsKept == BudgetKept /\ RequestsCarried

(* A slow answer never replaces the answer to a later question.            *)
NewestWins == answer \in {0, serial}

(* A window that is closed at any moment of a job, of a question or of a   *)
(* connection gets to CLOSED.                                              *)
Closes == closing ~> closer = "closed"

(* live_app.py:1291 "Do not accumulate SDK owners whose release was not    *)
(* acknowledged.": an SDK handle that could not be given back is the last. *)
OneOwner == lost + (IF handle = "none" THEN 0 ELSE 1) <= 1

(* The reader records only while the setting the driver sees says so.      *)
RecordsAsSet == ReaderAlive /\ directory /\ ~Configuring => recording
=============================================================================
