# iRacing AI engineer: TLA+ models, checks and proofs

This directory holds a TLA+ model of the concurrent core of the program under
`src/src/iracing_ai_engineer`: the parts where several threads, callbacks and
devices meet and where a unit test, which runs one schedule, says little. Every
definition is translated from the Python source; `PROJECT.json` maps each of them
to the lines it stands for. TLC checks the models on small instances, TLAPS proves
the safety properties for every value of the constants.

Paths below are relative to `src/src/iracing_ai_engineer` unless they begin with
`docs/`, which is `src/docs`.

1. [The system](#1-the-system)
2. [Modules](#2-modules)
3. [Runs, bounds and fairness](#3-runs-bounds-and-fairness)
4. [Findings](#4-findings)
5. [What is proved](#5-what-is-proved)
6. [Abstractions and what is left out](#6-abstractions-and-what-is-left-out)
7. [Plan](#7-plan)

To repeat a check: `tlc -workers 2 -config X.cfg M` with a row of the table in
section 3, and `tlapm M.tla` for a proof module.

## 1. The system

The desktop application reads the simulator's shared memory on one thread, feeds
bounded worker lanes that record and analyse, shows the result, answers spoken
questions and calls out cars alongside.

    DesktopController --starts, stops--> SDK thread; --questions--> EngineerService
         |
    SDK thread --run_reader--> AppState --+--> FrameWorker: recorder, analysis, trial journal
         |                       |        |       '--> AppRecorder, LiveCollector --> capture file
         |                       |        +--> ProximitySpotter (detector, under AppState's lock)
         |                       |                  | spotter_snapshot()
         |                       |                  v
         |                       |            SpotterVoice worker + 20 ms guard thread
         |                       |                  | urgent / background_play
         |                       | source()         v
    window, InputPoller --> VoiceService worker --> PriorityAudio --> AudioIO --> sound device
                               |   guard thread      (record / play / devices)
                               +--> EngineerService (language model), tyre confirmation

### Components

**Audio arbiter** (`priority_audio.py`, `voice_audio.py`). State: the token that owns
the device (`_active`), whether a proximity call waits (`_urgent_waiting`), each token's
Event, AudioIO's lock, the stream. Operations: `devices`, `record`, `play`,
`background_play`, `urgent`. Hard: two threads enter, wait at most 250 ms, time out,
cancel and are cancelled in any order; a driver may fail at every stage or never return.
Correct when: one call at a time is inside the device; only a higher rank cancels; a
waiting proximity call is never overtaken; a revoked result is never delivered; nobody
waits without bound.

**Frame worker** (`live_worker.py`). State: the queue and its two budgets, the frame in
hand, four counters, `_failed`, `_closing`, `_complete`, the status, the sink. Operations:
`submit`, `fail_payload`, `close`, the thread's factory, sink, byte measure, finalisation
and teardown, the failure callback. Hard: producers never wait; every external step can
fail; failure and close come from any thread. Correct when: every admitted frame is
counted once, the sink saw a gapless prefix, and only a lane that handled everything is
sealed as COMPLETE.

**Proximity detector** (`spotter.py`). State: clocks, the last progressing sample, the
confirmed and the pending code, the mailbox with one candidate, an epoch and a sequence
number. Operations: `feed`, `advance_time`, `unavailable`, `snapshot`. Hard: repeated
ticks and buffers of a frozen simulator, gaps, regressions, late captures, flicker, expiry,
in any sequence. Correct when: readiness is never renewed by repetition, the candidate
agrees with the latest observation, nothing confirmed is missed, an all-clear is earned.

**Proximity voice** (`spotter_voice.py`). State: settings revision, status, the phrase
cache, what was seen and is being played, the pending notice, the data-loss warning.
Operations: `configure`, `suspend`, `interrupted_question`, `close`, the worker loop, the
guard thread. Hard: the detector is read outside the lock and used after it; settings,
stops, errors and newer events arrive at each step of a call. Correct when: what plays for
an old revision is cancelled, calls advance, notices and errors are not lost, an outage
is reported once.

**Voice service** (`voice_service.py`, `voice_tire_confirmation.py`). State: a bounded job
queue, the operation epoch, the shared cancel and release Events, the held flag, the count
of pending configurations, a pending binding, the tyre draft, whether proximity was stopped.
Operations: `press`, `release`, `configure`, `refresh`, `bind`, `cancel_bind`, `test`,
`stop`, `close`, the poller's callbacks, the worker's jobs, the guard. Hard: the window, the
poller, the worker and the guard interleave between every two blocks; the Events are
replaced under those who hold the old ones; the queue may be full; preemption and errors at
each stage. Correct when: the microphone is open only while its button is held; what is
taken back is told; a tyre record is queued only after the call that played its readback has
returned in the same visit; stop wins over a save in flight; close ends.

**Voice input polling** (`voice_inputs.py`, `voice_windows.py`). State: thread, binding,
edges, baselines. Operations: `start`, `set_binding`, `begin_bind`, `cancel_bind`, `close`,
the poll loop. Hard: a bounded join, callbacks that re-enter the service, a device that
disappears while held. Correct when: a press is followed by its release or an error, and
an old selection cannot end a new one.

**Speech engines and voice settings** (`voice_speech.py`, `voice_settings.py`,
`voice_diagnostics.py`). Subprocesses, a JSON file and counters. They fail or return;
their callers' modules treat them so.

**Live application state and reader** (`live_app.py`, `live_app_recording.py`). State:
the generation of the connection, what the monitor shows, the configured assumptions and
their revision, a tyre assertion under way, the analysis lane, the SDK handle. Operations:
`publish`, `status`, `snapshot`, `invalidate_analysis`, `configure_strategy`,
`confirm_tire_service`, the mailbox the lane reads, `run_reader`. Hard: a lane outlives its
connection or fails on either side; callers look at the lane before they take the lock; the
SDK may not shut down. Correct when: nothing of an earlier generation is shown, assumed or
applied; what is shown was computed with the assumptions beside it; a failed lane withdraws
for good; one SDK handle at a time; a stopped reader ends.

**Desktop controller** (`desktop_controller.py`). State: the reader's thread and stop event,
one background job, the settings, what recording has cost, the trial journal, the closing
thread. Operations: `start`, `configure`, `set_recording`, `load_session`, `submit`,
`close`. Hard: a job's settings are copied before it is scheduled, readers hang or lose
their handle, a close falls in the middle. Correct when: one reader, budgets that no toggle
or replacement resets, a CLOSED that leaves nothing behind, and a close that ends.

**Language-model engineer** (`llm_engineer.py`, `llm_client.py`, `llm_evidence.py`). State:
one question, its serial, the count of requests. Operations: `submit`, `close`, the worker.
Hard: the answer arrives after a later question, or after its service was replaced. Correct
when: the newest question wins and no request goes uncounted.

**Session collector** (`collector.py`, `AppRecorder` of `live_app_recording.py`). State: the
output file with its byte count, the epochs, the last frame, pending transactions, what is
stale. Operations: `ingest`, `finish`, `close`, a write per record. Hard: resets, duplicates,
drops, silences and schema changes meet in one sample, each a record in a fixed order; a
write stops at any byte. Correct when: no prefix breaks a rule of order of the reader that comes
months later, and that reader calls only a whole recording COMPLETE.

**Capture reader** (`adapters.py`). The other side of that format: a validator that
recomputes order, epochs, transactions, counts and the receipt from the lines alone, and binds a
file to one track length and each of its session epochs to one event and one car class. The
collector does not look at these three, so a sound recording in which one changes is refused.

**Speech policy** (`speech_policy.py`). State: the inputs of one session time, an envelope
and a pending candidate per conflict key, the stability windows, the cool-downs, mute.
Operations: `feed`, `finish`. Hard: equal times, gaps, boundaries, expiry, supersession and
refresh meet in one batch. Correct when: a prompt is spoken once, spaced, over a road that
was shown to be quiet, and nothing that was withdrawn comes back.

**Trial journal and replay** (`trial_audit.py`, `trial_replay.py`, `capture_replay.py`,
`tire_capture_replay.py`, `tire_review.py`). Bounded files over a FrameWorker and the
reader that accepts or refuses them. Correct when: a sealed journal is complete.

**Telemetry events and laps** (`telemetry.py`, `events.py`, `laps.py`, `fuel.py`,
`session_flags.py`, `quality.py`, `replay.py`). Sequential reducers over samples with gaps
and resets. Correct when: no event spans a discontinuity.

**Live advice lanes** (`live_monitor.py`, `live_fuel.py`, `live_pit_observation.py`,
`live_tire_*.py`, `live_stint.py`, `live_rejoin.py`, `live_strategy.py` and the other
`live_*` reducers, `tire_service_history.py`, `tire_frame_binding.py`). Run in order by the
analysis lane. The pit observation and the tyre installation are state machines, the rest
is arithmetic and wording.

**Pit stint and plan** (`pit_stint.py`, `pit_plan.py`, `m2_strategy.py`,
`advisor_timeline.py`). Offline reducers over recorded sessions, mostly arithmetic.

**Live supervisor and receipts** (`live_supervisor.py`, `live_engineer_session.py`,
`live_preflight.py`, `retrieved_live_analysis.py`, `engineer_session.py`,
`session_report.py`, `m0.py`, `cli.py`). A linear lifecycle and validation of receipts
field by field.

**SDK transport** (`sdk_probe.py`, `crewchief_transport.py`, `runtime_clock.py`, `ibt.py`,
`contracts.py`, `capabilities.py`), **desktop window and preflight** (`desktop_window.py`,
`desktop_app.py` and the other `desktop_*`, `dashboard_page.py`), **offline analysis**
(`driving*.py`, `corner_cards.py`, `condition_cohort.py`, `rejoin_projection.py` and
others) and the **synthetic runtime** (`synthetic_*.py`): I/O, widgets, functions of
recorded floats, and test doubles.

`PROJECT.json` lists all of them with their status, and under `hazards` what is hard to
test, line by line, with the property that would catch it.

## 2. Modules

| component | contract | model | model checking | proofs |
|---|---|---|---|---|
| audio arbiter | `AudioOwnership` | `PriorityAudio` | `MCPriorityAudio` | `PriorityAudioProofs` |
| frame worker | | `FrameWorker` | (itself) | `FrameWorkerProofs` |
| proximity detector | `ProximityFeed` | `ProximitySpotter` | `MCProximitySpotter` | `ProximitySpotterProofs` |
| proximity voice | over `ProximityFeed` | `SpotterVoice` | `MCSpotterVoice` | `SpotterVoiceProofs` |
| voice service, poller | | `VoiceService` | (itself) | `VoiceServiceProofs` |
| live state, SDK reader, analysis lane | `ReaderLease` | `LiveReader` | (itself) | `LiveReaderProofs` |
| desktop controller, model service | over `ReaderLease` | `DesktopController` | (itself) | `DesktopProofs` |
| recording and its reader | `CaptureReader` | `Capture` | `MCCapture` | `SessionProofs` |
| speech policy | | `SpeechPolicy` | `MCSpeechPolicy` | `SessionProofs` |

One rule holds everywhere: what the code does under one lock, from taking it to leaving or
waiting on it, is one action; what it does between two such blocks interleaves with
everything else. The stage at which a thread stands (`pc`, `at`, `guardAt`, `putting`,
`failing`, ...) is the model's only addition to the program's state, besides the histories
that are named as such.

### AudioOwnership and PriorityAudio

`AudioOwnership` says what the arbiter promises: grant to one call, revoke, settle, release,
and no delivery after a revocation. `PriorityAudio` is the code: `NormalEnter`,
`NormalWaited` and `NormalBegin` are `_normal`, `UrgentEnter`, `UrgentAdmit`, `Abandon` and
`UrgentWaited` are `urgent`, and `DeviceEnter` to `Dispose` are the stages of
`AudioIO.record`, `play` and `devices`. A thread makes one call at a time, so its name is
also the name of its token. `stopped` is the caller's own Event (`parent`), `overdue` the
250 ms or the candidate's deadline, `warranted` the guard's answer. `ImplementsOwnership`
is the refinement: `owner <- active`, `revoked <- cancelled`, the verdict is the outcome.

### FrameWorker

`Submit`, `SubmitInvalid`, `Refuse` (the `_fail` that follows a rejection outside the lock)
and `Close` are the callers; `MakeSink` to `End` are `_run`. Frames are numbered in the
order of admission and have a size, so that both budgets and the frame in hand count as in
the code. `handled` is a history of what the sink has processed. `Fail` empties the queue,
counts it as discarded and calls `on_failure`, which may take its time (`calling`).

### ProximityFeed and ProximitySpotter

`ProximitySpotter` is the detector with integer time. A frame is what `_admission` tells
apart: fit or not, whose car, tick, publication buffer, session time, code, capture time.
`Feed` is the whole of `feed` with its branches in their order, `AdvanceTime` the deadline
and age checks that `snapshot` and the timer make, `Unavailable` a transport's word.
`firstCapture`, `run` and `said` are histories for the properties: when the current tick was
first captured, since when the latest code was observed unbroken, what was last called.
`ProximityFeed` is the mailbox contract its consumer is built on, and `ImplementsFeed` shows
that the detector keeps it.

### SpotterVoice

The consumer, composed with any detector that keeps `ProximityFeed`: `Observe` is a step of
the contract, so what is shown here holds for the real detector through `ImplementsFeed`.
`Loop`, `Look` (the source is read outside the lock), `Choose`, `Begin`, `Precheck`,
`Acquire`, `Open`, `Start`, `RunEnds`, `Settle`, `Finish` are the worker's steps from one
block to the next; `Watch`, `Judge`, `CancelObsolete` the guard thread's. The device is
seen through the arbiter's contract: it may refuse, fail, be cancelled or end. `_revision`
and `_notice_serial` are numbers that the code only compares with a copy taken earlier, so
the module keeps the comparison: `superseded` is the revision that has moved on since
`Loop` copied it, `overtaken` the serial that has moved on since the notice was chosen.
Configurations and cancelled questions therefore need no bound.

### VoiceService

`Press`, `Put`, `Release`, `Test`, `Stop`, `Configure`, `Refresh`, `Bind`, `CancelBind` and
`Close` are the window's calls (a press queues its job after its block, hence `Put` and
`Fail`); `Poll...` the input poller's; the rest the worker's jobs. An epoch is only ever
compared with the current one, so a job carries `valid`. `_cancel` and `_release` are Events
that later jobs replace: a job carries whether its own are set (`cut`, `released`) and
`latest` says whose Event the service holds. `Left` is `_invalidate`, which sets only what
the service still holds. `review`, `fresh` and `readback` are the tyre draft: its state,
whether its visit and its thirty seconds still hold, and what the call that plays it came to (a
history): it was played to its end, or the call returned with nothing played, since a
proximity call had cancelled it between its claim of the device and its first test. `Said` is
what `_say` makes of either: that it was said.

The window's calls come from the Tk thread and the controller refuses them once closing,
so they are made one at a time and while `closing = "open"`. `Pressers` says who has a talk
button: the poller always, the window's button too. The run has the poller alone, the
proofs hold for every set.

### ReaderLease and LiveReader

`ReaderLease` is what `run_reader` promises whoever starts it: at most one SDK handle in its
hands, no other one after a handle it could not give back, no end while it holds one.
`LiveReader` is the code. `Open` to `End` are the stages of `run_reader`, `LaneStarts` to
`LaneEnds` those of the analysis lane (a FrameWorker around `_LiveAnalysis`, seen here only
as far as AppState sees it), `WorkerStatus` to `ConfirmTireService` the callers', `Snapshot`
and `Age` what a look may do. What AppState derives from a connection is the number of the
generation it was derived in, 0 for none, so a value that is not the current generation *is*
the stale one. `asking` is a caller that has looked at the lane and not yet taken the lock;
`lane.config` is the revision of the assumptions the lane computes with.

### DesktopController

Over any reader that keeps `ReaderLease`, whose steps it takes by name, so that
`ImplementsLease` carries what is shown here over to `run_reader`. `Start` to `Close` are
the window's calls, `StopReader` to `EndReplay` the stages of a job in the background
(`job.place`), `CloseService` to `Finish` the closing thread, `TakeQuestion` and `GiveAnswer`
the service's worker. `form` is a `configure` between its copy of the settings and its
request for a job. `total`, `sent` and `lost` are histories: what was recorded, what was
asked of the provider, and the handles that earlier readers could not give back. Bytes are
counted in units of the smallest useful recording.

### CaptureReader and Capture

`CaptureReader` is the validator of `adapters.py`: `Accepts(r, m)` says whether a reader
that knows `r` takes the next record `m`, `Read` what it knows then. It is written from the
reader's code alone. A rule of order that is broken makes `ok` FALSE; `Bind` keeps the track
length of the run and the event and car class of the epoch and makes `bound.steady` FALSE
when one changes. The program refuses the file in both cases, the model goes on so that each
can be spoken of without the other: a file is accepted if both hold. `Capture` is the
writer, from the collector's code alone: `Ingest` decides which records a sample needs,
`WriteRecord` writes the next of them in the collector's fixed order, `WriteFails` stops at
any byte, `Finish`, `Seal` and `Close` end a recording. The reader follows the file, so that
every state of a run is also a file that a killed process leaves behind. A digest is the
value it is computed from, and a record's line has a length and no text.

### SpeechPolicy

`Stage` puts an input into the batch of its time, in the canonical order; `Flush` checks the
batch and expires; `FeedMute` to `FeedBoundary` are `_process_one`'s branches, `Evaluate` with
`DropMuted`, `Hold` and `Speak` is `_evaluate_pending`, one candidate at a time. `FailClosed` is
every contract breach. A revision stands for the digest of a candidate's content. `said` and
`road` are histories: the prompts spoken, and what the evidence of each time has shown. The
recording and the policy that the advisor timeline replays over it share no name, so that one
module, `SessionProofs`, can extend both.

## 3. Runs, bounds and fairness

| run | module, configuration | properties |
|---|---|---|
| `priority_audio` | `MCPriorityAudio`, `PriorityAudio.cfg` | OneOwner, OnlyUpwards, NoOvertaking, ImplementsOwnership, WaitsEnd |
| `frame_worker` | `FrameWorker`, `FrameWorker.cfg` | EveryFrameOnce, SealedIsWhole, BudgetsHold, Ends |
| `trial_journal` | `FrameWorker`, `TrialJournal.cfg` | OverflowNeverSealed (violated) |
| `proximity_spotter` | `MCProximitySpotter`, `ProximitySpotter.cfg` | Fresh, CandidateCurrent, NoMissedCall, ClearIsEarned, ImplementsFeed |
| `spotter_voice` | `MCSpotterVoice`, `SpotterVoice.cfg` | ObsoleteIsCancelled, AttemptsAdvance, NoticeKept, OneWarningPerOutage, ObsoleteIsSilenced, Closes |
| `voice_service` | `VoiceService`, `VoiceService.cfg` | MicrophoneHeld, QuestionSilenced, PausedIsOff, ConfirmedAsRead, Closes |
| `live_reader` | `LiveReader`, `LiveReader.cfg` | ShownIsCurrent, FailedIsWithdrawn, ImplementsLease, Ends |
| `desktop` | `DesktopController`, `DesktopController.cfg` | OneReader, ClosedIsQuiet, BudgetsKept, NewestWins, Closes |
| `sdk_owner` | `DesktopController`, `SdkOwner.cfg` | OneOwner (violated) |
| `recording_setting` | `DesktopController`, `RecordingSetting.cfg` | RecordsAsSet (violated) |
| `capture` | `MCCapture`, `Capture.cfg` | Readable, CompleteIsWhole, WithinBudget |
| `speech_policy` | `MCSpeechPolicy`, `SpeechPolicy.cfg` | SpokenOnStableRoad, SpokenOnceAndSpaced, CandidatesInForce |

The modules with proofs have a `TypeOK` each, the recording's and the policy's are `CaptureTypes`
and `PolicyTypes` in `SessionProofs`; it is proved (section 5) and not run.

**Bounds, and why they are enough.**

- `PriorityAudio`: the production wiring, the voice worker with `devices`, `record`, `play`
  and the proximity worker with `devices`, `background`, `urgent`. The application has
  exactly these two threads, so nothing is cut off; the state space is finite without a
  bound. The proofs cover any number of threads.
- `FrameWorker`: sizes 1 and 2 against `max_bytes = 3` and `max_frames = 2`, so that each
  budget is hit first, also by the frame in hand; five offers, more than both budgets, so
  that the lane overflows from every filling; an age limit. One thread offers and closes,
  as `run_reader` does with the recorder and analysis lanes. `TrialJournal.cfg` has the
  trial's wiring, where the voice thread offers outside AppState's lock and the desktop closes.
  The SDK thread offers to the trial too, but under that lock, under which the desktop detaches
  the trial before it closes it, and after it has joined the reader: it cannot meet the close.
- `ProximitySpotter`: maximum age, clear delay, repeat and time-to-live 2, occupied delay 1,
  so that confirmation, repetition and expiry are all crossed one tick before, at and after
  the limit within `MaxClock = 6`; codes clear, left and both; frames with progressing
  ticks, repetitions, jumps, a reused buffer, another driver, unfit and unavailable frames
  and a late capture; two losses of continuity (`MaxEpoch = 2`).
- `SpotterVoice`: one occupied code and the clear one, two calls of the detector
  (`MaxSerial = 2`, so that a snapshot may hold the older while the mailbox has the newer) and
  one new epoch. Configurations, suspensions, cancelled questions and outages are not bounded:
  they fall into every stage of a call, again and again, before and after each other.
- `VoiceService`: a queue of one, so that it is full whenever anything waits; every
  operation may otherwise come any number of times.

- `LiveReader`: `MaxGeneration = 5` is two connections with the states between them and an
  orderly stop, so that a lane of the first lives into the second; two frames wait in the lane.
  A revision is spent by every change of connection and by every configuration; the bound of
  seven stops configurations only, and leaves some for the second connection.
- `DesktopController`: a budget of two units, which one reader can exhaust and two can
  overrun; one replacement of the service while it answers; two questions, so that one
  supersedes the other; recording changes until the budget is charged or a handle is lost.
- `Capture`: four samples out of 25 (ticks that repeat, follow and skip, two clocks, and at two
  ticks one of the other fields changed, going back or missing, the track length, the event and
  the car class among them), so that every pair of causes meets in one sample with a history
  before it; a budget of fourteen records and an odd byte,
  which the longer recordings run out of; a write may also fail at any record before that.
- `SpeechPolicy`: two conflict keys and a revision each of an urgent, a tactical and a log-only
  class; four session times with up to two inputs each; windows of two samples and one unit,
  gaps of more than one unit, cool-downs of one and two, so that each limit is met exactly and
  missed by one.

Each of the counters named `Max...` is a guard on the environment (no more frames, epochs,
revisions, samples or notices), never on what the code does with them.

**Fairness.** Weak fairness of threads that are scheduled and of calls that return, no more:

- `PriorityAudio`: each thread's own steps, unless the driver hangs (`Hang` disables the
  stuck call, and nothing obliges it to come back), and the expiry of a wait, which is
  `Condition.wait` with a timeout. Nobody has to call, stop or withdraw.
- `FrameWorker`: the sink's thread, whose sink returns, callbacks, and a thread that is
  inside `submit`. Nobody has to submit or close.
- `SpotterVoice`: the worker, the guard thread and the steps of `close`. The detector, the
  callers, faults, refusals and the natural end of a phrase are not fair: the guard must
  silence an obsolete phrase even if it would never end by itself.
- `VoiceService`: the worker (recording ends with the release or the twelve-second cap,
  recognition and playback return), a caller that is inside the service, a poller that has
  been told to stop or has begun a callback, and the steps of `close`. Presses and releases
  are not fair.

- `LiveReader`: the reader's thread, whose polls return or fail, and the lane's. Nobody has to
  stop, ask or look; the SDK need not hand over.
- `DesktopController`: the reader's thread, the job, the closing thread and the service's
  worker, whose HTTP call has a timeout. A reader that hangs is a reader that may take any
  number of steps between two looks of the join; nobody has to close.

`ProximitySpotter`, `Capture` and `SpeechPolicy` promise nothing that must happen, since they
are called. Deadlock is checked everywhere but for `FrameWorker` and `VoiceService`, which end:
the lane's thread returns and a closed service stays closed. Where the others end, a step that
changes nothing says so (`Closed`, `Finished`, `Ended`, `Spent`).

**What the passing runs show.** `priority_audio`: whatever is cancelled, late, failing or
hung, one call is inside the device and the arbiter knows which, proximity goes first and
only ranks below are interrupted, and every wait ends. `frame_worker`: overflow, stale
frames and failures of every external step lose no frame from the accounts, reorder nothing
and seal nothing partial, and a closed or failed lane ends. `proximity_spotter`: the
detector neither renews freshness by repetition, nor keeps an outdated candidate, nor misses
or invents a call, and keeps the mailbox contract. `spotter_voice`: settings, stops, errors,
notices and outages that arrive at any step of a call are neither lost nor mixed up,
obsolete speech is silenced and close ends. `voice_service`: no order of presses, releases,
stops, saves, bindings, errors and preemptions opens the microphone without a held button,
leaves a question running that was taken back, queues a tyre record whose readback was cut
short or taken back, or resumes proximity by a save that is older than the stop; and close
ends. `live_reader`: whatever outlives its connection, the driver sees one connection and
one set of assumptions, a failed lane leaves nothing that can come back, and the SDK lease
is kept. `desktop`: over every reader that keeps the lease, no order of recording changes,
saves, replays, questions and a close starts a second reader, resets a budget, shows an old
answer or says CLOSED too early. `capture`: two independent descriptions of one format agree
on its order, after every cause, at every instant and after every cut; a finished recording
is refused only for a track, event or car that changed; and only whole ones pass for whole.
`speech_policy`: within the windows and cool-downs above, no batch lets a prompt through
that its evidence does not carry.

Every property has a mutant in `PROJECT.json`, a plausible mistake in the code (a dropped
guard, a missing reset, a swapped order) under which the same run fails. They stand beside
their originals in the modules (`TakeWhenFree`, `FinalizableOnFault`, `AppliesPaused`, ...).

## 4. Findings

Three runs end with a counterexample. Each refutes a sentence of the repository's own
documentation or comments.

- **`trial_journal`**, `OverflowNeverSealed`. `submit` counts a rejection under the lock and
  fails the lane after leaving it. `audit_audio` offers the voice thread's entries to the
  trial journal after it has left AppState's lock (`live_app.py:435`), and the desktop
  closes that journal (`desktop_controller.py:146`): a `close(complete=True)` in between
  seals a journal that lost an entry as COMPLETE. The proofs show the condition under which
  it cannot happen: one thread that offers and closes, as for the recorder and the analysis.
- **`sdk_owner`**, `OneOwner`. `run_reader` gives up after an SDK handle it could not release,
  and `docs/PROXIMITY_SPOTTER.md` says that such a failure prevents another owner. A recording
  change starts the next reader all the same, and that one opens a handle of its own. Proved:
  nothing else does, so a look at the old handle in the recording change is all that is missing.
- **`recording_setting`**, `RecordsAsSet`. `configure` copies the settings before its job is
  scheduled. A recording change that ends in between is overwritten by the copy: the reader
  records while the setting, and so the checkbox, says off, and switching it off again does
  nothing. Proved: without a recording change between the copy and the job it cannot happen.

Seen while modelling, by reading a counterexample of a stronger property or a branch that the
model cannot take, and not kept as a run:

- A key binding asked for before a stop and completed by its key afterwards queues a
  configuration that clears `_spotter_paused` (`voice_service.py:285`) and resumes proximity;
  `docs/PROXIMITY_SPOTTER.md:170` says only a subsequent apply may.
- `_normal` tests its token after it has claimed the device and returns `None`
  (`priority_audio.py:71`), which `record` turns into `b""`: a question that a proximity call
  cancels in between is reported as an over-long recording, without the deferred notice.
- The same test lets `play` return with nothing played, without an error. `_say` then
  answers that it spoke, and `_tire_record` (`voice_service.py:528`) arms a draft whose
  readback was never played, where `docs/VR_TIRE_CONFIRMATION.md:41` makes it confirmable
  only after software completion of its readback. Proved: this is the only way
  (`HeardUnlessUnplayed`).
- The collector finishes and receipts a capture whose track length, event or car class changed in a
  way that its reader refuses; `tests/test_adapters.py:602` and `:687` expect the refusal.
- A deferred notice whose guard turns false while the device opens is dropped without a word
  (`spotter_voice.py:348`), where a comment says it can wait for the microphone's owner.
- The bytes of a recording that was switched off are charged again when it is switched off a
  second time without a connection in between, because its worker stays attached: the budget
  is kept, but a toggle may use it up.
- A tyre assertion may be called APPLIED for a moment after its analysis was withdrawn;
  `snapshot` masks it. A sync that fails after the receipt was written leaves a file that a
  reader accepts as COMPLETE although `finish` reports a failure; no sample is missing.
- The deadline test of `_evaluate_pending` (`speech_policy.py:1805`) is never true: `_expire_due`
  has run for the same instant, and what is new ends later. A gap in the timing evidence resets
  the windows rather than failing the policy, as `docs/SHADOW_SPEECH_POLICY.md` has it.
- A test phrase whose job still waits loses its cancel Event when `_auto` speaks first; a
  settings save that finds the queue full leaves proximity suspended until the next one;
  `initialize` may apply the stored settings while a newer save is already queued.

## 5. What is proved

For every value of the constants (any threads, budgets, delays, frames, queue length,
talk buttons, samples, and counters without bound where the constant is a bound), from the
assumptions named in the modules: that `Nothing` and its like are no ordinary values, that
constants are of their kind, and in `PriorityAudio` that one thread at most makes proximity
calls, which the docstring of `urgent` states.

| module | theorem | states |
|---|---|---|
| `PriorityAudioProofs` | TypeCorrect, ExclusiveDevice, PriorityOrder, ProximityFirst | TypeOK, OneOwner, OnlyUpwards, NoOvertaking |
| | OwnershipRefinement | every behaviour of the arbiter is one of `AudioOwnership` |
| `FrameWorkerProofs` | TypeCorrect, FramesOnce, SealsAreWhole, BudgetsAreKept | TypeOK, EveryFrameOnce, SealedIsWhole, BudgetsHold |
| | OneOwnerNeverSealsOverflow | OverflowNeverSealed when one thread offers and closes |
| `ProximitySpotterProofs` | TypeCorrect, FreshnessHolds, MailboxIsCurrent, NothingIsMissed, ClearAfterOccupied | TypeOK, Fresh, CandidateCurrent, NoMissedCall, ClearIsEarned |
| | FeedRefinement | every behaviour of the detector is one of `ProximityFeed` |
| `SpotterVoiceProofs` | TypeCorrect, SupersededIsCancelled, ErrorsLatch, NoticeSurvives, WarningsAreOwed, CallsInOrder | TypeOK, ObsoleteIsCancelled, ErrorLatched, NoticeKept, OneWarningPerOutage, AttemptsAdvance |
| `VoiceServiceProofs` | TypeCorrect, MicrophoneIsHeld, TakenBackIsSilenced, StopBeatsSave, RecordsAsRead | TypeOK, MicrophoneHeld, QuestionSilenced, PausedIsOff, ConfirmedAsRead |
| | HeardUnlessUnplayed | ConfirmedAsHeard when no play returns unplayed |
| `LiveReaderProofs` | TypeCorrect, ShownBelongs, FailureWithdraws | TypeOK, ShownIsCurrent, FailedIsWithdrawn |
| | LeaseRefinement | every behaviour of `run_reader` is one of `ReaderLease` |
| `DesktopProofs` | TypeCorrect, AtMostOneReader, BudgetsHold, NewestShown, ClosedLeavesNothing | TypeOK, OneReader, BudgetsKept, NewestWins, ClosedIsQuiet |
| | LostHandleIsLast | OneOwner when no recording change starts a reader over a lost handle |
| | RecordsUnlessOverwritten | RecordsAsSet when no recording change ends between a configure's copy and its job |
| `SessionProofs` | CaptureTypeCorrect, BudgetHolds, CompleteHolds, ReadableHolds | CaptureTypes, WithinBudget, CompleteIsWhole, Readable |
| | AlikeIsAccepted | the reader accepts every whole line when the samples agree on track length, event and car class |
| | PolicyInvariant, SpeechIsSpaced, CandidatesAreInForce, SpeechNeedsAStableRoad | PolicyTypes and the policy's inductive invariant, SpokenOnceAndSpaced, CandidatesInForce, SpokenOnStableRoad |

The arguments, one inductive invariant per module:

- **PriorityAudio.** `Positions` ties the shared variables to where the threads stand:
  `_active` is the thread in a device stage, the lock the thread that streams, an outcome is
  there exactly from its settlement on. Exclusive use follows at once; the priority order
  and the refinement are step arguments on top of it.
- **FrameWorker.** `Accounting` and `InOrder`, which make `EveryFrameOnce`, are not inductive
  alone: `Consecutive` says that the ids in the queue continue the frame in hand and what was
  handled, `Positions` what a lane without failure can have lost, `Seals` what must be true on
  the way from the decision to finalise to the final status. The overflow theorem adds that a
  rejection not yet failed keeps its own thread from closing. `BudgetsHold` says that the byte
  count is the sum over the queue and the frame in hand without a recursive sum: a function of
  running totals exists that ends in it. A step at either end of the queue builds the next such
  function from the last.
- **ProximitySpotter.** `Held` ties the sample to what was derived from it (its capture
  time, the pending code and since when); with it the four properties are inductive together.
  The refinement goes branch by branch of `feed`.
- **SpotterVoice.** `Locals` says that what is played is the worker's own event; a revision
  moves on only in a step that cancels what is played, and nothing begins under an old one
  (`PlaybackMoves`); `Latching`, `Owed` and `Ordered` carry the error, the warning and the order of
  the sequence numbers from the detector's mailbox over the worker's stale snapshot to the
  last attempt.
- **VoiceService.** `Counted`: the pending configurations are those in the queue plus the
  one being applied, so the count never goes negative and admits nothing early. `AllQuiet`:
  a question whose release Event is not set, wherever it is (with its caller, queued, under
  way), is current, held, and its Event is the one the service holds; every caller's
  operation either keeps that or sets the Event. `Positions` gives the same for the cancel
  Event once the question is under way, `ReadBack` what the readback of an armed or
  confirming draft came to; where no play returns unplayed it can only have been played.

- **LiveReader.** `Place` says where the reader may be when it owns the SDK, when AppState says
  CONNECTED and when the lane is the one of this generation; `Shown`, on top of it, that what
  is derived is of no other generation. The lease follows from `Place` step by step.
- **DesktopController.** Four invariants, each over the types and those before it: `Readers` (a
  recording job past its join has seen the reader end, and nobody else starts one), `Recorded`
  (what was recorded is at most what was charged plus what this reader wrote, and a reader that
  wrote has told the worker that is attached), `Services` (only the service in use and the one
  a job is exchanging are alive, and they agree on the count), `Closing` (what a closing thread
  has already seen to end stays ended). The two properties that a run violates are proved under
  the condition each counterexample breaks: `RecordsUnlessOverwritten` needs `Copied`, that the
  copy in a caller's hand and the value in its job are still the current setting.
- **Capture.** `WithinBudget` is inductive once the counts are numbers. `Whole`: a receipt
  is due only after the last sample, and the reader takes it only if its own count of
  samples is the receipt's. `Readable` rests on `Sync`, a simulation of the writer by the
  reader: before a sample the reader knows what the collector remembers (the counts, the
  epochs, the last frame of the epoch); within one, the records still due are those the
  sample needs, in the order of the collector, and what the reader insists on is the record
  next in that order. Each record written is then accepted, one case per kind. What the file
  is bound to (`Bound`) stays the common value, or nothing, when the samples agree, so that
  then no identity is refused either. The types (`CaptureTypes`) need `Sync` too: a count of
  dropped ticks is a natural number only because a drop is due after a gap.
- **SpeechPolicy.** `StepCases` reduces the branches of `_process_one` to what they may do;
  four invariants are inductive over the types. `Batched`: what is staged is of one time and
  well formed. `InForce`: a candidate is the envelope in force, and a tactical one that is
  muted came in the batch at hand and is dropped when that is decided. `Spaced`: everything
  said is older than a batch still being fed, no later than the times the cool-downs run
  from, and no less urgent than what is still undecided; without the last part a P0 prompt
  could be thought to follow a lesser one of the same instant, which would break the
  spacing. `RoadKnown`: each counter is the cardinality of the good samples since its start,
  every other sample of that window is missing, and none follows its predecessor by more
  than the gap; an observation adds one element, a gap or a boundary starts over. The place
  at which an input is inserted is a CHOOSE of a least index: `LeastNatural` derives the
  least-number principle from the pigeonhole principle, as an induction over data is not
  available.

**Only model-checked.** Liveness (`WaitsEnd`, `Ends`, `ObsoleteIsSilenced`, `Closes`) and what
speaks of ENABLED is out of the prover's reach. Every safety invariant and every action property
that a run checks and finds to hold is also a theorem. No module declares a RECURSIVE operator.

## 6. Abstractions and what is left out

- *Data.* Samples, audio, phrases, transcripts, answers and diagnostics text are absent or
  one of the few cases the control flow tells apart.
- *Time.* The detector has integer time. Elsewhere a timeout may or may not be over
  whenever the code looks, which allows every order that real time allows.
- *Audio.* A driver that never returns is in `PriorityAudio` only; the other modules take the
  device as something that ends, fails or is cut short. Enumeration and stream callbacks are
  external.
- *SpotterVoice.* The audit's journal entries and the START_DEADLINE_MISSED counter are left
  out. A restart of the detector is a change of epoch. The presence of settings is implied
  by the status.
- *VoiceService.* `_status` and `_notice` (what the window shows) are left out; `_auto` alone
  reads the status, and here it may speak whatever it is. The proximity service is on or off;
  `SpotterVoice` is its module. `_input.start` that answers ALREADY_STARTED and exceptions in
  the poller's callbacks are left out. A worker that outlives its bounded join is not assumed:
  its calls return.
- *LiveReader.* One analysis lane at a time, as in the code; the spotter lane and the recorder are
  other modules. What an analysis computes is one step that may fail. Calibration of tyre data is
  left out.
- *DesktopController.* Voice calls are forwarded to `VoiceService` and left out, as are the model
  catalogue and what replays, reviews and calibrations compute inside their job. The reader's
  steps are those of the lease, with one byte count.
- *Capture.* The JSON form, the private directory, the audit trace and the recorder's lane (a
  `FrameWorker`) are left out; so are the reader's checks on single fields, on
  drivers and on the run record. One number stands for all that is said of the event.
- *SpeechPolicy.* Schemas, ranges and identities are left out, but for an input of another
  identity; the audit records, the receipt and the replay are functions of what is modelled.

Not modelled, and why. The event pipeline, the pit observation and the tyre installation are
sequential machines that are planned (section 7). The rest of the live advice lanes, pit stint and
plan, lap segmentation and offline analysis are functions of recorded floats, which are outside
what TLC evaluates. Window, transport, speech engines, HTTP client and server are I/O and widgets.
The supervisor and the receipts validate field by field what a linear run has produced. The trial
journal's lines and hashes are data; that it is sealed only when whole is `FrameWorker`'s matter.
The synthetic runtime is a test double.

## 7. Plan

1. **Done**: the audio path (`PriorityAudio`), the bounded lanes (`FrameWorker`), proximity from
   frame to phrase (`ProximitySpotter`, `SpotterVoice`), the voice service, the live state and its
   reader (`LiveReader`), the controller and the model service (`DesktopController`), recording and
   its reader (`Capture`), the speech policy (`SpeechPolicy`), all with proofs.
2. **TelemetryEvents**: `_sequence_quality` and `TelemetryEventPipeline` as one machine: no lap, pit or
   flag event spans a gap, a rejection, a reset or a silence, and epochs never repeat.
3. **PitObservation and tyre installation** as state machines over the analysis lane's samples.
4. **Input poller** as a module of its own, with debounce, hot-plug and the bounded join, refining
   what `VoiceService` assumes of it.
