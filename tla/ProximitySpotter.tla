--------------------------- MODULE ProximitySpotter ---------------------------
(***************************************************************************)
(* spotter.ProximitySpotter: the tick-level detector that turns the SDK's  *)
(* CarLeftRight code into proximity candidates.  AppState owns it under    *)
(* its lock and samples the monotonic clock there, so every operation is   *)
(* one action at the current clock.  Times, ticks and session times are    *)
(* integers; a tick lasts one unit of session time.                        *)
(***************************************************************************)
EXTENDS Integers

CONSTANTS MaxAge, Occupied, Clear, Repeat, Ttl,  \* SpotterConfig
          Frames,    \* frames the transport may deliver
          Nothing,   \* Python's None
          MaxClock,  \* bound: the last instant explored
          MaxEpoch   \* bound: continuity is acquired in epochs 0..MaxEpoch

(* SDK CarLeftRight codes: off, clear, left, right, both, two left or right*)
Codes == 0..6

ASSUME ConfigAssumption ==
    /\ MaxAge \in Nat \ {0} /\ Occupied \in Nat /\ Clear \in Nat \ {0}
    /\ Repeat \in Nat \ {0} /\ Ttl \in Nat \ {0}
    /\ MaxClock \in Nat /\ MaxEpoch \in Nat

(* fitness: what _admission finds in the fields the model leaves out.      *)
ASSUME FramesAssumption ==
    Frames \subseteq [fitness : {"FIT", "UNAVAILABLE", "WAIT_CAR"}, context : Nat,
                      tick : Nat, buffer : Nat, time : Nat, code : Codes, captured : Int]

Kinds == {"ALL_CLEAR", "CAR_LEFT", "CAR_RIGHT", "CARS_BOTH_SIDES", "TWO_CARS_LEFT",
          "TWO_CARS_RIGHT", "STILL_LEFT", "STILL_RIGHT", "STILL_BOTH"}
Intents == [sequence : Nat, epoch : Nat, kind : Kinds, state : 1..6, deadline : Int]
Samples == [tick : Nat, buffer : Nat, time : Nat, code : 1..6]

ASSUME NothingAssumption == Nothing \notin Intents \cup Samples \cup Int

VARIABLES
    clock,        \* the monotonic clock AppState reads under its lock
    now,          \* _now, the high-water clock
    status,       \* _status
    last,         \* _last: the latest accepted sample
    progressAt,   \* _progress_at: when that sample was captured
    context,      \* _identity: session and player
    stable,       \* _stable: the confirmed code
    pending,      \* _pending: the code being confirmed
    pendingSince, \* _pending_since, in session time
    intent,       \* _intent: the mailbox
    lastIntentAt, \* _last_intent_at
    epoch, serial,
    firstCapture, \* history: when the held tick was captured the first time
    run,          \* history: since when, in session time, the code is unbroken
    said          \* history: the last call since continuity began

mailbox == <<intent, lastIntentAt, serial>>
confirming == <<stable, pending, pendingSince>>
history == <<firstCapture, run, said>>
vars == <<clock, now, status, last, progressAt, context, confirming, mailbox, epoch, history>>

Statuses == {"WAIT_SIM", "DISCONNECTED", "STOPPED", "ERROR", "STALE", "UNAVAILABLE",
             "WAIT_CAR", "ACQUIRING", "READY"}

TypeOK ==
    /\ clock \in Nat /\ now \in Nat
    /\ status \in Statuses
    /\ last \in Samples \cup {Nothing}
    /\ progressAt \in Int \cup {Nothing}
    /\ context \in Nat \cup {Nothing}
    /\ stable \in 1..6 \cup {Nothing}
    /\ pending \in 1..6 \cup {Nothing}
    /\ pendingSince \in Nat \cup {Nothing}
    /\ intent \in Intents \cup {Nothing}
    /\ lastIntentAt \in Int
    /\ epoch \in Nat /\ serial \in Nat
    /\ firstCapture \in Int \cup {Nothing}
    /\ run \in Nat \cup {Nothing}
    /\ said \in {"NOTHING", "OCCUPIED", "CLEAR"}

Init ==
    /\ clock = 0 /\ now = 0
    /\ status = "WAIT_SIM"
    /\ last = Nothing /\ progressAt = Nothing /\ context = Nothing
    /\ stable = Nothing /\ pending = Nothing /\ pendingSince = Nothing
    /\ intent = Nothing /\ lastIntentAt = -Repeat
    /\ epoch = 0 /\ serial = 0
    /\ firstCapture = Nothing /\ run = Nothing /\ said = "NOTHING"

-----------------------------------------------------------------------------
(* _lose: the candidate, the confirmations and the sample go; a loss of    *)
(* something opens a new epoch.  Its pieces are shared by the operations   *)
(* that go on to acquire a new sample in the same call.                    *)
SameEpoch == epoch
NextEpoch == IF last = Nothing THEN epoch ELSE epoch + 1

Forget ==
    /\ intent' = Nothing
    /\ stable' = Nothing
    /\ epoch' = NextEpoch
    /\ said' = "NOTHING"
    /\ UNCHANGED <<lastIntentAt, serial>>

Lose(reason) ==
    /\ status' = reason
    /\ Forget
    /\ last' = Nothing /\ progressAt' = Nothing
    /\ pending' = Nothing /\ pendingSince' = Nothing
    /\ firstCapture' = Nothing /\ run' = Nothing

AtClock == now' = clock /\ UNCHANGED clock

Unavailable(reason) ==
    /\ AtClock
    /\ Lose(reason)
    /\ UNCHANGED context

(* A clock that went backwards is an error, and the old high-water stays.  *)
Regressed ==
    /\ now > 0
    /\ Lose("ERROR")
    /\ UNCHANGED <<clock, now, context>>

-----------------------------------------------------------------------------
(* advance_time, also what a snapshot does first.                          *)

Expired(i) == i # Nothing /\ clock >= i.deadline
Overdue == progressAt # Nothing /\ clock - progressAt > MaxAge

AdvanceTime ==
    /\ AtClock
    /\ \/ Overdue /\ Lose("STALE")
       \/ /\ ~Overdue
          /\ intent' = IF Expired(intent) THEN Nothing ELSE intent
          /\ UNCHANGED <<status, last, progressAt, confirming, lastIntentAt, serial, epoch, history>>
    /\ UNCHANGED context

-----------------------------------------------------------------------------
(* feed.                                                                   *)

(* _admission: too old or from the future, then the fields, then code 0.   *)
Refusal(f) ==
    IF clock - f.captured \notin 0..MaxAge THEN "STALE"
    ELSE IF f.fitness # "FIT" THEN f.fitness
    ELSE IF f.code = 0 THEN "UNAVAILABLE" ELSE "NONE"

Sample(f) == [tick |-> f.tick, buffer |-> f.buffer, time |-> f.time, code |-> f.code]
SameContext(f) == last # Nothing /\ context = f.context

Duplicate(f) == f.tick = last.tick \/ f.buffer = last.buffer
Backwards(f) == f.tick < last.tick \/ f.buffer < last.buffer \/ f.time <= last.time
Gap(f) ==
    \/ clock - progressAt > MaxAge
    \/ f.time - last.time > MaxAge
    \/ f.tick - last.tick > MaxAge
    \/ f.buffer - last.buffer > MaxAge
Continues(f) == ~Backwards(f) /\ f.captured > progressAt /\ ~Gap(f)

FeedRefused(f) ==
    /\ AtClock
    /\ Refusal(f) # "NONE"
    /\ Lose(Refusal(f))
    /\ UNCHANGED context

(* A repeated tick: a conflicting one is refused, an equal one only lets   *)
(* time pass; it never renews progressAt.                                  *)
FeedDuplicateRenewing(f) ==
    /\ Refusal(f) = "NONE"
    /\ SameContext(f)
    /\ Duplicate(f)
    /\ AtClock
    /\ progressAt' = f.captured
    /\ intent' = IF Expired(intent) THEN Nothing ELSE intent
    /\ UNCHANGED <<status, last, confirming, lastIntentAt, serial, epoch, history, context>>
FeedDuplicate(f) ==
    /\ Refusal(f) = "NONE"
    /\ SameContext(f)
    /\ Duplicate(f)
    /\ IF Sample(f) # last
       THEN AtClock /\ Lose("UNAVAILABLE") /\ UNCHANGED context
       ELSE AdvanceTime

(* The first sample, or the first after a change of context, a regression  *)
(* or a gap: continuity starts over and nothing may be said yet.           *)
FeedAcquire(f) ==
    /\ AtClock
    /\ Refusal(f) = "NONE"
    /\ SameContext(f) => ~Duplicate(f) /\ ~Continues(f)
    /\ Forget
    /\ epoch' <= MaxEpoch
    /\ status' = "ACQUIRING"
    /\ context' = f.context
    /\ last' = Sample(f)
    /\ progressAt' = f.captured /\ firstCapture' = f.captured
    /\ pending' = f.code
    /\ pendingSince' = f.time /\ run' = f.time

Delay(code) == IF code = 1 THEN Clear ELSE Occupied
Since(f) == IF f.code = pending THEN pendingSince ELSE f.time
LateConfirmed(f) == f.code # stable /\ f.time - Since(f) > Delay(f.code)
Confirmed(f) == f.code # stable /\ f.time - Since(f) >= Delay(f.code)
Due(f) == f.code = stable /\ f.code # 1 /\ clock - lastIntentAt >= Repeat

(* Starting or recovering on an empty track is not a clear transition.     *)
SpeaksAlways(f) == Confirmed(f)
Speaks(f) == Confirmed(f) /\ (f.code # 1 \/ stable # Nothing)

Calls == <<"ALL_CLEAR", "CAR_LEFT", "CAR_RIGHT", "CARS_BOTH_SIDES", "TWO_CARS_LEFT",
           "TWO_CARS_RIGHT">>
Reminders == <<"ALL_CLEAR", "STILL_LEFT", "STILL_RIGHT", "STILL_BOTH", "STILL_LEFT",
               "STILL_RIGHT">>
KindOf(code, repeat) == IF repeat THEN Reminders[code] ELSE Calls[code]

Emit(f) ==
    /\ serial' = serial + 1
    /\ intent' = [sequence |-> serial + 1, epoch |-> epoch, state |-> f.code,
                  kind |-> KindOf(f.code, Due(f)), deadline |-> clock + Ttl]
    /\ lastIntentAt' = clock
    /\ said' = IF f.code = 1 THEN "CLEAR" ELSE "OCCUPIED"

(* A candidate for another code is superseded, an old one expires.         *)
SurvivesUntilExpiry(f) == intent # Nothing /\ ~Expired(intent)
Survives(f) == intent # Nothing /\ intent.state = f.code /\ ~Expired(intent)

FeedObserve(f) ==
    /\ AtClock
    /\ Refusal(f) = "NONE"
    /\ SameContext(f)
    /\ ~Duplicate(f)
    /\ Continues(f)
    /\ status' = "READY"
    /\ last' = Sample(f)
    /\ progressAt' = f.captured /\ firstCapture' = f.captured
    /\ pending' = f.code
    /\ pendingSince' = Since(f)
    /\ run' = IF f.code = last.code THEN run ELSE f.time
    /\ stable' = IF Confirmed(f) THEN f.code ELSE stable
    /\ IF Speaks(f) \/ Due(f)
       THEN Emit(f)
       ELSE /\ intent' = IF Survives(f) THEN intent ELSE Nothing
            /\ UNCHANGED <<serial, lastIntentAt, said>>
    /\ UNCHANGED <<epoch, context>>

Feed(f) == FeedRefused(f) \/ FeedDuplicate(f) \/ FeedAcquire(f) \/ FeedObserve(f)

Elapse ==
    /\ clock < MaxClock
    /\ clock' = clock + 1
    /\ UNCHANGED <<now, status, last, progressAt, context, confirming, mailbox, epoch, history>>

Next ==
    \/ \E f \in Frames : Feed(f)
    \/ AdvanceTime
    \/ \E s \in {"WAIT_SIM", "DISCONNECTED", "STOPPED", "ERROR"} : Unavailable(s)
    \/ Regressed
    \/ Elapse

Spec == Init /\ [][Next]_vars
-----------------------------------------------------------------------------
(* Properties.                                                             *)

(* Freshness (PROXIMITY_SPOTTER.md, "Repeated ticks do not renew           *)
(* freshness"): READY rests on a tick whose first delivery was captured at *)
(* most MaxAge before the last operation, however often it is repeated.    *)
Fresh == status = "READY" => now - firstCapture <= MaxAge

(* The codes under which SpotterVoice accepts each kind (_STATES).         *)
States(kind) ==
    CASE kind = "ALL_CLEAR" -> {1}
      [] kind = "CAR_LEFT" -> {2}
      [] kind = "CAR_RIGHT" -> {3}
      [] kind \in {"CARS_BOTH_SIDES", "STILL_BOTH"} -> {4}
      [] kind = "TWO_CARS_LEFT" -> {5}
      [] kind = "TWO_CARS_RIGHT" -> {6}
      [] kind = "STILL_LEFT" -> {2, 5}
      [] kind = "STILL_RIGHT" -> {3, 6}

(* "a superseding mailbox": whatever happened since it was posted, the     *)
(* candidate agrees with the latest sample, the confirmed code and the     *)
(* epoch, has not expired, and SpotterVoice's table accepts it.            *)
CandidateCurrent ==
    intent # Nothing =>
        /\ status = "READY"
        /\ intent.state = last.code /\ intent.state = stable
        /\ intent.epoch = epoch /\ intent.sequence = serial
        /\ now < intent.deadline
        /\ intent.state \in States(intent.kind)

(* "it never invents an all-clear call": one is posted only when the last  *)
(* call since continuity began was an occupancy.                           *)
ClearIsEarned ==
    [][serial' # serial /\ intent'.kind = "ALL_CLEAR" => said = "OCCUPIED"]_vars

(* No flicker, loss or duplicate delays a call: as soon as a code has been *)
(* observed without a break for its confirmation time, it is the confirmed *)
(* one, and so its candidate has been posted.                              *)
NoMissedCall ==
    status = "READY" /\ last.time - run >= Delay(last.code) => stable = last.code

(* The detector implements the mailbox its consumer is built on.           *)
Mailbox == INSTANCE ProximityFeed WITH
    Codes     <- 1..6,
    ready     <- status = "READY",
    code      <- IF last = Nothing THEN Nothing ELSE last.code,
    candidate <- IF intent = Nothing THEN Nothing
                 ELSE [sequence |-> intent.sequence, epoch |-> intent.epoch,
                       state |-> intent.state]

ImplementsFeed == Mailbox!Spec
=============================================================================
