----------------------- MODULE ProximitySpotterProofs -----------------------
(***************************************************************************)
(* Proofs about ProximitySpotter for every configuration and every set of  *)
(* frames the transport may deliver.                                       *)
(***************************************************************************)
EXTENDS ProximitySpotter, TLAPS

(* A sample and what was derived from it are there together, and a run of  *)
(* one code is what is being confirmed.                                    *)
Held ==
    /\ last = Nothing <=> progressAt = Nothing
    /\ last = Nothing => /\ stable = Nothing /\ intent = Nothing /\ status # "READY"
    /\ last # Nothing => /\ progressAt = firstCapture /\ progressAt <= now
                         /\ context # Nothing
                         /\ pending = last.code /\ pendingSince = run
    /\ stable # Nothing /\ stable # 1 => said = "OCCUPIED"

Clocked == now <= clock

IInv == TypeOK /\ Held /\ Clocked /\ Fresh /\ CandidateCurrent /\ NoMissedCall

USE DEF Codes

LEMMA FrameFields ==
    ASSUME NEW f \in Frames
    PROVE  /\ f.fitness \in {"FIT", "UNAVAILABLE", "WAIT_CAR"} /\ f.context \in Nat
           /\ f.tick \in Nat /\ f.buffer \in Nat /\ f.time \in Nat
           /\ f.code \in 0..6 /\ f.captured \in Int
  <1>1. f \in [fitness : {"FIT", "UNAVAILABLE", "WAIT_CAR"}, context : Nat,
               tick : Nat, buffer : Nat, time : Nat, code : Codes, captured : Int]
    BY FramesAssumption
  <1> QED BY <1>1

LEMMA SampleFields ==
    ASSUME NEW s \in Samples
    PROVE  s.tick \in Nat /\ s.buffer \in Nat /\ s.time \in Nat /\ s.code \in 1..6
  <1> QED BY DEF Samples

LEMMA IntentFields ==
    ASSUME NEW i \in Intents
    PROVE  i.sequence \in Nat /\ i.epoch \in Nat /\ i.state \in 1..6 /\ i.deadline \in Int
  <1> QED BY DEF Intents

(* A frame that is not refused gives a sample.                             *)
LEMMA Admits ==
    ASSUME NEW f \in Frames, Refusal(f) = "NONE", clock \in Nat
    PROVE  /\ Sample(f) \in Samples /\ Sample(f) # Nothing /\ f.code \in 1..6
           /\ Sample(f).code = f.code /\ Sample(f).time = f.time
           /\ f.captured <= clock /\ clock - f.captured <= MaxAge
  <1>1. f.fitness = "FIT" /\ f.code # 0 /\ clock - f.captured \in 0..MaxAge
    BY FrameFields DEF Refusal
  <1>2. f.code \in 1..6 /\ f.captured <= clock /\ clock - f.captured <= MaxAge
    BY <1>1, FrameFields, ConfigAssumption
  <1>3. Sample(f) \in Samples
    BY <1>2, FrameFields DEF Sample, Samples
  <1>4. Sample(f).code = f.code /\ Sample(f).time = f.time
    BY DEF Sample
  <1> QED BY <1>2, <1>3, <1>4, NothingAssumption

LEMMA RefusalStatus ==
    ASSUME NEW f \in Frames, Refusal(f) # "NONE"
    PROVE  Refusal(f) \in Statuses \ {"READY"}
  <1> QED BY FrameFields DEF Refusal, Statuses

LEMMA InitIInv == Init => IInv
  <1> SUFFICES ASSUME Init PROVE IInv
    OBVIOUS
  <1>1. TypeOK
    BY ConfigAssumption DEF Init, TypeOK, Statuses
  <1>2. Held /\ Clocked /\ Fresh /\ CandidateCurrent /\ NoMissedCall
    BY DEF Init, Held, Clocked, Fresh, CandidateCurrent, NoMissedCall
  <1> QED BY <1>1, <1>2 DEF IInv

(* Whatever loses continuity keeps the invariant.                          *)
LEMMA LoseStep ==
    ASSUME IInv, NEW r \in Statuses \ {"READY"}, Lose(r),
           now' \in Nat, now' <= clock', clock' \in Nat, context' = context
    PROVE  IInv'
  <1>1. TypeOK'
    BY DEF IInv, TypeOK, Lose, Forget, NextEpoch
  <1>2. status' # "READY" /\ last' = Nothing /\ progressAt' = Nothing /\ stable' = Nothing
        /\ intent' = Nothing
    BY DEF Lose, Forget
  <1>3. Held' /\ Clocked' /\ Fresh' /\ CandidateCurrent' /\ NoMissedCall'
    BY <1>2 DEF Held, Clocked, Fresh, CandidateCurrent, NoMissedCall
  <1> QED BY <1>1, <1>3 DEF IInv

LEMMA AdvanceStep == ASSUME IInv, AdvanceTime PROVE IInv'
  <1>0. clock \in Nat /\ now' = clock /\ clock' = clock /\ context' = context
    BY DEF AdvanceTime, AtClock, IInv, TypeOK
  <1>1. CASE Lose("STALE")
    <2>1. now' \in Nat /\ now' <= clock' /\ clock' \in Nat
      BY <1>0
    <2>2. "STALE" \in Statuses \ {"READY"}
      BY DEF Statuses
    <2> QED BY <1>0, <1>1, <2>1, <2>2, LoseStep
  <1>2. CASE ~Lose("STALE")
    <2>1. /\ ~Overdue
          /\ intent' = IF Expired(intent) THEN Nothing ELSE intent
          /\ UNCHANGED <<status, last, progressAt, confirming, lastIntentAt, serial, epoch, history>>
      BY <1>2 DEF AdvanceTime
    <2> USE <1>0, <2>1 DEF IInv, confirming, history
    <2>2. TypeOK'
      BY DEF TypeOK
    <2>3. Held'
      BY DEF Held, TypeOK, Clocked
    <2>4. Clocked' /\ NoMissedCall'
      BY DEF Clocked, NoMissedCall
    <2>5. Fresh'
      BY ConfigAssumption DEF Fresh, Held, TypeOK, Overdue
    <2>6. CandidateCurrent'
      <3>1. CASE intent' = Nothing
        BY <3>1 DEF CandidateCurrent
      <3>2. CASE intent' # Nothing
        <4>1. intent' = intent /\ intent \in Intents /\ ~(clock >= intent.deadline)
          BY <3>2 DEF Expired, TypeOK
        <4>2. clock < intent.deadline
          BY <4>1, IntentFields
        <4> QED BY <3>2, <4>1, <4>2 DEF CandidateCurrent
      <3> QED BY <3>1, <3>2
    <2> QED BY <2>2, <2>3, <2>4, <2>5, <2>6
  <1> QED BY <1>1, <1>2

LEMMA AcquireStep == ASSUME IInv, NEW f \in Frames, FeedAcquire(f) PROVE IInv'
  <1>1. clock \in Nat /\ now' = clock /\ clock' = clock /\ Refusal(f) = "NONE"
    BY DEF FeedAcquire, AtClock, IInv, TypeOK
  <1>2. /\ Sample(f) \in Samples /\ Sample(f) # Nothing /\ f.code \in 1..6
        /\ Sample(f).code = f.code /\ f.captured <= clock
    BY <1>1, Admits
  <1>3. TypeOK'
    BY <1>1, <1>2, FrameFields DEF FeedAcquire, Forget, IInv, TypeOK, NextEpoch, Statuses
  <1>4. Held'
    BY <1>1, <1>2, FrameFields, NothingAssumption DEF FeedAcquire, Forget, Held
  <1>5. Clocked' /\ Fresh' /\ CandidateCurrent' /\ NoMissedCall'
    BY <1>1 DEF FeedAcquire, Forget, Clocked, Fresh, CandidateCurrent, NoMissedCall
  <1> QED BY <1>3, <1>4, <1>5 DEF IInv

(* A progressing sample: the one step that may post a candidate.           *)
LEMMA ObserveFacts ==
    ASSUME IInv, NEW f \in Frames, FeedObserve(f)
    PROVE  /\ clock \in Nat /\ now' = clock /\ clock' = clock
           /\ last \in Samples /\ progressAt \in Int /\ context \in Nat
           /\ last.code \in 1..6 /\ last.time \in Nat
           /\ pending = last.code /\ pendingSince = run /\ run \in Nat
           /\ Sample(f) \in Samples /\ Sample(f) # Nothing /\ f.code \in 1..6
           /\ Sample(f).code = f.code /\ Sample(f).time = f.time
           /\ f.captured \in Int /\ f.time \in Nat
           /\ f.captured <= clock /\ clock - f.captured <= MaxAge
           /\ Since(f) \in Nat /\ run' = Since(f) /\ pendingSince' = Since(f)
           /\ last' = Sample(f) /\ status' = "READY"
  <1>1. clock \in Nat /\ now' = clock /\ clock' = clock /\ Refusal(f) = "NONE"
    BY DEF FeedObserve, AtClock, IInv, TypeOK
  <1>2. last \in Samples /\ last # Nothing
    BY DEF FeedObserve, SameContext, IInv, TypeOK
  <1>3. last.code \in 1..6 /\ last.time \in Nat
    BY <1>2, SampleFields
  <1>4. /\ progressAt \in Int /\ context \in Nat
        /\ pending = last.code /\ pendingSince = run /\ run \in Nat
    BY <1>2, <1>3, NothingAssumption DEF IInv, TypeOK, Held
  <1>5. f.captured \in Int /\ f.time \in Nat
    BY FrameFields
  <1>6. Since(f) \in Nat /\ run' = Since(f)
    BY <1>4, <1>5 DEF FeedObserve, Since
  <1> QED BY <1>1, <1>2, <1>3, <1>4, <1>5, <1>6, Admits DEF FeedObserve

LEMMA KindFits ==
    ASSUME NEW c \in 1..6, NEW r \in BOOLEAN, r => c # 1
    PROVE  /\ KindOf(c, r) \in Kinds /\ c \in States(KindOf(c, r))
           /\ KindOf(c, r) = "ALL_CLEAR" <=> c = 1
  <1>1. c = 1 \/ c = 2 \/ c = 3 \/ c = 4 \/ c = 5 \/ c = 6
    OBVIOUS
  <1>2. CASE r
    BY <1>1, <1>2 DEF KindOf, Reminders, Kinds, States
  <1>3. CASE ~r
    BY <1>1, <1>3 DEF KindOf, Calls, Kinds, States
  <1> QED BY <1>2, <1>3

(* The candidate an emission posts.                                        *)
LEMMA EmitFacts ==
    ASSUME IInv, NEW f \in Frames, FeedObserve(f), Emit(f)
    PROVE  /\ intent' \in Intents /\ intent'.state = f.code /\ intent'.epoch = epoch
           /\ intent'.sequence = serial + 1 /\ intent'.deadline = clock + Ttl
           /\ f.code \in States(intent'.kind)
           /\ intent'.kind = "ALL_CLEAR" <=> f.code = 1
  <1>1. f.code \in 1..6 /\ clock \in Nat
    BY ObserveFacts
  <1>2. Due(f) \in BOOLEAN /\ (Due(f) => f.code # 1)
    BY DEF Due
  <1>3. /\ KindOf(f.code, Due(f)) \in Kinds
        /\ f.code \in States(KindOf(f.code, Due(f)))
        /\ KindOf(f.code, Due(f)) = "ALL_CLEAR" <=> f.code = 1
    BY <1>1, <1>2, KindFits
  <1>4. intent' = [sequence |-> serial + 1, epoch |-> epoch, state |-> f.code,
                   kind |-> KindOf(f.code, Due(f)), deadline |-> clock + Ttl]
    BY DEF Emit
  <1>5. serial + 1 \in Nat /\ epoch \in Nat /\ clock + Ttl \in Int
    BY <1>1, ConfigAssumption DEF IInv, TypeOK
  <1>6. intent' \in Intents
    BY <1>1, <1>3, <1>4, <1>5 DEF Intents
  <1> QED BY <1>3, <1>4, <1>6

(* A sample posts only when it speaks or a reminder is due.                *)
LEMMA ObserveEmits ==
    ASSUME NEW f \in Frames, FeedObserve(f), serial \in Nat, serial' # serial
    PROVE  Emit(f) /\ (Speaks(f) \/ Due(f))
  <1> QED BY DEF FeedObserve

LEMMA ObserveStep == ASSUME IInv, NEW f \in Frames, FeedObserve(f) PROVE IInv'
  <1>0. /\ clock \in Nat /\ now' = clock /\ clock' = clock
        /\ last.code \in 1..6 /\ pending = last.code /\ pendingSince = run
        /\ Sample(f) \in Samples /\ Sample(f) # Nothing /\ f.code \in 1..6
        /\ Sample(f).code = f.code /\ Sample(f).time = f.time
        /\ f.captured \in Int /\ f.time \in Nat
        /\ f.captured <= clock /\ clock - f.captured <= MaxAge
        /\ Since(f) \in Nat /\ run' = Since(f) /\ pendingSince' = Since(f)
        /\ last' = Sample(f) /\ status' = "READY"
        /\ context \in Nat
    BY ObserveFacts
  <1>1. /\ stable' = IF Confirmed(f) THEN f.code ELSE stable
        /\ progressAt' = f.captured /\ firstCapture' = f.captured /\ pending' = f.code
        /\ epoch' = epoch /\ context' = context
    BY DEF FeedObserve
  <1>2. stable \in 1..6 \cup {Nothing} /\ intent \in Intents \cup {Nothing} /\ epoch \in Nat
        /\ serial \in Nat /\ lastIntentAt \in Int
    BY DEF IInv, TypeOK
  <1>3. \/ Emit(f) /\ (Speaks(f) \/ Due(f))
        \/ /\ ~Speaks(f) /\ ~Due(f)
           /\ intent' = IF Survives(f) THEN intent ELSE Nothing
           /\ UNCHANGED <<serial, lastIntentAt, said>>
    BY DEF FeedObserve
  <1>4. /\ intent' \in Intents \cup {Nothing} /\ serial' \in Nat /\ lastIntentAt' \in Int
        /\ said' \in {"NOTHING", "OCCUPIED", "CLEAR"}
    <2>1. CASE Emit(f)
      BY <1>0, <1>2, <2>1, EmitFacts DEF Emit
    <2>2. CASE ~Emit(f)
      BY <1>2, <1>3, <2>2 DEF IInv, TypeOK
    <2> QED BY <2>1, <2>2
  <1>5. TypeOK'
    BY <1>0, <1>1, <1>2, <1>4 DEF TypeOK, Statuses
  <1>6. Held'
    <2>1. stable' # Nothing /\ stable' # 1 => said' = "OCCUPIED"
      <3>1. CASE Emit(f)
        BY <1>0, <1>1, <1>3, <3>1 DEF Emit, Speaks, Due, IInv, Held
      <3>2. CASE ~Emit(f)
        BY <1>0, <1>1, <1>3, <3>2 DEF Speaks, IInv, Held
      <3> QED BY <3>1, <3>2
    <2> QED BY <1>0, <1>1, <2>1, NothingAssumption DEF Held
  <1>7. Clocked' /\ Fresh'
    BY <1>0, <1>1 DEF Clocked, Fresh
  <1>8. CandidateCurrent'
    <2>1. CASE Emit(f)
      <3>1. stable' = f.code
        <4>1. CASE Speaks(f)
          BY <1>1, <4>1 DEF Speaks
        <4>2. CASE Due(f)
          BY <1>1, <4>2 DEF Due
        <4>3. serial \in Nat /\ serial' # serial
          BY <1>2, <2>1 DEF Emit
        <4> QED BY <4>1, <4>2, <4>3, ObserveEmits
      <3>2. clock < clock + Ttl /\ serial' = serial + 1
        BY <1>0, <2>1, ConfigAssumption DEF Emit
      <3> QED BY <1>0, <1>1, <2>1, <3>1, <3>2, EmitFacts DEF CandidateCurrent
    <2>2. CASE ~Emit(f) /\ intent' # Nothing
      <3>1. /\ intent' = intent /\ intent # Nothing /\ intent \in Intents
            /\ intent.state = f.code /\ ~(clock >= intent.deadline)
            /\ serial' = serial
        BY <1>2, <1>3, <2>2 DEF Survives, Expired
      <3>2. clock < intent.deadline
        BY <1>0, <3>1, IntentFields
      <3>3. stable' = stable
        BY <1>1, <3>1 DEF IInv, CandidateCurrent, Confirmed
      <3> QED BY <1>0, <1>1, <3>1, <3>2, <3>3 DEF IInv, CandidateCurrent
    <2>3. CASE intent' = Nothing
      BY <2>3 DEF CandidateCurrent
    <2> QED BY <2>1, <2>2, <2>3
  <1>9. NoMissedCall'
    BY <1>0, <1>1 DEF NoMissedCall, Confirmed
  <1> QED BY <1>5, <1>6, <1>7, <1>8, <1>9 DEF IInv

LEMMA RefusedStep == ASSUME IInv, NEW f \in Frames, FeedRefused(f) PROVE IInv'
  <1>1. Refusal(f) \in Statuses \ {"READY"}
    BY RefusalStatus DEF FeedRefused
  <1>2. now' \in Nat /\ now' <= clock' /\ clock' \in Nat /\ context' = context
    BY DEF FeedRefused, AtClock, IInv, TypeOK
  <1> QED BY <1>1, <1>2, LoseStep DEF FeedRefused

LEMMA DuplicateStep == ASSUME IInv, NEW f \in Frames, FeedDuplicate(f) PROVE IInv'
  <1>1. CASE AdvanceTime
    BY <1>1, AdvanceStep
  <1>2. CASE ~AdvanceTime
    <2>1. Lose("UNAVAILABLE") /\ AtClock /\ context' = context
      BY <1>2 DEF FeedDuplicate
    <2>2. now' \in Nat /\ now' <= clock' /\ clock' \in Nat
      BY <2>1 DEF AtClock, IInv, TypeOK
    <2>3. "UNAVAILABLE" \in Statuses \ {"READY"}
      BY DEF Statuses
    <2> QED BY <2>1, <2>2, <2>3, LoseStep
  <1> QED BY <1>1, <1>2

LEMMA Inductive == IInv /\ [Next]_vars => IInv'
  <1> SUFFICES ASSUME IInv, [Next]_vars PROVE IInv'
    OBVIOUS
  <1>1. CASE UNCHANGED vars
    BY <1>1 DEF vars, confirming, mailbox, history, IInv, TypeOK, Held, Clocked, Fresh,
                CandidateCurrent, NoMissedCall
  <1>2. ASSUME NEW f \in Frames, Feed(f) PROVE IInv'
    BY <1>2, RefusedStep, DuplicateStep, AcquireStep, ObserveStep DEF Feed
  <1>3. CASE AdvanceTime
    BY <1>3, AdvanceStep
  <1>4. ASSUME NEW s \in {"WAIT_SIM", "DISCONNECTED", "STOPPED", "ERROR"}, Unavailable(s)
        PROVE  IInv'
    <2>1. now' \in Nat /\ now' <= clock' /\ clock' \in Nat /\ context' = context /\ Lose(s)
      BY <1>4 DEF Unavailable, AtClock, IInv, TypeOK
    <2>2. s \in Statuses \ {"READY"}
      BY DEF Statuses
    <2> QED BY <2>1, <2>2, LoseStep
  <1>5. CASE Regressed
    <2>1. now' \in Nat /\ now' <= clock' /\ clock' \in Nat /\ context' = context /\ Lose("ERROR")
      BY <1>5 DEF Regressed, IInv, TypeOK, Clocked
    <2>2. "ERROR" \in Statuses \ {"READY"}
      BY DEF Statuses
    <2> QED BY <2>1, <2>2, LoseStep
  <1>6. CASE Elapse
    <2> USE <1>6 DEF Elapse, confirming, mailbox, history, IInv
    <2>1. TypeOK'
      BY DEF TypeOK
    <2>2. Held' /\ Fresh' /\ CandidateCurrent' /\ NoMissedCall'
      BY DEF Held, Fresh, CandidateCurrent, NoMissedCall
    <2>3. Clocked'
      BY DEF Clocked, TypeOK
    <2> QED BY <2>1, <2>2, <2>3
  <1> QED BY <1>1, <1>2, <1>3, <1>4, <1>5, <1>6 DEF Next

LEMMA Invariance == Spec => []IInv
  <1> QED BY InitIInv, Inductive, PTL DEF Spec

(* The detector's variables keep their types.                              *)
THEOREM TypeCorrect == Spec => []TypeOK
  <1>1. IInv => TypeOK
    BY DEF IInv
  <1> QED BY <1>1, Invariance, PTL

(* READY always rests on a tick first captured within the freshness limit. *)
THEOREM FreshnessHolds == Spec => []Fresh
  <1>1. IInv => Fresh
    BY DEF IInv
  <1> QED BY <1>1, Invariance, PTL

(* The mailbox never contradicts the latest observation, the confirmed     *)
(* code, the epoch or the clock.                                           *)
THEOREM MailboxIsCurrent == Spec => []CandidateCurrent
  <1>1. IInv => CandidateCurrent
    BY DEF IInv
  <1> QED BY <1>1, Invariance, PTL

(* A code observed for its confirmation time is the confirmed one.         *)
THEOREM NothingIsMissed == Spec => []NoMissedCall
  <1>1. IInv => NoMissedCall
    BY DEF IInv
  <1> QED BY <1>1, Invariance, PTL

(* An all-clear always follows an occupancy call of the same continuity.   *)
THEOREM ClearAfterOccupied == Spec => ClearIsEarned
  <1>1. ASSUME IInv, [Next]_vars PROVE serial' # serial /\ intent'.kind = "ALL_CLEAR"
                                        => said = "OCCUPIED"
    <2>1. SUFFICES ASSUME serial' # serial, intent'.kind = "ALL_CLEAR" PROVE said = "OCCUPIED"
      OBVIOUS
    <2>2. PICK f \in Frames : FeedObserve(f) /\ Emit(f)
      BY <1>1, <2>1 DEF Next, vars, mailbox, Feed, FeedRefused, FeedDuplicate, FeedAcquire,
           FeedObserve, AdvanceTime, Unavailable, Regressed, Elapse, Lose, Forget
    <2>3. f.code = 1
      BY <1>1, <2>1, <2>2, EmitFacts
    <2>4. Speaks(f)
      BY <1>1, <2>1, <2>2, <2>3, ObserveEmits DEF Due, IInv, TypeOK
    <2> QED BY <1>1, <2>3, <2>4 DEF Speaks, Confirmed, IInv, Held
  <1> QED BY <1>1, Invariance, PTL DEF Spec, ClearIsEarned

-----------------------------------------------------------------------------
(* The refinement: what of the detector ProximityFeed sees.                *)
Observed == IF last = Nothing THEN Nothing ELSE last.code
Offered ==
    IF intent = Nothing THEN Nothing
    ELSE [sequence |-> intent.sequence, epoch |-> intent.epoch, state |-> intent.state]

LEMMA ObservedFacts ==
    ASSUME IInv
    PROVE  /\ Observed \in 1..6 \cup {Nothing}
           /\ Observed = Nothing <=> last = Nothing
           /\ Offered # Nothing => intent # Nothing
  <1>1. last # Nothing => last.code \in 1..6
    BY SampleFields DEF IInv, TypeOK
  <1>2. Nothing \notin 1..6
    BY NothingAssumption
  <1> QED BY <1>1, <1>2 DEF Observed, Offered

(* A loss, with or without a new first sample, is the mailbox's Lose.      *)
LEMMA LoseRefines ==
    ASSUME IInv, IInv', Forget, status' # "READY"
    PROVE  Mailbox!Lose
  <1>1. /\ Offered' = Nothing /\ serial' = serial
        /\ epoch' = IF last = Nothing THEN epoch ELSE epoch + 1
    BY DEF Forget, Offered, NextEpoch
  <1>2. Observed' \in 1..6 \cup {Nothing}
    <2>1. last' # Nothing => last'.code \in 1..6
      BY SampleFields DEF IInv, TypeOK
    <2> QED BY <2>1 DEF Observed
  <1>3. Observed = Nothing <=> last = Nothing
    BY ObservedFacts
  <1> QED BY <1>1, <1>2, <1>3 DEF Mailbox!Lose, Observed, Offered

LEMMA KeepOrWithdraw ==
    ASSUME intent' = intent \/ intent' = Nothing,
           UNCHANGED <<status, last, epoch, serial>>
    PROVE  Mailbox!Withdraw \/ UNCHANGED Mailbox!fvars
  <1> QED BY DEF Mailbox!Withdraw, Mailbox!Drop, Mailbox!fvars

LEMMA ObserveRefines ==
    ASSUME IInv, IInv', NEW f \in Frames, FeedObserve(f)
    PROVE  \E c \in 1..6 : Mailbox!Observe(c)
  <1>1. /\ f.code \in 1..6 /\ Observed' = f.code /\ Observed # Nothing
        /\ status' = "READY" /\ epoch' = epoch
    <2>1. last' = Sample(f) /\ Sample(f) # Nothing /\ Sample(f).code = f.code
          /\ f.code \in 1..6 /\ status' = "READY"
      BY ObserveFacts
    <2>2. last # Nothing /\ epoch' = epoch
      BY DEF FeedObserve, SameContext
    <2> QED BY <2>1, <2>2, ObservedFacts DEF Observed
  <1>2. \/ Mailbox!Keep /\ (Offered # Nothing => Offered.state = f.code)
        \/ Mailbox!Drop \/ Mailbox!Post(f.code)
    <2>1. CASE serial' # serial
      <3>1. Emit(f)
        BY <2>1, ObserveEmits DEF IInv, TypeOK
      <3>2. /\ intent' \in Intents /\ intent'.state = f.code /\ intent'.epoch = epoch
            /\ intent'.sequence = serial + 1 /\ serial' = serial + 1
        BY <3>1, EmitFacts DEF Emit
      <3>3. Offered' = [sequence |-> serial + 1, epoch |-> epoch, state |-> f.code]
        BY <3>2, NothingAssumption DEF Offered
      <3> QED BY <3>2, <3>3 DEF Mailbox!Post, Offered
    <2>2. CASE serial' = serial
      <3>1. intent' = Nothing \/ (intent' = intent /\ intent # Nothing /\ intent.state = f.code)
        BY <2>2 DEF FeedObserve, Emit, Survives, IInv, TypeOK
      <3>2. CASE intent' = Nothing
        BY <2>2, <3>2 DEF Mailbox!Drop
      <3>3. CASE intent' = intent /\ intent # Nothing /\ intent.state = f.code
        BY <2>2, <3>3 DEF Mailbox!Keep, Offered
      <3> QED BY <3>1, <3>2, <3>3
    <2> QED BY <2>1, <2>2
  <1>3. Mailbox!Observe(f.code)
    BY <1>1, <1>2 DEF Mailbox!Observe, Observed, Offered
  <1> QED BY <1>1, <1>3

LEMMA AdvanceRefines ==
    ASSUME IInv, IInv', AdvanceTime
    PROVE  Mailbox!Next \/ UNCHANGED Mailbox!fvars
  <1>1. CASE Lose("STALE")
    <2>1. Forget /\ status' # "READY"
      BY <1>1 DEF Lose
    <2> QED BY <2>1, LoseRefines DEF Mailbox!Next
  <1>2. CASE ~Lose("STALE")
    <2>1. (intent' = intent \/ intent' = Nothing) /\ UNCHANGED <<status, last, epoch, serial>>
      BY <1>2 DEF AdvanceTime
    <2> QED BY <2>1, KeepOrWithdraw DEF Mailbox!Next
  <1> QED BY <1>1, <1>2

LEMMA StepRefines ==
    ASSUME IInv, IInv', [Next]_vars
    PROVE  Mailbox!Next \/ UNCHANGED Mailbox!fvars
  <1>1. CASE UNCHANGED vars \/ Elapse
    BY <1>1 DEF vars, Elapse, mailbox, Mailbox!fvars
  <1>2. CASE AdvanceTime \/ (\E f \in Frames : FeedDuplicate(f) /\ AdvanceTime)
    BY <1>2, AdvanceRefines
  <1>3. CASE Forget /\ status' # "READY"
    BY <1>3, LoseRefines DEF Mailbox!Next
  <1>4. ASSUME NEW f \in Frames, FeedObserve(f) PROVE Mailbox!Next
    BY <1>4, ObserveRefines DEF Mailbox!Next
  <1>5. \/ UNCHANGED vars \/ Elapse \/ AdvanceTime
        \/ Forget /\ status' # "READY"
        \/ \E f \in Frames : FeedObserve(f)
    <2>1. ASSUME NEW f \in Frames, FeedRefused(f) PROVE Forget /\ status' # "READY"
      BY <2>1, RefusalStatus DEF FeedRefused, Lose
    <2>2. ASSUME NEW f \in Frames, FeedDuplicate(f)
          PROVE  AdvanceTime \/ (Forget /\ status' # "READY")
      BY <2>2 DEF FeedDuplicate, Lose
    <2>3. ASSUME NEW f \in Frames, FeedAcquire(f) PROVE Forget /\ status' # "READY"
      BY <2>3 DEF FeedAcquire
    <2>4. ASSUME NEW s \in {"WAIT_SIM", "DISCONNECTED", "STOPPED", "ERROR"}, Unavailable(s)
          PROVE  Forget /\ status' # "READY"
      BY <2>4 DEF Unavailable, Lose
    <2>5. Regressed => Forget /\ status' # "READY"
      BY DEF Regressed, Lose
    <2> QED BY <2>1, <2>2, <2>3, <2>4, <2>5 DEF Next, Feed
  <1> QED BY <1>1, <1>2, <1>3, <1>4, <1>5

(* Every behaviour of the detector is one of the mailbox contract that the *)
(* voice consumer is built on.                                             *)
THEOREM FeedRefinement == Spec => ImplementsFeed
  <1>1. Init => Mailbox!Init
    BY DEF Init, Mailbox!Init
  <1>2. IInv /\ IInv' /\ [Next]_vars => [Mailbox!Next]_(Mailbox!fvars)
    BY StepRefines
  <1> QED BY <1>1, <1>2, Invariance, PTL DEF Spec, ImplementsFeed, Mailbox!Spec

=============================================================================
