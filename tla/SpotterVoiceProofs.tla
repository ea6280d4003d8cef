------------------------- MODULE SpotterVoiceProofs -------------------------
(***************************************************************************)
(* Proofs about SpotterVoice for every detector, however long it runs, and *)
(* every order of the worker, the guard thread and the callers.            *)
(***************************************************************************)
EXTENDS SpotterVoice, TLAPS

Playing == {"precheck", "acquire", "open", "start", "run", "settle", "preempted", "finish"}

(* The worker's locals are there when it uses them, and what it plays is   *)
(* its own event.                                                          *)
Locals ==
    /\ at = "choose" => held # Nothing
    /\ at \in Playing \cup {"begin", "clear"} => event # Nothing
    /\ at \in Playing <=> active # Nothing
    /\ active # Nothing => active.event = event
    /\ guardAt \in {"holds", "cancels"} => active # Nothing

IType == TypeOK /\ Locals

LEMMA CodesAreSmall == \A c \in Codes : c \in 0..6 /\ c # Nothing
  <1>1. Codes \subseteq 1..6 /\ Nothing \notin 1..6
    BY SpotterVoiceAssumption
  <1> QED BY <1>1

LEMMA NothingIsNothing ==
    /\ Nothing \notin Ids /\ Nothing \notin Events /\ Nothing \notin Candidates
    /\ Nothing \notin Snapshots /\ Nothing \notin Playbacks
  <1> QED BY NothingAssumption

LEMMA SnapshotType ==
    ASSUME TypeOK
    PROVE  Snapshot \in Snapshots
  <1> QED BY DEF TypeOK, Snapshot, Snapshots

LEMMA CallType ==
    ASSUME TypeOK, NEW s \in Snapshots, Callable(s)
    PROVE  /\ CallOf(s) \in Events
           /\ CallOf(s).kind = "CALL" /\ CallOf(s).id = <<s.epoch, s.candidate.sequence>>
           /\ s.candidate.sequence \in Nat /\ s.epoch \in Nat /\ s.candidate.epoch = s.epoch
  <1>1. s.candidate \in Candidates /\ s.epoch \in Nat /\ s.candidate.epoch = s.epoch
    BY DEF Callable, Snapshots
  <1>2. s.candidate.sequence \in Nat /\ s.candidate.state \in Codes /\ s.code = s.candidate.state
    BY <1>1 DEF Callable, Candidates
  <1>3. s.code \in 0..6
    BY <1>2, CodesAreSmall
  <1>4. <<s.epoch, s.candidate.sequence>> \in Ids
    BY <1>1, <1>2 DEF Ids
  <1>5. CallOf(s) \in Events
    BY <1>3, <1>4 DEF CallOf, Events
  <1> QED BY <1>1, <1>2, <1>5 DEF CallOf

LEMMA NoticeType ==
    ASSUME TypeOK, NEW s \in Snapshots
    PROVE  NoticeOf(s) \in Events /\ NoticeOf(s).kind = "PTT_CANCELLED"
  <1>1. s.epoch \in Nat BY DEF Snapshots
  <1> QED BY <1>1 DEF NoticeOf, Events, Ids

LEMMA LossType == DataLost \in Events /\ DataLost.kind = "DATA_LOST"
  <1> QED BY DEF DataLost, Events, Ids

LEMMA CancelType ==
    ASSUME active \in Playbacks \cup {Nothing}, CancelActive
    PROVE  /\ active' \in Playbacks \cup {Nothing}
           /\ active # Nothing <=> active' # Nothing
           /\ active # Nothing => active'.cancel /\ active'.event = active.event
  <1> QED BY NothingIsNothing DEF CancelActive, Playbacks

LEMMA FeedTypes ==
    ASSUME TypeOK, Observe
    PROVE  /\ ready' \in BOOLEAN /\ lost' \in BOOLEAN /\ code' \in Codes \cup {Nothing}
           /\ candidate' \in Candidates \cup {Nothing} /\ epoch' \in Nat /\ serial' \in Nat
  <1> DEFINE Typed == /\ ready' \in BOOLEAN /\ code' \in Codes \cup {Nothing}
                      /\ candidate' \in Candidates \cup {Nothing}
                      /\ epoch' \in Nat /\ serial' \in Nat
  <1>1. ASSUME Feed!Lose PROVE Typed
    <2>1. /\ ready' = FALSE /\ candidate' = Nothing /\ serial' = serial
          /\ code' \in Codes \cup {Nothing} /\ epoch' \in {epoch, epoch + 1}
      BY <1>1 DEF Feed!Lose
    <2>2. epoch \in Nat /\ serial \in Nat
      BY DEF TypeOK
    <2>3. epoch' \in Nat /\ serial' \in Nat
      BY <2>1, <2>2
    <2> QED BY <2>1, <2>3
  <1>2. ASSUME NEW c \in Codes, Feed!Observe(c) PROVE Typed
    <2>1. Feed!Post(c) => candidate' \in Candidates /\ serial' \in Nat
      BY DEF TypeOK, Feed!Post, Candidates
    <2> QED BY <1>2, <2>1 DEF TypeOK, Feed!Observe, Feed!Keep, Feed!Drop
  <1>3. ASSUME Feed!Withdraw PROVE Typed
    BY <1>3 DEF TypeOK, Feed!Withdraw, Feed!Drop
  <1>4. Typed
    BY <1>1, <1>2, <1>3 DEF Observe, Feed!Next
  <1>5. lost' \in BOOLEAN
    BY DEF Observe
  <1> QED BY <1>4, <1>5

LEMMA TypeInit == Init => IType
  <1> SUFFICES ASSUME Init PROVE IType
    OBVIOUS
  <1>1. TypeOK
    BY DEF Init, Feed!Init, TypeOK, Statuses, Idle, Stages
  <1>2. Locals
    BY DEF Init, Locals, Playing
  <1> QED BY <1>1, <1>2 DEF IType

(* The callers leave the detector and the two threads alone.               *)
LEMMA OthersKeepTypes ==
    ASSUME TypeOK, UNCHANGED <<feed, worker, guard>>
    PROVE  /\ ready' \in BOOLEAN /\ lost' \in BOOLEAN /\ code' \in Codes \cup {Nothing}
           /\ candidate' \in Candidates \cup {Nothing} /\ epoch' \in Nat /\ serial' \in Nat
           /\ at' \in Stages /\ held' \in Snapshots \cup {Nothing}
           /\ event' \in Events \cup {Nothing}
           /\ result' \in {"none", "complete", "incomplete", "preempted", "error"}
           /\ guardAt' \in {"idle", "holds", "cancels", "done"}
           /\ asStarting' \in BOOLEAN
  <1>1. /\ ready' = ready /\ lost' = lost /\ code' = code /\ candidate' = candidate
        /\ epoch' = epoch /\ serial' = serial
    BY DEF feed
  <1>2. /\ at' = at /\ held' = held /\ event' = event /\ result' = result
        /\ guardAt' = guardAt /\ asStarting' = asStarting
    BY DEF worker, guard
  <1> QED BY <1>1, <1>2 DEF TypeOK

LEMMA TypeCallers ==
    ASSUME IType, Callers
    PROVE  IType'
  <1> USE DEF IType
  <1>0. ASSUME CancelActive
        PROVE  /\ active' \in Playbacks \cup {Nothing}
               /\ active # Nothing <=> active' # Nothing
               /\ active # Nothing => active'.event = active.event
    BY <1>0, CancelType DEF TypeOK
  <1>1. CASE Configure
    <2>0. CancelActive /\ Supersede /\ ForgetLosses /\ status' \in Statuses
      BY <1>1 DEF Configure, Statuses, Idle
    <2>1. TypeOK'
      <3>1. superseded' \in BOOLEAN
        BY <2>0 DEF TypeOK, Supersede
      <3>2. /\ prepared' = FALSE /\ noticePending' = FALSE /\ overtaken' = overtaken
            /\ losing' = FALSE /\ armed' = FALSE /\ lossReported' = FALSE /\ warned' = TRUE
        BY <2>0 DEF Supersede, ForgetLosses
      <3>3. /\ seen' = Nothing /\ attempted' = 0 /\ clearing' = FALSE
            /\ UNCHANGED <<feed, shutdown, worker, guard, closing>>
        BY <1>1 DEF Configure
      <3>4. active' \in Playbacks \cup {Nothing}
        BY <2>0, <1>0
      <3>5. shutdown' \in BOOLEAN /\ closing' \in {"open", "shut", "joining", "closed"}
        BY <3>3 DEF TypeOK
      <3>6. overtaken' \in BOOLEAN
        BY <3>2 DEF TypeOK
      <3> QED BY <2>0, <3>1, <3>2, <3>3, <3>4, <3>5, <3>6, OthersKeepTypes DEF TypeOK
    <2>2. Locals'
      BY <1>1, <1>0 DEF TypeOK, Locals, Configure, Supersede, worker, guard
    <2> QED BY <2>1, <2>2
  <1>2. ASSUME NEW s \in Statuses, SuspendWith(s), closing' \in {"open", "shut", "joining", "closed"}
        PROVE  IType'
    <2>1. TypeOK'
      <3>1. superseded' \in BOOLEAN
        BY <1>2 DEF TypeOK, SuspendWith, Supersede
      <3>2. /\ prepared' = FALSE /\ noticePending' = FALSE /\ overtaken' = overtaken
            /\ status' = s
            /\ UNCHANGED <<feed, shutdown, seen, clearing, losses, attempted, worker, guard>>
        BY <1>2 DEF SuspendWith, Supersede
      <3>3. active' \in Playbacks \cup {Nothing}
        BY <1>0, <1>2 DEF SuspendWith
      <3>4. /\ shutdown' \in BOOLEAN /\ seen' \in Ids \cup {Nothing} /\ clearing' \in BOOLEAN
            /\ losing' \in BOOLEAN /\ armed' \in BOOLEAN /\ lossReported' \in BOOLEAN
            /\ warned' \in BOOLEAN /\ attempted' \in Nat
        BY <3>2 DEF TypeOK, losses
      <3>5. overtaken' \in BOOLEAN
        BY <3>2 DEF TypeOK
      <3> QED BY <1>2, <3>1, <3>2, <3>3, <3>4, <3>5, OthersKeepTypes DEF TypeOK
    <2>2. Locals'
      BY <1>2, <1>0 DEF TypeOK, Locals, SuspendWith, Supersede, worker, guard
    <2> QED BY <2>1, <2>2
  <1>3. CASE Suspend
    BY <1>2, <1>3 DEF Suspend, TypeOK, Statuses, Idle
  <1>4. CASE CloseSuspend
    BY <1>2, <1>4 DEF CloseSuspend, Statuses, Idle
  <1>5. CASE InterruptedQuestion
    <2>1. TypeOK'
      <3>1. overtaken' \in BOOLEAN
        BY <1>5 DEF TypeOK, InterruptedQuestion, NoticeUnderWay
      <3>2. /\ noticePending' = TRUE /\ clearing' = FALSE
            /\ UNCHANGED <<feed, settings, status, seen, losses, active, attempted, worker,
                           guard, closing>>
        BY <1>5 DEF InterruptedQuestion
      <3>3. /\ superseded' \in BOOLEAN /\ prepared' \in BOOLEAN /\ shutdown' \in BOOLEAN
            /\ status' \in Statuses /\ seen' \in Ids \cup {Nothing}
        BY <3>2 DEF TypeOK, settings
      <3>4. /\ losing' \in BOOLEAN /\ armed' \in BOOLEAN /\ lossReported' \in BOOLEAN
            /\ warned' \in BOOLEAN
        BY <3>2 DEF TypeOK, losses
      <3>5. /\ active' \in Playbacks \cup {Nothing} /\ attempted' \in Nat
            /\ closing' \in {"open", "shut", "joining", "closed"}
        BY <3>2 DEF TypeOK
      <3> QED BY <3>1, <3>2, <3>3, <3>4, <3>5, OthersKeepTypes DEF TypeOK
    <2>2. Locals'
      BY <1>5 DEF Locals, InterruptedQuestion, settings, worker, guard
    <2> QED BY <2>1, <2>2
  <1>6. CASE Close
    <2>1. TypeOK'
      BY <1>6 DEF TypeOK, Close, notices, losses, feed, worker, guard
    <2>2. Locals'
      BY <1>6 DEF Locals, Close, worker, guard
    <2> QED BY <2>1, <2>2
  <1>7. CASE CloseJoined
    <2>1. TypeOK'
      BY <1>7 DEF TypeOK, CloseJoined, Statuses, Idle, settings, notices, losses, feed, worker, guard
    <2>2. Locals'
      BY <1>7 DEF Locals, CloseJoined, settings, worker, guard
    <2> QED BY <2>1, <2>2
  <1> QED BY <1>1, <1>3, <1>4, <1>5, <1>6, <1>7 DEF Callers

LEMMA TypeObserve ==
    ASSUME IType, Observe
    PROVE  IType'
  <1>1. TypeOK'
    <2>1. /\ ready' \in BOOLEAN /\ lost' \in BOOLEAN /\ code' \in Codes \cup {Nothing}
          /\ candidate' \in Candidates \cup {Nothing} /\ epoch' \in Nat /\ serial' \in Nat
      BY FeedTypes DEF IType
    <2>2. UNCHANGED <<settings, status, seen, notices, clearing, losses, active, attempted,
                      worker, guard, closing>>
      BY DEF Observe
    <2> QED BY <2>1, <2>2 DEF IType, TypeOK, settings, notices, losses, worker, guard
  <1>2. Locals'
    BY DEF IType, Locals, Observe, settings, worker, guard
  <1> QED BY <1>1, <1>2 DEF IType

(* What a choice leaves behind: the worker passes, or has an event.        *)
LEMMA ChoiceType ==
    ASSUME IType, Choose
    PROVE  /\ seen' \in Ids \cup {Nothing} /\ event' \in Events \cup {Nothing}
           /\ clearing' \in BOOLEAN /\ losing' \in BOOLEAN /\ armed' \in BOOLEAN
           /\ lossReported' \in BOOLEAN /\ warned' \in BOOLEAN
           /\ status' \in {"READY", "WAIT_DATA"}
           /\ at' \in {"loop", "begin"} /\ (at' = "begin" => event' # Nothing)
           /\ overtaken' \in BOOLEAN
  <1> USE DEF IType
  <1>1. held \in Snapshots
    BY DEF TypeOK, Locals, Choose
  <1>2. CASE ChooseReady /\ ChooseCall
    <2>1. CallOf(held) \in Events /\ CallOf(held).id \in Ids
      <3>1. CallOf(held) \in Events
        BY <1>1, <1>2, CallType DEF ChooseCall
      <3> QED BY <3>1 DEF Events
    <2>2. /\ event' = CallOf(held) /\ at' = "begin" /\ seen' = CallOf(held).id
          /\ overtaken' = overtaken
      BY <1>2 DEF ChooseCall, Take, Goto
    <2>3. /\ status' = "READY" /\ armed' = TRUE /\ losing' = FALSE
          /\ lossReported' = FALSE /\ warned' = FALSE /\ clearing' = clearing
      BY <1>2 DEF ChooseReady, ChooseCall
    <2>4. clearing \in BOOLEAN /\ overtaken \in BOOLEAN
      BY DEF TypeOK
    <2> QED BY <2>1, <2>2, <2>3, <2>4, NothingIsNothing
  <1>3. CASE ChooseReady /\ ChooseNotice
    <2>1. NoticeOf(held) \in Events
      BY <1>1, NoticeType
    <2>2. /\ seen' = seen /\ clearing' \in BOOLEAN /\ overtaken' \in BOOLEAN
          /\ \/ event' = Nothing /\ at' = "loop"
             \/ event' = NoticeOf(held) /\ at' = "begin"
      BY <1>3 DEF ChooseNotice, Take, Return, Goto, TypeOK
    <2>3. /\ status' = "READY" /\ armed' = TRUE /\ losing' = FALSE
          /\ lossReported' = FALSE /\ warned' = FALSE
      BY <1>3 DEF ChooseReady
    <2>4. seen \in Ids \cup {Nothing}
      BY DEF TypeOK
    <2> QED BY <2>1, <2>2, <2>3, <2>4, NothingIsNothing
  <1>4. CASE ChooseLost
    <2>1. /\ status' = "WAIT_DATA" /\ clearing' = FALSE /\ seen' = seen
          /\ losing' \in BOOLEAN /\ armed' \in {armed, FALSE}
      BY <1>4 DEF ChooseLost
    <2>2. /\ overtaken' \in {overtaken, FALSE}
          /\ \/ event' = Nothing /\ at' = "loop"
             \/ event' = DataLost /\ at' = "begin"
      BY <1>4 DEF ChooseLost, Take, Return, Goto
    <2>3. lossReported' \in {lossReported, TRUE} /\ warned' \in {warned, TRUE}
      BY <1>4 DEF ChooseLost, LossTold
    <2>4. /\ seen \in Ids \cup {Nothing} /\ armed \in BOOLEAN
          /\ lossReported \in BOOLEAN /\ warned \in BOOLEAN /\ overtaken \in BOOLEAN
      BY DEF TypeOK
    <2> QED BY <2>1, <2>2, <2>3, <2>4, LossType, NothingIsNothing
  <1> QED BY <1>2, <1>3, <1>4 DEF Choose, ChooseReady

(* The steps of the worker that leave the service as it is.                *)
Quiet(stages) ==
    /\ at' \in stages
    /\ UNCHANGED <<Service, held, event, Around>>
    /\ result' \in {"none", "complete", "incomplete", "preempted", "error"}

LEMMA QuietType ==
    ASSUME IType, NEW stages \in SUBSET Stages, Quiet(stages),
           at \in Playing <=> at' \in Playing, at' # "choose",
           at' \in {"begin", "clear"} => event # Nothing
    PROVE  IType'
  <1>1. TypeOK'
    BY DEF IType, TypeOK, Quiet, Service, Around, settings, notices, losses, feed, guard
  <1>2. Locals'
    BY DEF IType, Locals, Quiet, Service, Around, settings, guard, Playing
  <1> QED BY <1>1, <1>2 DEF IType

LEMMA TypeQuietly ==
    ASSUME IType,
           \/ PrepareRefused \/ PrepareFails \/ ChooseStale \/ Precheck \/ Acquire \/ Open
           \/ DeviceFails \/ RunEnds \/ RunCancelled \/ Settle
    PROVE  IType'
  <1> DEFINE Inside == Playing
  <1>1. CASE PrepareRefused \/ PrepareFails
    <2>1. Quiet({"loop", "latch"}) /\ at \notin Playing
      BY <1>1 DEF PrepareRefused, PrepareFails, Quiet, Goto, IType, TypeOK, Playing
    <2> QED BY <2>1, QuietType DEF Quiet, Stages, Playing
  <1>2. CASE ChooseStale
    <2>1. TypeOK'
      BY <1>2 DEF ChooseStale, IType, TypeOK, Goto, Stages, Service, Around, settings, notices,
                  losses, feed, guard
    <2>2. Locals'
      BY <1>2 DEF ChooseStale, IType, Locals, Goto, Service, Around, settings, guard, Playing
    <2> QED BY <2>1, <2>2 DEF IType
  <1>3. CASE Precheck \/ Acquire \/ Open \/ RunEnds \/ RunCancelled
    <2>1. Quiet(Playing) /\ at \in Playing
      BY <1>3 DEF Precheck, Acquire, Open, Refused, RunEnds, RunCancelled, Yield, Quiet, Goto,
                  IType, TypeOK, Playing
    <2> QED BY <2>1, QuietType DEF Quiet, Stages, Playing
  <1>4. CASE DeviceFails \/ Settle
    <2>1. Quiet(Playing) /\ at \in Playing
      BY <1>4 DEF DeviceFails, Settle, Quiet, Goto, IType, TypeOK, Playing
    <2> QED BY <2>1, QuietType DEF Quiet, Stages, Playing
  <1> QED BY <1>1, <1>2, <1>3, <1>4

LEMMA TypeWork ==
    ASSUME IType, Work \/ Chance
    PROVE  IType'
  <1> USE DEF IType
  <1>1. CASE Loop
    <2>1. TypeOK'
      <3>1. at' \in Stages
        BY <1>1 DEF Loop, Goto, Stages
      <3>2. /\ superseded' \in BOOLEAN
            /\ UNCHANGED <<prepared, shutdown, status, seen, notices, clearing, losses, active,
                           attempted, held, event, result, Around>>
        BY <1>1 DEF Loop
      <3> QED BY <3>1, <3>2 DEF TypeOK, Around, notices, losses, feed, guard
    <2>2. Locals'
      BY <1>1 DEF TypeOK, Locals, Loop, Goto, Service, Around, settings, guard, Playing
    <2> QED BY <2>1, <2>2
  <1>2. CASE Prepare
    <2>1. TypeOK'
      <3>1. /\ prepared' \in BOOLEAN /\ status' \in Statuses /\ at' \in Stages
        BY <1>2 DEF TypeOK, Prepare, Goto, Stages, Statuses
      <3>2. UNCHANGED <<superseded, shutdown, seen, notices, clearing, losses, active, attempted,
                        held, event, result, Around>>
        BY <1>2 DEF Prepare
      <3> QED BY <3>1, <3>2 DEF TypeOK, Around, notices, losses, feed, guard
    <2>2. Locals'
      BY <1>2 DEF TypeOK, Locals, Prepare, Goto, Around, guard, Playing
    <2> QED BY <2>1, <2>2
  <1>3. CASE Look
    <2>1. TypeOK'
      BY <1>3, SnapshotType DEF TypeOK, Look, Goto, Stages, Service, Around, settings, notices,
                                losses, feed, guard
    <2>2. Locals'
      BY <1>3, SnapshotType, NothingIsNothing DEF Locals, Look, Goto, Service, Around, settings, guard, Playing
    <2> QED BY <2>1, <2>2
  <1>4. CASE Choose
    <2>1. TypeOK'
      BY <1>4, ChoiceType DEF TypeOK, Choose, Stages, Statuses, Around, settings, feed, guard
    <2>2. Locals'
      BY <1>4, ChoiceType DEF Locals, Choose, Around, settings, guard, Playing
    <2> QED BY <2>1, <2>2
  <1>5. CASE Begin
    <2>1. event \in Events /\ active = Nothing
      BY <1>5 DEF Begin, TypeOK, Locals, Playing
    <2>2. CASE Current
      <3>1. /\ active' \in Playbacks /\ active'.event = event
            /\ attempted' \in Nat
            /\ status' = "PLAYING" /\ at' \in {"acquire", "precheck"}
            /\ UNCHANGED <<event, overtaken>>
        <4>1. active' = [event |-> event, cancel |-> FALSE, started |-> FALSE]
          BY <1>5, <2>2 DEF Begin, Attempt
        <4>2. event.id \in Ids
          BY <2>1 DEF Events
        <4>6. event.id[2] \in Nat
          BY <4>2 DEF Ids
        <4>3. attempted' \in Nat
          BY <1>5, <2>2, <4>6 DEF Begin, Attempt, TypeOK
        <4>4. active' \in Playbacks
          BY <2>1, <4>1 DEF Playbacks
        <4>5. /\ status' = "PLAYING" /\ at' \in {"acquire", "precheck"}
              /\ UNCHANGED <<event, overtaken>>
          BY <1>5, <2>2 DEF Begin, Attempt, Goto
        <4> QED BY <4>1, <4>3, <4>4, <4>5
      <3>2. TypeOK'
        BY <1>5, <3>1 DEF TypeOK, Begin, Stages, Statuses, Around, settings, losses, feed, guard
      <3>3. Locals'
        BY <1>5, <2>1, <3>1, NothingIsNothing DEF Locals, Begin, Around, guard, Playing
      <3> QED BY <3>2, <3>3
    <2>3. CASE ~Current
      <3>1. TypeOK'
        <4>1. /\ at' = "loop" /\ event' = Nothing /\ overtaken' \in BOOLEAN
              /\ UNCHANGED <<active, status, attempted, settings, seen, noticePending, clearing,
                             losses, held, result, Around>>
          BY <1>5, <2>3 DEF Begin, Return, Goto
        <4> QED BY <4>1 DEF TypeOK, Stages, Around, settings, losses, feed, guard
      <3>2. Locals'
        BY <1>5, <2>1, <2>3 DEF Locals, Begin, Return, Goto, Around, guard, Playing
      <3> QED BY <3>1, <3>2
    <2> QED BY <2>2, <2>3
  <1>6. CASE Start
    <2>1. active \in Playbacks /\ active' \in Playbacks /\ active'.event = active.event
      BY <1>6 DEF Start, TypeOK, Locals, Playing, Playbacks
    <2>2. TypeOK'
      BY <1>6, <2>1 DEF TypeOK, Start, Goto, Stages, PlayState, Around, settings, notices,
                        losses, feed, guard
    <2>3. Locals'
      BY <1>6, <2>1, NothingIsNothing DEF Locals, Start, Goto, PlayState, Around, settings, guard, Playing
    <2> QED BY <2>2, <2>3
  <1>7. CASE Preempted
    <2>1. TypeOK'
      BY <1>7 DEF TypeOK, Preempted, DropNotice, Goto, Stages, Around, settings, losses, feed, guard
    <2>2. Locals'
      BY <1>7 DEF Locals, Preempted, Goto, Around, settings, guard, Playing
    <2> QED BY <2>1, <2>2
  <1>8. CASE Finish
    <2>1. /\ active' = Nothing /\ asStarting' \in BOOLEAN /\ result' = "none"
          /\ guardAt' \in {"idle", "done"} /\ status' \in {"WAIT_DATA", status}
          /\ UNCHANGED <<settings, seen, noticePending, clearing, losses, attempted, held, feed,
                         closing>>
      BY <1>8 DEF Finish
    <2>2. /\ \/ at' = "loop" /\ event' = Nothing
             \/ at' \in {"latch", "clear"} /\ event' = event
          /\ overtaken' \in BOOLEAN
      BY <1>8 DEF Finish, AfterPlay, Return, Goto, TypeOK
    <2>3. event # Nothing
      BY <1>8 DEF Finish, Locals, Playing
    <2>4. TypeOK'
      BY <2>1, <2>2 DEF TypeOK, Stages, Statuses, settings, losses, feed
    <2>5. Locals'
      BY <2>1, <2>2, <2>3 DEF Locals, Playing
    <2> QED BY <2>4, <2>5
  <1>9. CASE ClearNotice
    <2>1. TypeOK'
      <3>1. /\ at' = "loop" /\ event' = Nothing /\ overtaken' \in BOOLEAN
            /\ noticePending' \in BOOLEAN
            /\ UNCHANGED <<settings, status, seen, clearing, losses, active, attempted, held,
                           result, Around>>
        BY <1>9 DEF ClearNotice, DropNotice, Return, Goto, TypeOK
      <3> QED BY <3>1 DEF TypeOK, Stages, Around, settings, losses, feed, guard
    <2>2. Locals'
      BY <1>9 DEF Locals, ClearNotice, Return, Goto, Around, guard, Playing
    <2> QED BY <2>1, <2>2
  <1>10. CASE Latch
    <2>1. TypeOK'
      <3>1. /\ at' = "loop" /\ event' = Nothing /\ overtaken' \in BOOLEAN
            /\ status' \in {"ERROR", status}
            /\ UNCHANGED <<settings, seen, noticePending, clearing, losses, active, attempted,
                           held, result, Around>>
        BY <1>10 DEF Latch, Latched, Return, Goto
      <3> QED BY <3>1 DEF TypeOK, Stages, Statuses, Idle, Around, settings, losses, feed, guard
    <2>2. Locals'
      BY <1>10 DEF Locals, Latch, Return, Goto, Around, guard, Playing
    <2> QED BY <2>1, <2>2
  <1> QED
    BY <1>1, <1>2, <1>3, <1>4, <1>5, <1>6, <1>7, <1>8, <1>9, <1>10, TypeQuietly
    DEF Work, Chance

LEMMA TypeWatcher ==
    ASSUME IType, Watcher
    PROVE  IType'
  <1> USE DEF IType
  <1>1. CASE CancelObsolete
    <2>1. active \in Playbacks /\ active' \in Playbacks /\ active'.event = active.event
      BY <1>1 DEF CancelObsolete, TypeOK, Locals, Playbacks
    <2>2. TypeOK'
      BY <1>1, <2>1 DEF TypeOK, CancelObsolete, Aside, settings, notices, losses, feed, worker
    <2>3. Locals'
      BY <1>1, <2>1, NothingIsNothing DEF Locals, CancelObsolete, Aside, settings, worker
    <2> QED BY <2>2, <2>3
  <1>2. CASE Watch \/ Judge \/ GuardEnds
    <2>1. /\ UNCHANGED <<Aside, active>> /\ asStarting' \in BOOLEAN
          /\ guardAt' \in {"idle", "holds", "cancels", "done"}
          /\ guardAt' \in {"holds", "cancels"} => active # Nothing
      BY <1>2 DEF TypeOK, Locals, Watch, Judge, GuardEnds
    <2>2. TypeOK'
      BY <2>1 DEF TypeOK, Aside, settings, notices, losses, feed, worker
    <2>3. Locals'
      BY <2>1 DEF Locals, Aside, settings, worker
    <2> QED BY <2>2, <2>3
  <1> QED BY <1>1, <1>2 DEF Watcher

LEMMA TypeNext ==
    ASSUME IType, [Next]_vars
    PROVE  IType'
  <1>1. CASE UNCHANGED vars
    <2>1. TypeOK'
      BY <1>1 DEF IType, TypeOK, vars, feed, settings, notices, losses, worker, guard
    <2>2. Locals'
      BY <1>1 DEF IType, Locals, vars, settings, worker, guard
    <2> QED BY <2>1, <2>2 DEF IType
  <1> QED BY <1>1, TypeCallers, TypeObserve, TypeWork, TypeWatcher DEF Next

(* The variables keep their types, and the worker's locals are where it    *)
(* uses them, for any detector and any order of the threads.               *)
THEOREM TypeCorrect == Spec => []TypeOK
  <1>1. Spec => []IType
    BY TypeInit, TypeNext, PTL DEF Spec
  <1>2. IType => TypeOK
    BY DEF IType
  <1> QED BY <1>1, <1>2, PTL

-----------------------------------------------------------------------------
(* Supersession: who may change active while the revision moves on.        *)

LEMMA PlaybackMoves ==
    ASSUME IType, [Next]_vars
    PROVE  /\ superseded' => superseded \/ CancelActive
           /\ active = Nothing /\ active' # Nothing =>
                Begin /\ Current /\ ~superseded' /\ active'.event = event
           /\ active # Nothing /\ active' # Nothing /\ active.cancel => active'.cancel
  <1> DEFINE Claim ==
        /\ superseded' => superseded \/ CancelActive
        /\ active = Nothing /\ active' # Nothing =>
             Begin /\ Current /\ ~superseded' /\ active'.event = event
        /\ active # Nothing /\ active' # Nothing /\ active.cancel => active'.cancel
  <1>0. active \in Playbacks \cup {Nothing}
    BY DEF IType, TypeOK
  <1>1. ASSUME CancelActive PROVE Claim
    BY <1>1, <1>0, CancelType
  <1>2. ASSUME superseded' => superseded, UNCHANGED active PROVE Claim
    BY <1>2
  <1>3. ASSUME Callers PROVE Claim
    <2>1. CASE Configure \/ Suspend \/ CloseSuspend
      BY <2>1, <1>1 DEF Configure, Suspend, CloseSuspend, SuspendWith
    <2>2. CASE InterruptedQuestion \/ Close \/ CloseJoined
      BY <2>2, <1>2 DEF InterruptedQuestion, Close, CloseJoined, settings
    <2> QED BY <1>3, <2>1, <2>2 DEF Callers
  <1>4. ASSUME Observe PROVE Claim
    BY <1>4, <1>2 DEF Observe, settings
  <1>5. ASSUME Work \/ Chance PROVE Claim
    <2>1. CASE Loop \/ Prepare \/ PrepareRefused \/ PrepareFails \/ Look \/ Choose \/ ChooseStale
      BY <2>1, <1>2 DEF Loop, Prepare, PrepareRefused, PrepareFails, Look, Choose, ChooseStale,
                        Service, settings
    <2>2. CASE Precheck \/ Acquire \/ Open \/ DeviceFails \/ RunEnds \/ RunCancelled \/ Settle
      BY <2>2, <1>2 DEF Precheck, Acquire, Open, DeviceFails, RunEnds, RunCancelled, Settle,
                        Yield, Service, settings
    <2>3. CASE Preempted \/ ClearNotice \/ Latch
      BY <2>3, <1>2 DEF Preempted, ClearNotice, Latch, settings
    <2>4. CASE Finish
      BY <2>4 DEF Finish, settings
    <2>5. CASE Start
      <3>1. active \in Playbacks
        BY <2>5, <1>0 DEF Start, IType, Locals, Playing
      <3>2. active' = [active EXCEPT !.started = TRUE] /\ superseded' = superseded
        BY <2>5 DEF Start, PlayState, settings
      <3>3. active'.cancel = active.cancel
        BY <3>1, <3>2 DEF Playbacks
      <3>4. active # Nothing
        BY <3>1, NothingIsNothing
      <3> QED BY <3>2, <3>3, <3>4
    <2>6. CASE Begin
      <3>1. active = Nothing /\ superseded' = superseded
        BY <2>6 DEF Begin, IType, Locals, Playing, settings
      <3>2. CASE Current
        BY <2>6, <3>1, <3>2 DEF Begin, Attempt, Current
      <3>3. CASE ~Current
        BY <2>6, <3>1, <3>3 DEF Begin
      <3> QED BY <3>2, <3>3
    <2> QED BY <1>5, <2>1, <2>2, <2>3, <2>4, <2>5, <2>6 DEF Work, Chance
  <1>6. ASSUME Watcher PROVE Claim
    <2>1. CASE CancelObsolete
      <3>1. active \in Playbacks
        BY <2>1, <1>0 DEF CancelObsolete, IType, Locals
      <3>2. active' = [active EXCEPT !.cancel = TRUE] /\ superseded' = superseded
        BY <2>1 DEF CancelObsolete, Aside, settings
      <3>3. active'.cancel
        BY <3>1, <3>2 DEF Playbacks
      <3>4. active # Nothing
        BY <3>1, NothingIsNothing
      <3> QED BY <3>2, <3>3, <3>4
    <2>2. CASE Watch \/ Judge \/ GuardEnds
      BY <2>2, <1>2 DEF Watch, Judge, GuardEnds, Aside, settings
    <2> QED BY <1>6, <2>1, <2>2 DEF Watcher
  <1>7. ASSUME UNCHANGED vars PROVE Claim
    BY <1>7, <1>2 DEF vars, settings
  <1> QED BY <1>3, <1>4, <1>5, <1>6, <1>7 DEF Next

LEMMA ObsoleteStep ==
    ASSUME IType, ObsoleteIsCancelled, [Next]_vars
    PROVE  ObsoleteIsCancelled'
  <1>1. SUFFICES ASSUME active' # Nothing, superseded'
                 PROVE  active'.cancel
    BY DEF ObsoleteIsCancelled
  <1>2. active # Nothing
    BY <1>1, PlaybackMoves
  <1>3. CASE CancelActive
    <2>1. active \in Playbacks \cup {Nothing}
      BY DEF IType, TypeOK
    <2> QED BY <1>2, <1>3, <2>1, CancelType
  <1>4. CASE superseded
    <2>1. active.cancel
      BY <1>2, <1>4 DEF ObsoleteIsCancelled
    <2> QED BY <1>1, <1>2, <2>1, PlaybackMoves
  <1> QED BY <1>1, <1>3, <1>4, PlaybackMoves

(* configure, suspend and close may come between any two steps of the      *)
(* worker's call: whatever is played for an older revision has been told   *)
(* to stop.                                                                *)
THEOREM SupersededIsCancelled == Spec => []ObsoleteIsCancelled
  <1>1. Init => ObsoleteIsCancelled
    BY DEF Init, ObsoleteIsCancelled
  <1>2. Init => IType
    BY TypeInit
  <1>3. IType /\ ObsoleteIsCancelled /\ [Next]_vars => IType' /\ ObsoleteIsCancelled'
    BY TypeNext, ObsoleteStep
  <1> QED BY <1>1, <1>2, <1>3, PTL DEF Spec

-----------------------------------------------------------------------------
(* The latch: a worker that has seen the current revision saw a status     *)
(* that lets it work, and only it sets ERROR.                              *)

Busy == at \notin {"loop", "done"}
Latching ==
    /\ Busy /\ Current => status \notin Idle
    /\ closing # "open" => shutdown
    /\ closing \in {"joining", "closed"} => status # "ERROR"

StatusMoves == status' = status \/ Superseding \/ status # "ERROR"

LEMMA LatchingCallers ==
    ASSUME IType, Latching, Callers
    PROVE  Latching' /\ StatusMoves
  <1> USE DEF IType
  <1>2. ASSUME NEW s \in {"PAUSED", "STOPPING"}, SuspendWith(s), Superseding,
               closing' # "open" => shutdown
        PROVE  Latching' /\ StatusMoves
    <2>1. superseded' /\ status' = s /\ shutdown' = shutdown
      BY <1>2 DEF SuspendWith, Supersede
    <2> QED BY <1>2, <2>1 DEF Latching, Current, StatusMoves
  <1>3. CASE Configure
    <2>1. superseded' /\ status' # "ERROR" /\ closing' = closing /\ shutdown' = shutdown
      BY <1>3 DEF Configure, Supersede
    <2> QED BY <1>3, <2>1 DEF Latching, Current, StatusMoves, Superseding
  <1>4. CASE Suspend
    BY <1>2, <1>4 DEF Suspend, Latching, Superseding
  <1>5. CASE CloseSuspend
    <2>1. shutdown
      BY <1>5 DEF CloseSuspend, Latching
    <2> QED BY <1>2, <1>5, <2>1 DEF CloseSuspend, Superseding
  <1>6. CASE InterruptedQuestion
    BY <1>6 DEF InterruptedQuestion, settings, worker, Latching, Busy, Current, StatusMoves
  <1>7. CASE Close
    BY <1>7 DEF Close, Latching, Current, StatusMoves
  <1>8. CASE CloseJoined
    BY <1>8 DEF CloseJoined, settings, worker, Latching, Busy, Current, StatusMoves
  <1> QED BY <1>3, <1>4, <1>5, <1>6, <1>7, <1>8 DEF Callers

(* A worker's step under the current revision: nobody else is writing the  *)
(* status, and the step leaves ERROR only on its way back to the loop.     *)
LEMMA LatchingWork ==
    ASSUME IType, Latching, Work \/ Chance
    PROVE  Latching' /\ StatusMoves
  <1> DEFINE Kept == UNCHANGED <<status, superseded, shutdown, closing>>
             Goal == Latching' /\ StatusMoves
  <1>1. ASSUME Kept, Busy PROVE Goal
    BY <1>1 DEF Latching, Current, StatusMoves
  <1>2. ASSUME UNCHANGED <<superseded, shutdown, closing>>, Busy,
               \/ status' \notin Idle /\ Current
               \/ status' = status
               \/ at' = "loop" /\ Current
        PROVE  Goal
    <2>1. status' = "ERROR" => closing' \notin {"joining", "closed"}
      BY <1>2 DEF Latching, Current, Idle
    <2>2. Current => status # "ERROR"
      BY <1>2 DEF Latching, Idle
    <2> QED BY <1>2, <2>1, <2>2 DEF Latching, Busy, Current, StatusMoves, Idle
  <1>3. CASE Loop
    <2>1. /\ UNCHANGED <<status, shutdown, closing>>
          /\ at' \notin {"loop", "done"} => status \notin Idle
      BY <1>3 DEF Loop, Goto, Allowed, Around
    <2> QED BY <2>1 DEF Latching, Busy, Current, StatusMoves
  <1>4. CASE \/ PrepareRefused \/ PrepareFails \/ Look \/ ChooseStale \/ Precheck \/ Acquire
             \/ Open \/ Start \/ DeviceFails \/ RunEnds \/ RunCancelled \/ Settle
             \/ Preempted \/ ClearNotice
    <2>1. Busy
      BY <1>4 DEF PrepareRefused, PrepareFails, Look, ChooseStale, Precheck, Acquire, Open, Start,
                  DeviceFails, RunEnds, RunCancelled, Settle, Preempted, ClearNotice, Busy
    <2>2. Kept
      BY <1>4 DEF PrepareRefused, PrepareFails, Look, ChooseStale, Precheck, Acquire, Open, Start,
                  DeviceFails, RunEnds, RunCancelled, Settle, Preempted, ClearNotice, Yield,
                  Service, PlayState, settings, Around
    <2> QED BY <1>1, <2>1, <2>2
  <1>5. CASE Prepare
    <2>1. Busy /\ UNCHANGED <<superseded, shutdown, closing>>
          /\ ((status' = "WAIT_DATA" /\ Current) \/ status' = status)
      BY <1>5 DEF Prepare, Busy, Around
    <2> QED BY <1>2, <2>1 DEF Idle
  <1>6. CASE Choose
    <2>1. Busy /\ UNCHANGED <<superseded, shutdown, closing>> /\ Current
          /\ status' \in {"READY", "WAIT_DATA"}
      BY <1>6, ChoiceType DEF Choose, Busy, settings, Around
    <2> QED BY <1>2, <2>1 DEF Idle
  <1>7. CASE Begin
    <2>1. Busy /\ UNCHANGED <<superseded, shutdown, closing>>
          /\ ((status' = "PLAYING" /\ Current) \/ status' = status)
      BY <1>7 DEF Begin, Attempt, Busy, PlayState, settings, Around
    <2> QED BY <1>2, <2>1 DEF Idle
  <1>8. CASE Finish
    <2>1. Busy /\ UNCHANGED <<superseded, shutdown, closing>>
          /\ ((status' = "WAIT_DATA" /\ Current) \/ status' = status)
      BY <1>8 DEF Finish, Busy, PlayState, settings
    <2> QED BY <1>2, <2>1 DEF Idle
  <1>9. CASE Latch
    <2>1. Busy /\ UNCHANGED <<superseded, shutdown, closing>> /\ at' = "loop"
          /\ (Current \/ status' = status)
      BY <1>9 DEF Latch, Return, Goto, Busy, PlayState, settings, Around
    <2> QED BY <1>2, <2>1
  <1> QED BY <1>3, <1>4, <1>5, <1>6, <1>7, <1>8, <1>9 DEF Work, Chance

LEMMA LatchingStep ==
    ASSUME IType, Latching, [Next]_vars
    PROVE  Latching' /\ StatusMoves
  <1>1. ASSUME UNCHANGED <<status, worker, settings, closing>>
        PROVE  Latching' /\ StatusMoves
    BY <1>1 DEF worker, settings, Latching, Busy, Current, StatusMoves
  <1>2. CASE Observe
    BY <1>1, <1>2 DEF Observe
  <1>3. CASE Watcher
    BY <1>1, <1>3 DEF Watcher, Watch, Judge, CancelObsolete, GuardEnds, Aside
  <1>4. CASE UNCHANGED vars
    BY <1>1, <1>4 DEF vars
  <1> QED BY <1>2, <1>3, <1>4, LatchingCallers, LatchingWork DEF Next

(* "Output errors are latched until settings are reapplied": only a new    *)
(* revision takes the service out of ERROR, whatever the worker was doing. *)
THEOREM ErrorsLatch == Spec => ErrorLatched
  <1>1. Init => IType /\ Latching
    BY TypeInit DEF Init, Latching, Busy
  <1>2. IType /\ Latching /\ [Next]_vars => IType' /\ Latching'
    BY TypeNext, LatchingStep
  <1>3. IType /\ Latching /\ [Next]_vars =>
          [status = "ERROR" /\ status' # "ERROR" => Superseding]_vars
    BY LatchingStep DEF StatusMoves
  <1> QED BY <1>1, <1>2, <1>3, PTL DEF Spec, ErrorLatched

-----------------------------------------------------------------------------
(* Notices and warnings.                                                   *)

(* The end of an older notice does not take a newer one with it.           *)
THEOREM NoticeSurvives == Spec => NoticeKept
  <1> DEFINE Kept == noticePending /\ ~noticePending' =>
                       \/ Superseding
                       \/ event # Nothing /\ event.kind = "PTT_CANCELLED" /\ ~overtaken
  <1>1. ASSUME IType, [Next]_vars PROVE Kept
    <2>1. ASSUME noticePending' = noticePending PROVE Kept
      BY <2>1
    <2>2. ASSUME Callers PROVE Kept
      <3>1. CASE Configure \/ Suspend \/ CloseSuspend
        BY <3>1 DEF Superseding
      <3>2. CASE InterruptedQuestion
        <4>1. noticePending'
          BY <3>2 DEF InterruptedQuestion
        <4> QED BY <4>1
      <3>3. CASE Close \/ CloseJoined
        BY <3>3 DEF Close, CloseJoined, notices
      <3> QED BY <2>2, <3>1, <3>2, <3>3 DEF Callers
    <2>3. ASSUME Preempted \/ ClearNotice PROVE Kept
      <3>1. event # Nothing
        BY <1>1, <2>3 DEF Preempted, ClearNotice, IType, Locals, Playing
      <3> QED BY <2>3, <3>1 DEF Preempted, ClearNotice, DropNotice, Answers
    <2>4. ASSUME (Work \/ Chance) /\ ~Preempted /\ ~ClearNotice PROVE Kept
      <3>1. UNCHANGED noticePending
        BY <2>4 DEF Work, Chance, Loop, Prepare, PrepareRefused, PrepareFails, Look, Choose,
                    ChooseStale, Begin, Precheck, Acquire, Open, Start, DeviceFails, RunEnds,
                    RunCancelled, Settle, Finish, Latch, Yield, Service, PlayState, notices
      <3> QED BY <2>1, <3>1
    <2>5. ASSUME Observe \/ Watcher \/ UNCHANGED vars PROVE Kept
      <3>1. UNCHANGED notices
        BY <2>5 DEF Observe, Watcher, Watch, Judge, CancelObsolete, GuardEnds, Aside,
                    vars, notices
      <3> QED BY <3>1 DEF notices
    <2> QED BY <1>1, <2>2, <2>3, <2>4, <2>5 DEF Next
  <1>2. IType /\ [Next]_vars => [Kept]_vars
    BY <1>1
  <1> QED BY <1>2, TypeInit, TypeNext, PTL DEF Spec, NoticeKept

(* An outage that is still to be reported has followed ready data.         *)
Owed == armed /\ ~lossReported => ~warned

LEMMA LossesKept ==
    ASSUME Owed, UNCHANGED losses
    PROVE  Owed'
  <1> QED BY DEF Owed, losses

LEMMA OwedStep ==
    ASSUME IType, Owed, [Next]_vars
    PROVE  Owed'
  <1>1. CASE Configure
    BY <1>1 DEF Configure, ForgetLosses, Owed
  <1>2. CASE Choose
    <2>1. CASE ChooseReady
      BY <2>1 DEF ChooseReady, Owed
    <2>2. CASE ChooseLost
      BY <2>2 DEF ChooseLost, LossTold, Owed
    <2> QED BY <1>2, <2>1, <2>2 DEF Choose
  <1>3. CASE Callers /\ ~Configure
    BY <1>3, LossesKept DEF Callers, Suspend, CloseSuspend, SuspendWith, InterruptedQuestion,
                            Close, CloseJoined
  <1>4. CASE (Work \/ Chance) /\ ~Choose
    BY <1>4, LossesKept
    DEF Work, Chance, Loop, Prepare, PrepareRefused, PrepareFails, Look, ChooseStale, Begin,
        Precheck, Acquire, Open, Start, DeviceFails, RunEnds, RunCancelled, Settle, Preempted,
        Finish, ClearNotice, Latch, Yield, Service, PlayState
  <1>5. CASE Observe \/ Watcher \/ UNCHANGED vars
    BY <1>5, LossesKept DEF Observe, Watcher, Watch, Judge, CancelObsolete, GuardEnds,
                            Aside, vars
  <1> QED BY <1>1, <1>2, <1>3, <1>4, <1>5 DEF Next

(* Only a choice gives the worker an event, and it is one of three.        *)
LEMMA EventMoves ==
    ASSUME IType, [Next]_vars, event' # event, event' # Nothing
    PROVE  Choose
  <1>1. CASE Callers
    BY <1>1 DEF Callers, Configure, Suspend, CloseSuspend, SuspendWith, InterruptedQuestion,
                Close, CloseJoined, worker
  <1>2. CASE (Work \/ Chance) /\ ~Choose
    BY <1>2
    DEF Work, Chance, Loop, Prepare, PrepareRefused, PrepareFails, Look, ChooseStale, Begin,
        Precheck, Acquire, Open, Start, DeviceFails, RunEnds, RunCancelled, Settle, Preempted,
        Finish, ClearNotice, Latch, Yield, Attempt, Return
  <1>3. CASE Observe \/ Watcher \/ UNCHANGED vars
    BY <1>3 DEF Observe, Watcher, Watch, Judge, CancelObsolete, GuardEnds, Aside,
                vars, worker
  <1> QED BY <1>1, <1>2, <1>3 DEF Next

(* Every data-loss warning answers an outage of its own: since the last    *)
(* one, and since the last configuration, a snapshot was ready.            *)
THEOREM WarningsAreOwed == Spec => OneWarningPerOutage
  <1> DEFINE Owing == event' # event /\ event' # Nothing /\ event'.kind = "DATA_LOST" => ~warned
  <1>1. Init => IType /\ Owed
    BY TypeInit DEF Init, Owed
  <1>2. ASSUME IType, Owed, [Next]_vars PROVE Owing
    <2>1. SUFFICES ASSUME Choose, event' # Nothing, event'.kind = "DATA_LOST" PROVE ~warned
      BY <1>2, EventMoves
    <2>2. held \in Snapshots
      BY <1>2, <2>1 DEF IType, TypeOK, Locals, Choose
    <2>3. TypeOK
      BY <1>2 DEF IType
    <2>4. CASE ChooseReady /\ ChooseCall
      <3>1. event'.kind = "CALL"
        BY <2>2, <2>3, <2>4, CallType DEF ChooseCall, Take
      <3> QED BY <2>1, <3>1
    <2>5. CASE ChooseReady /\ ChooseNotice
      <3>1. event'.kind = "PTT_CANCELLED"
        BY <2>1, <2>2, <2>3, <2>5, NoticeType DEF ChooseNotice, Take, Return, Goto
      <3> QED BY <2>1, <3>1
    <2>6. CASE ChooseLost
      BY <1>2, <2>1, <2>6 DEF ChooseLost, Return, Goto, Owed
    <2> QED BY <2>1, <2>4, <2>5, <2>6 DEF Choose, ChooseReady
  <1>3. IType /\ Owed /\ [Next]_vars => [Owing]_vars
    BY <1>2
  <1> QED BY <1>1, <1>3, TypeNext, OwedStep, PTL DEF Spec, OneWarningPerOutage

-----------------------------------------------------------------------------
(* Candidates only ever grow younger.  A mailbox entry carries the latest  *)
(* sequence number and epoch, so what was chosen before is not younger     *)
(* than a snapshot taken since, and equal only if it is the same entry.    *)

Older(id, c) ==   \* an id is of this candidate, or of an earlier one
    id[2] <= c.sequence /\ (id[2] = c.sequence => id[1] = c.epoch)

MailboxIsLast == candidate # Nothing => candidate.sequence = serial /\ candidate.epoch = epoch
SeenIsOlder ==
    /\ seen # Nothing => seen[2] <= serial
    /\ seen # Nothing /\ candidate # Nothing => Older(seen, candidate)
HeldIsBetween ==
    held # Nothing /\ held.candidate # Nothing =>
        /\ held.candidate.sequence <= serial
        /\ candidate # Nothing =>
             Older(<<held.candidate.epoch, held.candidate.sequence>>, candidate)
        /\ seen # Nothing => Older(seen, held.candidate)
AttemptIsSeen == attempted # 0 => seen # Nothing /\ attempted <= seen[2]
BeginIsNew ==
    at = "begin" /\ event.kind = "CALL" /\ Current =>
        seen = event.id /\ attempted < event.id[2]

Ordered == MailboxIsLast /\ SeenIsOlder /\ HeldIsBetween /\ AttemptIsSeen /\ BeginIsNew

LEMMA IdFields == \A id \in Ids : id[1] \in Int /\ id[2] \in Nat
  <1> QED BY DEF Ids

LEMMA CandidateFields == \A c \in Candidates : c.sequence \in Nat \ {0} /\ c.epoch \in Nat
  <1> QED BY DEF Candidates

LEMMA HeldFields ==
    ASSUME TypeOK, held # Nothing, held.candidate # Nothing
    PROVE  held.candidate \in Candidates
  <1> QED BY DEF TypeOK, Snapshots

(* A step that changes neither the mailbox nor what was chosen.            *)
LEMMA OrderedKept ==
    ASSUME IType, Ordered,
           UNCHANGED <<candidate, epoch, serial, seen, attempted>>,
           held' = held \/ held' = Nothing,
           at' = "begin" => at = "begin" /\ event' = event /\ (Current' => Current)
    PROVE  Ordered'
  <1>1. MailboxIsLast' /\ SeenIsOlder' /\ AttemptIsSeen'
    BY DEF Ordered, MailboxIsLast, SeenIsOlder, AttemptIsSeen, Older
  <1>2. HeldIsBetween'
    BY DEF Ordered, HeldIsBetween, Older
  <1>3. BeginIsNew'
    BY DEF Ordered, BeginIsNew
  <1> QED BY <1>1, <1>2, <1>3 DEF Ordered

LEMMA OrderedCallers ==
    ASSUME IType, Ordered, Callers
    PROVE  Ordered'
  <1>2. CASE Suspend \/ CloseSuspend
    <2>2. ~Current'
      BY <1>2 DEF Suspend, CloseSuspend, SuspendWith, Supersede, Current
    <2> QED BY <1>2, <2>2, OrderedKept DEF Suspend, CloseSuspend, SuspendWith, feed, worker
  <1>3. CASE InterruptedQuestion \/ Close \/ CloseJoined
    BY <1>3, OrderedKept DEF InterruptedQuestion, Close, CloseJoined, feed, worker, settings,
                             Current
  <1>4. CASE Configure
    <2>1. seen' = Nothing /\ attempted' = 0 /\ UNCHANGED <<candidate, epoch, serial, held>>
      BY <1>4 DEF Configure, feed, worker
    <2>2. ~Current'
      BY <1>4 DEF Configure, Supersede, Current
    <2> QED BY <2>1, <2>2 DEF Ordered, MailboxIsLast, SeenIsOlder, HeldIsBetween, AttemptIsSeen,
                              BeginIsNew, Older
  <1> QED BY <1>2, <1>3, <1>4 DEF Callers

(* The detector keeps its entry, drops it, or posts a younger one.         *)
LEMMA FeedMoves ==
    ASSUME Observe
    PROVE  \/ candidate' = Nothing /\ serial' = serial
           \/ candidate' = candidate /\ serial' = serial /\ epoch' = epoch
           \/ /\ candidate'.sequence = serial + 1 /\ candidate'.epoch = epoch
              /\ serial' = serial + 1 /\ epoch' = epoch
  <1>1. CASE Feed!Lose \/ Feed!Withdraw
    BY <1>1 DEF Feed!Lose, Feed!Withdraw, Feed!Drop
  <1>2. ASSUME NEW c \in Codes, Feed!Observe(c)
        PROVE  \/ candidate' = Nothing /\ serial' = serial
               \/ candidate' = candidate /\ serial' = serial /\ epoch' = epoch
               \/ /\ candidate'.sequence = serial + 1 /\ candidate'.epoch = epoch
                  /\ serial' = serial + 1 /\ epoch' = epoch
    BY <1>2 DEF Feed!Observe, Feed!Keep, Feed!Drop, Feed!Post
  <1> QED BY <1>1, <1>2 DEF Observe, Feed!Next

LEMMA OrderedObserve ==
    ASSUME IType, Ordered, Observe
    PROVE  Ordered'
  <1>1. UNCHANGED <<seen, attempted, held, at, event, superseded, shutdown>>
    BY DEF Observe, worker, settings
  <1>2. serial \in Nat /\ (seen # Nothing => seen[2] \in Nat)
    BY IdFields DEF IType, TypeOK
  <1>3. held # Nothing /\ held.candidate # Nothing => held.candidate.sequence \in Nat
    BY HeldFields, CandidateFields DEF IType
  <1>4. AttemptIsSeen' /\ BeginIsNew'
    BY <1>1 DEF Ordered, AttemptIsSeen, BeginIsNew, Current
  <1>5. CASE candidate' = Nothing /\ serial' = serial
    BY <1>1, <1>4, <1>5 DEF Ordered, MailboxIsLast, SeenIsOlder, HeldIsBetween, Older
  <1>6. CASE candidate' = candidate /\ serial' = serial /\ epoch' = epoch
    BY <1>1, <1>4, <1>6 DEF Ordered, MailboxIsLast, SeenIsOlder, HeldIsBetween, Older
  <1>7. CASE /\ candidate'.sequence = serial + 1 /\ candidate'.epoch = epoch
             /\ serial' = serial + 1 /\ epoch' = epoch
    <2>1. MailboxIsLast'
      BY <1>7 DEF MailboxIsLast
    <2>2. SeenIsOlder'
      BY <1>1, <1>2, <1>7 DEF Ordered, SeenIsOlder, Older
    <2>3. HeldIsBetween'
      BY <1>1, <1>2, <1>3, <1>7 DEF Ordered, HeldIsBetween, Older
    <2> QED BY <1>4, <2>1, <2>2, <2>3 DEF Ordered
  <1> QED BY <1>5, <1>6, <1>7, FeedMoves

LEMMA OrderedLook ==
    ASSUME IType, Ordered, Look
    PROVE  Ordered'
  <1>1. held' = Snapshot /\ at' = "choose"
        /\ UNCHANGED <<candidate, epoch, serial, seen, attempted>>
    BY DEF Look, Goto, Service, Around, feed
  <1>2. held'.candidate = candidate
    BY <1>1 DEF Snapshot
  <1>3. MailboxIsLast' /\ SeenIsOlder' /\ AttemptIsSeen' /\ BeginIsNew'
    BY <1>1 DEF Ordered, MailboxIsLast, SeenIsOlder, AttemptIsSeen, BeginIsNew, Older
  <1>4. serial \in Nat /\ (candidate # Nothing => candidate.sequence \in Nat)
    BY CandidateFields DEF IType, TypeOK
  <1>5. HeldIsBetween'
    BY <1>1, <1>2, <1>4 DEF Ordered, HeldIsBetween, MailboxIsLast, SeenIsOlder, Older
  <1> QED BY <1>3, <1>5 DEF Ordered

LEMMA OrderedChoose ==
    ASSUME IType, Ordered, Choose
    PROVE  Ordered'
  <1>0. held \in Snapshots /\ TypeOK
    BY DEF IType, TypeOK, Locals, Choose
  <1>1. /\ held' = Nothing /\ Current
        /\ UNCHANGED <<candidate, epoch, serial, attempted, superseded, shutdown>>
    BY DEF Choose, settings, Around, feed
  <1>2. CASE ChooseReady /\ ChooseCall
    <2> DEFINE c == held.candidate
    <2>1. /\ Callable(held) /\ CallOf(held).id # seen /\ seen' = CallOf(held).id
          /\ event' = CallOf(held)
      BY <1>2 DEF ChooseCall, NotSeen, Take
    <2>2. /\ held # Nothing /\ c # Nothing /\ c.epoch = held.epoch
          /\ CallOf(held).id = <<c.epoch, c.sequence>> /\ c.sequence \in Nat
      BY <1>0, <2>1, CallType, NothingIsNothing DEF Callable
    <2>3. seen \in Ids \cup {Nothing} /\ attempted \in Nat /\ serial \in Nat
      BY <1>0 DEF TypeOK
    <2>4. seen # Nothing => seen = <<seen[1], seen[2]>> /\ seen[2] \in Nat
      BY <2>3 DEF Ids
    <2>5. seen # Nothing => seen[2] <= c.sequence /\ (seen[2] = c.sequence => seen[1] = c.epoch)
      BY <2>2 DEF Ordered, HeldIsBetween, Older
    <2>6. seen # Nothing => seen[2] < c.sequence
      BY <2>1, <2>2, <2>4, <2>5
    <2>7. attempted # 0 => seen # Nothing /\ attempted <= seen[2]
      BY DEF Ordered, AttemptIsSeen
    <2>14. c.sequence >= 1
      BY <1>0, <2>2, HeldFields, CandidateFields
    <2>8. attempted < c.sequence
      BY <2>2, <2>3, <2>4, <2>6, <2>7, <2>14
    <2>9. seen'[2] = c.sequence /\ seen'[1] = c.epoch /\ seen' # Nothing
      BY <1>0, <2>1, <2>2, CallType, NothingIsNothing DEF Events
    <2>10. MailboxIsLast' /\ HeldIsBetween'
      BY <1>1 DEF Ordered, MailboxIsLast, HeldIsBetween
    <2>11. SeenIsOlder'
      BY <1>1, <2>2, <2>9 DEF Ordered, HeldIsBetween, SeenIsOlder, Older
    <2>12. AttemptIsSeen'
      BY <1>1, <2>2, <2>3, <2>7, <2>8, <2>9 DEF AttemptIsSeen
    <2>13. BeginIsNew'
      BY <1>1, <2>1, <2>2, <2>8, <2>9 DEF BeginIsNew
    <2> QED BY <2>10, <2>11, <2>12, <2>13 DEF Ordered
  <1>3. CASE (ChooseReady /\ ChooseNotice) \/ ChooseLost
    <2>1. seen' = seen
      BY <1>3 DEF ChooseNotice, ChooseLost
    <2>2. at' = "begin" => event'.kind # "CALL"
      BY <1>0, <1>3, NoticeType, LossType DEF ChooseNotice, ChooseLost, Take, Return, Goto
    <2>3. BeginIsNew'
      BY <2>2 DEF BeginIsNew
    <2>4. MailboxIsLast' /\ SeenIsOlder' /\ HeldIsBetween' /\ AttemptIsSeen'
      BY <1>1, <2>1 DEF Ordered, MailboxIsLast, SeenIsOlder, HeldIsBetween, AttemptIsSeen, Older
    <2> QED BY <2>3, <2>4 DEF Ordered
  <1> QED BY <1>2, <1>3 DEF Choose, ChooseReady

LEMMA OrderedBegin ==
    ASSUME IType, Ordered, Begin
    PROVE  Ordered'
  <1>1. /\ UNCHANGED <<candidate, epoch, serial, seen, held>> /\ at' # "begin"
        /\ attempted' = attempted \/ (Current /\ event.kind = "CALL" /\ attempted' = event.id[2])
    BY DEF Begin, Attempt, Return, Goto, Around, feed
  <1>2. AttemptIsSeen'
    <2>1. CASE attempted' = attempted
      BY <1>1, <2>1 DEF Ordered, AttemptIsSeen
    <2>2. CASE Current /\ event.kind = "CALL" /\ attempted' = event.id[2]
      <3>1. seen = event.id
        BY <2>2 DEF Begin, Ordered, BeginIsNew
      <3>2. event.id \in Ids
        BY DEF IType, TypeOK, Locals, Begin, Events
      <3> QED BY <1>1, <2>2, <3>1, <3>2, IdFields, NothingIsNothing DEF AttemptIsSeen
    <2> QED BY <1>1, <2>1, <2>2
  <1>3. MailboxIsLast' /\ SeenIsOlder' /\ HeldIsBetween' /\ BeginIsNew'
    BY <1>1 DEF Ordered, MailboxIsLast, SeenIsOlder, HeldIsBetween, BeginIsNew, Older
  <1> QED BY <1>2, <1>3 DEF Ordered

LEMMA OrderedStep ==
    ASSUME IType, Ordered, [Next]_vars
    PROVE  Ordered'
  <1>1. CASE (Work \/ Chance) /\ ~Look /\ ~Choose /\ ~Begin
    <2>1. /\ UNCHANGED <<candidate, epoch, serial, seen, attempted>>
          /\ held' = held \/ held' = Nothing
      BY <1>1
      DEF Work, Chance, Loop, Prepare, PrepareRefused, PrepareFails, ChooseStale, Precheck,
          Acquire, Open, Start, DeviceFails, RunEnds, RunCancelled, Settle, Preempted, Finish,
          ClearNotice, Latch, Yield, Service, PlayState, Around, feed
    <2>2. at' # "begin"
      BY <1>1
      DEF Work, Chance, Loop, Prepare, PrepareRefused, PrepareFails, ChooseStale, Precheck,
          Acquire, Open, Refused, Start, DeviceFails, RunEnds, RunCancelled, Settle, Preempted,
          Finish, AfterPlay, ClearNotice, Latch, Yield, Return, Goto
    <2> QED BY <2>1, <2>2, OrderedKept
  <1>2. CASE Watcher \/ UNCHANGED vars
    BY <1>2, OrderedKept DEF Watcher, Watch, Judge, CancelObsolete, GuardEnds, Aside,
                             vars, feed, worker, settings, Current
  <1> QED BY <1>1, <1>2, OrderedCallers, OrderedObserve, OrderedLook, OrderedChoose, OrderedBegin
          DEF Next

(* Calls are attempted in the detector's order and never twice in one      *)
(* configuration, however stale the snapshot they were chosen from.        *)
THEOREM CallsInOrder == Spec => AttemptsAdvance
  <1> DEFINE Advance ==
        active = Nothing /\ active' # Nothing /\ active'.event.kind = "CALL"
          => active'.event.id[2] > attempted
  <1>1. Init => IType /\ Ordered
    BY TypeInit DEF Init, Feed!Init, Ordered, MailboxIsLast, SeenIsOlder, HeldIsBetween,
                    AttemptIsSeen, BeginIsNew
  <1>2. ASSUME IType, Ordered, [Next]_vars PROVE Advance
    <2>1. SUFFICES ASSUME active = Nothing, active' # Nothing, active'.event.kind = "CALL"
                   PROVE  active'.event.id[2] > attempted
      OBVIOUS
    <2>2. Begin /\ Current /\ active'.event = event
      BY <1>2, <2>1, PlaybackMoves
    <2>3. attempted < event.id[2]
      BY <1>2, <2>1, <2>2 DEF Begin, Ordered, BeginIsNew
    <2>4. attempted \in Nat /\ event.id[2] \in Nat
      BY <1>2, <2>1, <2>2, IdFields DEF IType, TypeOK, Locals, Begin, Events
    <2> QED BY <2>2, <2>3, <2>4
  <1>3. IType /\ Ordered /\ [Next]_vars => [Advance]_vars
    BY <1>2
  <1> QED BY <1>1, <1>3, TypeNext, OrderedStep, PTL DEF Spec, AttemptsAdvance
=============================================================================
