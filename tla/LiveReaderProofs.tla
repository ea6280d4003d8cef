-------------------------- MODULE LiveReaderProofs --------------------------
(***************************************************************************)
(* Proofs about LiveReader, for every bound.  The order of the argument:   *)
(* types; then where the reader may be when it owns the SDK, when AppState *)
(* says CONNECTED and when the lane is the one of this generation (Place); *)
(* then what AppState shows (Shown).  The lease follows from Place.        *)
(***************************************************************************)
EXTENDS LiveReader, TLAPS

Bound == {"opening", "connected", "up", "failing", "release", "handover"}

\* Where the reader is says whether it owns the SDK; a lane of the present
\* generation, and the word CONNECTED, do not outlive the connection
\* unless the reader is told to stop.
Place ==
    /\ at \in Bound => handle = "held"
    /\ at \in {"loop", "pause"} => handle = "none"
    /\ at \in {"join", "ended"} => handle # "held"
    /\ at \in {"connected", "up", "failing"} => generation # 0
    /\ connection = "CONNECTED" => at \in {"connected", "up", "failing"} \/ stop
    /\ lane.gen <= generation
    /\ lane.gen = 0 => lane.place = "gone"
    /\ lane.gen # 0 /\ lane.gen = generation => at \in {"up", "failing"} \/ stop
    /\ at = "failing" => lane.failed
    /\ lane.place = "telling" => lane.failed
    /\ lane.told => lane.failed

Shown ==
    /\ {shown, strategy, command} \subseteq {0, generation}
    /\ shown # 0 => connection = "CONNECTED"
    /\ lane.holds \in {0, lane.gen}

Step == [Next]_vars

-----------------------------------------------------------------------------

LEMMA Limit == QueueLimit \in Nat /\ 0 \in 0..QueueLimit
  BY BoundsAssumption

LEMMA NewLaneType == NoLane \in LaneType /\ \A g \in Nat : NewLane(g) \in LaneType
  BY Limit DEF NoLane, NewLane, LaneType, Places, None

LEMMA InitType == Init => TypeOK
<1> SUFFICES ASSUME Init PROVE TypeOK
  OBVIOUS
<1>1. {connectedOnce, stop, active} \subseteq BOOLEAN /\ lane \in LaneType
  BY NewLaneType DEF Init
<1>2. {shown, strategy, command} \subseteq Nat /\ generation \in Nat /\ revision \in Nat
  BY DEF Init
<1>3. asking \in [kind : {"none", "strategy", "tire"}, gen : Nat, failed : BOOLEAN]
  BY DEF Init, Idle
<1> QED BY <1>1, <1>2, <1>3 DEF Init, TypeOK

\* Every lane the code makes from another is a lane.
LEMMA LaneForms ==
  ASSUME NEW l \in LaneType
  PROVE  /\ Failing(l) \in LaneType
         /\ \A b \in Places : Fails(l, b) \in LaneType /\ [l EXCEPT !.place = b] \in LaneType
         /\ [l EXCEPT !.told = TRUE] \in LaneType
         /\ [l EXCEPT !.closing = TRUE] \in LaneType
         /\ [l EXCEPT !.config = None] \in LaneType
         /\ \A n \in Nat : [l EXCEPT !.holds = n] \in LaneType
         /\ \A n \in Nat, b \in Places : [l EXCEPT !.config = n, !.place = b] \in LaneType
<1> USE Limit DEF LaneType, Places
<1>1. Failing(l) \in LaneType
  BY DEF Failing
<1>2. ASSUME NEW b \in Places PROVE [l EXCEPT !.place = b] \in LaneType
  OBVIOUS
<1>3. ASSUME NEW b \in Places PROVE Fails(l, b) \in LaneType
  <2>1. Failing(l).place = l.place
    BY DEF Failing
  <2> QED BY <1>1 DEF Fails
<1>4. [l EXCEPT !.told = TRUE] \in LaneType /\ [l EXCEPT !.closing = TRUE] \in LaneType
  OBVIOUS
<1>5. [l EXCEPT !.config = None] \in LaneType
  OBVIOUS
<1>6. \A n \in Nat : [l EXCEPT !.holds = n] \in LaneType
  OBVIOUS
<1>7. \A n \in Nat, b \in Places : [l EXCEPT !.config = n, !.place = b] \in LaneType
  OBVIOUS
<1> HIDE DEF LaneType, Places
<1> QED BY <1>1, <1>2, <1>3, <1>4, <1>5, <1>6, <1>7

\* The reader's steps, one at a time.
LEMMA ReaderType == TypeOK /\ Reader => TypeOK'
<1> SUFFICES ASSUME TypeOK, Reader PROVE TypeOK'
  OBVIOUS
<1> USE Limit DEF TypeOK, Go, Lanes, mailbox, derived, reader, Status, Withdraw,
     ClearStrategy, None
<1>1. CASE Open
  BY <1>1 DEF Open
<1>2. CASE NotAvailable
  <2>1. connection' \in {"DISCONNECTED", "WAIT_SIM"}
    BY <1>2 DEF NotAvailable
  <2>2. /\ generation' = generation + 1 /\ revision' = revision + 1
        /\ updated' = "none" /\ shown' = 0 /\ command' = 0 /\ tire' = "IDLE"
        /\ strategy' = 0 /\ rejoin' = None
    BY <1>2 DEF NotAvailable
  <2>3. at' \in {"pause", "release"} /\ active' = FALSE
    BY <1>2 DEF NotAvailable
  <2>4. UNCHANGED <<handle, connectedOnce, stop, lane, asking>>
    BY <1>2 DEF NotAvailable
  <2>5. {connectedOnce', stop', active'} \subseteq BOOLEAN
    BY <2>3, <2>4
  <2> QED BY <2>1, <2>2, <2>3, <2>4, <2>5
<1>3. CASE Connect
  BY <1>3 DEF Connect
<1>4. CASE StartAnalysis
  <2>1. lane' \in LaneType
    BY <1>4, NewLaneType DEF StartAnalysis
  <2> QED BY <1>4, <2>1 DEF StartAnalysis
<1>5. CASE KeepOldLane
  BY <1>5 DEF KeepOldLane
<1>6. CASE Submit
  <2>1. lane' \in LaneType
    <3>1. CASE lane' = Failing(lane)
      BY <3>1, LaneForms
    <3>2. CASE lane.queued < QueueLimit /\ lane' = [lane EXCEPT !.queued = @ + 1]
      BY <3>2 DEF LaneType
    <3> QED BY <1>6, <3>1, <3>2 DEF Submit
  <2> QED BY <1>6, <2>1 DEF Submit
<1>7. CASE ReaderTells
  <2>1. lane' \in LaneType
    BY <1>7, LaneForms DEF ReaderTells
  <2> QED BY <1>7, <2>1 DEF ReaderTells, Tell, InvalidateAnalysis
<1>8. CASE Disconnect
  BY <1>8 DEF Disconnect
<1>9. CASE SeeStop
  BY <1>9 DEF SeeStop
<1>10. CASE CloseLanes
  <2>1. lane' \in LaneType
    BY <1>10, LaneForms DEF CloseLanes
  <2> QED BY <1>10, <2>1 DEF CloseLanes
<1>11. CASE HandOver
  BY <1>11 DEF HandOver, AfterLoss
<1>12. CASE Pause
  BY <1>12 DEF Pause
<1>13. CASE Leave
  BY <1>13 DEF Leave
<1>14. CASE End
  BY <1>14 DEF End
<1> QED BY <1>1, <1>2, <1>3, <1>4, <1>5, <1>6, <1>7, <1>8, <1>9, <1>10, <1>11, <1>12,
           <1>13, <1>14 DEF Reader

\* The lane's steps.
LEMMA LaneTypes == TypeOK /\ Lane => TypeOK'
<1> SUFFICES ASSUME TypeOK, Lane PROVE TypeOK'
  OBVIOUS
<1> USE Limit DEF TypeOK, Working, mailbox, derived, reader, At
<1>0. \A b \in Places : Fails(lane, b) \in LaneType
  BY LaneForms
<1>1. CASE LaneStarts
  <2>1. lane' \in LaneType
    BY <1>1, <1>0, LaneForms DEF LaneStarts, Places
  <2> QED BY <1>1, <2>1 DEF LaneStarts
<1>2. CASE TakeFrame
  <2>1. lane' \in LaneType
    <3>1. CASE lane' = Fails(lane, "ending")
      BY <3>1, <1>0 DEF Places
    <3>2. ASSUME NEW h \in Nat, lane.queued > 0
          PROVE  [lane EXCEPT !.queued = @ - 1, !.place = "busy", !.holds = h] \in LaneType
      <4>1. lane.queued - 1 \in 0..QueueLimit
        BY <3>2 DEF LaneType
      <4> QED BY <4>1 DEF LaneType, Places
    <3>3. CASE lane.queued > 0 /\ lane' = [lane EXCEPT !.queued = @ - 1, !.place = "busy"]
      <4>1. lane.queued - 1 \in 0..QueueLimit
        BY <3>3 DEF LaneType
      <4> QED BY <3>3, <4>1 DEF LaneType, Places
    <3>4. TakeAssertion(lane.gen) \in Nat
      BY DEF TakeAssertion
    <3> QED BY <1>2, <3>1, <3>2, <3>3, <3>4 DEF TakeFrame
  <2>2. command' \in Nat
    BY <1>2 DEF TakeFrame, LeaveAssertion
  <2> QED BY <1>2, <2>1, <2>2 DEF TakeFrame
<1>3. CASE CompleteAssertion
  <2>1. lane' \in LaneType
    BY <1>3, LaneForms DEF CompleteAssertion
  <2> QED BY <1>3, <2>1 DEF CompleteAssertion
<1>4. CASE StrategyInputs
  <2>1. lane' \in LaneType
    BY <1>4, LaneForms DEF StrategyInputs, Places
  <2> QED BY <1>4, <2>1 DEF StrategyInputs
<1>5. CASE Publish
  <2>1. lane' \in LaneType
    BY <1>5 DEF Publish, AfterFrame, LaneType, Places, None
  <2>2. lane.gen \in Nat
    BY DEF LaneType
  <2>3. strategy' \in Nat /\ revision' \in Nat
    BY <1>5 DEF Publish, Project
  <2>4. rejoin' \in Nat \cup {None}
    BY <1>5, <2>3 DEF Publish, Kept, LaneType
  <2>5. /\ connection' \in {connection, "CONNECTED"} /\ updated' \in {updated, "fresh"}
        /\ shown' \in {shown, lane.gen}
        /\ UNCHANGED <<generation, command, tire>>
    BY <1>5 DEF Publish
  <2> QED BY <1>5, <2>1, <2>2, <2>3, <2>4, <2>5 DEF Publish
<1>6. CASE FrameEnds
  <2>1. lane' \in LaneType
    BY <1>6, LaneForms DEF FrameEnds, AfterFrame, Places
  <2> QED BY <1>6, <2>1 DEF FrameEnds
<1>7. CASE Raises
  <2>1. lane' \in LaneType
    BY <1>7, LaneForms DEF Raises, Places
  <2> QED BY <1>7, <2>1 DEF Raises
<1>8. CASE LaneTells
  <2>1. lane' \in LaneType
    BY <1>8 DEF LaneTells, LaneType, Places
  <2> QED BY <1>8, <2>1 DEF LaneTells, Tell, InvalidateAnalysis, Withdraw, ClearStrategy, None
<1>9. CASE LaneEnds
  <2>1. lane' \in LaneType
    BY <1>9, <1>0, LaneForms DEF LaneEnds, Places
  <2> QED BY <1>9, <2>1 DEF LaneEnds
<1> QED BY <1>1, <1>2, <1>3, <1>4, <1>5, <1>6, <1>7, <1>8, <1>9 DEF Lane

\* What is left: the callers, time and the stop event.
Caller ==
    \/ \E k \in {"strategy", "tire"} : WorkerStatus(k)
    \/ ConfigureStrategy \/ ForgetStrategy \/ ConfirmTireService \/ Snapshot \/ Age \/ Stop

LEMMA CallerType == TypeOK /\ Caller => TypeOK'
<1> SUFFICES ASSUME TypeOK, Caller PROVE TypeOK'
  OBVIOUS
<1> USE DEF TypeOK, Others, Answer, KeepStrategy, ClearStrategy, derived, reader, Idle, None
<1>1. ASSUME NEW k \in {"strategy", "tire"}, WorkerStatus(k) PROVE TypeOK'
  BY <1>1 DEF WorkerStatus, LaneType
<1>2. CASE ConfigureStrategy
  BY <1>2 DEF ConfigureStrategy
<1>3. CASE ForgetStrategy
  BY <1>3 DEF ForgetStrategy
<1>4. CASE ConfirmTireService
  BY <1>4 DEF ConfirmTireService
<1>5. CASE Snapshot
  BY <1>5 DEF Snapshot
<1>6. CASE Age
  BY <1>6 DEF Age
<1>7. CASE Stop
  BY <1>7 DEF Stop
<1> QED BY <1>1, <1>2, <1>3, <1>4, <1>5, <1>6, <1>7 DEF Caller

LEMMA StepKinds == Step <=> Reader \/ Lane \/ Caller \/ UNCHANGED vars
  BY DEF Step, Next, Caller, Finished

\* Every variable keeps its type in every behaviour of the reader, its
\* lane and the desktop's callers (live_app.py).
THEOREM TypeCorrect == Spec => []TypeOK
<1>1. TypeOK /\ UNCHANGED vars => TypeOK'
  BY DEF TypeOK, vars, reader, mailbox, derived
<1>2. TypeOK /\ Step => TypeOK'
  BY <1>1, ReaderType, LaneTypes, CallerType, StepKinds
<1> QED BY <1>2, InitType, PTL DEF Spec, Step

-----------------------------------------------------------------------------

Unmoved == UNCHANGED <<reader, stop, generation, connection>>

\* A step of the lane changes neither its generation nor, but for a failure,
\* its flags, and it is never gone before it was there.
LaneStep ==
    /\ lane.place # "gone"
    /\ lane'.gen = lane.gen
    /\ lane.failed => lane'.failed
    /\ lane'.place = "telling" => lane'.failed
    /\ lane'.told => lane.told \/ lane.place = "telling"

LEMMA LaneKeeps == TypeOK /\ Lane => LaneStep
<1> SUFFICES ASSUME TypeOK, Lane PROVE LaneStep
  OBVIOUS
<1> USE DEF TypeOK, LaneType, LaneStep, At, Places
<1>0. ASSUME NEW b \in {"ending", "gone"}
      PROVE  LET l == Fails(lane, b)
             IN  /\ l.gen = lane.gen /\ l.failed /\ l.told = lane.told
  BY <1>0 DEF Fails, Failing
<1>1. CASE LaneStarts
  BY <1>1, <1>0 DEF LaneStarts
<1>2. CASE TakeFrame
  BY <1>2, <1>0 DEF TakeFrame
<1>3. CASE CompleteAssertion
  BY <1>3 DEF CompleteAssertion
<1>4. CASE StrategyInputs
  BY <1>4 DEF StrategyInputs
<1>5. CASE Publish
  BY <1>5 DEF Publish, AfterFrame
<1>6. CASE FrameEnds
  BY <1>6 DEF FrameEnds, AfterFrame
<1>7. CASE Raises
  BY <1>7 DEF Raises, Fails, Failing
<1>8. CASE LaneTells
  BY <1>8 DEF LaneTells
<1>9. CASE LaneEnds
  BY <1>9, <1>0 DEF LaneEnds, Drained
<1> QED BY <1>1, <1>2, <1>3, <1>4, <1>5, <1>6, <1>7, <1>8, <1>9 DEF Lane

\* The lane leaves the connection alone, but that a publication of the
\* present generation says CONNECTED again.
LEMMA LaneConnection ==
  TypeOK /\ Lane =>
    /\ UNCHANGED <<reader, stop, generation, active>>
    /\ connection' = connection \/ (connection' = "CONNECTED" /\ lane.gen = generation)
  BY DEF Lane, LaneStarts, TakeFrame, CompleteAssertion, StrategyInputs, Publish, FrameEnds,
     Raises, LaneTells, LaneEnds, Working, mailbox, Allowed, Tell, InvalidateAnalysis, At

LEMMA InitPlace == Init => Place
  BY DEF Init, Place, NoLane, Bound

LEMMA ReaderPlace == TypeOK /\ Place /\ Reader => Place'
<1> SUFFICES ASSUME TypeOK, Place, Reader PROVE Place'
  OBVIOUS
<1> USE DEF TypeOK, Place, Bound, Go, Lanes, mailbox, LaneType
<1>1. CASE Open
  BY <1>1 DEF Open
<1>2. CASE NotAvailable
  <2>1. generation' = generation + 1 /\ connection' # "CONNECTED"
    BY <1>2 DEF NotAvailable, Status
  <2>2. UNCHANGED <<handle, connectedOnce, stop, lane>>
    BY <1>2 DEF NotAvailable
  <2>3. (at = "loop" /\ at' = "pause") \/ (at = "opening" /\ at' = "release")
    BY <1>2 DEF NotAvailable
  <2> QED BY <2>1, <2>2, <2>3
<1>3. CASE Connect
  BY <1>3 DEF Connect, Status
<1>4. CASE StartAnalysis
  <2>1. lane'.gen = generation /\ lane'.place = "starting" /\ ~lane'.told
    BY <1>4 DEF StartAnalysis, NewLane, NoLane
  <2>2. at \in {"connected", "up"} /\ at' = "up" /\ UNCHANGED <<handle, stop, generation, connection>>
    BY <1>4 DEF StartAnalysis
  <2> QED BY <2>1, <2>2
<1>5. CASE KeepOldLane
  BY <1>5 DEF KeepOldLane
<1>6. CASE Submit
  <2>1. lane'.gen = lane.gen /\ lane'.place = lane.place /\ lane'.told = lane.told
    BY <1>6 DEF Submit, Failing
  <2>2. (at' = at /\ lane'.failed = lane.failed) \/ (at' = "failing" /\ lane'.failed)
    BY <1>6 DEF Submit, Failing
  <2>3. at = "up" /\ UNCHANGED <<handle, stop, generation, connection>>
    BY <1>6 DEF Submit
  <2> QED BY <2>1, <2>2, <2>3
<1>7. CASE ReaderTells
  <2>1. lane'.gen = lane.gen /\ lane'.place = lane.place /\ lane'.failed = lane.failed
    BY <1>7 DEF ReaderTells
  <2>2. at = "failing" /\ at' = "up" /\ UNCHANGED <<handle, stop, generation, connection>>
    BY <1>7 DEF ReaderTells, Tell, InvalidateAnalysis
  <2> QED BY <2>1, <2>2
<1>8. CASE Disconnect
  BY <1>8 DEF Disconnect, Status
<1>9. CASE SeeStop
  BY <1>9 DEF SeeStop
<1>10. CASE CloseLanes
  <2>1. lane'.gen = lane.gen /\ lane'.place = lane.place /\ lane'.failed = lane.failed
        /\ lane'.told = lane.told
    BY <1>10 DEF CloseLanes
  <2>2. at = "release" /\ at' = "handover" /\ UNCHANGED <<handle, stop, generation, connection>>
    BY <1>10 DEF CloseLanes
  <2> QED BY <2>1, <2>2
<1>11. CASE HandOver
  <2>1. CASE handle' = "none" /\ at' = "pause" /\ UNCHANGED <<generation, connection>>
    BY <1>11, <2>1 DEF HandOver
  <2>2. CASE handle' = "lost" /\ at' = "join" /\ Status("ERROR")
    BY <1>11, <2>2 DEF HandOver, Status
  <2> QED BY <1>11, <2>1, <2>2 DEF HandOver, AfterLoss
<1>12. CASE Pause
  BY <1>12 DEF Pause
<1>13. CASE Leave
  BY <1>13 DEF Leave, Status
<1>14. CASE End
  BY <1>14 DEF End
<1> QED BY <1>1, <1>2, <1>3, <1>4, <1>5, <1>6, <1>7, <1>8, <1>9, <1>10, <1>11, <1>12,
           <1>13, <1>14 DEF Reader

LEMMA LanePlace == TypeOK /\ Place /\ Lane => Place'
<1> SUFFICES ASSUME TypeOK, Place, Lane PROVE Place'
  OBVIOUS
<1>1. LaneStep
  BY LaneKeeps
<1>2. /\ UNCHANGED <<at, handle, stop, generation>>
      /\ connection' = connection \/ (connection' = "CONNECTED" /\ lane.gen = generation)
  BY LaneConnection DEF reader
<1>3. lane.gen # 0
  BY <1>1 DEF LaneStep, Place
<1> QED BY <1>1, <1>2, <1>3 DEF Place, LaneStep, Bound, TypeOK

LEMMA CallerPlace == Place /\ Caller => Place'
  BY DEF Place, Bound, Caller, WorkerStatus, ConfigureStrategy, ForgetStrategy,
     ConfirmTireService, Snapshot, Age, Stop, Answer, Others, reader

LEMMA StepPlace == TypeOK /\ Place /\ Step => Place'
<1>1. Place /\ UNCHANGED vars => Place'
  BY DEF Place, Bound, vars, reader, mailbox
<1> QED BY <1>1, ReaderPlace, LanePlace, CallerPlace, StepKinds

THEOREM PlaceHolds == Spec => []Place
  BY TypeCorrect, InitPlace, StepPlace, PTL DEF Spec, Step

-----------------------------------------------------------------------------

LEMMA InitShown == Init => Shown
  BY DEF Init, Shown, NoLane

LEMMA ReaderShown == TypeOK /\ Place /\ Shown /\ Reader => Shown'
<1> SUFFICES ASSUME TypeOK, Place, Shown, Reader PROVE Shown'
  OBVIOUS
<1> USE DEF Shown, Lanes, mailbox, derived
<1>1. CASE Connect \/ Disconnect \/ Leave
  BY <1>1 DEF Connect, Disconnect, Leave, Status, Withdraw, ClearStrategy
<1>2. CASE NotAvailable
  <2>1. shown' = 0 /\ strategy' = 0 /\ command' = 0 /\ lane' = lane
    BY <1>2 DEF NotAvailable, Status, Withdraw, ClearStrategy
  <2> QED BY <2>1
<1>3. CASE Open \/ KeepOldLane \/ SeeStop \/ Pause \/ End
  BY <1>3 DEF Open, KeepOldLane, SeeStop, Pause, End
<1>4. CASE StartAnalysis
  BY <1>4 DEF StartAnalysis, NewLane, NoLane
<1>5. CASE Submit
  <2>1. lane'.holds = lane.holds /\ lane'.gen = lane.gen
    BY <1>5 DEF Submit, Failing, TypeOK, LaneType
  <2> QED BY <1>5, <2>1 DEF Submit
<1>6. CASE CloseLanes
  <2>1. lane'.holds = lane.holds /\ lane'.gen = lane.gen
    BY <1>6 DEF CloseLanes, TypeOK, LaneType
  <2> QED BY <1>6, <2>1 DEF CloseLanes
<1>7. CASE ReaderTells
  <2>1. lane'.holds = lane.holds /\ lane'.gen = lane.gen
    BY <1>7 DEF ReaderTells, TypeOK, LaneType
  <2> QED BY <1>7, <2>1 DEF ReaderTells, Tell, InvalidateAnalysis, Withdraw, ClearStrategy
<1>8. CASE HandOver
  BY <1>8 DEF HandOver, Status, Withdraw, ClearStrategy
<1> QED BY <1>1, <1>2, <1>3, <1>4, <1>5, <1>6, <1>7, <1>8 DEF Reader

LEMMA LaneShown == TypeOK /\ Place /\ Shown /\ Lane => Shown'
<1> SUFFICES ASSUME TypeOK, Place, Shown, Lane PROVE Shown'
  OBVIOUS
<1>1. lane'.gen = lane.gen /\ generation' = generation
  BY LaneKeeps, LaneConnection DEF LaneStep
<1>2. connection = "CONNECTED" => connection' = "CONNECTED"
  BY LaneConnection
<1>3. \A b \in {"ending", "gone"} : Fails(lane, b).holds = lane.holds
  BY DEF TypeOK, LaneType, Fails, Failing
<1> USE DEF Shown, TypeOK, LaneType, mailbox, derived
<1>4. CASE LaneStarts \/ StrategyInputs \/ FrameEnds \/ LaneEnds
  BY <1>1, <1>2, <1>3, <1>4 DEF LaneStarts, StrategyInputs, FrameEnds, LaneEnds
<1>5. CASE Raises
  BY <1>1, <1>2, <1>5 DEF Raises, Fails, Failing
<1>6. CASE TakeFrame
  <2>1. lane'.holds \in {0, lane.gen}
    BY <1>3, <1>6 DEF TakeFrame, TakeAssertion
  <2>2. command' \in {0, command} /\ UNCHANGED <<shown, strategy>>
    BY <1>6 DEF TakeFrame, LeaveAssertion
  <2> QED BY <1>1, <1>2, <2>1, <2>2
<1>7. CASE CompleteAssertion
  BY <1>1, <1>2, <1>7 DEF CompleteAssertion
<1>8. CASE Publish
  <2>1. lane'.holds = lane.holds
    BY <1>8 DEF Publish
  <2>2. shown' = shown \/ (shown' = generation /\ connection' = "CONNECTED")
    BY <1>8 DEF Publish, Allowed
  <2>3. strategy' \in {0, strategy} /\ command' = command
    BY <1>8 DEF Publish, Project
  <2> QED BY <1>1, <1>2, <2>1, <2>2, <2>3
<1>9. CASE LaneTells
  <2>1. lane'.holds = lane.holds
    BY <1>9 DEF LaneTells
  <2>2. UNCHANGED <<shown, strategy, command>> \/ (shown' = 0 /\ strategy' = 0 /\ command' = 0)
    BY <1>9 DEF LaneTells, Tell, InvalidateAnalysis, Withdraw, ClearStrategy
  <2> QED BY <1>1, <1>2, <2>1, <2>2
<1> QED BY <1>4, <1>5, <1>6, <1>7, <1>8, <1>9 DEF Lane

LEMMA CallerShown == Shown /\ Caller => Shown'
  BY DEF Shown, Caller, WorkerStatus, ConfigureStrategy, ForgetStrategy, ConfirmTireService,
     Snapshot, Age, Stop, Answer, Others, KeepStrategy, ClearStrategy, derived

LEMMA StepShown == TypeOK /\ Place /\ Shown /\ Step => Shown'
<1>1. Shown /\ UNCHANGED vars => Shown'
  BY DEF Shown, vars, mailbox, derived
<1> QED BY <1>1, ReaderShown, LaneShown, CallerShown, StepKinds

THEOREM ShownHolds == Spec => []Shown
  BY TypeCorrect, PlaceHolds, InitShown, StepShown, PTL DEF Spec, Step

\* What AppState shows, assumes or has queued is of the connection it has
\* now, and CONNECTED is only said while the reader owns the SDK or is
\* told to stop (live_app.py:526 and 570).
LEMMA CurrentOnly == Spec => []OnlyCurrent
<1>1. Place /\ Shown => OnlyCurrent
  BY DEF Place, Shown, OnlyCurrent, Bound
<1> QED BY <1>1, PlaceHolds, ShownHolds, PTL

-----------------------------------------------------------------------------

\* The rejoin that is shown goes with the assumptions shown beside it
\* (live_app.py:636).
LEMMA RejoinAgrees == Spec => []RejoinMatches
<1>1. Init => RejoinMatches
  BY DEF Init, RejoinMatches
<1>2. ASSUME RejoinMatches, Reader PROVE RejoinMatches'
  <2>1. UNCHANGED <<revision, rejoin>> \/ rejoin' = None
    <3>1. CASE Connect \/ Disconnect \/ Leave \/ NotAvailable
      BY <3>1 DEF Connect, Disconnect, Leave, NotAvailable, Status, Withdraw, ClearStrategy
    <3>2. CASE ~(Connect \/ Disconnect \/ Leave \/ NotAvailable)
      BY <1>2, <3>2 DEF Reader, Open, StartAnalysis, KeepOldLane, Submit, ReaderTells, SeeStop,
         CloseLanes, HandOver, Pause, End, Lanes, mailbox, derived, Status, Withdraw,
         ClearStrategy, Tell, InvalidateAnalysis
    <3> QED BY <3>1, <3>2
  <2> QED BY <1>2, <2>1 DEF RejoinMatches
<1>3. ASSUME RejoinMatches, Lane PROVE RejoinMatches'
  <2>1. CASE Publish /\ Allowed
    BY <2>1 DEF Publish, Kept, RejoinMatches
  <2>2. CASE ~(Publish /\ Allowed)
    BY <1>3, <2>2 DEF Lane, LaneStarts, TakeFrame, CompleteAssertion, StrategyInputs, Publish,
       FrameEnds, Raises, LaneTells, LaneEnds, mailbox, derived, Tell, InvalidateAnalysis,
       Withdraw, ClearStrategy, RejoinMatches
  <2> QED BY <2>1, <2>2
<1>4. ASSUME RejoinMatches, Caller PROVE RejoinMatches'
  BY <1>4 DEF RejoinMatches, Caller, WorkerStatus, ConfigureStrategy, ForgetStrategy,
     ConfirmTireService, Snapshot, Age, Stop, Answer, Others, KeepStrategy, ClearStrategy, derived
<1>5. RejoinMatches /\ UNCHANGED vars => RejoinMatches'
  BY DEF RejoinMatches, vars, mailbox, derived
<1>6. RejoinMatches /\ Step => RejoinMatches'
  BY <1>2, <1>3, <1>4, <1>5, StepKinds
<1> QED BY <1>1, <1>6, PTL DEF Spec, Step

\* What is shown is of one connection and of one set of assumptions.
THEOREM ShownBelongs == Spec => []ShownIsCurrent
<1>1. OnlyCurrent /\ RejoinMatches => ShownIsCurrent
  BY DEF ShownIsCurrent
<1> QED BY <1>1, CurrentOnly, RejoinAgrees, PTL

-----------------------------------------------------------------------------

Cleared == shown = 0 /\ strategy = 0 /\ command = 0 /\ rejoin = None

LEMMA StatusMoves == ASSUME NEW s, TypeOK, Status(s) PROVE generation' = generation + 1
  BY DEF Status

\* Telling AppState either clears it or is about an earlier generation.
LEMMA TellClears ==
  ASSUME Tell
  PROVE  generation' = generation /\ (lane.gen = generation => Cleared')
  BY DEF Tell, InvalidateAnalysis, Withdraw, ClearStrategy, Cleared

LEMMA ReaderWithdraws == TypeOK /\ Place /\ FailedIsWithdrawn /\ Reader => FailedIsWithdrawn'
<1> SUFFICES ASSUME TypeOK, Place, FailedIsWithdrawn, Reader, lane'.told, lane'.gen = generation'
             PROVE  Cleared'
  BY DEF FailedIsWithdrawn, Cleared
<1> USE DEF TypeOK, Lanes, mailbox, derived
<1>0. FailedIsWithdrawn <=> (lane.told /\ lane.gen = generation => Cleared)
  BY DEF FailedIsWithdrawn, Cleared
<1>1. CASE Connect \/ Disconnect \/ Leave \/ NotAvailable
  <2>1. generation' = generation + 1 /\ lane' = lane
    BY <1>1 DEF Connect, Disconnect, Leave, NotAvailable, Status
  <2> QED BY <2>1 DEF Place, LaneType
<1>2. CASE Open \/ KeepOldLane \/ SeeStop \/ Pause \/ End
  BY <1>0, <1>2 DEF Open, KeepOldLane, SeeStop, Pause, End, Cleared
<1>3. CASE StartAnalysis
  BY <1>3 DEF StartAnalysis, NewLane, NoLane
<1>4. CASE Submit \/ CloseLanes
  <2>1. lane'.told = lane.told /\ lane'.gen = lane.gen
    BY <1>4 DEF Submit, CloseLanes, Failing, LaneType
  <2> QED BY <1>0, <1>4, <2>1 DEF Submit, CloseLanes, Cleared
<1>5. CASE ReaderTells
  BY <1>5, TellClears DEF ReaderTells, LaneType
<1>6. CASE HandOver
  <2>1. CASE Status("ERROR") /\ lane' = lane
    BY <2>1 DEF Status, Place, LaneType
  <2>2. CASE UNCHANGED mailbox /\ lane' = lane
    BY <1>0, <2>2 DEF Cleared
  <2> QED BY <1>6, <2>1, <2>2 DEF HandOver
<1> QED BY <1>1, <1>2, <1>3, <1>4, <1>5, <1>6 DEF Reader

LEMMA LaneWithdraws == TypeOK /\ Place /\ FailedIsWithdrawn /\ Lane => FailedIsWithdrawn'
<1> SUFFICES ASSUME TypeOK, Place, FailedIsWithdrawn, Lane, lane'.told, lane'.gen = generation'
             PROVE  Cleared'
  BY DEF FailedIsWithdrawn, Cleared
<1>1. lane.gen = generation /\ (lane.told \/ lane.place = "telling")
  BY LaneKeeps, LaneConnection DEF LaneStep
<1>2. CASE LaneTells
  BY <1>1, <1>2, TellClears DEF LaneTells
<1>3. CASE ~LaneTells
  <2>1. lane.told
    <3>1. lane.place = "telling" /\ ~LaneTells => FALSE
      BY DEF Lane, LaneStarts, TakeFrame, CompleteAssertion, StrategyInputs, Publish, FrameEnds,
         Raises, LaneEnds, Drained, At
    <3> QED BY <1>1, <1>3, <3>1
  <2>2. Cleared /\ ~Healthy
    BY <1>1, <2>1 DEF FailedIsWithdrawn, Cleared, Place, Healthy
  <2>3. TakeFrame => Cleared'
    BY <1>1, <2>2 DEF TakeFrame, LeaveAssertion, Cleared, mailbox, derived
  <2>4. Publish => Cleared'
    BY <2>2 DEF Publish, Allowed, Cleared, mailbox, derived
  <2>5. LaneStarts \/ CompleteAssertion \/ StrategyInputs \/ FrameEnds \/ Raises \/ LaneEnds => Cleared'
    BY <2>2 DEF LaneStarts, CompleteAssertion, StrategyInputs, FrameEnds, Raises, LaneEnds,
       Cleared, mailbox, derived
  <2> QED BY <1>3, <2>3, <2>4, <2>5 DEF Lane
<1> QED BY <1>2, <1>3

LEMMA CallerWithdraws == FailedIsWithdrawn /\ Caller => FailedIsWithdrawn'
  BY DEF FailedIsWithdrawn, Caller, WorkerStatus, ConfigureStrategy, ForgetStrategy,
     ConfirmTireService, Snapshot, Age, Stop, Answer, Others, KeepStrategy, ClearStrategy,
     derived, SourceReady

\* Once a failed lane has told AppState, nothing it published and nothing
\* that was assumed on it comes back (live_app.py:530 and 576).
THEOREM FailureWithdraws == Spec => []FailedIsWithdrawn
<1>1. Init => FailedIsWithdrawn
  BY DEF Init, FailedIsWithdrawn, NoLane
<1>2. FailedIsWithdrawn /\ UNCHANGED vars => FailedIsWithdrawn'
  BY DEF FailedIsWithdrawn, vars, mailbox, derived
<1>3. TypeOK /\ Place /\ FailedIsWithdrawn /\ Step => FailedIsWithdrawn'
  BY <1>2, ReaderWithdraws, LaneWithdraws, CallerWithdraws, StepKinds
<1> QED BY <1>1, <1>3, TypeCorrect, PlaceHolds, PTL DEF Spec, Step

-----------------------------------------------------------------------------

Phase == IF at = "ended" THEN "ended" ELSE "running"

\* run_reader keeps its lease: one handle at a time, none after one that
\* was lost, and none in its hands when it ends (live_app.py:1284-1298).
THEOREM LeaseRefinement == Spec => ImplementsLease
<1> USE DEF Lease!rvars
<1>1. Init => Lease!Init
  BY DEF Init, Lease!Init
<1>2. ASSUME TypeOK, Place, Reader PROVE Lease!Next \/ UNCHANGED <<Phase, handle>>
  <2> USE DEF Place, Bound, TypeOK, Phase, Go, Lanes
  <2>1. CASE Open
    <3>1. Lease!Acquire
      BY <1>2, <2>1 DEF Open, Lease!Acquire
    <3> QED BY <3>1 DEF Lease!Next
  <2>2. CASE HandOver
    <3>1. CASE handle' = "none" /\ at' = "pause"
      <4>1. Lease!Release
        BY <1>2, <2>2, <3>1 DEF HandOver, Lease!Release
      <4> QED BY <4>1 DEF Lease!Next
    <3>2. CASE handle' = "lost" /\ at' = "join"
      <4>1. Lease!Lose
        BY <1>2, <2>2, <3>2 DEF HandOver, Lease!Lose
      <4> QED BY <4>1 DEF Lease!Next
    <3> QED BY <2>2, <3>1, <3>2 DEF HandOver, AfterLoss
  <2>3. CASE End
    <3>1. Lease!End
      BY <1>2, <2>3 DEF End, Lease!End
    <3> QED BY <3>1 DEF Lease!Next
  <2>4. CASE ~(Open \/ HandOver \/ End)
    <3>1. at # "ended" /\ at' # "ended" /\ handle' = handle
      BY <1>2, <2>4 DEF Reader, NotAvailable, Connect, StartAnalysis, KeepOldLane, Submit,
         ReaderTells, Disconnect, SeeStop, CloseLanes, Pause, Leave
    <3> QED BY <3>1
  <2> QED BY <2>1, <2>2, <2>3, <2>4
<1>3. TypeOK /\ Lane => UNCHANGED <<Phase, handle>>
  BY LaneConnection DEF reader, Phase
<1>4. Caller \/ UNCHANGED vars => UNCHANGED <<Phase, handle>>
  BY DEF Caller, WorkerStatus, ConfigureStrategy, ForgetStrategy, ConfirmTireService, Snapshot,
     Age, Stop, Answer, Others, vars, reader, Phase
<1>5. TypeOK /\ Place /\ Step => [Lease!Next]_(Lease!rvars)
  BY <1>2, <1>3, <1>4, StepKinds DEF Phase
<1> QED BY <1>1, <1>5, TypeCorrect, PlaceHolds, PTL DEF Spec, Step, ImplementsLease, Lease!Spec
=============================================================================
