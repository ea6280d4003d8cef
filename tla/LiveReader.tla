----------------------------- MODULE LiveReader -----------------------------
(***************************************************************************)
(* AppState, the SDK reader that feeds it and the analysis lane that       *)
(* publishes into it: live_app.py.                                         *)
(*                                                                         *)
(* Three kinds of thread meet in AppState.  The reader connects, polls and *)
(* lets go; every change of connection opens a new generation.  The lane   *)
(* (a FrameWorker around _LiveAnalysis) works through frames it was given, *)
(* possibly long after their connection has gone.  Callers of the desktop  *)
(* configure a strategy or confirm a tyre service, which looks at the lane *)
(* before it takes the lock.  Whatever is derived from a connection is     *)
(* represented by the generation it was derived in, 0 for none.            *)
(***************************************************************************)
EXTENDS Integers

CONSTANTS MaxGeneration,  \* bound on changes of connection
          MaxRevision,    \* bound on configurations
          QueueLimit      \* frames a lane may hold waiting

ASSUME BoundsAssumption == {MaxGeneration, MaxRevision, QueueLimit} \subseteq Nat

VARIABLES
    at,          \* where the reader is in run_reader
    handle,      \* the SDK handle: "none", "held", "lost"
    connectedOnce,
    stop,        \* the stop event
    generation, connection,
    updated,     \* age of the last publication: "none", "fresh", "old"
    shown,       \* the monitor and everything published with it
    strategy,    \* the configured assumptions
    revision,    \* _strategy_revision
    rejoin,      \* the revision the shown rejoin was computed for, or None
    command,     \* the tyre assertion waiting for the lane
    tire,        \* tire_confirmation_status
    lane,        \* the newest analysis worker
    active,      \* it belongs to the connection the reader holds
    asking       \* a caller between _worker_status and the lock

None == -1
reader == <<at, handle, connectedOnce>>
derived == <<updated, shown, strategy, revision, rejoin, command, tire>>
mailbox == <<generation, connection, derived>>
vars == <<reader, stop, mailbox, lane, active, asking>>

NoLane == [gen |-> 0, place |-> "gone", queued |-> 0, holds |-> 0, config |-> None,
           failed |-> FALSE, told |-> FALSE, closing |-> FALSE]
NewLane(g) == [NoLane EXCEPT !.gen = g, !.place = "starting"]
Idle == [kind |-> "none", gen |-> 0, failed |-> FALSE]

Init ==
    /\ at = "loop" /\ handle = "none" /\ connectedOnce = FALSE /\ stop = FALSE
    /\ generation = 0 /\ connection = "WAIT_SIM"
    /\ updated = "none" /\ shown = 0 /\ strategy = 0 /\ revision = 0 /\ rejoin = None
    /\ command = 0 /\ tire = "IDLE"
    /\ lane = NoLane /\ active = FALSE /\ asking = Idle

----------------------------------------------------------------------------
(* AppState: what happens under its lock.                                  *)

ClearStrategy == strategy' = 0 /\ revision' = revision + 1 /\ rejoin' = None
KeepStrategy == UNCHANGED <<strategy, revision, rejoin>>

Withdraw ==
    /\ updated' = "none" /\ shown' = 0 /\ command' = 0 /\ tire' = "IDLE"
    /\ ClearStrategy

Status(s) == connection' = s /\ generation' = generation + 1 /\ Withdraw

InvalidateAnalysis(g) ==
    /\ IF g = generation THEN Withdraw ELSE UNCHANGED derived
    /\ UNCHANGED <<generation, connection>>

----------------------------------------------------------------------------
(* The reader.                                                             *)

Go(a, b) == at = a /\ at' = b
Lanes == UNCHANGED <<stop, lane, active, asking>>

Open ==
    /\ Go("loop", "opening") /\ ~stop
    /\ generation + 3 <= MaxGeneration
    /\ handle' = "held" /\ active' = FALSE
    /\ UNCHANGED <<connectedOnce, stop, mailbox, lane, asking>>

(* SdkProbeUnavailable, or any other error before a connection was made.   *)
NotAvailable ==
    /\ \/ at = "loop" /\ ~stop /\ generation + 3 <= MaxGeneration /\ at' = "pause"
       \/ Go("opening", "release")
    /\ \E s \in {"DISCONNECTED", IF connectedOnce THEN "DISCONNECTED" ELSE "WAIT_SIM"} : Status(s)
    /\ active' = FALSE
    /\ UNCHANGED <<handle, connectedOnce, stop, lane, asking>>

Connect ==
    /\ Go("opening", "connected")
    /\ Status("CONNECTED") /\ connectedOnce' = TRUE
    /\ UNCHANGED handle /\ Lanes

(* A lane whose thread has not ended is not replaced; its owner is started *)
(* anew when it has.                                                       *)
LaneDone == lane.place = "gone"
StartAnalysis ==
    /\ \/ Go("connected", "up")
       \/ Go("up", "up") /\ ~stop /\ ~active
    /\ LaneDone
    /\ lane' = NewLane(generation) /\ active' = TRUE
    /\ UNCHANGED <<handle, connectedOnce, stop, mailbox, asking>>

KeepOldLane ==
    /\ Go("connected", "up") /\ ~LaneDone
    /\ UNCHANGED <<handle, connectedOnce, mailbox>> /\ Lanes

(* The detector may also refuse the tick rate it is started with.          *)
Disconnect ==
    /\ at \in {"connected", "up"} /\ at' = "release" /\ Status("DISCONNECTED")
    /\ UNCHANGED <<handle, connectedOnce>> /\ Lanes

(* One poll: the frame is queued, or refused as too late, too many or too  *)
(* large, which fails the lane and then tells AppState.                    *)
Healthy == ~lane.failed
Failing(l) == [l EXCEPT !.failed = TRUE, !.closing = TRUE, !.queued = 0]
Submit ==
    /\ at = "up" /\ ~stop /\ active /\ Healthy /\ ~lane.closing
    /\ \/ /\ lane.queued < QueueLimit
          /\ lane' = [lane EXCEPT !.queued = @ + 1] /\ UNCHANGED at
       \/ lane' = Failing(lane) /\ at' = "failing"
    /\ UNCHANGED <<handle, connectedOnce, stop, mailbox, active, asking>>

Tell == InvalidateAnalysis(lane.gen)
ReaderTells ==
    /\ Go("failing", "up") /\ Tell /\ lane' = [lane EXCEPT !.told = TRUE]
    /\ UNCHANGED <<handle, connectedOnce, stop, active, asking>>

SeeStop ==
    /\ Go("up", "release") /\ stop
    /\ UNCHANGED <<handle, connectedOnce, mailbox>> /\ Lanes

ClosedWhenOrderly == active /\ stop
Closed == active
CloseLanes ==
    /\ Go("release", "handover")
    /\ lane' = IF Closed THEN [lane EXCEPT !.closing = TRUE] ELSE lane
    /\ UNCHANGED <<handle, connectedOnce, stop, mailbox, active, asking>>

RetryAfterLoss == "pause"
AfterLoss == "join"
HandOver ==
    /\ at = "handover" /\ UNCHANGED connectedOnce /\ Lanes
    /\ \/ handle' = "none" /\ at' = "pause" /\ UNCHANGED mailbox
       \/ handle' = "lost" /\ at' = AfterLoss /\ Status("ERROR")

Pause ==
    /\ Go("pause", "loop") /\ UNCHANGED <<handle, connectedOnce, mailbox>> /\ Lanes

Leave ==
    /\ Go("loop", "join") /\ stop /\ Status("STOPPED")
    /\ UNCHANGED <<handle, connectedOnce>> /\ Lanes

End ==
    /\ Go("join", "ended") /\ LaneDone
    /\ UNCHANGED <<handle, connectedOnce, mailbox>> /\ Lanes

Reader ==
    \/ Open \/ NotAvailable \/ Connect \/ StartAnalysis \/ KeepOldLane \/ Submit
    \/ ReaderTells \/ Disconnect \/ SeeStop \/ CloseLanes \/ HandOver \/ Pause \/ Leave \/ End

----------------------------------------------------------------------------
(* The lane's thread: FrameWorker._run around _LiveAnalysis.process.       *)

At(a) == lane.place = a
Working == UNCHANGED <<reader, stop, active, asking>>
Fails(l, b) == [Failing(l) EXCEPT !.place = IF l.failed THEN b ELSE "telling"]

LaneStarts ==
    /\ At("starting") /\ Working /\ UNCHANGED mailbox
    /\ lane' \in {[lane EXCEPT !.place = "waiting"], Fails(lane, "ending")}

(* A frame is taken up; a progressed one takes the driver's assertion.     *)
TakeAssertion(g) == IF g = generation THEN command ELSE 0
LeaveAssertion(g) == IF g = generation THEN 0 ELSE command
TakeFrame ==
    /\ At("waiting") /\ lane.queued > 0 /\ Working
    /\ \/ /\ lane' = [lane EXCEPT !.queued = @ - 1, !.place = "busy", !.holds = TakeAssertion(lane.gen)]
          /\ command' = LeaveAssertion(lane.gen)
          /\ UNCHANGED <<generation, connection, updated, shown, strategy, revision, rejoin, tire>>
       \/ /\ lane' \in {[lane EXCEPT !.queued = @ - 1, !.place = "busy"], Fails(lane, "ending")}
          /\ UNCHANGED mailbox

CompleteAssertion ==
    /\ At("busy") /\ lane.holds # 0 /\ Working
    /\ lane' = [lane EXCEPT !.holds = 0]
    /\ tire' \in IF lane.gen = generation THEN {"APPLIED", "REJECTED"} ELSE {tire}
    /\ UNCHANGED <<generation, connection, updated, shown, strategy, revision, rejoin, command>>

(* A snapshot is due: the rejoin is projected with the strategy of now.    *)
StrategyInputs ==
    /\ At("busy") /\ lane.holds = 0 /\ Working /\ UNCHANGED mailbox
    /\ lane' = [lane EXCEPT !.config = revision, !.place = "ready"]

AfterFrame == IF lane.failed THEN "ending" ELSE "waiting"
AllowedHealthy == Healthy
AllowedCurrent == lane.gen = generation
Allowed == lane.gen = generation /\ Healthy
Kept(r) == IF lane.config = r THEN r ELSE None
Project(changed) ==
    IF strategy # 0 /\ changed
    THEN strategy' = 0 /\ revision' = revision + 1
    ELSE UNCHANGED <<strategy, revision>>
Publish ==
    /\ At("ready") /\ Working
    /\ lane' = [lane EXCEPT !.place = AfterFrame, !.config = None]
    /\ IF Allowed
       THEN /\ connection' = "CONNECTED" /\ updated' = "fresh" /\ shown' = lane.gen
            /\ \E changed \in {TRUE, updated = "old"} : Project(changed)
            /\ rejoin' = Kept(revision')
            /\ UNCHANGED <<generation, command, tire>>
       ELSE UNCHANGED mailbox

FrameEnds ==
    /\ At("busy") /\ lane.holds = 0 /\ Working /\ UNCHANGED mailbox
    /\ lane' = [lane EXCEPT !.place = AfterFrame]

Raises ==
    /\ lane.place \in {"busy", "ready"} /\ lane.holds = 0 /\ Working /\ UNCHANGED mailbox
    /\ lane' = Fails([lane EXCEPT !.config = None], "ending")

LaneTells ==
    /\ At("telling") /\ Tell /\ Working
    /\ lane' = [lane EXCEPT !.told = TRUE, !.place = "ending"]

Drained == At("waiting") /\ lane.closing /\ lane.queued = 0
LaneEnds ==
    /\ Drained \/ At("ending")
    /\ Working /\ UNCHANGED mailbox
    /\ lane' \in {[lane EXCEPT !.place = "gone"], Fails(lane, "gone")}

Lane ==
    \/ LaneStarts \/ TakeFrame \/ CompleteAssertion \/ StrategyInputs \/ Publish
    \/ FrameEnds \/ Raises \/ LaneTells \/ LaneEnds

----------------------------------------------------------------------------
(* The desktop's callers, and time.                                        *)

Others == UNCHANGED <<reader, generation, connection, lane, active>>

(* _worker_status takes the lane's lock, and gives it back, before the     *)
(* caller takes AppState's.                                                *)
WorkerStatus(k) ==
    /\ asking.kind = "none" /\ Others /\ UNCHANGED <<stop, derived>>
    /\ asking' = [kind |-> k, gen |-> lane.gen, failed |-> lane.failed]

LaneWas == asking.gen = 0 \/ (~asking.failed /\ asking.gen = generation)
SourceReady == connection = "CONNECTED" /\ updated = "fresh" /\ shown # 0 /\ LaneWas
Answer(k) == asking.kind = k /\ asking' = Idle /\ Others /\ UNCHANGED stop

ConfigureStrategy ==
    /\ Answer("strategy") /\ UNCHANGED <<updated, shown, command, tire>>
    /\ IF SourceReady /\ revision < MaxRevision
       THEN strategy' = generation /\ revision' = revision + 1 /\ rejoin' = None
       ELSE KeepStrategy

ForgetStrategy ==
    /\ Answer("strategy") /\ strategy # 0 /\ ClearStrategy
    /\ UNCHANGED <<updated, shown, command, tire>>

ConfirmTireService ==
    /\ Answer("tire") /\ UNCHANGED <<updated, shown>> /\ KeepStrategy
    /\ IF SourceReady /\ command = 0 /\ tire # "QUEUED"
       THEN command' = generation /\ tire' = "QUEUED"
       ELSE UNCHANGED <<command, tire>>

(* snapshot() of an outdated publication forgets the strategy for good.    *)
Snapshot ==
    /\ connection = "CONNECTED" /\ updated # "fresh" /\ strategy # 0
    /\ ClearStrategy
    /\ Others /\ UNCHANGED <<stop, updated, shown, command, tire, asking>>

Age ==
    /\ updated = "fresh" /\ updated' = "old"
    /\ Others /\ KeepStrategy /\ UNCHANGED <<stop, shown, command, tire, asking>>

Stop ==
    /\ ~stop /\ stop' = TRUE /\ Others /\ UNCHANGED <<derived, asking>>

Finished == at = "ended" /\ UNCHANGED vars

Next ==
    \/ Reader \/ Lane \/ \E k \in {"strategy", "tire"} : WorkerStatus(k)
    \/ ConfigureStrategy \/ ForgetStrategy \/ ConfirmTireService \/ Snapshot \/ Age \/ Stop
    \/ Finished

(* Both threads keep running: what they wait for is bounded (SDK calls and *)
(* one frame's analysis end), and nothing is assumed of the callers.       *)
Spec == Init /\ [][Next]_vars
FairSpec == Spec /\ WF_vars(Reader) /\ WF_vars(Lane)

----------------------------------------------------------------------------
(* Properties                                                              *)

Places == {"starting", "waiting", "busy", "ready", "telling", "ending", "gone"}
LaneType ==
    [gen : Nat, place : Places, queued : 0..QueueLimit, holds : Nat,
     config : Nat \cup {None}, failed : BOOLEAN, told : BOOLEAN, closing : BOOLEAN]

(* Every variable keeps its type; a lane never holds more than its limit.  *)
TypeOK ==
    /\ at \in {"loop", "opening", "connected", "up", "failing", "release", "handover", "pause",
              "join", "ended"}
    /\ handle \in {"none", "held", "lost"}
    /\ {connectedOnce, stop, active} \subseteq BOOLEAN
    /\ generation \in Nat
    /\ connection \in {"WAIT_SIM", "CONNECTED", "DISCONNECTED", "ERROR", "STOPPED"}
    /\ updated \in {"none", "fresh", "old"}
    /\ {shown, strategy, command} \subseteq Nat
    /\ revision \in Nat /\ rejoin \in Nat \cup {None}
    /\ tire \in {"IDLE", "QUEUED", "APPLIED", "REJECTED"}
    /\ lane \in LaneType
    /\ asking \in [kind : {"none", "strategy", "tire"}, gen : Nat, failed : BOOLEAN]

(* What AppState shows, assumes or has queued comes from the connection it *)
(* has now, however late the lane of an earlier one publishes or a caller  *)
(* acts on an earlier look at it; and CONNECTED is only said while the     *)
(* reader owns the SDK, but for the moment of an orderly stop.             *)
OnlyCurrent ==
    /\ {shown, strategy, command} \subseteq {0, generation}
    /\ shown # 0 => connection = "CONNECTED"
    /\ lane.holds \in {0, lane.gen}
    /\ connection = "CONNECTED" => handle = "held" \/ stop

(* Once a failed lane has told AppState, nothing of what it published, and *)
(* no assumption or assertion made on it, is left or can come back until   *)
(* there is another lane: publish asks the worker under AppState's lock.   *)
FailedIsWithdrawn ==
    lane.told /\ lane.gen = generation => shown = 0 /\ strategy = 0 /\ command = 0 /\ rejoin = None

(* The rejoin projection that is shown was computed with the assumptions   *)
(* that are shown with it, although both may change while it is computed.  *)
RejoinMatches == rejoin \in {None, revision}

(* What a snapshot shows belongs together: one connection, one set of      *)
(* assumptions.                                                            *)
ShownIsCurrent == OnlyCurrent /\ RejoinMatches

(* run_reader owns the SDK the way its lease says.                         *)
Lease == INSTANCE ReaderLease WITH phase <- IF at = "ended" THEN "ended" ELSE "running"
ImplementsLease == Lease!Spec

(* A stopped reader ends, and its lane with it, wherever they were.        *)
Ends == stop ~> (at = "ended" /\ LaneDone)
=============================================================================
