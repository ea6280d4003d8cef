---------------------------- MODULE DesktopProofs ----------------------------
(***************************************************************************)
(* Proofs about DesktopController, for every bound.  Each of the four      *)
(* inductive invariants below rests on the types and on those above it:    *)
(* who may start a reader (Readers), what has been recorded (Recorded),    *)
(* the services and their requests (Services), and what a closing window   *)
(* has already seen to end (Closing).  The last two theorems state the     *)
(* conditions under which OneOwner and RecordsAsSet, which the code does   *)
(* not keep in every run, do hold.                                         *)
(***************************************************************************)
EXTENDS DesktopController, TLAPS

Step == [Next]_vars

\* Before the start there is no reader; a recording job that is past its
\* join has seen the reader end, and nobody else starts one.
Readers ==
    /\ OneReader
    /\ ~started => phase = "off" /\ handle = "none" /\ written = 0
    /\ Configuring /\ job.kind = "recording" => started
    /\ job.kind = "recording" /\ job.place \in {"trial", "switching"} => phase # "running"
    /\ phase # "running" => handle # "held"

\* What was recorded is what has been charged and what this reader wrote;
\* a reader that wrote anything has reported it to the worker that is
\* attached.
Recorded ==
    /\ BudgetKept
    /\ total <= charged + written
    /\ written # 0 => reported = written /\ directory

\* The service in use, and the one a job is about to put in its place or
\* has just replaced, are the only ones alive.
Pending == {"storing", "swapping", "undoing"}
Services ==
    /\ RequestsCarried
    /\ NewestWins
    /\ alive \subseteq {service} \cup
          (IF job.kind = "service" /\ job.place \in Pending THEN {job.id} ELSE {})
    /\ job.kind = "service" /\ job.place \in {"storing", "swapping"} => job.carried = used

Past == {"worker", "waiting", "trial", "closed"}
Closing ==
    /\ closer # "none" => closing
    /\ closer \in Past => service \notin alive
    /\ closer \in {"waiting", "trial", "closed"} => work.place # "answering"
    /\ closer \in {"trial", "closed"} => ~ReaderAlive /\ ~Configuring
    /\ closer = "closed" => trial = "none"

-----------------------------------------------------------------------------

Window ==
    \/ Start \/ SetRecording \/ CopySettings \/ Configure \/ LoadSession \/ Replay
    \/ AskLocal \/ AskModel \/ Close

LEMMA StepKinds ==
  Step <=> \/ ReaderStep \/ JobStep \/ CloserStep \/ TakeQuestion \/ GiveAnswer
           \/ Window \/ UNCHANGED vars
  BY DEF Step, Next, Window, Closed

LEMMA Bounds == Cap \in Nat /\ Cap > 0
  BY BoundsAssumption

LEMMA RemainingFits == ASSUME NEW c \in Nat PROVE Remaining(c) \in Nat /\ Remaining(c) <= Cap
  BY Bounds DEF Remaining

JobType ==
    [kind : {"none", "recording", "service", "replay"},
     place : {"done", "stopping", "joining", "trial", "switching", "saving",
              "building", "storing", "swapping", "undoing", "reading"},
     value : BOOLEAN, id : Nat, carried : Nat]

LEMMA InitType == Init => TypeOK
<1> SUFFICES ASSUME Init PROVE TypeOK
  OBVIOUS
<1>1. {started, closing, recording, stop, directory, trialFailed} \subseteq BOOLEAN
  BY DEF Init
<1>2. {readers, lost, written, reported, charged, total} \subseteq Nat
  BY DEF Init
<1>3. {service, used, sent, serial, answer} \subseteq Nat /\ alive \subseteq Nat
  BY DEF Init
<1>4. job \in JobType
  BY DEF Init, NoJob, JobType
<1>5. work \in [serial : Nat, place : {"idle", "queued", "answering"}]
  BY DEF Init, Rested
<1> QED BY <1>1, <1>2, <1>3, <1>4, <1>5 DEF Init, TypeOK, JobType

\* Starting a reader keeps the types of what it touches.
LEMMA StartType ==
  ASSUME TypeOK, NEW rec, NEW c \in Nat, StartReader(rec, c)
  PROVE  /\ phase' = "running" /\ handle' = "none" /\ stop' = FALSE
         /\ readers' \in Nat /\ lost' \in Nat /\ directory' \in BOOLEAN
         /\ written' = 0 /\ charged' = c /\ trial' \in {"none", "open"}
<1>1. readers \in Nat /\ lost \in Nat /\ trial \in {"none", "open"}
  BY DEF TypeOK
<1>2. readers' \in Nat /\ lost' \in Nat
  BY <1>1 DEF StartReader
<1>3. directory' \in BOOLEAN
  <2>1. directory' \in BOOLEAN \/ directory' \in {FALSE}
    <3>1. directory' \in (IF rec /\ Remaining(c) >= 1 THEN BOOLEAN ELSE {FALSE})
      BY DEF StartReader
    <3> HIDE DEF Remaining
    <3> QED BY Zenon, <3>1
  <2> QED BY <2>1
<1>4. trial' \in {"none", "open"}
  BY <1>1 DEF StartReader
<1> QED BY <1>2, <1>3, <1>4 DEF StartReader

LEMMA ReaderType == TypeOK /\ OneReader /\ ReaderStep => TypeOK'
<1> SUFFICES ASSUME TypeOK, OneReader, ReaderStep PROVE TypeOK'
  OBVIOUS
<1> USE DEF TypeOK, Reading, control, journal, engineer
<1>1. CASE Acquire
  BY <1>1 DEF Acquire, Lease!Acquire
<1>2. CASE Record
  BY <1>2 DEF Record
<1>3. CASE LetGo
  BY <1>3 DEF LetGo, Lease!Release, Lease!Lose
<1>4. CASE ReaderEnds
  BY <1>4 DEF ReaderEnds, Lease!End, OneReader, ReaderAlive
<1> QED BY <1>1, <1>2, <1>3, <1>4 DEF ReaderStep

LEMMA WindowType == TypeOK /\ Window => TypeOK'
<1> SUFFICES ASSUME TypeOK, Window PROVE TypeOK'
  OBVIOUS
<1> USE DEF TypeOK, control, readerVars, bytes, journal, engineer
<1>1. CASE Start
  <2>1. charged \in Nat
    OBVIOUS
  <2>2. /\ phase' = "running" /\ handle' = "none" /\ stop' = FALSE
        /\ readers' \in Nat /\ lost' \in Nat /\ directory' \in BOOLEAN
        /\ written' = 0 /\ charged' = charged /\ trial' \in {"none", "open"}
    BY <1>1, <2>1, StartType DEF Start
  <2>3. started' \in BOOLEAN /\ UNCHANGED <<closing, closer, job, form, recording, reported,
                                             total, trialFailed, service, alive, used, sent,
                                             serial, work, answer>>
    BY <1>1 DEF Start
  <2>4. {readers, lost, written, reported, charged, total}' \subseteq Nat
    BY <2>1, <2>2, <2>3
  <2>5. {started, closing, recording, stop, directory, trialFailed}' \subseteq BOOLEAN
    BY <2>2, <2>3
  <2> QED BY <2>2, <2>3, <2>4, <2>5
<1>2. CASE SetRecording
  <2>1. job' \in JobType
    BY <1>2 DEF SetRecording, Schedule, NoJob, JobType
  <2> QED BY <1>2, <2>1 DEF SetRecording, JobType
<1>3. CASE CopySettings
  BY <1>3 DEF CopySettings
<1>4. CASE Configure
  <2>1. job' \in JobType
    <3>1. (form = "on") \in BOOLEAN
      OBVIOUS
    <3>2. [NoJob EXCEPT !.kind = "service", !.place = "building", !.value = (form = "on")]
             \in JobType
      BY <3>1 DEF NoJob, JobType
    <3>3. CASE Free
      BY <1>4, <3>2, <3>3 DEF Configure
    <3>4. CASE ~Free
      BY <1>4, <3>4 DEF Configure, JobType
    <3> QED BY <3>3, <3>4
  <2> QED BY <1>4, <2>1 DEF Configure, JobType
<1>5. CASE LoadSession
  <2>1. job' \in JobType
    BY <1>5 DEF LoadSession, Schedule, NoJob, JobType
  <2> QED BY <1>5, <2>1 DEF LoadSession, JobType
<1>6. CASE Replay
  <2>1. job' \in JobType
    BY <1>6 DEF Replay, Schedule, NoJob, JobType
  <2> QED BY <1>6, <2>1 DEF Replay, JobType
<1>7. CASE AskLocal
  BY <1>7 DEF AskLocal, Asking
<1>8. CASE AskModel
  BY <1>8 DEF AskModel, Asking
<1>9. CASE Close
  BY <1>9 DEF Close, StopAlways
<1> QED BY <1>1, <1>2, <1>3, <1>4, <1>5, <1>6, <1>7, <1>8, <1>9 DEF Window

LEMMA ThenType ==
  ASSUME TypeOK, NEW b \in {"done", "joining", "trial", "switching", "saving", "swapping",
                            "undoing"}, Then(b)
  PROVE  job' \in JobType
  BY DEF TypeOK, Then, JobType

LEMMA JobsType == TypeOK /\ JobStep => TypeOK'
<1> SUFFICES ASSUME TypeOK, JobStep PROVE TypeOK'
  OBVIOUS
<1> USE DEF TypeOK, JobOnly, Replacing, readerVars, bytes, journal, engineer
<1>1. CASE StopReader
  <2>1. job' \in JobType
    BY <1>1, ThenType DEF StopReader
  <2> QED BY <1>1, <2>1 DEF StopReader, JobType
<1>2. CASE JoinReader
  <2>1. job' \in JobType
    BY <1>2, ThenType DEF JoinReader
  <2> QED BY <1>2, <2>1 DEF JoinReader, JobType
<1>3. CASE EndTrial
  <2>1. job' \in JobType
    BY <1>3, ThenType DEF EndTrial
  <2> QED BY <1>3, <2>1 DEF EndTrial, JobType, FinishTrial
<1>4. CASE SwitchRecording
  <2>1. job' \in JobType
    BY <1>4, ThenType DEF SwitchRecording
  <2>2. CASE MayApply
    <3>1. charged + reported \in Nat /\ job.value \in BOOLEAN
      OBVIOUS
    <3>2. /\ phase' = "running" /\ handle' = "none" /\ stop' = FALSE
          /\ readers' \in Nat /\ lost' \in Nat /\ directory' \in BOOLEAN
          /\ written' = 0 /\ charged' = charged + reported /\ trial' \in {"none", "open"}
      BY <1>4, <2>2, <3>1, StartType DEF SwitchRecording
    <3>3. recording' \in BOOLEAN /\ UNCHANGED <<started, closing, closer, form, reported, total,
                                               trialFailed, service, alive, used, sent, serial,
                                               work, answer>>
      BY <1>4, <2>2, <3>1 DEF SwitchRecording
    <3>4. {readers, lost, written, reported, charged, total}' \subseteq Nat
      BY <3>1, <3>2, <3>3
    <3>5. {started, closing, recording, stop, directory, trialFailed}' \subseteq BOOLEAN
      BY <3>2, <3>3
    <3> QED BY <2>1, <3>2, <3>3, <3>4, <3>5 DEF JobType
  <2>3. CASE ~MayApply
    <3>1. UNCHANGED <<started, closing, closer, form, recording, readerVars, bytes, journal,
                      engineer>>
      BY <1>4, <2>3 DEF SwitchRecording
    <3> QED BY <2>1, <3>1 DEF JobType
  <2> QED BY <2>2, <2>3
<1>5. CASE SaveRecording
  <2>1. job' \in JobType
    BY <1>5, ThenType DEF SaveRecording
  <2> QED BY <1>5, <2>1 DEF SaveRecording, JobType
<1>6. CASE BuildService
  <2>1. CASE Then("done") /\ UNCHANGED alive
    <3>1. job' \in JobType
      BY <2>1, ThenType
    <3> QED BY <1>6, <2>1, <3>1 DEF BuildService, JobType
  <2>2. CASE /\ alive' = alive \cup {service + 1}
             /\ job' = [job EXCEPT !.place = "storing", !.id = service + 1, !.carried = Carried]
    <3>1. service + 1 \in Nat /\ used \in Nat
      OBVIOUS
    <3>2. job' \in JobType
      BY <2>2, <3>1 DEF JobType, Carried
    <3>3. alive' \subseteq Nat
      BY <2>2, <3>1
    <3> QED BY <1>6, <3>2, <3>3 DEF BuildService, JobType
  <2> QED BY <1>6, <2>1, <2>2 DEF BuildService
<1>7. CASE StoreSettings
  <2>1. job' \in JobType
    BY <1>7, ThenType DEF StoreSettings
  <2> QED BY <1>7, <2>1 DEF StoreSettings, JobType
<1>8. CASE SwapService
  <2>1. CASE MayApply
    <3>1. job' \in JobType
      BY <1>8, <2>1 DEF SwapService, JobType
    <3>2. work' \in [serial : Nat, place : {"idle", "queued", "answering"}]
      BY <1>8, <2>1 DEF SwapService, Rested
    <3> QED BY <1>8, <2>1, <3>1, <3>2 DEF SwapService, JobType
  <2>2. CASE ~MayApply
    <3>1. job' \in JobType
      BY <1>8, <2>2, ThenType DEF SwapService
    <3> QED BY <1>8, <2>2, <3>1 DEF SwapService, JobType
  <2> QED BY <2>1, <2>2
<1>9. CASE CloseOther
  <2>1. job' \in JobType
    BY <1>9, ThenType DEF CloseOther
  <2> QED BY <1>9, <2>1 DEF CloseOther, JobType
<1>10. CASE EndReplay
  <2>1. job' \in JobType
    BY <1>10, ThenType DEF EndReplay
  <2> QED BY <1>10, <2>1 DEF EndReplay, JobType
<1> QED BY <1>1, <1>2, <1>3, <1>4, <1>5, <1>6, <1>7, <1>8, <1>9, <1>10 DEF JobStep

LEMMA CloserType == TypeOK /\ CloserStep => TypeOK'
<1> SUFFICES ASSUME TypeOK, CloserStep PROVE TypeOK'
  OBVIOUS
<1> USE DEF TypeOK, Closer, readerVars, bytes, journal, engineer
<1>1. CASE CloseService
  <2>1. alive' \subseteq Nat
    BY <1>1 DEF CloseService
  <2>2. closer' \in {"none", "service", "worker", "waiting", "trial", "closed"}
    BY <1>1 DEF CloseService
  <2> QED BY <1>1, <2>1, <2>2 DEF CloseService
<1>2. CASE JoinWorker
  BY <1>2 DEF JoinWorker
<1>3. CASE Wait
  BY <1>3 DEF Wait
<1>4. CASE Finish
  BY <1>4 DEF Finish, FinishTrial
<1> QED BY <1>1, <1>2, <1>3, <1>4 DEF CloserStep

LEMMA WorkType == TypeOK /\ (TakeQuestion \/ GiveAnswer) => TypeOK'
  BY DEF TypeOK, TakeQuestion, GiveAnswer, Rested, control, readerVars, bytes, journal

-----------------------------------------------------------------------------

LEMMA InitReaders == Init => Readers
  BY DEF Init, Readers, OneReader, ReaderAlive, Configuring, NoJob

LEMMA ReaderReaders == TypeOK /\ Readers /\ ReaderStep => Readers'
<1> SUFFICES ASSUME TypeOK, Readers, ReaderStep PROVE Readers'
  OBVIOUS
<1> USE DEF TypeOK, Readers, OneReader, ReaderAlive, Configuring, Reading, control
<1>1. CASE Acquire
  BY <1>1 DEF Acquire, Lease!Acquire
<1>2. CASE Record
  BY <1>2 DEF Record
<1>3. CASE LetGo
  BY <1>3 DEF LetGo, Lease!Release, Lease!Lose
<1>4. CASE ReaderEnds
  BY <1>4 DEF ReaderEnds, Lease!End
<1> QED BY <1>1, <1>2, <1>3, <1>4 DEF ReaderStep

LEMMA JobReaders == TypeOK /\ Readers /\ JobStep => Readers'
<1> SUFFICES ASSUME TypeOK, Readers, JobStep PROVE Readers'
  OBVIOUS
<1> USE DEF TypeOK, Readers, OneReader, ReaderAlive, Configuring, JobOnly, Job, Then, Replacing,
     readerVars, bytes
<1>1. CASE StopReader
  BY <1>1 DEF StopReader
<1>2. CASE JoinReader
  BY <1>2 DEF JoinReader, Joined
<1>3. CASE EndTrial
  BY <1>3 DEF EndTrial
<1>4. CASE SwitchRecording
  <2>1. CASE MayApply
    BY <1>4, <2>1 DEF SwitchRecording, StartReader
  <2>2. CASE ~MayApply
    BY <1>4, <2>2 DEF SwitchRecording
  <2> QED BY <2>1, <2>2
<1>5. CASE SaveRecording
  BY <1>5 DEF SaveRecording
<1>6. CASE BuildService \/ StoreSettings \/ SwapService \/ CloseOther
  <2>1. job.kind = "service" /\ job'.kind = "service"
    BY <1>6 DEF BuildService, StoreSettings, SwapService, CloseOther
  <2>2. UNCHANGED <<started, phase, handle, readers, written>>
    BY <1>6 DEF BuildService, StoreSettings, SwapService, CloseOther
  <2> QED BY <2>1, <2>2
<1>7. CASE EndReplay
  BY <1>7 DEF EndReplay
<1> QED BY <1>1, <1>2, <1>3, <1>4, <1>5, <1>6, <1>7 DEF JobStep

LEMMA WindowReaders == TypeOK /\ Readers /\ Window => Readers'
<1> SUFFICES ASSUME TypeOK, Readers, Window PROVE Readers'
  OBVIOUS
<1> USE DEF TypeOK, Readers, OneReader, ReaderAlive, Configuring, control, readerVars, bytes
<1>1. CASE Start
  BY <1>1 DEF Start, StartReader
<1>2. CASE SetRecording \/ LoadSession \/ Replay
  BY <1>2 DEF SetRecording, LoadSession, Replay, Schedule, NoJob
<1>3. CASE Configure
  BY <1>3 DEF Configure, NoJob
<1>4. CASE CopySettings \/ AskLocal \/ AskModel \/ Close
  BY <1>4 DEF CopySettings, AskLocal, AskModel, Asking, Close
<1> QED BY <1>1, <1>2, <1>3, <1>4 DEF Window

LEMMA RestReaders ==
  Readers /\ (CloserStep \/ TakeQuestion \/ GiveAnswer \/ UNCHANGED vars) => Readers'
  BY DEF Readers, OneReader, ReaderAlive, Configuring, CloserStep, CloseService, JoinWorker, Wait,
     Finish, Closer, TakeQuestion, GiveAnswer, vars, control, readerVars, bytes

\* Types and readers are proved together: the count of readers stays a
\* natural number because the one that ends was counted.
LEMMA StepBase == TypeOK /\ Readers /\ Step => TypeOK' /\ Readers'
<1>1. TypeOK /\ UNCHANGED vars => TypeOK'
  BY DEF TypeOK, vars, control, readerVars, bytes, journal, engineer
<1>2. Readers => OneReader
  BY DEF Readers
<1> QED BY <1>1, <1>2, ReaderType, WindowType, JobsType, CloserType, WorkType, ReaderReaders,
           JobReaders, WindowReaders, RestReaders, StepKinds

\* Every variable keeps its type, whatever is asked of the controller.
THEOREM TypeCorrect == Spec => [](TypeOK /\ Readers)
  BY InitType, InitReaders, StepBase, PTL DEF Spec, Step

\* There is never a second reader (desktop_controller.py:583).
THEOREM AtMostOneReader == Spec => []OneReader
  BY TypeCorrect, PTL DEF Readers

-----------------------------------------------------------------------------

LEMMA InitRecorded == Init => Recorded
  BY Bounds DEF Init, Recorded, BudgetKept

\* A reader that starts charges what the one before it has written.
LEMMA StartRecorded ==
  ASSUME TypeOK, Recorded, NEW rec, NEW c \in Nat, StartReader(rec, c),
         total <= c, UNCHANGED total
  PROVE  Recorded'
  BY DEF TypeOK, Recorded, BudgetKept, StartReader

LEMMA StepRecorded == TypeOK /\ Readers /\ Recorded /\ Step => Recorded'
<1> SUFFICES ASSUME TypeOK, Readers, Recorded, Step PROVE Recorded'
  OBVIOUS
<1>1. {written, reported, charged, total} \subseteq Nat /\ Cap \in Nat
  BY Bounds DEF TypeOK
<1>2. ASSUME ReaderStep PROVE Recorded'
  <2>1. CASE Acquire
    BY <1>1, <2>1 DEF Acquire, Reading, Recorded, BudgetKept
  <2>2. CASE Record
    <3>1. charged < Cap /\ written < Cap - charged
      BY <1>1, <2>2 DEF Record, Remaining
    <3>2. total' = total + 1 /\ written' = written + 1 /\ reported' = written'
          /\ charged' = charged /\ directory' = directory /\ directory
      BY <2>2 DEF Record, Reading
    <3>3. total' <= Cap /\ total' <= charged' + written'
      BY <1>1, <3>1, <3>2 DEF Recorded
    <3> QED BY <3>2, <3>3 DEF Recorded, BudgetKept
  <2>3. CASE LetGo
    BY <2>3 DEF LetGo, Reading, Recorded, BudgetKept
  <2>4. CASE ReaderEnds
    BY <2>4 DEF ReaderEnds, Reading, Recorded, BudgetKept
  <2> QED BY <1>2, <2>1, <2>2, <2>3, <2>4 DEF ReaderStep
<1>3. ASSUME Start PROVE Recorded'
  <2>1. written = 0 /\ total <= charged
    BY <1>1, <1>3 DEF Start, Readers, Recorded
  <2> QED BY <1>1, <1>3, <2>1, StartRecorded DEF Start
<1>4. ASSUME SwitchRecording, MayApply PROVE Recorded'
  <2>1. charged + reported \in Nat /\ total <= charged + reported
    BY <1>1 DEF Recorded
  <2> QED BY <1>4, <2>1, StartRecorded DEF SwitchRecording
<1>5. ASSUME UNCHANGED <<directory, bytes>> PROVE Recorded'
  BY <1>5 DEF bytes, Recorded, BudgetKept
<1>6. JobStep => (SwitchRecording /\ MayApply) \/ UNCHANGED <<directory, bytes>>
  BY DEF JobStep, StopReader, JoinReader, EndTrial, SwitchRecording, SaveRecording, BuildService,
     StoreSettings, SwapService, CloseOther, EndReplay, Replacing, readerVars, bytes
<1>7. Window => Start \/ UNCHANGED <<directory, bytes>>
  BY DEF Window, SetRecording, CopySettings, Configure, LoadSession, Replay, AskLocal, AskModel,
     Asking, Close, readerVars, bytes
<1>8. CloserStep \/ TakeQuestion \/ GiveAnswer \/ UNCHANGED vars
         => UNCHANGED <<directory, bytes>>
  BY DEF CloserStep, CloseService, JoinWorker, Wait, Finish, TakeQuestion, GiveAnswer, vars,
     readerVars, bytes
<1> QED BY <1>2, <1>3, <1>4, <1>5, <1>6, <1>7, <1>8, StepKinds

\* The recording budget holds for the run of the application, over every
\* reader it starts (desktop_controller.py:577, 591).
LEMMA BudgetHolds == Spec => []BudgetKept
<1>1. Init => TypeOK /\ Readers /\ Recorded
  BY InitType, InitReaders, InitRecorded
<1>2. (TypeOK /\ Readers /\ Recorded) /\ Step => (TypeOK /\ Readers /\ Recorded)'
  BY StepBase, StepRecorded
<1>3. TypeOK /\ Readers /\ Recorded => BudgetKept
  BY DEF Recorded
<1> QED BY <1>1, <1>2, <1>3, PTL DEF Spec, Step

-----------------------------------------------------------------------------

LEMMA InitServices == Init => Services
  BY DEF Init, Services, RequestsCarried, NewestWins, NoJob, Pending

\* A step that leaves the services alone and turns no job into a pending
\* replacement.
LEMMA KeepServices ==
  ASSUME Services, UNCHANGED <<service, alive, used, sent, serial, answer>>,
         \/ UNCHANGED job
         \/ job'.kind # "service" /\ job.kind # "service"
         \/ ~Configuring /\ job'.place \notin Pending
         \/ job.kind # "service"  /\ job'.place \notin Pending
  PROVE  Services'
<1>1. CASE UNCHANGED job
  BY <1>1 DEF Services, RequestsCarried, NewestWins
<1>2. CASE job'.kind # "service" /\ job.kind # "service"
  BY <1>2 DEF Services, RequestsCarried, NewestWins
<1>3. CASE (~Configuring \/ job.kind # "service") /\ job'.place \notin Pending
  BY <1>3 DEF Services, RequestsCarried, NewestWins, Configuring, Pending
<1> QED BY <1>1, <1>2, <1>3

LEMMA WindowServices == TypeOK /\ Services /\ Window => Services'
<1> SUFFICES ASSUME TypeOK, Services, Window PROVE Services'
  OBVIOUS
<1>1. CASE Start \/ CopySettings \/ Close
  BY <1>1, KeepServices DEF Start, CopySettings, Close, engineer
<1>2. CASE SetRecording \/ LoadSession \/ Replay
  <2>1. ~Configuring /\ job'.place \notin Pending
    BY <1>2 DEF SetRecording, LoadSession, Replay, Schedule, Free, NoJob, Pending
  <2> QED BY <1>2, <2>1, KeepServices DEF SetRecording, LoadSession, Replay, engineer
<1>3. CASE Configure
  <2>1. CASE Free
    <3>1. ~Configuring /\ job'.place \notin Pending
      BY <1>3, <2>1 DEF Configure, Free, NoJob, Pending
    <3> QED BY <1>3, <3>1, KeepServices DEF Configure, engineer
  <2>2. CASE ~Free
    BY <1>3, <2>2, KeepServices DEF Configure, engineer
  <2> QED BY <2>1, <2>2
<1>4. CASE AskLocal
  BY <1>4 DEF AskLocal, Asking, control, Services, RequestsCarried, NewestWins
<1>5. CASE AskModel
  <2>1. UNCHANGED <<job, service, alive>> /\ job.place = "done" /\ answer' = 0
    BY <1>5 DEF AskModel, Asking, Admitted, Configuring, control
  <2>2. RequestsCarried'
    BY <1>5 DEF AskModel, Services, RequestsCarried
  <2> QED BY <2>1, <2>2 DEF Services, NewestWins, Pending
<1> QED BY <1>1, <1>2, <1>3, <1>4, <1>5 DEF Window

LEMMA JobServices == TypeOK /\ Services /\ JobStep => Services'
<1> SUFFICES ASSUME TypeOK, Services, JobStep PROVE Services'
  OBVIOUS
<1> USE DEF Job, Then, Replacing
<1>0. job \in JobType
  BY DEF TypeOK, JobType
<1>1. CASE StopReader \/ JoinReader \/ EndTrial \/ SwitchRecording \/ SaveRecording
           \/ EndReplay
  <2>1. job.kind # "service" /\ job'.kind # "service"
    BY <1>0, <1>1 DEF StopReader, JoinReader, EndTrial, SwitchRecording, SaveRecording, EndReplay,
       JobType
  <2>2. UNCHANGED <<service, alive, used, sent, serial, answer>>
    BY <1>1 DEF StopReader, JoinReader, EndTrial, SwitchRecording, SaveRecording, EndReplay,
       engineer
  <2> QED BY <2>1, <2>2, KeepServices
<1>2. CASE BuildService
  <2>1. alive \subseteq {service} /\ UNCHANGED <<service, used, sent, serial, answer>>
    BY <1>2 DEF BuildService, Services, Pending
  <2>2. CASE Then("done") /\ UNCHANGED alive
    BY <1>0, <2>1, <2>2 DEF JobType, Services, RequestsCarried, NewestWins, Pending
  <2>3. CASE /\ alive' = alive \cup {service + 1}
             /\ job' = [job EXCEPT !.place = "storing", !.id = service + 1, !.carried = Carried]
    <3>1. /\ job'.id = service + 1 /\ job'.carried = used /\ job'.place = "storing"
          /\ job'.kind = "service"
      BY <1>0, <1>2, <2>3 DEF JobType, Carried, BuildService
    <3> QED BY <2>1, <2>3, <3>1 DEF Services, RequestsCarried, NewestWins, Pending
  <2> QED BY <1>2, <2>2, <2>3 DEF BuildService
<1>3. CASE StoreSettings
  <2>1. /\ job'.kind = "service" /\ job'.id = job.id /\ job'.carried = job.carried
        /\ job'.place \in {"swapping", "undoing"} /\ job.place = "storing"
        /\ job.kind = "service"
    BY <1>0, <1>3 DEF StoreSettings, JobType
  <2> QED BY <1>3, <2>1 DEF StoreSettings, Services, RequestsCarried, NewestWins, Pending
<1>4. CASE SwapService
  <2>1. alive \subseteq {service, job.id} /\ job.carried = used
    BY <1>4 DEF SwapService, Services, Pending
  <2>2. job'.kind = "service" /\ job'.place = "undoing"
    BY <1>0, <1>4 DEF SwapService, JobType
  <2>3. ASSUME MayApply PROVE Services'
    <3>1. job'.id = service /\ service' = job.id /\ alive' = alive
      BY <1>0, <1>4, <2>3 DEF SwapService, JobType
    <3>2. used' = used /\ sent' = sent /\ answer' = 0
      BY <1>4, <2>1, <2>3 DEF SwapService
    <3> QED BY <2>1, <2>2, <3>1, <3>2 DEF Services, RequestsCarried, NewestWins, Pending
  <2>4. ASSUME ~MayApply PROVE Services'
    <3>1. /\ UNCHANGED <<service, alive, used, sent, serial, answer>>
          /\ job'.id = job.id
      BY <1>0, <1>4, <2>4 DEF SwapService, JobType
    <3> QED BY <2>1, <2>2, <3>1 DEF Services, RequestsCarried, NewestWins, Pending
  <2> QED BY <2>3, <2>4
<1>5. CASE CloseOther
  <2>1. alive' \subseteq {service} /\ UNCHANGED <<service, used, sent, serial, answer>>
    BY <1>5 DEF CloseOther, Services, Pending
  <2>2. job'.place = "done"
    BY <1>0, <1>5 DEF CloseOther, JobType
  <2> QED BY <2>1, <2>2 DEF Services, RequestsCarried, NewestWins, Pending
<1> QED BY <1>1, <1>2, <1>3, <1>4, <1>5 DEF JobStep

LEMMA StepServices == TypeOK /\ Services /\ Step => Services'
<1> SUFFICES ASSUME TypeOK, Services, Step PROVE Services'
  OBVIOUS
<1>1. ReaderStep => Services'
  BY KeepServices DEF ReaderStep, Acquire, Record, LetGo, ReaderEnds, Reading, control, engineer
<1>2. CloserStep => Services'
  <2>1. ASSUME CloserStep PROVE alive' \subseteq alive
    BY <2>1 DEF CloserStep, CloseService, JoinWorker, Wait, Finish, engineer
  <2>2. CloserStep => UNCHANGED <<job, service, used, sent, serial, answer>>
    BY DEF CloserStep, CloseService, JoinWorker, Wait, Finish, Closer, engineer
  <2> QED BY <2>1, <2>2 DEF Services, RequestsCarried, NewestWins
<1>3. TakeQuestion \/ UNCHANGED vars => Services'
  BY KeepServices DEF TakeQuestion, control, vars, engineer
<1>4. ASSUME GiveAnswer PROVE Services'
  <2>1. answer' \in {0, serial}
    BY <1>4 DEF GiveAnswer, Newest, Services, NewestWins
  <2> QED BY <1>4, <2>1 DEF GiveAnswer, control, Services, RequestsCarried, NewestWins
<1> QED BY <1>1, <1>2, <1>3, <1>4, WindowServices, JobServices, StepKinds

\* Every request to the provider is counted once and by the service in use,
\* whatever replaced the one that sent it (desktop_controller.py:379).
LEMMA RequestsCounted == Spec => []RequestsCarried
<1>1. Init => TypeOK /\ Readers /\ Services
  BY InitType, InitReaders, InitServices
<1>2. (TypeOK /\ Readers /\ Services) /\ Step => (TypeOK /\ Readers /\ Services)'
  BY StepBase, StepServices
<1>3. TypeOK /\ Readers /\ Services => RequestsCarried
  BY DEF Services
<1> QED BY <1>1, <1>2, <1>3, PTL DEF Spec, Step

\* Neither the record of bytes nor that of requests is lost or spent twice.
THEOREM BudgetsHold == Spec => []BudgetsKept
<1>1. BudgetKept /\ RequestsCarried => BudgetsKept
  BY DEF BudgetsKept
<1> QED BY <1>1, BudgetHolds, RequestsCounted, PTL

\* The answer shown is the last question's, or there is none
\* (llm_engineer.py:435).
THEOREM NewestShown == Spec => []NewestWins
<1>1. Init => TypeOK /\ Readers /\ Services
  BY InitType, InitReaders, InitServices
<1>2. (TypeOK /\ Readers /\ Services) /\ Step => (TypeOK /\ Readers /\ Services)'
  BY StepBase, StepServices
<1>3. TypeOK /\ Readers /\ Services => NewestWins
  BY DEF Services
<1> QED BY <1>1, <1>2, <1>3, PTL DEF Spec, Step

-----------------------------------------------------------------------------

LEMMA InitClosing == Init => Closing
  BY DEF Init, Closing, Past

\* Until the window is closed there is nothing to keep.
LEMMA OpenClosing == ASSUME Closing, ~closing, UNCHANGED <<closing, closer>> PROVE Closing'
<1>1. closer = "none"
  BY DEF Closing
<1> QED BY <1>1 DEF Closing, Past

LEMMA KeepClosing ==
  ASSUME Closing, UNCHANGED <<closing, closer, phase, job, trial, service, alive, work>>
  PROVE  Closing'
  BY DEF Closing, ReaderAlive, Configuring

LEMMA ReaderClosing == Closing /\ ReaderStep => Closing'
<1> SUFFICES ASSUME Closing, ReaderStep PROVE Closing'
  OBVIOUS
<1>1. UNCHANGED <<closing, closer, job, trial, service, alive, work>>
  BY DEF ReaderStep, Acquire, Record, LetGo, ReaderEnds, Reading, control, journal, engineer
<1>2. phase' = phase \/ phase' = "ended"
  BY DEF ReaderStep, Acquire, Record, LetGo, ReaderEnds, Lease!Acquire, Lease!Release, Lease!Lose,
     Lease!End
<1> QED BY <1>1, <1>2 DEF Closing, ReaderAlive, Configuring

LEMMA WindowClosing == Closing /\ Window => Closing'
<1> SUFFICES ASSUME Closing, Window PROVE Closing'
  OBVIOUS
<1>1. CASE Close
  <2>1. closing' /\ closer' = "service"
    BY <1>1 DEF Close
  <2> QED BY <2>1 DEF Closing, Past
<1>2. CASE Start \/ SetRecording \/ CopySettings \/ LoadSession \/ Replay \/ AskLocal \/ AskModel
  <2>1. ~closing /\ UNCHANGED <<closing, closer>>
    BY <1>2 DEF Start, SetRecording, CopySettings, LoadSession, Replay, AskLocal, AskModel, Asking,
       Admitted, Schedule, Free, control
  <2> QED BY <2>1, OpenClosing
<1>3. CASE Configure
  <2>1. CASE ~closing
    BY <1>3, <2>1, OpenClosing DEF Configure
  <2>2. CASE closing
    BY <1>3, <2>2, KeepClosing DEF Configure, Free, readerVars, journal, engineer
  <2> QED BY <2>1, <2>2
<1> QED BY <1>1, <1>2, <1>3 DEF Window

LEMMA JobClosing == TypeOK /\ Closing /\ JobStep => Closing'
<1> SUFFICES ASSUME TypeOK, Closing, JobStep PROVE Closing'
  OBVIOUS
<1>0. Configuring /\ UNCHANGED <<closing, closer>>
  BY DEF JobStep, StopReader, JoinReader, EndTrial, SwitchRecording, SaveRecording, BuildService,
     StoreSettings, SwapService, CloseOther, EndReplay, Replacing, JobOnly, Job, Configuring
<1>1. closer \notin {"trial", "closed"}
  BY <1>0 DEF Closing
<1>2. CASE SwitchRecording /\ MayApply
  BY <1>0, <1>2, OpenClosing DEF MayApply
<1>3. CASE SwapService /\ MayApply
  BY <1>0, <1>3, OpenClosing DEF MayApply
<1>4. ASSUME service \notin alive => service' \notin alive', UNCHANGED work PROVE Closing'
  BY <1>0, <1>1, <1>4 DEF Closing, Past
<1>5. CASE BuildService
  <2>1. service \in Nat /\ UNCHANGED <<service, work>>
    BY <1>5 DEF TypeOK, BuildService
  <2>2. alive' \subseteq alive \cup {service + 1}
    BY <1>5 DEF BuildService
  <2>3. service \notin alive => service' \notin alive'
    BY <2>1, <2>2
  <2> QED BY <1>4, <2>1, <2>3
<1>6. CASE CloseOther
  BY <1>4, <1>6 DEF CloseOther
<1>7. CASE \/ StopReader \/ JoinReader \/ EndTrial \/ (SwitchRecording /\ ~MayApply)
           \/ SaveRecording \/ StoreSettings \/ (SwapService /\ ~MayApply) \/ EndReplay
  <2>1. UNCHANGED <<service, alive, work>>
    BY <1>7 DEF StopReader, JoinReader, EndTrial, SwitchRecording, SaveRecording, StoreSettings,
       SwapService, EndReplay, engineer
  <2> QED BY <1>4, <2>1
<1>8. \/ StopReader \/ JoinReader \/ EndTrial \/ SwitchRecording \/ SaveRecording
      \/ BuildService \/ StoreSettings \/ SwapService \/ CloseOther \/ EndReplay
  BY DEF JobStep
<1> QED BY <1>2, <1>3, <1>5, <1>6, <1>7, <1>8

LEMMA RestClosing ==
  Closing /\ (CloserStep \/ TakeQuestion \/ GiveAnswer \/ UNCHANGED vars) => Closing'
<1> SUFFICES ASSUME Closing, CloserStep \/ TakeQuestion \/ GiveAnswer \/ UNCHANGED vars
             PROVE  Closing'
  OBVIOUS
<1> USE DEF Closing, Past, Closer
<1>1. CASE CloseService
  BY <1>1 DEF CloseService
<1>2. CASE JoinWorker
  BY <1>2 DEF JoinWorker, engineer
<1>3. CASE Wait
  BY <1>3 DEF Wait, Quiet, readerVars, engineer, ReaderAlive, Configuring
<1>4. CASE Finish
  BY <1>4 DEF Finish, FinishTrial, readerVars, engineer, ReaderAlive, Configuring
<1>5. CASE TakeQuestion
  BY <1>5 DEF TakeQuestion, control, readerVars, journal, ReaderAlive, Configuring
<1>6. CASE GiveAnswer
  BY <1>6 DEF GiveAnswer, Rested, control, readerVars, journal, ReaderAlive, Configuring
<1>7. CASE UNCHANGED vars
  BY <1>7, KeepClosing DEF vars, control, readerVars, journal, engineer
<1> QED BY <1>1, <1>2, <1>3, <1>4, <1>5, <1>6, <1>7 DEF CloserStep

LEMMA StepClosing == TypeOK /\ Closing /\ Step => Closing'
  BY ReaderClosing, WindowClosing, JobClosing, RestClosing, StepKinds

\* A window that reports CLOSED has left no thread, journal, job or model
\* service behind (desktop_controller.py:644).
THEOREM ClosedLeavesNothing == Spec => []ClosedIsQuiet
<1> DEFINE Inv == TypeOK /\ Readers /\ Services /\ Closing
<1>1. Init => Inv
  BY InitType, InitReaders, InitServices, InitClosing
<1>2. Inv /\ Step => Inv'
  BY StepBase, StepServices, StepClosing
<1>3. Inv => ClosedIsQuiet
  BY DEF Readers, OneReader, Services, Closing, Past, Pending, ClosedIsQuiet, ReaderAlive,
     Configuring
<1> QED BY <1>1, <1>2, <1>3, PTL DEF Spec, Step

-----------------------------------------------------------------------------
\* The conditions under which the two counterexamples of DesktopController
\* cannot happen.

LEMMA StepTouches ==
  ASSUME Step, ~(Start \/ SwitchRecording)
  PROVE  UNCHANGED <<lost, directory>>
<1> USE DEF control, readerVars, bytes, journal, engineer, vars, Reading, JobOnly, Replacing
<1>1. CASE ReaderStep
  BY <1>1 DEF ReaderStep, Acquire, Record, LetGo, ReaderEnds
<1>2. CASE JobStep
  BY <1>2 DEF JobStep, StopReader, JoinReader, EndTrial, SaveRecording, BuildService,
              StoreSettings, SwapService, CloseOther, EndReplay
<1>3. CASE CloserStep
  BY <1>3 DEF CloserStep, CloseService, JoinWorker, Wait, Finish
<1>4. CASE Window
  BY <1>4 DEF Window, SetRecording, CopySettings, Configure, LoadSession, Replay, AskLocal,
              AskModel, Asking, Close
<1>5. CASE TakeQuestion \/ GiveAnswer
  BY <1>5 DEF TakeQuestion, GiveAnswer
<1> QED BY <1>1, <1>2, <1>3, <1>4, <1>5, StepKinds

\* A handle that could not be given back is the last one (OneOwner) in every
\* run where no recording change starts a reader over it.  All that run_reader
\* does itself keeps the promise of docs/PROXIMITY_SPOTTER.md; what is missing
\* is a look at the old reader's handle in the change of recording.
THEOREM LostHandleIsLast ==
  Spec /\ [][SwitchRecording /\ MayApply => handle # "lost"]_vars => []OneOwner
<1> DEFINE Looked == SwitchRecording /\ MayApply => handle # "lost"
           Inv == TypeOK /\ Readers
<1>1. Init => lost = 0
  BY DEF Init
<1>2. ASSUME Inv, lost = 0, Step, [Looked]_vars PROVE lost' = 0
  <2>1. CASE Start
    <3>1. handle = "none"
      BY <1>2, <2>1 DEF Start, Readers
    <3> QED BY <1>2, <2>1, <3>1 DEF Start, StartReader
  <2>2. CASE SwitchRecording
    <3>1. CASE UNCHANGED vars
      BY <1>2, <3>1 DEF vars, readerVars
    <3>2. CASE ~MayApply
      BY <1>2, <2>2, <3>2 DEF SwitchRecording, readerVars
    <3>3. CASE MayApply /\ Looked
      BY <1>2, <2>2, <3>3 DEF SwitchRecording, StartReader
    <3> QED BY <1>2, <3>1, <3>2, <3>3
  <2>3. CASE ~(Start \/ SwitchRecording)
    BY <1>2, <2>3, StepTouches
  <2> QED BY <2>1, <2>2, <2>3
<1>3. lost = 0 => OneOwner
  BY DEF OneOwner
<1>4. Inv /\ lost = 0 /\ [Next]_vars /\ [Looked]_vars => (lost = 0)'
  BY <1>2 DEF Step
<1>5. Spec => []Inv
  BY TypeCorrect
<1> HIDE DEF Looked, Inv
<1>6. Spec /\ [][Looked]_vars => [](lost = 0)
  BY <1>1, <1>4, <1>5, PTL DEF Spec
<1>7. Spec /\ [][Looked]_vars => []OneOwner
  BY <1>3, <1>6, PTL
<1> QED BY <1>7 DEF Looked

\* The reader records only while the setting says so (RecordsAsSet) in every
\* run where no recording change takes effect between the copy a configure
\* makes of the settings and the job it asks for.
Copied ==
    /\ form # "none" => (form = "on") = recording
    /\ job.kind = "service" /\ job.place \in {"building", "storing", "swapping"} =>
          job.value = recording
    /\ directory => recording

THEOREM RecordsUnlessOverwritten ==
  Spec /\ [][SwitchRecording /\ MayApply => form = "none"]_vars => []RecordsAsSet
<1> DEFINE Alone == SwitchRecording /\ MayApply => form = "none"
           Types == TypeOK /\ Readers
<1>1. Init => Copied
  BY DEF Init, Copied, NoJob
<1>2. ASSUME TypeOK, Copied, Step, [Alone]_vars PROVE Copied'
  <2>0. recording \in BOOLEAN /\ job \in JobType /\ form \in {"none", "on", "off"}
    BY <1>2 DEF TypeOK, JobType
  <2>1. CASE Start
    <3>1. directory' => recording
      BY <2>1 DEF Start, StartReader
    <3> QED BY <1>2, <2>1, <3>1 DEF Start, Copied
  <2>2. CASE SwitchRecording
    <3>1. CASE UNCHANGED vars
      BY <1>2, <3>1 DEF Copied, vars, control, readerVars
    <3>2. job.kind = "recording" /\ job'.kind = "recording" /\ form' = form
      BY <2>0, <2>2 DEF SwitchRecording, Job, Then, JobOnly, JobType
    <3>3. CASE ~MayApply
      BY <1>2, <2>2, <3>2, <3>3 DEF SwitchRecording, Copied, readerVars
    <3>4. CASE MayApply /\ Alone
      <4>1. recording' = job.value /\ (directory' => job.value) /\ form' = "none"
        BY <2>2, <3>2, <3>4 DEF SwitchRecording, StartReader
      <4> QED BY <3>2, <4>1 DEF Copied
    <3> QED BY <1>2, <3>1, <3>3, <3>4
  <2>3. CASE ~(Start \/ SwitchRecording)
    <3>1. directory' = directory
      BY <1>2, <2>3, StepTouches
    <3>2. CASE UNCHANGED <<job, form, recording>>
      BY <1>2, <3>1, <3>2 DEF Copied
    <3>3. CASE JobStep
      <4> USE DEF JobOnly, Replacing, Then, Job, JobType
      <4>1. form' = form
        BY <3>3 DEF JobStep, StopReader, JoinReader, EndTrial, SwitchRecording, SaveRecording,
                    BuildService, StoreSettings, SwapService, CloseOther, EndReplay
      <4>2. CASE SwapService
        <5>1. recording' = recording /\ job'.place = "undoing"
          BY <1>2, <2>0, <4>2 DEF SwapService, Copied
        <5> QED BY <1>2, <3>1, <4>1, <5>1 DEF Copied
      <4>3. CASE BuildService \/ StoreSettings
        <5>1. /\ recording' = recording /\ job'.value = job.value /\ job.kind = "service"
              /\ job.place \in {"building", "storing"}
          BY <2>0, <4>3 DEF BuildService, StoreSettings
        <5> QED BY <1>2, <3>1, <4>1, <5>1 DEF Copied
      <4>4. CASE ~(SwapService \/ BuildService \/ StoreSettings)
        <5>1. recording' = recording /\ (job'.kind # "service" \/ job'.place = "done")
          BY <2>0, <2>3, <3>3, <4>4 DEF JobStep, StopReader, JoinReader, EndTrial, SaveRecording,
                                        CloseOther, EndReplay
        <5> QED BY <1>2, <3>1, <4>1, <5>1 DEF Copied
      <4> QED BY <4>2, <4>3, <4>4
    <3>4. CASE SetRecording \/ Replay
      BY <1>2, <3>1, <3>4 DEF SetRecording, Replay, Schedule, NoJob, Copied
    <3>5. CASE CopySettings
      BY <1>2, <2>0, <3>1, <3>5 DEF CopySettings, Copied
    <3>6. CASE Configure
      BY <1>2, <2>0, <3>1, <3>6 DEF Configure, NoJob, Copied
    <3>7. CASE LoadSession
      BY <1>2, <3>1, <3>7 DEF LoadSession, Schedule, NoJob, Copied
    <3>8. CASE ReaderStep \/ CloserStep \/ TakeQuestion \/ GiveAnswer \/ AskLocal \/ AskModel
               \/ Close \/ UNCHANGED vars
      <4>1. UNCHANGED <<job, form, recording>>
        BY <3>8 DEF ReaderStep, Acquire, Record, LetGo, ReaderEnds, Reading, CloserStep,
                    CloseService, JoinWorker, Wait, Finish, Closer, TakeQuestion, GiveAnswer,
                    AskLocal, AskModel, Asking, Close, control, vars
      <4> QED BY <3>2, <4>1
    <3> QED BY <1>2, <2>3, <3>3, <3>4, <3>5, <3>6, <3>7, <3>8, StepKinds DEF Window
  <2> QED BY <2>1, <2>2, <2>3
<1>3. Copied => RecordsAsSet
  BY DEF Copied, RecordsAsSet
<1>4. Types /\ Copied /\ [Next]_vars /\ [Alone]_vars => Copied'
  BY <1>2 DEF Step
<1>5. Spec => []Types
  BY TypeCorrect
<1> HIDE DEF Alone, Types
<1>6. Spec /\ [][Alone]_vars => []Copied
  BY <1>1, <1>4, <1>5, PTL DEF Spec
<1>7. Spec /\ [][Alone]_vars => []RecordsAsSet
  BY <1>3, <1>6, PTL
<1> QED BY <1>7 DEF Alone
=============================================================================
