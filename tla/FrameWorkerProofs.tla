------------------------- MODULE FrameWorkerProofs -------------------------
(***************************************************************************)
(* Proofs about FrameWorker for any producers, sizes and budgets.          *)
(***************************************************************************)
EXTENDS FrameWorker, TLAPS

(* Ids are consecutive: the queue continues the frame in hand, which       *)
(* continues what was handled, up to the last frame submitted.             *)
InHand == IF inHand # NoFrame /\ ~counted THEN 1 ELSE 0
Consecutive ==
    /\ \A i \in 1..Len(queue) : queue[i].id = processed + InHand + i
    /\ pc = "work" => inHand.id = processed + 1

(* Where a frame is in hand, and what a lane without failure has lost.     *)
Positions ==
    /\ (inHand # NoFrame) <=> pc \in {"work", "measure", "account"}
    /\ pc = "work" => ~counted
    /\ pc \in {"measure", "account"} => counted \/ failed
    /\ failed => closing /\ queue = <<>>
    /\ ~failed => discarded = 0
    /\ pc \in {"finalize", "finish", "close", "remeasure"} => closing /\ queue = <<>>
    /\ pc \in {"end", "done"} => closing /\ (failed \/ queue = <<>>)

Seals ==
    /\ pc = "finish" => complete /\ submitted = processed
    /\ sealed => /\ complete /\ pc \in {"close", "remeasure", "end", "done"}
                 /\ submitted = processed /\ discarded = 0
    /\ status \in {"COMPLETE", "INCOMPLETE"} => pc = "done"
    /\ status = "COMPLETE" => sealed
    /\ status = "INCOMPLETE" => ~complete
    /\ pc \in {"close", "remeasure", "end", "done"} /\ complete /\ ~failed => sealed

IInv == TypeOK /\ Accounting /\ InOrder /\ Consecutive /\ Positions /\ Seals

LEMMA FrameFields == \A f \in Frames : f.id \in Nat /\ f.size \in Nat
  <1> SUFFICES ASSUME NEW f \in Frames PROVE f.id \in Nat /\ f.size \in Nat
    OBVIOUS
  <1>1. f.id \in Nat /\ f.size \in Sizes
    BY DEF Frames
  <1> QED BY <1>1, WorkerAssumption

LEMMA ActiveSizeType == TypeOK => ActiveSize \in Int
  <1> SUFFICES ASSUME TypeOK PROVE ActiveSize \in Int
    OBVIOUS
  <1>1. inHand = NoFrame \/ inHand \in Frames
    BY DEF TypeOK
  <1>2. CASE inHand = NoFrame
    BY <1>2 DEF ActiveSize
  <1>3. CASE inHand # NoFrame
    BY <1>1, <1>3, FrameFields DEF ActiveSize
  <1> QED BY <1>2, <1>3

LEMMA InitIInv == Init => IInv
  <1> SUFFICES ASSUME Init PROVE IInv
    OBVIOUS
  <1> USE DEF Init
  <1>1. TypeOK
    <2>1. queue \in Seq(Frames) /\ handled \in Seq(Nat)
      OBVIOUS
    <2>2. refusing \subseteq Producers /\ calling \subseteq Threads
      OBVIOUS
    <2>3. inHand \in Frames \cup {NoFrame}
      OBVIOUS
    <2>4. pc \in Stages
      BY DEF Stages
    <2>5. status \in {"STARTING", "RUNNING", "DRAINING", "COMPLETE", "INCOMPLETE", "ERROR"}
          /\ resource \in {"none", "open", "closed"}
      OBVIOUS
    <2>6. /\ counted \in BOOLEAN /\ failed \in BOOLEAN /\ closing \in BOOLEAN
          /\ complete \in BOOLEAN /\ asked \in BOOLEAN /\ sealed \in BOOLEAN
      OBVIOUS
    <2>7. /\ bytes \in Int /\ submitted \in Nat /\ processed \in Nat
          /\ discarded \in Nat /\ rejected \in Nat
      OBVIOUS
    <2> HIDE DEF Init
    <2> QED BY <2>1, <2>2, <2>3, <2>4, <2>5, <2>6, <2>7 DEF TypeOK
  <1>2. Accounting /\ InOrder /\ Consecutive
    BY DEF Accounting, InOrder, Consecutive, InHand
  <1>3. Positions /\ Seals
    BY DEF Positions, Seals
  <1> QED BY <1>1, <1>2, <1>3 DEF IInv

(* What a failure leaves behind, as far as types go.                       *)
FailTyped ==
    /\ queue' \in Seq(Frames) /\ bytes' \in Int /\ discarded' \in Nat
    /\ status' \in {"STARTING", "RUNNING", "DRAINING", "COMPLETE", "INCOMPLETE", "ERROR"}
    /\ calling' \subseteq Threads
    /\ failed' \in BOOLEAN /\ closing' \in BOOLEAN /\ complete' \in BOOLEAN

(* What a failure does, on whichever thread it happens.                    *)
LEMMA FailStep ==
    ASSUME NEW t \in Threads, TypeOK, Positions, Fail(t)
    PROVE  /\ queue' \in Seq(Frames) /\ bytes' \in Int /\ discarded' \in Nat
           /\ status' \in {"STARTING", "RUNNING", "DRAINING", "COMPLETE", "INCOMPLETE", "ERROR"}
           /\ calling' \subseteq Threads
           /\ failed' = TRUE /\ closing' = TRUE /\ complete' = complete /\ queue' = <<>>
           /\ discarded' = discarded + Len(queue)
           /\ ~failed => status' = "ERROR"
           /\ failed => status' = status
  <1>1. ActiveSize \in Int
    BY ActiveSizeType
  <1>2. Len(queue) \in Nat /\ (failed => Len(queue) = 0)
    BY DEF TypeOK, Positions
  <1>3. CASE failed
    BY <1>2, <1>3 DEF TypeOK, Positions, Fail, flags
  <1>4. CASE ~failed
    <2>1. calling' = calling \cup {t} /\ calling \subseteq Threads
      BY <1>4 DEF Fail, TypeOK
    <2>2. calling' \subseteq Threads
      BY <2>1
    <2> QED BY <1>1, <1>2, <1>4, <2>2 DEF TypeOK, Fail
  <1> QED BY <1>3, <1>4

LEMMA FailsTyped == ASSUME IInv, NEW t \in Threads, Fail(t) PROVE FailTyped
  <1>1. TypeOK /\ Positions
    BY DEF IInv
  <1>2. complete \in BOOLEAN
    BY <1>1 DEF TypeOK
  <1> QED BY <1>1, <1>2, FailStep DEF FailTyped

LEMMA TypeStep == IInv /\ [Next]_vars => TypeOK'
  <1> SUFFICES ASSUME IInv, [Next]_vars PROVE TypeOK'
    OBVIOUS
  <1> USE DEF IInv, TypeOK, Stages, counters, flags, sink, Outside, Healthy, At
  <1>1. CASE UNCHANGED vars
    BY <1>1 DEF vars
  <1>2. ASSUME NEW p \in Producers, Produce(p) PROVE TypeOK'
    <2>1. CASE SubmitInvalid(p)
      <3>1. refusing' \subseteq Producers
        BY <2>1 DEF SubmitInvalid
      <3> QED BY <2>1, <3>1 DEF SubmitInvalid
    <2>2. CASE Refuse(p)
      <3>1. Fail(p) /\ p \in Threads
        BY <2>2 DEF Refuse, Threads
      <3>2. FailTyped
        BY <3>1, FailsTyped
      <3>3. refusing' \subseteq Producers
        BY <2>2 DEF Refuse
      <3> QED BY <2>2, <3>2, <3>3 DEF Refuse, FailTyped
    <2>3. ASSUME NEW size \in Sizes, Submit(p, size) PROVE TypeOK'
      <3>1. [id |-> submitted + 1, size |-> size] \in Frames
        BY DEF Frames
      <3>2. CASE rejected' = rejected + 1 /\ refusing' = refusing \cup {p}
                 /\ UNCHANGED <<queue, bytes, submitted>>
        <4>1. refusing' \subseteq Producers
          BY <3>2
        <4> QED BY <2>3, <3>2, <4>1 DEF Submit
      <3>3. CASE /\ queue' = Append(queue, [id |-> submitted + 1, size |-> size])
                 /\ bytes' = bytes + size
                 /\ submitted' = submitted + 1
                 /\ UNCHANGED <<rejected, refusing>>
        <4>1. queue' \in Seq(Frames)
          BY <3>1, <3>3
        <4>2. bytes' \in Int
          BY <3>1, <3>3, WorkerAssumption
        <4> QED BY <2>3, <3>3, <4>1, <4>2 DEF Submit
      <3> QED BY <2>3, <3>2, <3>3 DEF Submit
    <2> QED BY <1>2, <2>1, <2>2, <2>3 DEF Produce
  <1>3. ASSUME NEW c \in BOOLEAN, Close(c) PROVE TypeOK'
    <2>1. CASE closing
      BY <1>3, <2>1 DEF Close
    <2>2. CASE ~closing
      <3>1. complete' \in BOOLEAN
        BY <1>3, <2>2, Zenon DEF Close
      <3> QED BY <1>3, <2>2, <3>1 DEF Close
    <2> QED BY <2>1, <2>2
  <1>4. ASSUME NEW t \in Threads, CallbackReturns(t) PROVE TypeOK'
    <2>1. calling' \subseteq Threads
      BY <1>4 DEF CallbackReturns
    <2> QED BY <1>4, <2>1 DEF CallbackReturns
  <1>5. CASE Run
    <2>0. WorkerFails => FailTyped
      BY FailsTyped DEF WorkerFails, Threads
    <2>1. CASE MakeSink
      <3>1. CASE Healthy
        BY <2>1, <3>1 DEF MakeSink
      <3>2. CASE WorkerFails
        BY <2>0, <2>1, <3>2 DEF MakeSink, FailTyped
      <3> QED BY <2>1, <3>1, <3>2 DEF MakeSink
    <2>2. CASE Announce BY <2>2 DEF Announce, Started
    <2>3. CASE Take
      <3>1. queue' \in Seq(Frames) /\ inHand' \in Frames
        BY <2>3 DEF Take
      <3> QED BY <2>3, <3>1 DEF Take
    <2>4. CASE Drained BY <2>4 DEF Drained, Exhausted
    <2>5. CASE Process
      <3>1. inHand \in Frames
        BY <2>5 DEF Process, Positions
      <3>2. inHand.id \in Nat
        BY <3>1, FrameFields
      <3> QED BY <2>5, <3>2 DEF Process
    <2>6. CASE ProcessFails BY <2>0, <2>6 DEF ProcessFails, FailTyped
    <2>7. CASE Measure
      <3>1. CASE Healthy BY <2>7, <3>1 DEF Measure
      <3>2. CASE WorkerFails BY <2>0, <2>7, <3>2 DEF Measure, FailTyped
      <3> QED BY <2>7, <3>1, <3>2 DEF Measure
    <2>8. CASE Account
      <3>1. ActiveSize \in Int
        BY ActiveSizeType
      <3> QED BY <2>8, <3>1 DEF Account, Lost
    <2>9. CASE Finalize BY <2>9 DEF Finalize, Finalizable
    <2>10. CASE Finish
      <3>1. CASE Healthy BY <2>10, <3>1 DEF Finish
      <3>2. CASE WorkerFails BY <2>0, <2>10, <3>2 DEF Finish, FailTyped
      <3> QED BY <2>10, <3>1, <3>2 DEF Finish
    <2>11. CASE CloseSink
      <3>1. CASE Healthy BY <2>11, <3>1 DEF CloseSink
      <3>2. CASE WorkerFails BY <2>0, <2>11, <3>2 DEF CloseSink, FailTyped
      <3> QED BY <2>11, <3>1, <3>2 DEF CloseSink
    <2>12. CASE Remeasure
      <3>1. CASE Healthy BY <2>12, <3>1 DEF Remeasure
      <3>2. CASE WorkerFails BY <2>0, <2>12, <3>2 DEF Remeasure, FailTyped
      <3> QED BY <2>12, <3>1, <3>2 DEF Remeasure
    <2>13. CASE End BY <2>13 DEF End
    <2> QED BY <1>5, <2>1, <2>2, <2>3, <2>4, <2>5, <2>6, <2>7, <2>8, <2>9, <2>10, <2>11, <2>12,
               <2>13 DEF Run
  <1> QED BY <1>1, <1>2, <1>3, <1>4, <1>5 DEF Next

(* What every later step uses of the types and of a failure.               *)
Failure ==
    /\ queue' = <<>> /\ failed' = TRUE /\ closing' = TRUE /\ complete' = complete
    /\ discarded' = discarded + Len(queue)
    /\ failed => status' = status /\ queue = <<>>
    /\ ~failed => status' = "ERROR"

Counts ==
    /\ submitted \in Nat /\ processed \in Nat /\ discarded \in Nat
    /\ failed \in BOOLEAN /\ complete \in BOOLEAN /\ sealed \in BOOLEAN
    /\ counted \in BOOLEAN /\ closing \in BOOLEAN
    /\ Len(queue) \in Nat /\ (queue = <<>> <=> Len(queue) = 0) /\ Len(<<>>) = 0
    /\ queue # <<>> => Head(queue) # NoFrame /\ Len(Tail(queue)) = Len(queue) - 1

LEMMA FailureStep == ASSUME IInv, NEW t \in Threads, Fail(t) PROVE Failure
  <1>1. TypeOK /\ Positions
    BY DEF IInv
  <1>2. failed => queue = <<>>
    BY <1>1 DEF Positions
  <1> QED BY <1>1, <1>2, FailStep DEF Failure

LEMMA CountsHold == IInv => Counts
  <1> SUFFICES ASSUME IInv PROVE Counts
    OBVIOUS
  <1>1. TypeOK
    BY DEF IInv
  <1>2. queue \in Seq(Frames)
    BY <1>1 DEF TypeOK
  <1>3. Len(queue) \in Nat /\ (queue = <<>> <=> Len(queue) = 0) /\ Len(<<>>) = 0
    BY <1>2
  <1>4. queue # <<>> => Head(queue) \in Frames /\ Len(Tail(queue)) = Len(queue) - 1
    BY <1>2
  <1>5. /\ submitted \in Nat /\ processed \in Nat /\ discarded \in Nat
        /\ failed \in BOOLEAN /\ complete \in BOOLEAN /\ sealed \in BOOLEAN
        /\ counted \in BOOLEAN /\ closing \in BOOLEAN
    BY <1>1 DEF TypeOK
  <1> QED BY <1>3, <1>4, <1>5, NoFrameAssumption DEF Counts

LEMMA Admitted ==
    ASSUME IInv, NEW f \in Frames
    PROVE  /\ Append(queue, f) # <<>> /\ Len(Append(queue, f)) = Len(queue) + 1
  <1>1. queue \in Seq(Frames)
    BY DEF IInv, TypeOK
  <1>2. Len(Append(queue, f)) = Len(queue) + 1 /\ Len(queue) \in Nat
    BY <1>1
  <1> QED BY <1>2

(* Where a frame is in hand follows the worker's program counter.           *)
LEMMA PositionStep == IInv /\ [Next]_vars => Positions'
  <1> SUFFICES ASSUME IInv, [Next]_vars PROVE Positions'
    OBVIOUS
  <1>0. /\ Counts
        /\ Positions
        /\ WorkerFails => Failure
    BY CountsHold, FailureStep DEF IInv, WorkerFails, Threads
  <1> USE <1>0 DEF Counts, Positions, counters, flags, sink, Outside, Healthy, At, Failure
  <1>1. CASE UNCHANGED vars
    BY <1>1 DEF vars
  <1>2. ASSUME NEW p \in Producers, Produce(p) PROVE Positions'
    <2>1. CASE SubmitInvalid(p) BY <2>1 DEF SubmitInvalid
    <2>2. CASE Refuse(p)
      <3>1. Failure
        BY <2>2, FailureStep DEF Refuse, Threads
      <3> QED BY <2>2, <3>1 DEF Refuse
    <2>3. ASSUME NEW size \in Sizes, Submit(p, size) PROVE Positions'
      <3>1. CASE UNCHANGED <<queue, submitted>>
        BY <2>3, <3>1 DEF Submit
      <3>2. CASE /\ queue' = Append(queue, [id |-> submitted + 1, size |-> size])
                 /\ submitted' = submitted + 1
        <4>0. [id |-> submitted + 1, size |-> size] \in Frames
          BY DEF Frames
        <4>1. queue' # <<>> /\ Len(queue') = Len(queue) + 1
          BY <3>2, <4>0, Admitted
        <4> QED BY <2>3, <3>2, <4>1 DEF Submit
      <3> QED BY <2>3, <3>1, <3>2 DEF Submit
    <2> QED BY <1>2, <2>1, <2>2, <2>3 DEF Produce
  <1>3. ASSUME NEW c \in BOOLEAN, Close(c) PROVE Positions'
    BY <1>3 DEF Close
  <1>4. ASSUME NEW t \in Threads, CallbackReturns(t) PROVE Positions'
    BY <1>4 DEF CallbackReturns
  <1>5. CASE Run
    <2>1. CASE MakeSink
      <3>1. CASE Healthy BY <2>1, <3>1 DEF MakeSink
      <3>2. CASE WorkerFails BY <2>1, <3>2 DEF MakeSink
      <3> QED BY <2>1, <3>1, <3>2 DEF MakeSink
    <2>2. CASE Announce BY <2>2 DEF Announce, Started
    <2>3. CASE Take BY <2>3 DEF Take
    <2>4. CASE Drained BY <2>4 DEF Drained, Exhausted
    <2>5. CASE Process BY <2>5 DEF Process
    <2>6. CASE ProcessFails BY <2>6 DEF ProcessFails
    <2>7. CASE Measure
      <3>1. CASE Healthy BY <2>7, <3>1 DEF Measure
      <3>2. CASE WorkerFails BY <2>7, <3>2 DEF Measure
      <3> QED BY <2>7, <3>1, <3>2 DEF Measure
    <2>8. CASE Account BY <2>8 DEF Account, Lost
    <2>9. CASE Finalize BY <2>9 DEF Finalize, Finalizable
    <2>10. CASE Finish
      <3>1. CASE Healthy BY <2>10, <3>1 DEF Finish
      <3>2. CASE WorkerFails BY <2>10, <3>2 DEF Finish
      <3> QED BY <2>10, <3>1, <3>2 DEF Finish
    <2>11. CASE CloseSink
      <3>1. CASE Healthy BY <2>11, <3>1 DEF CloseSink
      <3>2. CASE WorkerFails BY <2>11, <3>2 DEF CloseSink
      <3> QED BY <2>11, <3>1, <3>2 DEF CloseSink
    <2>12. CASE Remeasure
      <3>1. CASE Healthy BY <2>12, <3>1 DEF Remeasure
      <3>2. CASE WorkerFails BY <2>12, <3>2 DEF Remeasure
      <3> QED BY <2>12, <3>1, <3>2 DEF Remeasure
    <2>13. CASE End BY <2>13 DEF End
    <2> HIDE <1>0 DEF Counts, Failure, Healthy, At, Positions
    <2> QED BY <1>5, <2>1, <2>2, <2>3, <2>4, <2>5, <2>6, <2>7, <2>8, <2>9, <2>10, <2>11, <2>12,
               <2>13 DEF Run
  <1> QED BY <1>1, <1>2, <1>3, <1>4, <1>5 DEF Next

(* No action gains or loses a frame.                                        *)
LEMMA AccountingStep == IInv /\ [Next]_vars => Accounting'
  <1> SUFFICES ASSUME IInv, [Next]_vars PROVE Accounting'
    OBVIOUS
  <1>0. /\ Counts
        /\ Accounting
        /\ Positions
        /\ WorkerFails => Failure
    BY CountsHold, FailureStep DEF IInv, WorkerFails, Threads
  <1> USE <1>0 DEF Counts, Accounting, Positions, counters, flags, sink, Outside, Healthy, At, Failure
  <1>1. CASE UNCHANGED vars
    BY <1>1 DEF vars
  <1>2. ASSUME NEW p \in Producers, Produce(p) PROVE Accounting'
    <2>1. CASE SubmitInvalid(p) BY <2>1 DEF SubmitInvalid
    <2>2. CASE Refuse(p)
      <3>1. Failure
        BY <2>2, FailureStep DEF Refuse, Threads
      <3> QED BY <2>2, <3>1 DEF Refuse
    <2>3. ASSUME NEW size \in Sizes, Submit(p, size) PROVE Accounting'
      <3>1. CASE UNCHANGED <<queue, submitted>>
        BY <2>3, <3>1 DEF Submit
      <3>2. CASE /\ queue' = Append(queue, [id |-> submitted + 1, size |-> size])
                 /\ submitted' = submitted + 1
        <4>0. [id |-> submitted + 1, size |-> size] \in Frames
          BY DEF Frames
        <4>1. queue' # <<>> /\ Len(queue') = Len(queue) + 1
          BY <3>2, <4>0, Admitted
        <4> QED BY <2>3, <3>2, <4>1 DEF Submit
      <3> QED BY <2>3, <3>1, <3>2 DEF Submit
    <2> QED BY <1>2, <2>1, <2>2, <2>3 DEF Produce
  <1>3. ASSUME NEW c \in BOOLEAN, Close(c) PROVE Accounting'
    BY <1>3 DEF Close
  <1>4. ASSUME NEW t \in Threads, CallbackReturns(t) PROVE Accounting'
    BY <1>4 DEF CallbackReturns
  <1>5. CASE Run
    <2>1. CASE MakeSink
      <3>1. CASE Healthy BY <2>1, <3>1 DEF MakeSink
      <3>2. CASE WorkerFails BY <2>1, <3>2 DEF MakeSink
      <3> QED BY <2>1, <3>1, <3>2 DEF MakeSink
    <2>2. CASE Announce BY <2>2 DEF Announce, Started
    <2>3. CASE Take BY <2>3 DEF Take
    <2>4. CASE Drained BY <2>4 DEF Drained, Exhausted
    <2>5. CASE Process BY <2>5 DEF Process
    <2>6. CASE ProcessFails BY <2>6 DEF ProcessFails
    <2>7. CASE Measure
      <3>1. CASE Healthy BY <2>7, <3>1 DEF Measure
      <3>2. CASE WorkerFails BY <2>7, <3>2 DEF Measure
      <3> QED BY <2>7, <3>1, <3>2 DEF Measure
    <2>8. CASE Account BY <2>8 DEF Account, Lost
    <2>9. CASE Finalize BY <2>9 DEF Finalize, Finalizable
    <2>10. CASE Finish
      <3>1. CASE Healthy BY <2>10, <3>1 DEF Finish
      <3>2. CASE WorkerFails BY <2>10, <3>2 DEF Finish
      <3> QED BY <2>10, <3>1, <3>2 DEF Finish
    <2>11. CASE CloseSink
      <3>1. CASE Healthy BY <2>11, <3>1 DEF CloseSink
      <3>2. CASE WorkerFails BY <2>11, <3>2 DEF CloseSink
      <3> QED BY <2>11, <3>1, <3>2 DEF CloseSink
    <2>12. CASE Remeasure
      <3>1. CASE Healthy BY <2>12, <3>1 DEF Remeasure
      <3>2. CASE WorkerFails BY <2>12, <3>2 DEF Remeasure
      <3> QED BY <2>12, <3>1, <3>2 DEF Remeasure
    <2>13. CASE End BY <2>13 DEF End
    <2> HIDE <1>0 DEF Counts, Failure, Healthy, At, Positions, Accounting
    <2> QED BY <1>5, <2>1, <2>2, <2>3, <2>4, <2>5, <2>6, <2>7, <2>8, <2>9, <2>10, <2>11, <2>12,
               <2>13 DEF Run
  <1> QED BY <1>1, <1>2, <1>3, <1>4, <1>5 DEF Next

(* Only Finish seals, and nothing is admitted or lost afterwards.           *)
LEMMA SealStep == IInv /\ [Next]_vars => Seals'
  <1> SUFFICES ASSUME IInv, [Next]_vars PROVE Seals'
    OBVIOUS
  <1>0. /\ Counts
        /\ Seals
        /\ Accounting
        /\ Positions
        /\ WorkerFails => Failure
    BY CountsHold, FailureStep DEF IInv, WorkerFails, Threads
  <1> USE <1>0 DEF Counts, Seals, Accounting, Positions, counters, flags, sink, Outside, Healthy, At, Failure
  <1>1. CASE UNCHANGED vars
    BY <1>1 DEF vars
  <1>2. ASSUME NEW p \in Producers, Produce(p) PROVE Seals'
    <2>1. CASE SubmitInvalid(p) BY <2>1 DEF SubmitInvalid
    <2>2. CASE Refuse(p)
      <3>1. Failure
        BY <2>2, FailureStep DEF Refuse, Threads
      <3> QED BY <2>2, <3>1 DEF Refuse
    <2>3. ASSUME NEW size \in Sizes, Submit(p, size) PROVE Seals'
      <3>1. CASE UNCHANGED <<queue, submitted>>
        BY <2>3, <3>1 DEF Submit
      <3>2. CASE /\ queue' = Append(queue, [id |-> submitted + 1, size |-> size])
                 /\ submitted' = submitted + 1
        <4>0. [id |-> submitted + 1, size |-> size] \in Frames
          BY DEF Frames
        <4>1. queue' # <<>> /\ Len(queue') = Len(queue) + 1
          BY <3>2, <4>0, Admitted
        <4> QED BY <2>3, <3>2, <4>1 DEF Submit
      <3> QED BY <2>3, <3>1, <3>2 DEF Submit
    <2> QED BY <1>2, <2>1, <2>2, <2>3 DEF Produce
  <1>3. ASSUME NEW c \in BOOLEAN, Close(c) PROVE Seals'
    BY <1>3 DEF Close
  <1>4. ASSUME NEW t \in Threads, CallbackReturns(t) PROVE Seals'
    BY <1>4 DEF CallbackReturns
  <1>5. CASE Run
    <2>1. CASE MakeSink
      <3>1. CASE Healthy BY <2>1, <3>1 DEF MakeSink
      <3>2. CASE WorkerFails BY <2>1, <3>2 DEF MakeSink
      <3> QED BY <2>1, <3>1, <3>2 DEF MakeSink
    <2>2. CASE Announce BY <2>2 DEF Announce, Started
    <2>3. CASE Take BY <2>3 DEF Take
    <2>4. CASE Drained BY <2>4 DEF Drained, Exhausted
    <2>5. CASE Process BY <2>5 DEF Process
    <2>6. CASE ProcessFails BY <2>6 DEF ProcessFails
    <2>7. CASE Measure
      <3>1. CASE Healthy BY <2>7, <3>1 DEF Measure
      <3>2. CASE WorkerFails BY <2>7, <3>2 DEF Measure
      <3> QED BY <2>7, <3>1, <3>2 DEF Measure
    <2>8. CASE Account BY <2>8 DEF Account, Lost
    <2>9. CASE Finalize BY <2>9 DEF Finalize, Finalizable
    <2>10. CASE Finish
      <3>1. CASE Healthy BY <2>10, <3>1 DEF Finish
      <3>2. CASE WorkerFails BY <2>10, <3>2 DEF Finish
      <3> QED BY <2>10, <3>1, <3>2 DEF Finish
    <2>11. CASE CloseSink
      <3>1. CASE Healthy BY <2>11, <3>1 DEF CloseSink
      <3>2. CASE WorkerFails BY <2>11, <3>2 DEF CloseSink
      <3> QED BY <2>11, <3>1, <3>2 DEF CloseSink
    <2>12. CASE Remeasure
      <3>1. CASE Healthy BY <2>12, <3>1 DEF Remeasure
      <3>2. CASE WorkerFails BY <2>12, <3>2 DEF Remeasure
      <3> QED BY <2>12, <3>1, <3>2 DEF Remeasure
    <2>13. CASE End BY <2>13 DEF End
    <2> HIDE <1>0 DEF Counts, Failure, Healthy, At, Accounting, Positions, Seals
    <2> QED BY <1>5, <2>1, <2>2, <2>3, <2>4, <2>5, <2>6, <2>7, <2>8, <2>9, <2>10, <2>11, <2>12,
               <2>13 DEF Run
  <1> QED BY <1>1, <1>2, <1>3, <1>4, <1>5 DEF Next

(* Only Process extends what was handled, and with the next id.            *)
LEMMA OrderStep == IInv /\ [Next]_vars => InOrder'
  <1> SUFFICES ASSUME IInv, [Next]_vars PROVE InOrder'
    OBVIOUS
  <1>1. InOrder /\ Consecutive /\ handled \in Seq(Nat) /\ processed \in Nat
    BY DEF IInv, TypeOK
  <1>2. CASE UNCHANGED <<handled, processed>>
    BY <1>1, <1>2 DEF InOrder
  <1>3. CASE Process
    <2>1. inHand.id = processed + 1 /\ handled' = Append(handled, inHand.id)
          /\ processed' = processed + 1
      BY <1>1, <1>3 DEF Process, At, Consecutive
    <2> QED BY <1>1, <2>1 DEF InOrder
  <1>4. Process \/ UNCHANGED <<handled, processed>>
    BY DEF Next, vars, Produce, SubmitInvalid, Refuse, Submit, Close, CallbackReturns, Run,
           MakeSink, Announce, Take, Drained, ProcessFails, Measure, Account, Finalize, Finish,
           CloseSink, Remeasure, End, counters, sink
  <1> QED BY <1>2, <1>3, <1>4

(* The ways a step may disturb the numbering of the queue.                 *)
QueueStep ==
    \/ UNCHANGED <<queue, inHand, processed, counted>> /\ (pc' = "work" => pc = "work")
    \/ queue' = <<>> /\ UNCHANGED <<inHand, processed>> /\ (pc' = "work" => pc = "work")
    \/ \E f \in Frames : /\ queue' = Append(queue, f) /\ f.id = submitted + 1
                         /\ ~closing /\ UNCHANGED <<inHand, processed, counted, pc>>
    \/ Take \/ Process \/ Account

(* The queue stays gapless: an admission continues it, Take moves its head *)
(* into the hand, and a failure empties it.                                *)
LEMMA ConsecutiveStep == IInv /\ [Next]_vars => Consecutive'
  <1> SUFFICES ASSUME IInv, [Next]_vars PROVE Consecutive'
    OBVIOUS
  <1>0. /\ Counts /\ Consecutive /\ Positions /\ Accounting
        /\ queue \in Seq(Frames)
        /\ WorkerFails => Failure
    BY CountsHold, FailureStep DEF IInv, WorkerFails, Threads, TypeOK
  <1>1. CASE UNCHANGED <<queue, inHand, processed, counted>> /\ (pc' = "work" => pc = "work")
    BY <1>0, <1>1 DEF Consecutive, InHand
  <1>2. CASE /\ queue' = <<>> /\ UNCHANGED <<inHand, processed>>
             /\ pc' = "work" => pc = "work"
    BY <1>0, <1>2 DEF Consecutive
  <1>3. CASE \E f \in Frames : /\ queue' = Append(queue, f) /\ f.id = submitted + 1
                               /\ ~closing /\ UNCHANGED <<inHand, processed, counted, pc>>
    <2>1. PICK f \in Frames : /\ queue' = Append(queue, f) /\ f.id = submitted + 1
                              /\ ~closing /\ UNCHANGED <<inHand, processed, counted, pc>>
      BY <1>3
    <2>2. submitted = processed + InHand + Len(queue) /\ InHand' = InHand /\ InHand \in Nat
      BY <1>0, <2>1 DEF Accounting, InHand, Positions, Counts
    <2>3. ASSUME NEW i \in 1..Len(queue') PROVE queue'[i].id = processed' + InHand' + i
      <3>1. CASE i = Len(queue) + 1
        BY <1>0, <2>1, <2>2, <3>1 DEF Counts
      <3>2. CASE i # Len(queue) + 1
        <4>1. i \in 1..Len(queue) /\ queue'[i] = queue[i]
          BY <1>0, <2>1, <3>2 DEF Counts
        <4> QED BY <1>0, <2>1, <2>2, <4>1 DEF Consecutive
      <3> QED BY <3>1, <3>2
    <2>4. pc' = "work" => inHand'.id = processed' + 1
      BY <1>0, <2>1 DEF Consecutive
    <2> QED BY <2>3, <2>4 DEF Consecutive
  <1>4. CASE Take
    <2>1. queue # <<>> /\ inHand' = Head(queue) /\ queue' = Tail(queue) /\ processed' = processed
      BY <1>4 DEF Take
    <2>2. inHand = NoFrame /\ InHand = 0 /\ InHand' = 1
      BY <1>0, <1>4, <2>1 DEF Take, At, Positions, InHand, Counts
    <2>3. inHand'.id = processed + 1
      BY <1>0, <2>1, <2>2 DEF Consecutive, Counts
    <2>4. ASSUME NEW i \in 1..Len(queue') PROVE queue'[i].id = processed' + InHand' + i
      <3>1. i + 1 \in 1..Len(queue) /\ queue'[i] = queue[i + 1]
        BY <1>0, <2>1 DEF Counts
      <3> QED BY <1>0, <2>1, <2>2, <3>1 DEF Consecutive, Counts
    <2> QED BY <2>1, <2>3, <2>4 DEF Consecutive
  <1>5. CASE Process
    <2>1. InHand = 1 /\ InHand' = 0 /\ processed' = processed + 1 /\ queue' = queue
          /\ pc' # "work"
      BY <1>0, <1>5 DEF Process, At, Positions, InHand, Healthy
    <2> QED BY <1>0, <2>1 DEF Consecutive, Counts
  <1>6. CASE Account
    <2>1. InHand = 0 \/ queue = <<>>
      BY <1>0, <1>6 DEF Account, Lost, At, Positions, InHand
    <2>2. InHand' = 0 /\ queue' = queue /\ processed' = processed /\ pc' # "work"
      BY <1>6 DEF Account, Lost, InHand
    <2> QED BY <1>0, <2>1, <2>2 DEF Consecutive, Counts
  <1>7. QueueStep
    <2> USE DEF QueueStep
    <2> USE DEF counters, sink, flags, Outside, Healthy
    <2>1. CASE UNCHANGED vars
      BY <2>1 DEF vars
    <2>2. ASSUME NEW p \in Producers, SubmitInvalid(p) PROVE QueueStep
      BY <2>2 DEF SubmitInvalid
    <2>3. ASSUME NEW p \in Producers, Refuse(p) PROVE QueueStep
      <3>1. queue' = <<>>
        BY <2>3, FailureStep DEF Refuse, Threads, Failure
      <3> QED BY <2>3, <3>1 DEF Refuse
    <2>4. ASSUME NEW p \in Producers, NEW size \in Sizes, Submit(p, size) PROVE QueueStep
      <3>1. CASE UNCHANGED queue
        BY <2>4, <3>1 DEF Submit
      <3>2. CASE queue' = Append(queue, [id |-> submitted + 1, size |-> size])
        <4>1. [id |-> submitted + 1, size |-> size] \in Frames
          BY <1>0 DEF Frames, Counts
        <4>2. [id |-> submitted + 1, size |-> size].id = submitted + 1
          OBVIOUS
        <4> QED BY <2>4, <3>2, <4>1, <4>2 DEF Submit
      <3> QED BY <2>4, <3>1, <3>2 DEF Submit
    <2>5. ASSUME NEW c \in BOOLEAN, Close(c) PROVE QueueStep
      BY <2>5 DEF Close
    <2>6. ASSUME NEW t \in Threads, CallbackReturns(t) PROVE QueueStep
      BY <2>6 DEF CallbackReturns
    <2>7. CASE MakeSink \/ Finish \/ CloseSink \/ Remeasure \/ Measure \/ ProcessFails
      BY <1>0, <2>7 DEF MakeSink, Finish, CloseSink, Remeasure, Measure, ProcessFails, Failure
    <2>8. CASE Announce \/ Drained \/ Finalize \/ End
      BY <2>8 DEF Announce, Drained, Exhausted, Finalize, End
    <2> QED BY <2>1, <2>2, <2>3, <2>4, <2>5, <2>6, <2>7, <2>8 DEF Next, Produce, Run
  <1> QED BY <1>1, <1>2, <1>3, <1>4, <1>5, <1>6, <1>7 DEF QueueStep

LEMMA Inductive == IInv /\ [Next]_vars => IInv'
  <1> SUFFICES ASSUME IInv, [Next]_vars PROVE IInv'
    OBVIOUS
  <1>1. TypeOK' /\ Positions' /\ Accounting'
    BY TypeStep, PositionStep, AccountingStep
  <1>2. InOrder' /\ Consecutive' /\ Seals'
    BY OrderStep, ConsecutiveStep, SealStep
  <1> QED BY <1>1, <1>2 DEF IInv

LEMMA Invariance == Spec => []IInv
  <1> QED BY InitIInv, Inductive, PTL DEF Spec

(* The lane's variables keep their types.                                  *)
THEOREM TypeCorrect == Spec => []TypeOK
  <1>1. IInv => TypeOK
    BY DEF IInv
  <1> QED BY <1>1, Invariance, PTL

(* Every frame the lane accepted is processed, discarded, queued or in     *)
(* hand, exactly once, and the sink has handled a gapless prefix of them,  *)
(* whatever fails: no budget or thread is too many.                        *)
THEOREM FramesOnce == Spec => []EveryFrameOnce
  <1>1. IInv => EveryFrameOnce
    BY DEF IInv, EveryFrameOnce
  <1> QED BY <1>1, Invariance, PTL

(* A sink is only sealed when it holds every admitted frame, and the final *)
(* status says no more than that.                                          *)
THEOREM SealsAreWhole == Spec => []SealedIsWhole
  <1>1. IInv => SealedIsWhole
    <2> SUFFICES ASSUME IInv PROVE SealedIsWhole
      OBVIOUS
    <2>1. Seals /\ Accounting /\ Positions /\ Counts
      BY CountsHold DEF IInv
    <2>2. sealed => processed = submitted /\ discarded = 0
      BY <2>1 DEF Seals
    <2>3. status = "COMPLETE" => sealed
      BY <2>1 DEF Seals
    <2>4. status = "INCOMPLETE" => ~sealed
      BY <2>1 DEF Seals
    <2> QED BY <2>2, <2>3, <2>4 DEF SealedIsWhole
  <1> QED BY <1>1, Invariance, PTL

(* With one thread that both offers and closes, a rejection is followed by *)
(* its failure before a close can be complete.                             *)
RejectionPending ==
    /\ complete => closing
    /\ rejected > 0 => ~complete /\ (closing \/ Closer \in refusing)

LEMMA RejectionStep ==
    ASSUME Producers = {Closer}, IInv, RejectionPending, [Next]_vars
    PROVE  RejectionPending'
  <1>0. /\ rejected \in Nat /\ closing \in BOOLEAN /\ complete \in BOOLEAN
        /\ WorkerFails => Failure
    BY FailureStep DEF IInv, TypeOK, WorkerFails, Threads
  <1> USE DEF RejectionPending, counters, flags, sink, Outside, Healthy
  <1>1. CASE UNCHANGED vars
    BY <1>1 DEF vars
  <1>2. ASSUME NEW p \in Producers, Refuse(p) PROVE RejectionPending'
    <2>1. Failure
      BY <1>2, FailureStep DEF Refuse, Threads
    <2> QED BY <1>0, <1>2, <2>1 DEF Refuse, Failure
  <1>3. ASSUME NEW p \in Producers, SubmitInvalid(p) PROVE RejectionPending'
    BY <1>3 DEF SubmitInvalid
  <1>4. ASSUME NEW p \in Producers, NEW size \in Sizes, Submit(p, size)
        PROVE  RejectionPending'
    <2>1. p = Closer /\ ~closing /\ UNCHANGED <<closing, complete>>
      BY <1>4 DEF Submit
    <2>2. UNCHANGED <<rejected, refusing>> \/ refusing' = refusing \cup {p}
      BY <1>4 DEF Submit
    <2> QED BY <1>0, <2>1, <2>2
  <1>5. ASSUME NEW c \in BOOLEAN, Close(c) PROVE RejectionPending'
    <2>1. Closer \notin refusing /\ UNCHANGED rejected
      BY <1>5 DEF Close
    <2>2. CASE closing
      BY <1>5, <2>1, <2>2 DEF Close
    <2>3. CASE ~closing
      BY <1>0, <1>5, <2>1, <2>3 DEF Close
    <2> QED BY <2>2, <2>3
  <1>6. ASSUME NEW t \in Threads, CallbackReturns(t) PROVE RejectionPending'
    BY <1>6 DEF CallbackReturns
  <1>7. CASE MakeSink \/ Finish \/ CloseSink \/ Remeasure \/ Measure \/ ProcessFails
    <2>1. UNCHANGED <<rejected, refusing, complete>> /\ (closing' = closing \/ closing' = TRUE)
      BY <1>0, <1>7 DEF MakeSink, Finish, CloseSink, Remeasure, Measure, ProcessFails, Failure
    <2> QED BY <1>0, <2>1
  <1>8. CASE Announce \/ Take \/ Drained \/ Process \/ Account \/ Finalize \/ End
    BY <1>8 DEF Announce, Take, Drained, Process, Account, Finalize, End
  <1> QED BY <1>1, <1>2, <1>3, <1>4, <1>5, <1>6, <1>7, <1>8 DEF Next, Produce, Run

(* A lane that one thread both offers to and closes, as the SDK thread does*)
(* with the recorder and the analysis, never seals over an overflow.       *)
THEOREM OneOwnerNeverSealsOverflow ==
    ASSUME Producers = {Closer} PROVE Spec => []OverflowNeverSealed
  <1>1. Init => RejectionPending
    BY DEF Init, RejectionPending
  <1>2. IInv /\ RejectionPending /\ [Next]_vars => RejectionPending'
    BY RejectionStep
  <1>3. IInv /\ RejectionPending => OverflowNeverSealed
    <2> SUFFICES ASSUME IInv, RejectionPending PROVE OverflowNeverSealed
      OBVIOUS
    <2>1. Seals /\ rejected \in Nat
      BY DEF IInv, TypeOK
    <2> QED BY <2>1 DEF Seals, RejectionPending, OverflowNeverSealed
  <1> QED BY <1>1, <1>2, <1>3, Invariance, PTL DEF Spec

(* The running totals grow, so that none falls below the frame in hand.    *)
Growing(total) ==
    \A i, j \in 0..Len(queue) : i <= j => total[i] <= total[j]

Budgeted ==
    /\ \E total \in [0..Len(queue) -> 0..MaxBytes] :
          RunningTotal(total) /\ Growing(total) /\ bytes = total[Len(queue)]
    /\ Buffered <= MaxFrames

(* What a step may do to what is buffered.                                 *)
Emptied ==
    queue' = <<>> /\ inHand' = inHand /\ bytes' = ActiveSize
Accepted ==
    \E f \in Frames :
        /\ queue' = Append(queue, f) /\ inHand' = inHand /\ bytes' = bytes + f.size
        /\ Buffered < MaxFrames /\ bytes + f.size <= MaxBytes
BufferStep ==
    UNCHANGED <<queue, inHand, bytes>> \/ Emptied \/ Accepted \/ Take \/ Account

LEMMA SizesAreNatural ==
    ASSUME TypeOK
    PROVE  /\ ActiveSize \in Nat /\ Len(queue) \in Nat /\ bytes \in Int
           /\ \A i \in 1..Len(queue) : queue[i] \in Frames /\ queue[i].size \in Nat
           /\ MaxBytes \in Nat /\ MaxFrames \in Nat \ {0}
  <1>1. inHand = NoFrame \/ inHand \in Frames
    BY DEF TypeOK
  <1>2. ActiveSize \in Nat
    BY <1>1, FrameFields DEF ActiveSize
  <1>3. queue \in Seq(Frames) /\ bytes \in Int
    BY DEF TypeOK
  <1>4. Len(queue) \in Nat /\ \A i \in 1..Len(queue) : queue[i] \in Frames
    BY <1>3
  <1> QED BY <1>2, <1>3, <1>4, FrameFields, WorkerAssumption

LEMMA InitBudgeted == Init => Budgeted
  <1> SUFFICES ASSUME Init PROVE Budgeted
    OBVIOUS
  <1>1. queue = <<>> /\ inHand = NoFrame /\ bytes = 0 /\ Len(queue) = 0
    BY DEF Init
  <1> DEFINE total == [i \in 0..0 |-> 0]
  <1>2. total \in [0..Len(queue) -> 0..MaxBytes] /\ total[0] = 0
    BY <1>1, WorkerAssumption
  <1>3. RunningTotal(total) /\ Growing(total) /\ bytes = total[Len(queue)]
    BY <1>1, <1>2 DEF RunningTotal, Growing, ActiveSize
  <1>4. Buffered <= MaxFrames
    BY <1>1, WorkerAssumption DEF Buffered
  <1> QED BY <1>2, <1>3, <1>4 DEF Budgeted

LEMMA EveryStepBuffers == IInv /\ [Next]_vars => BufferStep
  <1> SUFFICES ASSUME IInv, [Next]_vars PROVE BufferStep
    OBVIOUS
  <1>0. ASSUME NEW t \in Threads, Fail(t), inHand' = inHand PROVE BufferStep
    <2>1. CASE failed
      BY <1>0, <2>1 DEF Fail, BufferStep
    <2>2. CASE ~failed
      BY <1>0, <2>2 DEF Fail, BufferStep, Emptied
    <2> QED BY <2>1, <2>2
  <1>1. CASE UNCHANGED vars
    BY <1>1 DEF vars, BufferStep
  <1>2. ASSUME NEW p \in Producers, SubmitInvalid(p) PROVE BufferStep
    BY <1>2 DEF SubmitInvalid, BufferStep
  <1>3. ASSUME NEW p \in Producers, Refuse(p) PROVE BufferStep
    BY <1>0, <1>3 DEF Refuse, Threads
  <1>4. ASSUME NEW p \in Producers, NEW size \in Sizes, Submit(p, size) PROVE BufferStep
    <2> DEFINE f == [id |-> submitted + 1, size |-> size]
    <2>1. f \in Frames /\ f.size = size
      BY DEF IInv, TypeOK, Frames
    <2>2. inHand' = inHand
      BY <1>4 DEF Submit
    <2>3. CASE UNCHANGED <<queue, bytes>>
      BY <2>2, <2>3 DEF BufferStep
    <2>4. CASE ~Overflows(size) /\ queue' = Append(queue, f) /\ bytes' = bytes + size
      <3>1. Len(queue) \in Nat /\ bytes \in Int /\ size \in Nat
            /\ MaxBytes \in Nat /\ MaxFrames \in Nat
        BY SizesAreNatural, WorkerAssumption DEF IInv
      <3>2. Buffered < MaxFrames /\ bytes + f.size <= MaxBytes
        BY <2>1, <2>4, <3>1 DEF Overflows, Buffered
      <3> QED BY <2>1, <2>2, <2>4, <3>2 DEF BufferStep, Accepted
    <2> QED BY <1>4, <2>3, <2>4 DEF Submit
  <1>5. ASSUME NEW c \in BOOLEAN, Close(c) PROVE BufferStep
    BY <1>5 DEF Close, BufferStep
  <1>6. ASSUME NEW t \in Threads, CallbackReturns(t) PROVE BufferStep
    BY <1>6 DEF CallbackReturns, BufferStep
  <1>7. CASE MakeSink \/ Measure \/ ProcessFails \/ Finish \/ CloseSink \/ Remeasure
    <2>1. inHand' = inHand /\ (Healthy \/ Fail(Worker))
      BY <1>7 DEF MakeSink, Measure, ProcessFails, Finish, CloseSink, Remeasure, WorkerFails
    <2>2. CASE Healthy
      BY <2>1, <2>2 DEF Healthy, BufferStep
    <2>3. CASE Fail(Worker)
      BY <1>0, <2>1, <2>3 DEF Threads
    <2> QED BY <2>1, <2>2, <2>3
  <1>8. CASE Announce \/ Drained \/ Process \/ Finalize \/ End
    BY <1>8 DEF Announce, Drained, Process, Finalize, End, BufferStep
  <1>9. CASE Take \/ Account
    BY <1>9 DEF BufferStep
  <1> QED BY <1>1, <1>2, <1>3, <1>4, <1>5, <1>6, <1>7, <1>8, <1>9 DEF Next, Produce, Run

(* An admission appends a total; Take moves the head from the queue to the *)
(* hand, which shifts them; Account takes the hand off each of them.       *)
LEMMA BudgetedStep == IInv /\ Budgeted /\ [Next]_vars => Budgeted'
  <1> SUFFICES ASSUME IInv, Budgeted, [Next]_vars PROVE Budgeted'
    OBVIOUS
  <1> DEFINE n == Len(queue)
  <1>0. /\ ActiveSize \in Nat /\ n \in Nat /\ bytes \in Int /\ queue \in Seq(Frames)
        /\ \A i \in 1..n : queue[i] \in Frames /\ queue[i].size \in Nat
        /\ MaxBytes \in Nat /\ MaxFrames \in Nat \ {0}
    BY SizesAreNatural DEF IInv, TypeOK
  <1>1. PICK total \in [0..n -> 0..MaxBytes] :
            RunningTotal(total) /\ Growing(total) /\ bytes = total[n]
    BY DEF Budgeted
  <1>2. Buffered <= MaxFrames
    BY DEF Budgeted
  <1>3. /\ \A i \in 0..n : total[i] \in Nat /\ total[i] <= MaxBytes /\ ActiveSize <= total[i]
        /\ total[0] = ActiveSize
    BY <1>0, <1>1 DEF RunningTotal, Growing
  <1>4. CASE UNCHANGED <<queue, inHand, bytes>>
    BY <1>1, <1>2, <1>4 DEF Budgeted, RunningTotal, Growing, ActiveSize, Buffered
  <1>5. CASE Emptied
    <2>1. Len(queue') = 0 /\ ActiveSize' = ActiveSize /\ bytes' = ActiveSize
      BY <1>5 DEF Emptied, ActiveSize
    <2>2. PICK new \in [0..Len(queue') -> 0..MaxBytes] : new[0] = ActiveSize
      <3> DEFINE only == [i \in 0..0 |-> ActiveSize]
      <3>1. only \in [0..Len(queue') -> 0..MaxBytes] /\ only[0] = ActiveSize
        BY <1>0, <1>3, <2>1
      <3> QED BY <3>1
    <2>3. RunningTotal(new)' /\ Growing(new)' /\ bytes' = new[Len(queue')]
      BY <1>0, <2>1, <2>2 DEF RunningTotal, Growing
    <2>4. Buffered' <= MaxFrames
      BY <1>0, <1>2, <1>5, <2>1 DEF Emptied, Buffered
    <2> QED BY <2>2, <2>3, <2>4 DEF Budgeted
  <1>6. CASE Accepted
    <2>1. PICK f \in Frames :
              /\ queue' = Append(queue, f) /\ inHand' = inHand /\ bytes' = bytes + f.size
              /\ Buffered < MaxFrames /\ bytes + f.size <= MaxBytes
      BY <1>6 DEF Accepted
    <2>2. /\ f.size \in Nat /\ Len(queue') = n + 1 /\ queue'[n + 1] = f
          /\ \A i \in 1..n : queue'[i] = queue[i]
          /\ ActiveSize' = ActiveSize
      BY <1>0, <2>1, FrameFields DEF ActiveSize
    <2>3. PICK new \in [0..Len(queue') -> 0..MaxBytes] :
              new[n + 1] = bytes + f.size /\ \A i \in 0..n : new[i] = total[i]
      <3> DEFINE longer == [i \in 0..(n + 1) |-> IF i = n + 1 THEN bytes + f.size ELSE total[i]]
      <3>1. bytes + f.size \in 0..MaxBytes
        BY <1>0, <1>1, <1>3, <2>1, <2>2
      <3>2. /\ Len(queue') = n + 1 /\ n + 1 \in 0..(n + 1)
            /\ \A i \in 0..n : i \in 0..(n + 1) /\ i # n + 1
            /\ \A i \in 0..(n + 1) : i # n + 1 => i \in 0..n
        BY <1>0, <2>2
      <3>3. ASSUME NEW i \in 0..(n + 1)
            PROVE  (IF i = n + 1 THEN bytes + f.size ELSE total[i]) \in 0..MaxBytes
        BY <1>1, <3>1, <3>2
      <3>4. longer \in [0..(n + 1) -> 0..MaxBytes]
        BY <3>3
      <3>5. longer[n + 1] = bytes + f.size /\ \A i \in 0..n : longer[i] = total[i]
        BY <3>2
      <3> HIDE DEF longer
      <3> QED BY <3>2, <3>4, <3>5
    <2>4. RunningTotal(new)'
      <3>1. new[0] = ActiveSize'
        BY <1>0, <1>3, <2>2, <2>3
      <3>2. ASSUME NEW i \in 1..Len(queue') PROVE new[i] = new[i - 1] + queue'[i].size
        <4>1. CASE i = n + 1
          BY <1>0, <1>1, <2>2, <2>3, <4>1
        <4>2. CASE i # n + 1
          <5>1. i \in 1..n /\ i - 1 \in 0..n /\ i \in 0..n
            BY <1>0, <2>2, <4>2
          <5>2. total[i] = total[i - 1] + queue[i].size
            BY <1>1, <5>1 DEF RunningTotal
          <5> QED BY <2>2, <2>3, <5>1, <5>2
        <4> QED BY <4>1, <4>2
      <3> QED BY <3>1, <3>2 DEF RunningTotal
    <2>5. Growing(new)'
      <3>1. \A i, j \in 0..n : i <= j => total[i] <= total[j]
        BY <1>1 DEF Growing
      <3>2. ASSUME NEW i \in 0..(n + 1), NEW j \in 0..(n + 1), i <= j PROVE new[i] <= new[j]
        <4>1. CASE j \in 0..n
          <5>1. i \in 0..n
            BY <1>0, <3>2, <4>1
          <5> QED BY <2>3, <3>1, <3>2, <4>1, <5>1
        <4>2. CASE j = n + 1 /\ i \in 0..n
          <5>1. total[i] <= total[n] /\ total[i] \in Nat
            BY <1>0, <1>3, <3>1, <4>2
          <5> QED BY <1>0, <1>1, <2>2, <2>3, <4>2, <5>1
        <4>3. CASE j = n + 1 /\ i = n + 1
          BY <1>0, <2>2, <2>3, <4>3
        <4> QED BY <1>0, <4>1, <4>2, <4>3
      <3> QED BY <2>2, <3>2 DEF Growing
    <2>6. bytes' = new[Len(queue')] /\ Buffered' <= MaxFrames
      BY <1>0, <2>1, <2>2, <2>3 DEF Buffered
    <2> QED BY <2>3, <2>4, <2>5, <2>6 DEF Budgeted
  <1>7. CASE Take
    <2>1. /\ queue # <<>> /\ inHand' = Head(queue) /\ queue' = Tail(queue) /\ bytes' = bytes
          /\ inHand = NoFrame
      BY <1>7 DEF Take, At, IInv, Positions
    <2>2. /\ n >= 1 /\ Len(queue') = n - 1 /\ inHand' = queue[1] /\ queue[1] \in Frames
          /\ \A i \in 1..(n - 1) : queue'[i] = queue[i + 1]
      BY <1>0, <2>1
    <2>3. ActiveSize = 0 /\ ActiveSize' = queue[1].size
      BY <2>1, <2>2, NoFrameAssumption DEF ActiveSize
    <2>4. PICK new \in [0..Len(queue') -> 0..MaxBytes] :
              \A i \in 0..(n - 1) : new[i] = total[i + 1]
      <3> DEFINE shifted == [i \in 0..(n - 1) |-> total[i + 1]]
      <3>1. shifted \in [0..Len(queue') -> 0..MaxBytes]
        BY <1>0, <1>1, <2>2
      <3> QED BY <3>1
    <2>5. \A i \in 1..n : total[i] = total[i - 1] + queue[i].size
      BY <1>1 DEF RunningTotal
    <2>6. RunningTotal(new)'
      <3>1. new[0] = ActiveSize'
        BY <1>0, <1>3, <2>2, <2>3, <2>4, <2>5
      <3>2. ASSUME NEW i \in 1..Len(queue') PROVE new[i] = new[i - 1] + queue'[i].size
        <4>1. i \in 1..(n - 1) /\ i + 1 \in 1..n /\ i \in 0..(n - 1) /\ i - 1 \in 0..(n - 1)
          BY <1>0, <2>2
        <4>2. new[i] = total[i + 1] /\ new[i - 1] = total[i] /\ queue'[i] = queue[i + 1]
          BY <1>0, <2>2, <2>4, <4>1
        <4>3. total[i + 1] = total[i] + queue[i + 1].size
          BY <1>0, <2>5, <4>1
        <4> QED BY <4>2, <4>3
      <3> QED BY <3>1, <3>2 DEF RunningTotal
    <2>7. Growing(new)'
      <3>1. ASSUME NEW i \in 0..(n - 1), NEW j \in 0..(n - 1), i <= j PROVE new[i] <= new[j]
        <4>1. i + 1 \in 0..n /\ j + 1 \in 0..n /\ i + 1 <= j + 1
          BY <1>0, <2>2, <3>1
        <4>2. total[i + 1] <= total[j + 1]
          BY <1>1, <4>1 DEF Growing
        <4> QED BY <2>4, <4>2
      <3> QED BY <2>2, <3>1 DEF Growing
    <2>8. bytes' = new[Len(queue')] /\ Buffered' <= MaxFrames
      <3>1. n - 1 \in 0..(n - 1) /\ new[n - 1] = total[n]
        BY <1>0, <2>2, <2>4
      <3>2. bytes' = new[Len(queue')]
        BY <1>1, <2>1, <2>2, <3>1
      <3>3. Buffered = n /\ Buffered' \in Nat /\ Buffered' <= n
        BY <1>0, <2>1, <2>2 DEF Buffered
      <3>4. Buffered' <= MaxFrames
        BY <1>0, <1>2, <3>3
      <3> QED BY <3>2, <3>4
    <2> QED BY <2>4, <2>6, <2>7, <2>8 DEF Budgeted
  <1>8. CASE Account
    <2>1. queue' = queue /\ inHand' = NoFrame /\ bytes' = bytes - ActiveSize
      BY <1>8 DEF Account
    <2>2. ActiveSize' = 0 /\ Len(queue') = n
      BY <2>1 DEF ActiveSize
    <2>3. PICK new \in [0..n -> 0..MaxBytes] : \A i \in 0..n : new[i] = total[i] - ActiveSize
      <3> DEFINE lower == [i \in 0..n |-> total[i] - ActiveSize]
      <3>1. lower \in [0..n -> 0..MaxBytes]
        BY <1>0, <1>1, <1>3
      <3> QED BY <3>1
    <2>4. RunningTotal(new)'
      <3>1. new[0] = ActiveSize'
        BY <1>0, <1>3, <2>2, <2>3
      <3>2. ASSUME NEW i \in 1..n PROVE new[i] = new[i - 1] + queue[i].size
        <4>1. i \in 0..n /\ i - 1 \in 0..n /\ total[i] = total[i - 1] + queue[i].size
          BY <1>0, <1>1 DEF RunningTotal
        <4>2. /\ new[i] = total[i] - ActiveSize /\ new[i - 1] = total[i - 1] - ActiveSize
              /\ total[i - 1] \in Nat /\ queue[i].size \in Nat
          BY <1>0, <1>3, <2>3, <4>1
        <4> QED BY <1>0, <4>1, <4>2
      <3> QED BY <2>1, <2>2, <3>1, <3>2 DEF RunningTotal
    <2>5. Growing(new)'
      <3>1. \A i, j \in 0..n : i <= j => total[i] <= total[j]
        BY <1>1 DEF Growing
      <3>2. ASSUME NEW i \in 0..n, NEW j \in 0..n, i <= j PROVE new[i] <= new[j]
        <4>1. total[i] <= total[j] /\ total[i] \in Nat /\ total[j] \in Nat
          BY <1>3, <3>1, <3>2
        <4>2. new[i] = total[i] - ActiveSize /\ new[j] = total[j] - ActiveSize
          BY <2>3
        <4> QED BY <1>0, <4>1, <4>2
      <3> QED BY <2>2, <3>2 DEF Growing
    <2>6. bytes' = new[Len(queue')] /\ Buffered' <= MaxFrames
      BY <1>0, <1>1, <1>2, <1>3, <2>1, <2>2, <2>3 DEF Buffered
    <2> QED BY <2>2, <2>3, <2>4, <2>5, <2>6 DEF Budgeted
  <1> QED BY <1>4, <1>5, <1>6, <1>7, <1>8, EveryStepBuffers DEF BufferStep

(* For every queue length and every sizes: the bytes the lane accounts for *)
(* are those of the frames it buffers, and neither budget is exceeded.     *)
THEOREM BudgetsAreKept == Spec => []BudgetsHold
  <1>1. Budgeted => BudgetsHold
    BY DEF Budgeted, BudgetsHold
  <1> QED BY <1>1, InitBudgeted, BudgetedStep, Invariance, PTL DEF Spec
=============================================================================
