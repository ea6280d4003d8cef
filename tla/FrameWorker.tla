----------------------------- MODULE FrameWorker -----------------------------
(***************************************************************************)
(* live_worker.FrameWorker: a bounded FIFO between producers that must     *)
(* never wait and one thread that owns a slow sink from its factory to its *)
(* teardown.  Condition-protected blocks are single actions.  Frames are   *)
(* numbered in the order they are admitted.                                *)
(***************************************************************************)
EXTENDS Integers, Sequences

CONSTANTS Producers,   \* threads that submit
          Closer,      \* the thread that closes; it may be a producer too
          Worker,      \* the sink's own thread
          NoFrame,     \* Python's None for _active_at
          Sizes,       \* the sizes a payload may have
          MaxFrames,   \* max_frames
          MaxBytes,    \* max_bytes
          MayAge,      \* whether the lane has a max_age_s
          MaxOffers    \* bound: frames offered in one behaviour

ASSUME WorkerAssumption ==
    /\ Worker \notin Producers
    /\ Sizes \subseteq Nat \ {0}
    /\ MaxFrames \in Nat \ {0} /\ MaxBytes \in Nat \ {0} /\ MaxOffers \in Nat
    /\ MayAge \in BOOLEAN

Frames == [id : Nat, size : Sizes]
ASSUME NoFrameAssumption == NoFrame \notin Frames

VARIABLES
    queue,       \* _queue
    inHand,      \* the frame behind _active_size, or NoFrame
    counted,     \* whether the frame in hand is already in processed
    bytes,       \* _bytes
    submitted, processed, discarded, rejected,
    failed, closing, complete,
    status,      \* _status; the reason is left out
    pc,          \* where the worker thread stands in _run
    refusing,    \* producers between a refusal and the _fail that follows it
    calling,     \* threads inside the on_failure callback
    asked,       \* the closer has called close
    handled,     \* history: ids the sink processed, in order
    sealed,      \* the sink's finish() returned
    resource     \* the sink: not made, open or closed

counters == <<submitted, processed, discarded, rejected>>
flags == <<failed, closing, complete, status>>
sink == <<handled, sealed, resource>>
vars == <<queue, inHand, counted, bytes, counters, flags, pc, refusing, calling,
          asked, sink>>

Stages == {"factory", "announce", "loop", "work", "measure", "account", "finalize",
           "finish", "close", "remeasure", "end", "done"}
Threads == Producers \cup {Worker}

TypeOK ==
    /\ queue \in Seq(Frames)
    /\ inHand \in Frames \cup {NoFrame}
    /\ counted \in BOOLEAN
    /\ bytes \in Int
    /\ submitted \in Nat /\ processed \in Nat /\ discarded \in Nat /\ rejected \in Nat
    /\ failed \in BOOLEAN /\ closing \in BOOLEAN /\ complete \in BOOLEAN
    /\ status \in {"STARTING", "RUNNING", "DRAINING", "COMPLETE", "INCOMPLETE", "ERROR"}
    /\ pc \in Stages
    /\ refusing \subseteq Producers
    /\ calling \subseteq Threads
    /\ asked \in BOOLEAN
    /\ handled \in Seq(Nat)
    /\ sealed \in BOOLEAN
    /\ resource \in {"none", "open", "closed"}

Init ==
    /\ queue = <<>> /\ inHand = NoFrame /\ counted = FALSE /\ bytes = 0
    /\ submitted = 0 /\ processed = 0 /\ discarded = 0 /\ rejected = 0
    /\ failed = FALSE /\ closing = FALSE /\ complete = FALSE
    /\ status = "STARTING"
    /\ pc = "factory"
    /\ refusing = {} /\ calling = {} /\ asked = FALSE
    /\ handled = <<>> /\ sealed = FALSE /\ resource = "none"

ActiveSize == IF inHand = NoFrame THEN 0 ELSE inHand.size
Buffered == Len(queue) + (IF inHand = NoFrame THEN 0 ELSE 1)

-----------------------------------------------------------------------------
(* _fail: the first failure latches, clears the queue into discarded and   *)
(* then, without the lock, runs on_failure on the failing thread.          *)
Fail(t) ==
    IF failed
    THEN UNCHANGED <<flags, queue, bytes, discarded, calling>>
    ELSE /\ failed' = TRUE
         /\ closing' = TRUE
         /\ status' = "ERROR"
         /\ discarded' = discarded + Len(queue)
         /\ queue' = <<>>
         /\ bytes' = ActiveSize
         /\ calling' = calling \cup {t}
         /\ UNCHANGED complete

CallbackReturns(t) ==
    /\ t \in calling
    /\ calling' = calling \ {t}
    /\ UNCHANGED <<queue, inHand, counted, bytes, counters, flags, pc, refusing, asked, sink>>

(* Whether submit refuses a frame: the oldest one is over its age, or the  *)
(* frame in hand and the queue already fill one of the budgets.            *)
OverflowsIgnoringHand(size) == Len(queue) >= MaxFrames \/ bytes + size > MaxBytes
Overflows(size) == Buffered >= MaxFrames \/ bytes + size > MaxBytes
Stale == MayAge /\ Buffered > 0

(* A closing thread submits nothing after its own close.                   *)
MaySubmit(p) ==
    p \notin refusing \cup calling /\ (p # Closer \/ ~asked)

Submit(p, size) ==
    /\ MaySubmit(p)
    /\ ~closing
    /\ submitted + rejected < MaxOffers
    /\ \/ /\ ~Overflows(size)
          /\ queue' = Append(queue, [id |-> submitted + 1, size |-> size])
          /\ bytes' = bytes + size
          /\ submitted' = submitted + 1
          /\ UNCHANGED <<rejected, refusing>>
       \/ /\ Overflows(size) \/ Stale
          /\ rejected' = rejected + 1
          /\ refusing' = refusing \cup {p}
          /\ UNCHANGED <<queue, bytes, submitted>>
    /\ UNCHANGED <<inHand, counted, processed, discarded, flags, pc, calling, asked, sink>>

(* A payload or an observation time that is not valid, and fail_payload:   *)
(* checked without the lock, whatever the lane's state.                    *)
SubmitInvalid(p) ==
    /\ MaySubmit(p)
    /\ ~failed
    /\ refusing' = refusing \cup {p}
    /\ UNCHANGED <<queue, inHand, counted, bytes, counters, flags, pc, calling, asked, sink>>

Refuse(p) ==
    /\ p \in refusing
    /\ refusing' = refusing \ {p}
    /\ Fail(p)
    /\ UNCHANGED <<inHand, counted, submitted, processed, rejected, pc, asked, sink>>

Close(c) ==
    /\ Closer \notin refusing \cup calling
    /\ ~asked
    /\ asked' = TRUE
    /\ IF closing
       THEN UNCHANGED flags
       ELSE /\ closing' = TRUE
            /\ complete' = c
            /\ status' = "DRAINING"
            /\ UNCHANGED failed
    /\ UNCHANGED <<queue, inHand, counted, bytes, counters, pc, refusing, calling, sink>>

-----------------------------------------------------------------------------
(* The worker thread.                                                      *)

At(stage) == pc = stage /\ Worker \notin calling
WorkerFails == Fail(Worker)
Healthy == UNCHANGED <<flags, queue, bytes, discarded, calling>>
Outside == <<submitted, rejected, refusing, asked>>

MakeSink ==
    /\ At("factory")
    /\ \/ resource' = "open" /\ pc' = "announce" /\ (Healthy \/ WorkerFails)
       \/ resource' = "none" /\ pc' = "end" /\ WorkerFails
    /\ UNCHANGED <<Outside, inHand, counted, processed, handled, sealed>>

Started == IF closing THEN status ELSE "RUNNING"

Announce ==
    /\ At("announce")
    /\ status' = Started
    /\ pc' = "loop"
    /\ UNCHANGED <<Outside, queue, inHand, counted, bytes, processed, discarded, failed,
                   closing, complete, calling, sink>>

Take ==
    /\ At("loop")
    /\ queue # <<>>
    /\ inHand' = Head(queue)
    /\ queue' = Tail(queue)
    /\ counted' = FALSE
    /\ pc' = "work"
    /\ UNCHANGED <<Outside, bytes, processed, discarded, flags, calling, sink>>

(* The wait in _run is over and nothing is left in the queue.              *)
ExhaustedOnComplete == queue = <<>> /\ complete
Exhausted == queue = <<>> /\ closing

Drained ==
    /\ At("loop")
    /\ Exhausted
    /\ pc' = "finalize"
    /\ UNCHANGED <<Outside, queue, inHand, counted, bytes, processed, discarded, flags,
                   calling, sink>>

Process ==
    /\ At("work")
    /\ handled' = Append(handled, inHand.id)
    /\ processed' = processed + 1
    /\ counted' = TRUE
    /\ pc' = "measure"
    /\ UNCHANGED <<Outside, queue, inHand, bytes, discarded, flags, calling, sealed, resource>>

(* The frame is over its age, or the sink raised.                          *)
ProcessFails ==
    /\ At("work")
    /\ WorkerFails
    /\ pc' = "measure"
    /\ UNCHANGED <<Outside, inHand, counted, processed, sink>>

(* _refresh_bytes fails when the sink's byte count is not monotone.        *)
Measure ==
    /\ At("measure")
    /\ Healthy \/ WorkerFails
    /\ pc' = "account"
    /\ UNCHANGED <<Outside, inHand, counted, processed, sink>>

LostIgnored == 0
Lost == IF counted THEN 0 ELSE 1

Account ==
    /\ At("account")
    /\ discarded' = discarded + Lost
    /\ bytes' = bytes - ActiveSize
    /\ inHand' = NoFrame
    /\ pc' = IF failed THEN "finalize" ELSE "loop"
    /\ UNCHANGED <<Outside, queue, counted, processed, flags, calling, sink>>

FinalizableOnFault == complete
Finalizable == complete /\ ~failed

Finalize ==
    /\ At("finalize")
    /\ pc' = IF Finalizable THEN "finish" ELSE "close"
    /\ UNCHANGED <<Outside, queue, inHand, counted, bytes, processed, discarded, flags,
                   calling, sink>>

Finish ==
    /\ At("finish")
    /\ \/ sealed' = TRUE /\ Healthy
       \/ sealed' = FALSE /\ WorkerFails
    /\ pc' = "close"
    /\ UNCHANGED <<Outside, inHand, counted, processed, handled, resource>>

CloseSink ==
    /\ At("close")
    /\ Healthy \/ WorkerFails
    /\ resource' = "closed"
    /\ pc' = "remeasure"
    /\ UNCHANGED <<Outside, inHand, counted, processed, handled, sealed>>

Remeasure ==
    /\ At("remeasure")
    /\ Healthy \/ WorkerFails
    /\ pc' = "end"
    /\ UNCHANGED <<Outside, inHand, counted, processed, sink>>

End ==
    /\ At("end")
    /\ status' = IF failed THEN status ELSE IF complete THEN "COMPLETE" ELSE "INCOMPLETE"
    /\ pc' = "done"
    /\ UNCHANGED <<Outside, queue, inHand, counted, bytes, processed, discarded, failed,
                   closing, complete, calling, sink>>

Run == \/ MakeSink \/ Announce \/ Take \/ Drained \/ Process \/ ProcessFails \/ Measure
       \/ Account \/ Finalize \/ Finish \/ CloseSink \/ Remeasure \/ End

Produce(p) == SubmitInvalid(p) \/ Refuse(p) \/ \E size \in Sizes : Submit(p, size)

Next ==
    \/ \E p \in Producers : Produce(p)
    \/ \E c \in BOOLEAN : Close(c)
    \/ \E t \in Threads : CallbackReturns(t)
    \/ Run

(* The sink's thread is scheduled and its sink returns; a callback returns *)
(* and a thread inside submit goes on.  Nobody has to submit or close.     *)
Fairness ==
    /\ WF_vars(Run)
    /\ \A t \in Threads : WF_vars(CallbackReturns(t))
    /\ \A p \in Producers : WF_vars(Refuse(p))

Spec == Init /\ [][Next]_vars
FairSpec == Spec /\ Fairness
-----------------------------------------------------------------------------
(* Properties.                                                             *)

(* Every admitted frame is processed, discarded, queued or in hand, and    *)
(* counted exactly once, whatever fails and whenever: a snapshot's figures *)
(* explain every frame the lane accepted.                                  *)
Accounting ==
    submitted = processed + discarded + Len(queue)
                  + (IF inHand # NoFrame /\ ~counted THEN 1 ELSE 0)

(* "They preserve order and fail explicitly on bounded queue overflow"     *)
(* (run_reader): what the sink has seen is a gapless prefix of what was    *)
(* admitted, in the order of admission, never a later frame after a loss.  *)
InOrder ==
    /\ Len(handled) = processed
    /\ \A i \in 1..Len(handled) : handled[i] = i

(* No failure loses, repeats or reorders a frame: the figures and the sink *)
(* tell the same story.                                                    *)
EveryFrameOnce == Accounting /\ InOrder

(* "errors/overflow never finalize it as COMPLETE" (FrameWorker): a sealed *)
(* sink holds every admitted frame, and the status never says otherwise.   *)
SealedIsWhole ==
    /\ sealed => processed = submitted /\ discarded = 0
    /\ status = "COMPLETE" => sealed
    /\ status = "INCOMPLETE" => ~sealed

(* "This rejected observation is part of the incomplete boundary" (submit):*)
(* a sink that lost a frame to an overflow is not sealed.                  *)
OverflowNeverSealed == sealed => rejected = 0

(* The bytes of the frame in hand and of the first i frames in the queue.  *)
RunningTotal(total) ==
    /\ total[0] = ActiveSize
    /\ \A i \in 1..Len(queue) : total[i] = total[i - 1] + queue[i].size

(* Both budgets include the frame in hand, and _bytes is exactly what is   *)
(* buffered: neither a failure nor a slow frame leaks a byte or a slot.    *)
BudgetsHold ==
    /\ \E total \in [0..Len(queue) -> 0..MaxBytes] :
          RunningTotal(total) /\ bytes = total[Len(queue)]
    /\ Buffered <= MaxFrames

(* A lane that was closed or has failed ends: its thread finishes, every   *)
(* admitted frame is accounted for, and a failure has been announced.      *)
Ends ==
    closing ~> /\ pc = "done"
               /\ submitted = processed + discarded
               /\ failed => calling = {}
=============================================================================
