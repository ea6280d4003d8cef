------------------------ MODULE PriorityAudioProofs ------------------------
(***************************************************************************)
(* Proofs about PriorityAudio for any set of threads and any repertoire in *)
(* which at most one thread makes proximity calls.                         *)
(***************************************************************************)
EXTENDS PriorityAudio, TLAPS

Streaming == {"resolve", "open", "recheck", "start", "run", "dispose"}

(* What each shared variable says about the threads' positions.            *)
ActiveIsOwner == \A c \in Callers : active = c <=> Owns(c)
LockIsUser == \A c \in Callers : lock = c <=> pc[c] \in Streaming
StreamIsOpen == \A c \in Callers : stream[c] # "none" => pc[c] \in Streaming
UrgentStages ==
    \A c \in Callers :
        /\ pc[c] \in {"admit", "await", "leave"} => kind[c] = "urgent"
        /\ pc[c] \in {"yield", "granted"} => kind[c] # "urgent"
        /\ kind[c] = "urgent" => "urgent" \in Repertoire[c]
OutcomeIsLate ==
    \A c \in Callers :
        /\ pc[c] \notin {"idle", "release", "leave"} => outcome[c] = "none"
        /\ pc[c] \in {"release", "leave"} => outcome[c] # "none"

Positions ==
    ActiveIsOwner /\ LockIsUser /\ StreamIsOpen /\ UrgentStages /\ OutcomeIsLate

IInv == TypeOK /\ Positions

(* The positions are the only thing the invariant reads beside the shared  *)
(* variables, so the actions fall into few groups.                         *)
LEMMA InitIInv == Init => IInv
  <1> SUFFICES ASSUME Init PROVE IInv
    OBVIOUS
  <1> USE RepertoireAssumption DEF Init
  <1>1. TypeOK
    <2>1. pc \in [Callers -> Stages] /\ outcome \in [Callers -> Outcomes]
      BY DEF Stages, Outcomes
    <2>2. kind \in [Callers -> Kinds] /\ stream \in [Callers -> {"none", "open", "started"}]
      BY DEF Kinds
    <2> QED BY <2>1, <2>2 DEF TypeOK
  <1>2. ActiveIsOwner
    BY DEF ActiveIsOwner, Owns, InDevice
  <1>3. LockIsUser /\ StreamIsOpen
    BY DEF LockIsUser, StreamIsOpen, Streaming
  <1>4. UrgentStages /\ OutcomeIsLate
    BY DEF UrgentStages, OutcomeIsLate
  <1> QED BY <1>1, <1>2, <1>3, <1>4 DEF IInv, Positions

LEMMA TypeStep == TypeOK /\ [Next]_vars => TypeOK'
  <1> SUFFICES ASSUME TypeOK, [Next]_vars PROVE TypeOK'
    OBVIOUS
  <1> USE RepertoireAssumption
  <1> USE DEF TypeOK, Stages, InDevice, Outcomes, At, Goto, Give, Cancel, CallerState,
              ArbiterState, token, device
  <1>1. CASE UNCHANGED vars
    BY <1>1 DEF vars
  <1>2. ASSUME NEW c \in Callers, Environment(c) PROVE TypeOK'
    <2>1. ASSUME NEW k \in Repertoire[c], Call(c, k) PROVE TypeOK'
      BY <2>1 DEF Call
    <2>2. CASE Stop(c) BY <2>2 DEF Stop
    <2>3. CASE Withdraw(c) BY <2>3 DEF Withdraw
    <2>4. CASE Expire(c) BY <2>4 DEF Expire
    <2>5. CASE Hang(c) BY <2>5 DEF Hang
    <2> QED BY <1>2, <2>1, <2>2, <2>3, <2>4, <2>5 DEF Environment
  <1>3. ASSUME NEW c \in Callers, Arbitrate(c) PROVE TypeOK'
    <2>1. CASE NormalEnter(c)
      BY <2>1 DEF NormalEnter, TakeNormal, Refused, MayInterrupt
    <2>2. CASE NormalWaited(c) BY <2>2 DEF NormalWaited, TakeNormal, Refused
    <2>3. CASE NormalBegin(c) BY <2>3 DEF NormalBegin
    <2>4. CASE UrgentEnter(c) BY <2>4 DEF UrgentEnter, Refused
    <2>5. CASE UrgentAdmit(c) BY <2>5 DEF UrgentAdmit, Abandon, TakeUrgent
    <2>6. CASE UrgentWaited(c) BY <2>6 DEF UrgentWaited, Abandon, TakeUrgent
    <2>7. CASE Settle(c)
      <3>1. Verdict(c) \in Outcomes
        BY DEF Verdict
      <3> QED BY <2>7, <3>1 DEF Settle
    <2>8. CASE Release(c) BY <2>8 DEF Release
    <2>9. CASE UrgentLeave(c) BY <2>9 DEF UrgentLeave
    <2> QED BY <1>3, <2>1, <2>2, <2>3, <2>4, <2>5, <2>6, <2>7, <2>8, <2>9 DEF Arbitrate
  <1>4. ASSUME NEW c \in Callers, Operate(c) PROVE TypeOK'
    <2>1. CASE DeviceEnter(c) BY <2>1 DEF DeviceEnter
    <2>2. CASE DeviceFault(c) BY <2>2 DEF DeviceFault
    <2>3. CASE Resolve(c) BY <2>3 DEF Resolve
    <2>4. CASE Open(c) BY <2>4 DEF Open
    <2>5. CASE Recheck(c) BY <2>5 DEF Recheck
    <2>6. CASE Start(c) BY <2>6 DEF Start
    <2>7. CASE RunEnds(c) BY <2>7 DEF RunEnds
    <2>8. CASE Dispose(c) BY <2>8 DEF Dispose
    <2> QED BY <1>4, <2>1, <2>2, <2>3, <2>4, <2>5, <2>6, <2>7, <2>8 DEF Operate
  <1> QED BY <1>1, <1>2, <1>3, <1>4 DEF Next

LEMMA PositionStep ==
    IInv /\ [Next]_vars => Positions'
  <1> SUFFICES ASSUME IInv, [Next]_vars
               PROVE Positions'
    OBVIOUS
  <1> USE RepertoireAssumption
  <1> USE DEF IInv, Positions, TypeOK, ActiveIsOwner, LockIsUser, StreamIsOpen, UrgentStages, OutcomeIsLate, Owns,
              Streaming, InDevice, At, Goto, Give, Cancel, CallerState, ArbiterState, token, device
  <1>1. CASE UNCHANGED vars
    BY <1>1 DEF vars
  <1>2. ASSUME NEW c \in Callers, Environment(c)
        PROVE Positions'
    <2>1. ASSUME NEW k \in Repertoire[c], Call(c, k)
          PROVE Positions'
      BY <2>1 DEF Call
    <2>2. CASE Stop(c) \/ Withdraw(c) \/ Expire(c) \/ Hang(c)
      BY <2>2 DEF Stop, Withdraw, Expire, Hang
    <2> QED BY <1>2, <2>1, <2>2 DEF Environment
  <1>3. ASSUME NEW c \in Callers, Arbitrate(c)
        PROVE Positions'
    <2>1. CASE NormalEnter(c)
      BY <2>1 DEF NormalEnter, TakeNormal, Refused, MayInterrupt
    <2>2. CASE NormalWaited(c) BY <2>2 DEF NormalWaited, TakeNormal, Refused
    <2>3. CASE NormalBegin(c) BY <2>3 DEF NormalBegin
    <2>4. CASE UrgentEnter(c) BY <2>4 DEF UrgentEnter, Refused
    <2>5. CASE UrgentAdmit(c) BY <2>5 DEF UrgentAdmit, Abandon, TakeUrgent
    <2>6. CASE UrgentWaited(c)
      BY <2>6 DEF UrgentWaited, Abandon, TakeUrgent, OwnerReleased
    <2>7. CASE Settle(c) BY <2>7 DEF Settle, Verdict
    <2>8. CASE Release(c) BY <2>8 DEF Release
    <2>9. CASE UrgentLeave(c) BY <2>9 DEF UrgentLeave
    <2> QED BY <1>3, <2>1, <2>2, <2>3, <2>4, <2>5, <2>6, <2>7, <2>8, <2>9 DEF Arbitrate
  <1>4. ASSUME NEW c \in Callers, Operate(c)
        PROVE Positions'
    <2>1. CASE DeviceEnter(c) BY <2>1 DEF DeviceEnter
    <2>2. CASE DeviceFault(c) BY <2>2 DEF DeviceFault
    <2>3. CASE Resolve(c) BY <2>3 DEF Resolve
    <2>4. CASE Open(c) BY <2>4 DEF Open
    <2>5. CASE Recheck(c) BY <2>5 DEF Recheck
    <2>6. CASE Start(c) BY <2>6 DEF Start
    <2>7. CASE RunEnds(c) BY <2>7 DEF RunEnds
    <2>8. CASE Dispose(c) BY <2>8 DEF Dispose
    <2> QED BY <1>4, <2>1, <2>2, <2>3, <2>4, <2>5, <2>6, <2>7, <2>8 DEF Operate
  <1> QED BY <1>1, <1>2, <1>3, <1>4 DEF Next

LEMMA Inductive == Spec => []IInv
  <1>1. IInv /\ [Next]_vars => IInv'
    BY TypeStep, PositionStep DEF IInv
  <1> QED BY InitIInv, <1>1, PTL DEF Spec

(* Every variable stays in its range.                                      *)
THEOREM TypeCorrect == Spec => []TypeOK
  <1>1. IInv => TypeOK
    BY DEF IInv
  <1> QED BY Inductive, <1>1, PTL

(* No two streams ever overlap and AudioIO never answers AUDIO_BUSY, for   *)
(* any number of threads: a waiter never takes the device from an owner    *)
(* that was cancelled but has not returned.                                *)
THEOREM ExclusiveDevice == Spec => []OneOwner
  <1>1. IInv => OneOwner
    BY RepertoireAssumption DEF IInv, Positions, TypeOK, ActiveIsOwner, LockIsUser, StreamIsOpen, OneOwner,
       Owns, Streaming, InDevice
  <1> QED BY Inductive, <1>1, PTL

(* A token is cancelled by another thread only for a call of higher rank.  *)
THEOREM PriorityOrder == Spec => OnlyUpwards
  <1> DEFINE Upwards ==
        \A c \in Callers :
          ~cancelled[c] /\ cancelled'[c] /\ pc'[c] = pc[c] /\ pc[c] # "idle" =>
            \E d \in Callers \ {c} : /\ Rank[kind[d]] > Rank[kind[c]]
                                     /\ pc'[d] \in {"yield", "await"}
  <1>1. IInv /\ [Next]_vars => [Upwards]_vars
    <2> SUFFICES ASSUME IInv, Next PROVE Upwards
      OBVIOUS
    <2> SUFFICES ASSUME NEW c \in Callers, ~cancelled[c], cancelled'[c], pc'[c] = pc[c]
                 PROVE \E d \in Callers \ {c} : /\ Rank[kind[d]] > Rank[kind[c]]
                                                /\ pc'[d] \in {"yield", "await"}
      OBVIOUS
    <2> USE DEF IInv, Positions, TypeOK, ActiveIsOwner, UrgentStages, Owns, InDevice, Stages,
                At, Goto, Cancel, CallerState, ArbiterState, token, device
    <2>1. PICK d \in Callers : Environment(d) \/ Arbitrate(d) \/ Operate(d)
      BY DEF Next
    <2>2. CASE Environment(d)
      BY <2>2 DEF Environment, Call, Stop, Withdraw, Expire, Hang
    <2>3. CASE Operate(d)
      BY <2>3 DEF Operate, DeviceEnter, DeviceFault, Resolve, Open, Recheck, Start,
                  RunEnds, Dispose
    <2>4. CASE NormalEnter(d)
      BY <2>4 DEF NormalEnter, TakeNormal, Refused, MayInterrupt
    <2>5. CASE UrgentAdmit(d)
      <3>1. active = c /\ c # d /\ pc'[d] = "await" /\ kind[d] = "urgent"
        BY <2>5 DEF UrgentAdmit, Abandon, TakeUrgent
      <3>2. kind[c] # "urgent"
        BY <3>1, RepertoireAssumption
      <3>3. Rank[kind[d]] > Rank[kind[c]]
        BY <3>1, <3>2 DEF Rank, Kinds
      <3> QED BY <3>1, <3>3
    <2>6. CASE Arbitrate(d) /\ ~NormalEnter(d) /\ ~UrgentAdmit(d)
      BY <2>6 DEF Arbitrate, NormalWaited, NormalBegin, UrgentEnter, UrgentWaited, Settle,
                  Release, UrgentLeave, TakeNormal, Refused, Abandon, TakeUrgent
    <2> QED BY <2>1, <2>2, <2>3, <2>4, <2>5, <2>6
  <1> QED BY Inductive, <1>1, PTL DEF Spec, OnlyUpwards

(* Once a proximity call waits, nobody else is granted the device.         *)
THEOREM ProximityFirst == Spec => NoOvertaking
  <1> DEFINE First == urgentWaiting /\ active' # active /\ active' # NoCaller
                        => kind[active'] = "urgent"
  <1>1. IInv /\ [Next]_vars => [First]_vars
    <2> SUFFICES ASSUME IInv, Next, urgentWaiting, active' # active, active' # NoCaller
                 PROVE kind[active'] = "urgent"
      OBVIOUS
    <2> USE DEF IInv, Positions, TypeOK, UrgentStages, At, CallerState, ArbiterState
    <2>1. PICK d \in Callers : Environment(d) \/ Arbitrate(d) \/ Operate(d)
      BY DEF Next
    <2>2. CASE Environment(d)
      BY <2>2 DEF Environment, Call, Stop, Withdraw, Expire, Hang
    <2>3. CASE Operate(d)
      BY <2>3 DEF Operate, DeviceEnter, DeviceFault, Resolve, Open, Recheck, Start,
                  RunEnds, Dispose
    <2>4. CASE Arbitrate(d)
      BY <2>4 DEF Arbitrate, NormalEnter, NormalWaited, NormalBegin, UrgentEnter, UrgentAdmit,
                  UrgentWaited, Settle, Release, UrgentLeave, TakeNormal, Refused, Abandon,
                  TakeUrgent
    <2> QED BY <2>1, <2>2, <2>3, <2>4
  <1> QED BY Inductive, <1>1, PTL DEF Spec, NoOvertaking

-----------------------------------------------------------------------------
(* The refinement.  A step of thread d leaves the other threads' requests  *)
(* and verdicts alone; these are the abstract changes it can make.         *)
Requests(d, r) == \A c \in Callers : Requested(c)' = IF c = d THEN r ELSE Requested(c)
Judges(d, v) == \A c \in Callers : Judged(c)' = IF c = d THEN v ELSE Judged(c)

LEMMA AbstractAsk ==
    ASSUME NEW d \in Callers, NEW k \in Kinds, Requested(d) = "none",
           Requests(d, k), Judges(d, "open"),
           cancelled' = [cancelled EXCEPT ![d] = FALSE], active' = active
    PROVE  Ownership!Ask(d, k)
  BY DEF Ownership!Ask, Requests, Judges

LEMMA AbstractRefuse ==
    ASSUME NEW d \in Callers, Requested(d) # "none", active # d,
           Requests(d, "none"), Judges(d, "undelivered"),
           cancelled' = cancelled, active' = active
    PROVE  Ownership!Refuse(d)
  BY DEF Ownership!Refuse, Requests, Judges

LEMMA AbstractGrant ==
    ASSUME NEW d \in Callers, Requested(d) # "none", active = NoCaller,
           Requests(d, Requested(d)), Judges(d, Judged(d)),
           cancelled' = cancelled, active' = d
    PROVE  Ownership!Grant(d)
  BY DEF Ownership!Grant, Requests, Judges

LEMMA AbstractRevoke ==
    ASSUME NEW d \in Callers, NEW e \in Callers, active = e,
           Requests(d, Requested(d)), Judges(d, Judged(d)),
           cancelled' = [cancelled EXCEPT ![e] = TRUE], active' = active
    PROVE  Ownership!Revoke(e)
  BY DEF Ownership!Revoke, Requests, Judges

LEMMA AbstractSettle ==
    ASSUME NEW d \in Callers, NEW v, active = d, Judged(d) = "open",
           v = "delivered" => ~cancelled[d],
           Requests(d, Requested(d)), Judges(d, v),
           cancelled' = cancelled, active' = active
    PROVE  Ownership!Settle(d, v)
  BY DEF Ownership!Settle, Requests, Judges

LEMMA AbstractRelease ==
    ASSUME NEW d \in Callers, active = d, Judged(d) # "open",
           Requests(d, "none"), Judges(d, Judged(d)),
           cancelled' = cancelled, active' = NoCaller
    PROVE  Ownership!Release(d)
  BY DEF Ownership!Release, Requests, Judges

LEMMA AbstractStutter ==
    ASSUME NEW d \in Callers, Requests(d, Requested(d)), Judges(d, Judged(d)),
           cancelled' = cancelled, active' = active
    PROVE  UNCHANGED Ownership!avars
  BY DEF Ownership!avars, Requests, Judges

LEMMA RefinementStep ==
    IInv /\ [Next]_vars => [Ownership!Next]_(Ownership!avars)
  <1> SUFFICES ASSUME IInv, Next PROVE Ownership!Next \/ UNCHANGED Ownership!avars
    BY DEF vars, token, device, Ownership!avars, Requested, Judged
  <1> DEFINE Keep(d) == Requests(d, Requested(d)) /\ Judges(d, Judged(d))
             Drop(d) == Requests(d, "none") /\ Judges(d, "undelivered")
             Same == cancelled' = cancelled /\ active' = active
  <1> USE DEF IInv, Positions, TypeOK, ActiveIsOwner, UrgentStages, OutcomeIsLate, Owns, InDevice,
              Kinds, At, Goto, Give, Cancel, CallerState, ArbiterState, token, device,
              Requested, Judged, Requests, Judges
  <1>1. PICK d \in Callers : Environment(d) \/ Arbitrate(d) \/ Operate(d)
    BY DEF Next
  <1>2. ASSUME NEW k \in Repertoire[d], Call(d, k) PROVE Ownership!Next
    <2>1. k \in Kinds
      BY RepertoireAssumption
    <2>2. Requested(d) = "none" /\ Requests(d, k) /\ Judges(d, "open")
      BY <1>2, <2>1 DEF Call
    <2>3. cancelled' = [cancelled EXCEPT ![d] = FALSE] /\ active' = active
      BY <1>2 DEF Call
    <2> HIDE DEF Requested, Judged, Requests, Judges, Kinds
    <2>4. Ownership!Ask(d, k)
      BY <2>1, <2>2, <2>3, AbstractAsk
    <2> QED BY <2>1, <2>4 DEF Ownership!Next
  <1>3. CASE Stop(d) \/ Withdraw(d) \/ Expire(d) \/ Hang(d) \/ UrgentLeave(d)
    <2>1. Keep(d) /\ Same
      BY <1>3 DEF Stop, Withdraw, Expire, Hang, UrgentLeave
    <2> QED BY <2>1, AbstractStutter
  <1>4. CASE NormalEnter(d) \/ NormalWaited(d)
    <2>1. \/ MayInterrupt(d) /\ Cancel(active) /\ active' = active /\ Keep(d)
          \/ Requested(d) # "none" /\ active # d /\ Drop(d) /\ Same
          \/ /\ Requested(d) # "none" /\ active = NoCaller /\ Keep(d)
             /\ cancelled' = cancelled /\ active' = d
      BY <1>4 DEF NormalEnter, NormalWaited, TakeNormal, Refused
    <2>2. \/ MayInterrupt(d) /\ Ownership!Revoke(active)
          \/ Ownership!Refuse(d) \/ Ownership!Grant(d)
      BY <2>1, AbstractRevoke, AbstractRefuse, AbstractGrant DEF MayInterrupt
    <2> QED BY <2>2 DEF Ownership!Next, MayInterrupt
  <1>5. CASE NormalBegin(d)
    <2>1. active = d /\ Judged(d) = "open" /\ Requests(d, Requested(d)) /\ Same
          /\ (Judges(d, "undelivered") \/ Judges(d, Judged(d)))
      BY <1>5 DEF NormalBegin
    <2>2. Ownership!Settle(d, "undelivered") \/ UNCHANGED Ownership!avars
      BY <2>1, AbstractSettle, AbstractStutter
    <2> QED BY <2>2 DEF Ownership!Next
  <1>6. CASE UrgentEnter(d)
    <2>1. Requested(d) # "none" /\ active # d /\ Same /\ (Drop(d) \/ Keep(d))
      BY <1>6 DEF UrgentEnter, Refused
    <2>2. Ownership!Refuse(d) \/ UNCHANGED Ownership!avars
      BY <2>1, AbstractRefuse, AbstractStutter
    <2> QED BY <2>2 DEF Ownership!Next
  <1>7. CASE UrgentAdmit(d) \/ UrgentWaited(d)
    <2>1. Requested(d) # "none" /\ active # d
      BY <1>7 DEF UrgentAdmit, UrgentWaited
    <2>2. \/ active # NoCaller /\ Cancel(active) /\ active' = active /\ Keep(d)
          \/ Drop(d) /\ Same
          \/ active = NoCaller /\ Keep(d) /\ cancelled' = cancelled /\ active' = d
      BY <1>7 DEF UrgentAdmit, UrgentWaited, Abandon, TakeUrgent, OwnerReleased
    <2>3. \/ active # NoCaller /\ Ownership!Revoke(active)
          \/ Ownership!Refuse(d) \/ Ownership!Grant(d)
      BY <2>1, <2>2, AbstractRevoke, AbstractRefuse, AbstractGrant
    <2> QED BY <2>3 DEF Ownership!Next
  <1>8. CASE Settle(d)
    <2>1. active = d /\ Judged(d) = "open" /\ Requests(d, Requested(d)) /\ Same
      BY <1>8 DEF Settle, Verdict
    <2>2. \/ Judges(d, "delivered") /\ ~cancelled[d]
          \/ Judges(d, "undelivered")
      BY <1>8 DEF Settle, Verdict, Discards, IsSet
    <2>3. Ownership!Settle(d, "delivered") \/ Ownership!Settle(d, "undelivered")
      BY <2>1, <2>2, AbstractSettle
    <2> QED BY <2>3 DEF Ownership!Next
  <1>9. CASE Release(d)
    <2>1. active = d /\ Judged(d) # "open" /\ Requests(d, "none") /\ Judges(d, Judged(d))
      BY <1>9 DEF Release
    <2>2. Ownership!Release(d)
      BY <1>9, <2>1, AbstractRelease DEF Release
    <2> QED BY <2>2 DEF Ownership!Next
  <1>10. CASE Operate(d)
    <2>1. active = d /\ Keep(d) /\ active' = active /\ (Cancel(d) \/ cancelled' = cancelled)
      BY <1>10 DEF Operate, DeviceEnter, DeviceFault, Resolve, Open, Recheck, Start,
                   RunEnds, Dispose
    <2>2. Ownership!Revoke(d) \/ UNCHANGED Ownership!avars
      BY <2>1, AbstractRevoke, AbstractStutter
    <2> QED BY <2>2 DEF Ownership!Next
  <1> QED BY <1>1, <1>2, <1>3, <1>4, <1>5, <1>6, <1>7, <1>8, <1>9, <1>10
             DEF Environment, Arbitrate

(* The arbiter implements the ownership contract: a revoked call is waited *)
(* for and its result, a partial recording included, is never delivered.   *)
THEOREM OwnershipRefinement == Spec => ImplementsOwnership
  <1>1. Init => Ownership!Init
    BY DEF Init, Ownership!Init, Requested, Judged
  <1> QED BY Inductive, <1>1, RefinementStep, PTL DEF Spec, ImplementsOwnership, Ownership!Spec
=============================================================================
