------------------------- MODULE VoiceServiceProofs -------------------------
(***************************************************************************)
(* Proofs about VoiceService for every length of its queue and any set of  *)
(* talk buttons.                                                           *)
(***************************************************************************)
EXTENDS VoiceService, FiniteSetTheorems, FunctionTheorems, TLAPS

(* The count of pending configurations is what waits and what is applied;  *)
(* callers queue questions and tests, and nobody queues a fuel call.       *)
IsConfigure(j) == j # Nothing /\ j.action = "configure"
Configures(s) == {i \in DOMAIN s : s[i].action = "configure"}
Counted ==
    /\ pending = Cardinality(Configures(jobs)) + (IF IsConfigure(cur) THEN 1 ELSE 0)
    /\ \A c \in Callers : putting[c] # Nothing => putting[c].action \in {"listen", "test"}
    /\ \A i \in DOMAIN jobs : jobs[i].action # "auto"

(* Where the worker has a job, and which.                                  *)
Underway == {"cue", "record", "recognize", "intent", "draft", "confirm", "submit", "await",
             "say", "play", "arm", "drop"}
Positions ==
    /\ at \in {"get", "done"} <=> cur = Nothing
    /\ at = "autoTake" => cur.action = "auto"
    /\ at \in Underway /\ cur.action = "listen" =>
         IF cur.valid THEN latest = "job" ELSE cur.cut

(* A question whose release Event is not set is the current one, and its   *)
(* Event is the one the callers set.                                       *)
Silent(j) == j # Nothing /\ j.action = "listen" => j.released
Quiet(j) ==
    j # Nothing /\ j.action = "listen" /\ ~j.released =>
        j.valid /\ held /\ latest = "job" /\ pending = 0 /\ ~bindPending /\ ~shutdown
AllQuiet ==
    /\ \A i \in DOMAIN jobs : Quiet(jobs[i])
    /\ \A c \in Callers : Quiet(putting[c])
    /\ Quiet(cur)

(* The readback of what may become a confirmation has returned.            *)
ReadBack ==
    (at \in {"arm", "confirm"} \/ review = "armed") /\ fresh => readback # "none"

IInv == TypeOK /\ Counted /\ Positions /\ AllQuiet /\ ReadBack /\ PausedIsOff

-----------------------------------------------------------------------------
(* Single jobs.                                                            *)

Actions == {"initialize", "configure", "refresh", "bind", "listen", "test", "auto"}

LEMMA NewJob == \A a \in Actions : Job(a) \in Jobs /\ Job(a).action = a /\ Job(a) # Nothing
  <1> SUFFICES ASSUME NEW a \in Actions
               PROVE  Job(a) \in Jobs /\ Job(a).action = a /\ Job(a) # Nothing
    OBVIOUS
  <1>1. Job(a) \in Jobs /\ Job(a).action = a
    BY DEF Job, Jobs, Actions, Spoken
  <1> QED BY <1>1, NothingAssumption

LEMMA NewConfigure ==
    ASSUME NEW on \in BOOLEAN
    PROVE  /\ [Job("configure") EXCEPT !.on = on] \in Jobs
           /\ [Job("configure") EXCEPT !.on = on].action = "configure"
  BY DEF Job, Jobs

(* A change of flags keeps a job a job of the same kind.                   *)
Alike(j, k) ==
    /\ k \in Jobs \cup {Nothing}
    /\ (j = Nothing) <=> (k = Nothing)
    /\ j # Nothing => k.action = j.action /\ (j.released => k.released)

LEMMA LeftOne ==
    ASSUME NEW j \in Jobs \cup {Nothing}
    PROVE  /\ Alike(j, Left(j))
           /\ Quiet(j) => Silent(Left(j))
           /\ j # Nothing /\ j.action = "listen" =>
                ~Left(j).valid /\ (IF j.valid THEN latest = "job" => Left(j).cut ELSE Left(j) = j)
  <1>1. CASE j = Nothing
    BY <1>1 DEF Left, Alike, Silent
  <1>2. CASE j # Nothing /\ j.action \in Spoken /\ j.valid
    <2>1. Left(j) \in Jobs
      BY <1>2 DEF Left, Jobs, Named
    <2>2. Left(j) # Nothing
      BY <2>1, NothingAssumption
    <2> QED BY <1>2, <2>1, <2>2 DEF Left, Alike, Silent, Named, Jobs
  <1>3. CASE j # Nothing /\ ~(j.action \in Spoken /\ j.valid)
    BY <1>3 DEF Left, Alike, Silent, Quiet, Spoken
  <1> QED BY <1>1, <1>2, <1>3

LEMMA UnboundOne ==
    ASSUME NEW j \in Jobs \cup {Nothing}
    PROVE  /\ Alike(j, Unbound(j))
           /\ j # Nothing /\ j.action # "bind" => Unbound(j) = j
           /\ Silent(j) => Silent(Unbound(j))
  <1>1. CASE j # Nothing /\ j.action = "bind"
    <2>1. Unbound(j) \in Jobs
      BY <1>1 DEF Unbound, Jobs
    <2> QED BY <1>1, <2>1, NothingAssumption DEF Unbound, Alike, Jobs, Silent
  <1>2. CASE ~(j # Nothing /\ j.action = "bind")
    BY <1>2 DEF Unbound, Alike
  <1> QED BY <1>1, <1>2

LEMMA LiftedOne ==
    ASSUME NEW j \in Jobs \cup {Nothing}
    PROVE  /\ Alike(j, Lifted(j))
           /\ Quiet(j) => Silent(Lifted(j))
           /\ j # Nothing => Lifted(j).valid = j.valid /\ Lifted(j).cut = j.cut
  <1>1. CASE j # Nothing /\ j.action = "listen" /\ j.valid
    <2>1. Lifted(j) \in Jobs
      BY <1>1 DEF Lifted, Jobs
    <2> QED BY <1>1, <2>1, NothingAssumption DEF Lifted, Alike, Jobs, Silent
  <1>2. CASE ~(j # Nothing /\ j.action = "listen" /\ j.valid)
    BY <1>2 DEF Lifted, Alike, Silent, Quiet
  <1> QED BY <1>1, <1>2

LEMMA BothOne ==
    ASSUME NEW j \in Jobs \cup {Nothing}
    PROVE  /\ Alike(j, Unbound(Left(j)))
           /\ Quiet(j) => Silent(Unbound(Left(j)))
           /\ j # Nothing /\ j.action = "listen" => Unbound(Left(j)) = Left(j)
  <1>1. Left(j) \in Jobs \cup {Nothing} /\ Alike(j, Left(j))
    BY LeftOne DEF Alike
  <1>2. Alike(Left(j), Unbound(Left(j)))
    BY <1>1, UnboundOne
  <1>3. Quiet(j) => Silent(Unbound(Left(j)))
    BY <1>1, LeftOne, UnboundOne
  <1>4. j # Nothing /\ j.action = "listen" => Unbound(Left(j)) = Left(j)
    BY <1>1, UnboundOne DEF Alike
  <1> QED BY <1>1, <1>2, <1>3, <1>4 DEF Alike

-----------------------------------------------------------------------------
(* The queue.                                                              *)

SameJobs(t) ==
    /\ t \in Seq(Jobs) /\ Len(t) = Len(jobs) /\ DOMAIN t = DOMAIN jobs
    /\ \A i \in DOMAIN jobs : jobs[i] \in Jobs /\ Alike(jobs[i], t[i])

LEMMA JobAt == ASSUME TypeOK, NEW i \in DOMAIN jobs PROVE jobs[i] \in Jobs /\ jobs[i] # Nothing
  <1>1. jobs[i] \in Jobs
    BY DEF TypeOK
  <1> QED BY <1>1, NothingAssumption

LEMMA AlikeJob == ASSUME NEW j \in Jobs, NEW k, Alike(j, k) PROVE k \in Jobs
  BY NothingAssumption DEF Alike

LEMMA LeftQueue == ASSUME TypeOK PROVE SameJobs(LeftJobs)
  <1>1. \A i \in DOMAIN jobs : jobs[i] \in Jobs /\ Alike(jobs[i], LeftJobs[i]) /\ LeftJobs[i] \in Jobs
    BY JobAt, LeftOne, AlikeJob DEF LeftJobs
  <1>2. DOMAIN jobs = 1..Len(jobs) /\ Len(jobs) \in Nat
    BY DEF TypeOK
  <1>3. DOMAIN LeftJobs = DOMAIN jobs
    BY DEF LeftJobs
  <1>4. LeftJobs \in Seq(Jobs) /\ Len(LeftJobs) = Len(jobs)
    BY <1>1, <1>2 DEF LeftJobs
  <1> QED BY <1>1, <1>3, <1>4 DEF SameJobs

LiftedJobs == [i \in DOMAIN jobs |-> Lifted(jobs[i])]
LooseJobs == [i \in DOMAIN jobs |-> Unbound(jobs[i])]

LEMMA QueueChanges ==
    ASSUME TypeOK
    PROVE  SameJobs(UnboundJobs) /\ SameJobs(LiftedJobs) /\ SameJobs(LooseJobs)
  <1>1. DOMAIN jobs = 1..Len(jobs) /\ Len(jobs) \in Nat
    BY DEF TypeOK
  <1>2. \A i \in DOMAIN jobs : jobs[i] \in Jobs
    BY JobAt
  <1>3. SameJobs(UnboundJobs)
    <2>1. \A i \in DOMAIN jobs : Alike(jobs[i], UnboundJobs[i]) /\ UnboundJobs[i] \in Jobs
      BY <1>2, BothOne, AlikeJob DEF UnboundJobs
    <2>2. UnboundJobs \in Seq(Jobs) /\ Len(UnboundJobs) = Len(jobs) /\ DOMAIN UnboundJobs = DOMAIN jobs
      BY <1>1, <2>1 DEF UnboundJobs
    <2> QED BY <1>2, <2>1, <2>2 DEF SameJobs
  <1>4. SameJobs(LiftedJobs)
    <2>1. \A i \in DOMAIN jobs : Alike(jobs[i], LiftedJobs[i]) /\ LiftedJobs[i] \in Jobs
      BY <1>2, LiftedOne, AlikeJob DEF LiftedJobs
    <2>2. LiftedJobs \in Seq(Jobs) /\ Len(LiftedJobs) = Len(jobs) /\ DOMAIN LiftedJobs = DOMAIN jobs
      BY <1>1, <2>1 DEF LiftedJobs
    <2> QED BY <1>2, <2>1, <2>2 DEF SameJobs
  <1>5. SameJobs(LooseJobs)
    <2>1. \A i \in DOMAIN jobs : Alike(jobs[i], LooseJobs[i]) /\ LooseJobs[i] \in Jobs
      BY <1>2, UnboundOne, AlikeJob DEF LooseJobs
    <2>2. LooseJobs \in Seq(Jobs) /\ Len(LooseJobs) = Len(jobs) /\ DOMAIN LooseJobs = DOMAIN jobs
      BY <1>1, <2>1 DEF LooseJobs
    <2> QED BY <1>2, <2>1, <2>2 DEF SameJobs
  <1> QED BY <1>3, <1>4, <1>5

LEMMA ConfiguresSame ==
    ASSUME NEW t, SameJobs(t)
    PROVE  Configures(t) = Configures(jobs)
  <1>1. \A i \in DOMAIN jobs : jobs[i] \in Jobs /\ jobs[i] # Nothing /\ Alike(jobs[i], t[i])
    BY NothingAssumption DEF SameJobs
  <1> QED BY <1>1 DEF SameJobs, Configures, Alike

LEMMA ConfiguresFinite ==
    ASSUME NEW s \in Seq(Jobs)
    PROVE  /\ IsFiniteSet(Configures(s))
           /\ Cardinality(Configures(s)) \in Nat
           /\ Cardinality(Configures(s)) <= Len(s)
  <1>1. Configures(s) \in SUBSET (1..Len(s)) /\ Len(s) \in Nat
    BY DEF Configures
  <1>2. IsFiniteSet(1..Len(s)) /\ Cardinality(1..Len(s)) = Len(s)
    <2>1. 1 \in Int /\ Len(s) \in Int
      BY <1>1
    <2>2. /\ IsFiniteSet(1..Len(s))
          /\ Cardinality(1..Len(s)) = IF 1 > Len(s) THEN 0 ELSE Len(s) - 1 + 1
      BY <2>1, FS_Interval
    <2> QED BY <1>1, <2>2
  <1>3. IsFiniteSet(Configures(s)) /\ Cardinality(Configures(s)) <= Len(s)
    BY <1>1, <1>2, FS_Subset
  <1> QED BY <1>3, FS_CardinalityType

LEMMA ConfiguresAppend ==
    ASSUME NEW s \in Seq(Jobs), NEW j \in Jobs
    PROVE  /\ Append(s, j) \in Seq(Jobs) /\ Len(Append(s, j)) = Len(s) + 1
           /\ Cardinality(Configures(Append(s, j)))
                = Cardinality(Configures(s)) + (IF j.action = "configure" THEN 1 ELSE 0)
  <1>1. /\ Append(s, j) \in Seq(Jobs) /\ Len(Append(s, j)) = Len(s) + 1 /\ Len(s) \in Nat
        /\ DOMAIN Append(s, j) = DOMAIN s \cup {Len(s) + 1}
        /\ \A i \in DOMAIN s : Append(s, j)[i] = s[i]
        /\ Append(s, j)[Len(s) + 1] = j
    OBVIOUS
  <1>2. Len(s) + 1 \notin DOMAIN s
    OBVIOUS
  <1>3. CASE j.action = "configure"
    <2>1. Configures(Append(s, j)) = Configures(s) \cup {Len(s) + 1}
      BY <1>1, <1>2, <1>3 DEF Configures
    <2>2. Len(s) + 1 \notin Configures(s)
      BY <1>2 DEF Configures
    <2>3. Cardinality(Configures(s) \cup {Len(s) + 1}) = Cardinality(Configures(s)) + 1
      BY <2>2, ConfiguresFinite, FS_AddElement
    <2> QED BY <1>1, <1>3, <2>1, <2>3
  <1>4. CASE j.action # "configure"
    <2>1. Configures(Append(s, j)) = Configures(s)
      BY <1>1, <1>2, <1>4 DEF Configures
    <2>2. Cardinality(Configures(s)) + 0 = Cardinality(Configures(s))
      BY ConfiguresFinite
    <2> QED BY <1>1, <1>4, <2>1, <2>2
  <1> QED BY <1>3, <1>4

LEMMA ConfiguresTail ==
    ASSUME NEW s \in Seq(Jobs), s # <<>>
    PROVE  /\ Tail(s) \in Seq(Jobs) /\ Len(Tail(s)) = Len(s) - 1 /\ Head(s) \in Jobs
           /\ Head(s) = s[1]
           /\ Cardinality(Configures(s))
                = Cardinality(Configures(Tail(s))) + (IF Head(s).action = "configure" THEN 1 ELSE 0)
  <1> DEFINE t == Tail(s)
  <1> DEFINE shift == [i \in Configures(t) |-> i + 1]
  <1> DEFINE rest == Configures(s) \ {1}
  <1>1. /\ t \in Seq(Jobs) /\ Len(t) = Len(s) - 1 /\ Head(s) \in Jobs /\ Head(s) = s[1]
        /\ Len(s) \in Nat \ {0} /\ DOMAIN s = 1..Len(s) /\ DOMAIN t = 1..Len(s) - 1
        /\ \A i \in 1..Len(s) - 1 : t[i] = s[i + 1]
    OBVIOUS
  <1>2. shift \in Bijection(Configures(t), rest)
    <2>1. \A i \in Configures(t) : i \in Int /\ i + 1 \in rest
      BY <1>1 DEF Configures
    <2>2. shift \in Injection(Configures(t), rest)
      BY <2>1, Fun_IsInj
    <2>3. \A k \in rest : k - 1 \in Configures(t) /\ k = (k - 1) + 1
      BY <1>1 DEF Configures
    <2>4. shift \in Surjection(Configures(t), rest)
      BY <2>1, <2>3, Fun_IsSurj
    <2> QED BY <2>2, <2>4 DEF Bijection
  <1>3. IsFiniteSet(Configures(t)) /\ IsFiniteSet(Configures(s))
    BY <1>1, ConfiguresFinite
  <1>4. Cardinality(rest) = Cardinality(Configures(t))
    BY <1>2, <1>3, FS_Bijection DEF ExistsBijection
  <1>5. Cardinality(rest) = IF 1 \in Configures(s) THEN Cardinality(Configures(s)) - 1
                            ELSE Cardinality(Configures(s))
    BY <1>3, FS_RemoveElement
  <1>6. 1 \in Configures(s) <=> Head(s).action = "configure"
    BY <1>1 DEF Configures
  <1>7. Cardinality(Configures(s)) \in Nat /\ Cardinality(Configures(t)) \in Nat
    BY <1>1, ConfiguresFinite
  <1> HIDE DEF t, rest, shift
  <1> QED BY <1>1, <1>4, <1>5, <1>6, <1>7 DEF t

LEMMA CountRange ==
    ASSUME NEW s \in Seq(Jobs), Len(s) <= MaxJobs, NEW n \in {0, 1}
    PROVE  Cardinality(Configures(s)) + n \in 0..MaxJobs + 1
  <1>1. Cardinality(Configures(s)) \in Nat /\ Cardinality(Configures(s)) <= Len(s)
    BY ConfiguresFinite
  <1>2. Len(s) \in Nat /\ MaxJobs \in Nat
    BY VoiceAssumption
  <1> QED BY <1>1, <1>2

-----------------------------------------------------------------------------
(* What a step leaves of the invariant's part about jobs.                  *)

QType ==
    /\ jobs \in Seq(Jobs) /\ Len(jobs) <= MaxJobs
    /\ putting \in [Callers -> Jobs \cup {Nothing}]
    /\ cur \in Jobs \cup {Nothing}
QInv == QType /\ Counted /\ Positions /\ AllQuiet

LEMMA CountedNext ==
    ASSUME pending' = Cardinality(Configures(jobs')) + (IF IsConfigure(cur') THEN 1 ELSE 0),
           \A c \in Callers : putting'[c] # Nothing => putting'[c].action \in {"listen", "test"},
           \A i \in DOMAIN jobs' : jobs'[i].action # "auto"
    PROVE  Counted'
  BY DEF Counted, Configures, IsConfigure

LEMMA SilentNext ==
    ASSUME \A i \in DOMAIN jobs' : Silent(jobs'[i]),
           \A c \in Callers : Silent(putting'[c]),
           Silent(cur')
    PROVE  AllQuiet'
  BY DEF AllQuiet, Silent, Quiet

(* The worker's job after a caller's step.                                 *)
Flagged(k) == k = cur \/ k = Left(cur) \/ k = Unbound(Left(cur)) \/ k = Lifted(cur) \/ k = Unbound(cur)

LEMMA CurKept ==
    ASSUME IInv, NEW k, Flagged(k)
    PROVE  /\ Alike(cur, k)
           /\ IsConfigure(k) <=> IsConfigure(cur)
           /\ k # Nothing /\ k.action = "listen" /\ at \in Underway =>
                IF k.valid THEN latest = "job" ELSE k.cut
  <1>1. cur \in Jobs \cup {Nothing} /\ Positions
    BY DEF IInv, TypeOK
  <1>2. Alike(cur, k)
    <2>1. Alike(cur, cur)
      BY <1>1 DEF Alike
    <2> QED BY <1>1, <2>1, LeftOne, BothOne, LiftedOne, UnboundOne DEF Flagged
  <1>3. IsConfigure(k) <=> IsConfigure(cur)
    BY <1>2 DEF Alike, IsConfigure
  <1>4. ASSUME k # Nothing, k.action = "listen", at \in Underway
        PROVE  IF k.valid THEN latest = "job" ELSE k.cut
    <2>1. cur # Nothing /\ cur \in Jobs /\ cur.action = "listen"
      BY <1>1, <1>2, <1>4 DEF Alike
    <2>2. IF cur.valid THEN latest = "job" ELSE cur.cut
      BY <1>1, <1>4, <2>1 DEF Positions
    <2>3. CASE k = cur \/ k = Unbound(cur)
      BY <2>1, <2>2, <2>3, UnboundOne
    <2>4. CASE k = Left(cur) \/ k = Unbound(Left(cur))
      BY <2>1, <2>2, <2>4, LeftOne, BothOne
    <2>5. CASE k = Lifted(cur)
      BY <2>1, <2>2, <2>5, LiftedOne
    <2> QED BY <2>3, <2>4, <2>5 DEF Flagged
  <1> QED BY <1>2, <1>3, <1>4

LEMMA PositionsKept ==
    ASSUME IInv, Flagged(cur'), at' = at, latest' = latest \/ latest' = "job"
    PROVE  Positions' /\ cur' \in Jobs \cup {Nothing}
  <1>1. Alike(cur, cur')
    BY CurKept
  <1>2. /\ at' \in {"get", "done"} <=> cur' = Nothing
        /\ at' = "autoTake" => cur'.action = "auto"
    BY <1>1, NothingAssumption DEF IInv, Positions, Alike
  <1>3. at' \in Underway /\ cur'.action = "listen" => IF cur'.valid THEN latest' = "job" ELSE cur'.cut
    <2>1. at \in Underway => cur' # Nothing
      BY <1>2 DEF Underway
    <2> QED BY <2>1, CurKept
  <1>4. Positions'
    BY <1>2, <1>3 DEF Positions, Underway
  <1> QED BY <1>1, <1>4 DEF Alike

(* The queue after a caller's step that flags its jobs.                    *)
LEMMA CountKept ==
    ASSUME IInv, SameJobs(jobs'), Flagged(cur'), pending' = pending,
           putting' \in [Callers -> Jobs \cup {Nothing}],
           \A c \in Callers : putting'[c] # Nothing => putting'[c].action \in {"listen", "test"}
    PROVE  QType' /\ Counted'
  <1>1. Configures(jobs') = Configures(jobs)
    BY ConfiguresSame
  <1>2. IsConfigure(cur') <=> IsConfigure(cur)
    BY CurKept
  <1>3. Counted'
    <2>1. \A i \in DOMAIN jobs' : jobs'[i].action # "auto"
      <3>1. \A i \in DOMAIN jobs : jobs[i] # Nothing /\ Alike(jobs[i], jobs'[i])
        BY JobAt DEF IInv, SameJobs
      <3> QED BY <3>1 DEF IInv, Counted, SameJobs, Alike
    <2> QED BY <1>1, <1>2, <2>1, CountedNext DEF IInv, Counted
  <1>4. cur' \in Jobs \cup {Nothing}
    BY CurKept DEF Alike
  <1>5. jobs' \in Seq(Jobs) /\ Len(jobs') <= MaxJobs
    BY DEF SameJobs, IInv, TypeOK
  <1> QED BY <1>3, <1>4, <1>5 DEF QType

LEMMA PuttingLeft ==
    ASSUME IInv
    PROVE  /\ LeftPutting \in [Callers -> Jobs \cup {Nothing}]
           /\ \A c \in Callers : /\ Silent(LeftPutting[c])
                                 /\ LeftPutting[c] # Nothing => LeftPutting[c].action \in {"listen", "test"}
  <1>1. \A c \in Callers : /\ putting[c] \in Jobs \cup {Nothing} /\ Quiet(putting[c])
                           /\ putting[c] # Nothing => putting[c].action \in {"listen", "test"}
    BY DEF IInv, TypeOK, AllQuiet, Counted
  <1>2. \A c \in Callers : Alike(putting[c], Left(putting[c])) /\ Silent(Left(putting[c]))
    BY <1>1, LeftOne
  <1> QED BY <1>1, <1>2 DEF LeftPutting, Alike

LEMMA JobsLeft ==
    ASSUME IInv
    PROVE  /\ \A i \in DOMAIN LeftJobs : Silent(LeftJobs[i])
           /\ \A i \in DOMAIN UnboundJobs : Silent(UnboundJobs[i])
           /\ \A i \in DOMAIN LiftedJobs : Silent(LiftedJobs[i])
  <1>1. \A i \in DOMAIN jobs : jobs[i] \in Jobs \cup {Nothing} /\ Quiet(jobs[i])
    BY JobAt DEF IInv, AllQuiet
  <1> QED BY <1>1, LeftOne, BothOne, LiftedOne DEF LeftJobs, UnboundJobs, LiftedJobs

LEMMA CurLeft ==
    ASSUME IInv
    PROVE  Silent(Left(cur)) /\ Silent(Unbound(Left(cur))) /\ Silent(Lifted(cur))
  <1>1. cur \in Jobs \cup {Nothing} /\ Quiet(cur)
    BY DEF IInv, TypeOK, AllQuiet
  <1> QED BY <1>1, LeftOne, BothOne, LiftedOne

-----------------------------------------------------------------------------
(* The jobs after each step of a caller.                                   *)

LEMMA QInvalidate ==
    ASSUME IInv, Invalidate, pending' = pending, latest' = latest
    PROVE  QType' /\ Counted' /\ AllQuiet' /\ Flagged(cur')
  <1>1. jobs' = LeftJobs /\ putting' = LeftPutting /\ cur' = Left(cur)
    BY DEF Invalidate
  <1>2. QType' /\ Counted'
    BY <1>1, LeftQueue, CountKept, PuttingLeft DEF Flagged, IInv
  <1>3. AllQuiet'
    BY <1>1, JobsLeft, CurLeft, PuttingLeft, SilentNext
  <1> QED BY <1>1, <1>2, <1>3 DEF Flagged

LEMMA QInputError == ASSUME IInv, InputError PROVE QInv'
  <1>1. Invalidate /\ pending' = pending /\ latest' = latest /\ at' = at
    BY DEF InputError
  <1> QED BY <1>1, QInvalidate, PositionsKept DEF QInv

LEMMA QStop == ASSUME IInv, Stop PROVE QInv'
  <1>1. Invalidate /\ pending' = pending /\ latest' = latest /\ at' = at
    BY DEF Stop
  <1> QED BY <1>1, QInvalidate, PositionsKept DEF QInv

LEMMA QAccept ==
    ASSUME IInv, NEW c \in Callers, Accept(c), UNCHANGED <<pending, bindPending, shutdown, at>>
    PROVE  QInv'
  <1>1. /\ jobs' = LeftJobs /\ cur' = Left(cur) /\ latest' = "job"
        /\ putting' = [LeftPutting EXCEPT ![c] = Job("listen")]
    BY DEF Accept
  <1>2. Job("listen") \in Jobs /\ Job("listen").action = "listen" /\ Job("listen").valid
    <2>1. Job("listen") \in Jobs /\ Job("listen").action = "listen"
      BY NewJob DEF Actions
    <2> QED BY <2>1 DEF Job
  <1>3. /\ putting' \in [Callers -> Jobs \cup {Nothing}]
        /\ \A d \in Callers : putting'[d] # Nothing => putting'[d].action \in {"listen", "test"}
    BY <1>1, <1>2, PuttingLeft
  <1>4. QType' /\ Counted'
    BY <1>1, <1>3, LeftQueue, CountKept DEF Flagged, IInv
  <1>5. Positions'
    BY <1>1, PositionsKept DEF Flagged
  <1>6. \A j : Silent(j) \/ j = Job("listen") => Quiet(j)'
    <2>1. held' /\ latest' = "job" /\ pending' = 0 /\ ~bindPending' /\ ~shutdown'
      BY DEF Accept, Admits
    <2> QED BY <1>2, <2>1 DEF Quiet, Silent
  <1>7. AllQuiet'
    <2>1. \A i \in DOMAIN jobs' : Silent(jobs'[i])
      BY <1>1, JobsLeft
    <2>2. \A d \in Callers : Silent(putting'[d]) \/ putting'[d] = Job("listen")
      BY <1>1, PuttingLeft
    <2>3. Silent(cur')
      BY <1>1, CurLeft
    <2> QED BY <1>6, <2>1, <2>2, <2>3 DEF AllQuiet, Quiet
  <1> QED BY <1>4, <1>5, <1>7 DEF QInv

(* Nothing that the invariant of the jobs looks at.                        *)
Quietly == UNCHANGED <<queue, held, latest, pending, bindPending, shutdown, at>>

LEMMA QSame == ASSUME IInv, Quietly PROVE QInv'
  <1>1. QType' /\ Positions'
    BY DEF IInv, Quietly, TypeOK, QType, Positions, Underway, queue
  <1>2. Counted'
    BY DEF IInv, Quietly, Counted, Configures, IsConfigure, queue
  <1>3. AllQuiet'
    BY DEF IInv, Quietly, AllQuiet, Quiet, queue
  <1> QED BY <1>1, <1>2, <1>3 DEF QInv

LEMMA QPress == ASSUME IInv, NEW c \in Callers, Press(c) PROVE QInv'
  <1>1. UNCHANGED <<pending, bindPending, shutdown, at>>
    BY DEF Press
  <1>2. CASE Accept(c)
    BY <1>1, <1>2, QAccept
  <1>3. CASE Ignore
    BY <1>1, <1>3, QSame DEF Ignore, Quietly
  <1> QED BY <1>2, <1>3 DEF Press

LEMMA QRelease == ASSUME IInv, Release PROVE QInv'
  <1>1. jobs' = LiftedJobs /\ cur' = Lifted(cur)
    BY DEF Release, LiftedJobs
  <1>2. /\ putting' \in [Callers -> Jobs \cup {Nothing}]
        /\ \A c \in Callers : /\ Silent(putting'[c])
                              /\ putting'[c] # Nothing => putting'[c].action \in {"listen", "test"}
    <2>1. \A c \in Callers : /\ putting[c] \in Jobs \cup {Nothing} /\ Quiet(putting[c])
                             /\ putting[c] # Nothing => putting[c].action \in {"listen", "test"}
      BY DEF IInv, TypeOK, AllQuiet, Counted
    <2>2. \A c \in Callers : Alike(putting[c], Lifted(putting[c])) /\ Silent(Lifted(putting[c]))
      BY <2>1, LiftedOne
    <2>3. putting' = [c \in Callers |-> Lifted(putting[c])]
      BY DEF Release
    <2> QED BY <2>1, <2>2, <2>3 DEF Alike
  <1>3. UNCHANGED <<pending, latest, at>>
    BY DEF Release
  <1>4. QType' /\ Counted'
    BY <1>1, <1>2, <1>3, QueueChanges, CountKept DEF Flagged, IInv
  <1>5. Positions'
    BY <1>1, <1>3, PositionsKept DEF Flagged
  <1>6. AllQuiet'
    BY <1>1, <1>2, JobsLeft, CurLeft, SilentNext
  <1> QED BY <1>4, <1>5, <1>6 DEF QInv

LEMMA QTest == ASSUME IInv, Test PROVE QInv'
  <1>1. /\ jobs' = LeftJobs /\ cur' = Left(cur) /\ latest' = "job"
        /\ putting' = [LeftPutting EXCEPT !["window"] = Job("test")]
        /\ UNCHANGED <<pending, at>>
    BY DEF Test
  <1>2. Job("test") \in Jobs /\ Job("test").action = "test"
    BY NewJob DEF Actions
  <1>3. \A c \in Callers : putting'[c] = LeftPutting[c] \/ putting'[c] = Job("test")
    BY <1>1, PuttingLeft
  <1>4. /\ putting' \in [Callers -> Jobs \cup {Nothing}]
        /\ \A c \in Callers : /\ Silent(putting'[c])
                              /\ putting'[c] # Nothing => putting'[c].action \in {"listen", "test"}
    <2>1. putting' \in [Callers -> Jobs \cup {Nothing}]
      BY <1>1, <1>2, PuttingLeft
    <2> QED BY <1>2, <1>3, <2>1, PuttingLeft DEF Silent
  <1>5. QType' /\ Counted'
    BY <1>1, <1>4, LeftQueue, CountKept DEF Flagged, IInv
  <1>6. Positions'
    BY <1>1, PositionsKept DEF Flagged
  <1>7. AllQuiet'
    BY <1>1, <1>4, JobsLeft, CurLeft, SilentNext
  <1> QED BY <1>5, <1>6, <1>7 DEF QInv

(* A configuration or a binding withdraws every question, and joins the    *)
(* queue if there is room.                                                 *)
LEMMA QUnbound ==
    ASSUME IInv, NEW j \in Jobs, j.action \notin {"listen", "auto"}, j # Nothing,
           putting' = LeftPutting, cur' = Unbound(Left(cur)), at' = at, latest' = latest,
           \/ jobs' = UnboundJobs /\ pending' = pending
           \/ /\ ~Full /\ jobs' = Append(UnboundJobs, j)
              /\ pending' = pending + (IF j.action = "configure" THEN 1 ELSE 0)
    PROVE  QInv'
  <1>1. SameJobs(UnboundJobs) /\ TypeOK /\ Flagged(cur')
    BY QueueChanges DEF IInv, Flagged
  <1>2. Positions' /\ cur' \in Jobs \cup {Nothing}
    BY <1>1, PositionsKept
  <1>3. CASE jobs' = UnboundJobs /\ pending' = pending
    <2>1. QType' /\ Counted'
      BY <1>1, <1>3, CountKept, PuttingLeft
    <2>2. AllQuiet'
      BY <1>3, JobsLeft, CurLeft, PuttingLeft, SilentNext
    <2> QED BY <1>2, <2>1, <2>2 DEF QInv
  <1>4. CASE /\ ~Full /\ jobs' = Append(UnboundJobs, j)
             /\ pending' = pending + (IF j.action = "configure" THEN 1 ELSE 0)
    <2> DEFINE t == UnboundJobs
    <2>1. t \in Seq(Jobs) /\ Len(t) = Len(jobs) /\ Configures(t) = Configures(jobs)
      BY <1>1, ConfiguresSame DEF SameJobs
    <2>2. /\ jobs' \in Seq(Jobs) /\ Len(jobs') = Len(jobs) + 1
          /\ Cardinality(Configures(jobs'))
               = Cardinality(Configures(jobs)) + (IF j.action = "configure" THEN 1 ELSE 0)
      BY <1>4, <2>1, ConfiguresAppend
    <2>3. Len(jobs) + 1 <= MaxJobs
      BY <1>1, <1>4, VoiceAssumption DEF TypeOK, Full
    <2>4. QType'
      BY <1>2, <2>2, <2>3, PuttingLeft DEF QType
    <2>5. Counted'
      <3>1. IsConfigure(cur') <=> IsConfigure(cur)
        BY <1>1, CurKept
      <3>2. pending = Cardinality(Configures(jobs)) + (IF IsConfigure(cur) THEN 1 ELSE 0)
        BY DEF IInv, Counted
      <3>3. Cardinality(Configures(jobs)) \in Nat
        BY <1>1, ConfiguresFinite DEF TypeOK
      <3>4. pending' = Cardinality(Configures(jobs')) + (IF IsConfigure(cur') THEN 1 ELSE 0)
        BY <1>4, <2>2, <3>1, <3>2, <3>3
      <3>5. \A i \in DOMAIN jobs' : jobs'[i].action # "auto"
        <4>1. \A i \in DOMAIN jobs : jobs[i] # Nothing /\ Alike(jobs[i], t[i])
          BY <1>1, JobAt DEF SameJobs
        <4>2. \A i \in DOMAIN jobs' : (i \in DOMAIN t /\ jobs'[i] = t[i]) \/ jobs'[i] = j
          BY <1>4, <2>1
        <4>3. DOMAIN t = DOMAIN jobs
          BY <1>1 DEF SameJobs
        <4> QED BY <4>1, <4>2, <4>3 DEF IInv, Counted, Alike
      <3> QED BY <3>4, <3>5, PuttingLeft, CountedNext
    <2>6. \A i \in DOMAIN jobs' : Silent(jobs'[i])
      <3>1. \A i \in DOMAIN jobs' : (i \in DOMAIN t /\ jobs'[i] = t[i]) \/ jobs'[i] = j
        BY <1>4, <2>1
      <3> QED BY <3>1, JobsLeft DEF Silent
    <2>7. AllQuiet'
      BY <2>6, CurLeft, PuttingLeft, SilentNext
    <2> QED BY <1>2, <2>4, <2>5, <2>7 DEF QInv
  <1> QED BY <1>3, <1>4

LEMMA QQueueConfiguration ==
    ASSUME IInv, NEW on \in BOOLEAN, QueueConfiguration(on)
    PROVE  QInv'
  <1> DEFINE j == [Job("configure") EXCEPT !.on = on]
  <1>1. j \in Jobs /\ j.action = "configure"
    BY NewConfigure
  <1>2. j # Nothing
    BY <1>1, NothingAssumption
  <1>3. /\ putting' = LeftPutting /\ cur' = Unbound(Left(cur))
        /\ at' = at /\ latest' = latest
        /\ \/ jobs' = UnboundJobs /\ pending' = pending
           \/ ~Full /\ jobs' = Append(UnboundJobs, j) /\ pending' = pending + 1
    BY DEF QueueConfiguration, Refused
  <1> HIDE DEF j
  <1> QED BY <1>1, <1>2, <1>3, QUnbound

LEMMA QBind == ASSUME IInv, Bind PROVE QInv'
  <1>1. Job("bind") \in Jobs /\ Job("bind").action = "bind" /\ Job("bind") # Nothing
    BY NewJob DEF Actions
  <1>2. pending + 0 = pending
    BY DEF IInv, TypeOK
  <1>3. /\ putting' = LeftPutting /\ cur' = Unbound(Left(cur))
        /\ at' = at /\ latest' = latest /\ pending' = pending
        /\ \/ jobs' = UnboundJobs
           \/ ~Full /\ jobs' = Append(UnboundJobs, Job("bind"))
    BY DEF Bind, Refused
  <1> QED BY <1>1, <1>2, <1>3, QUnbound

LEMMA QClose == ASSUME IInv, Close PROVE QInv'
  <1>1. /\ jobs' = UnboundJobs /\ putting' = LeftPutting /\ cur' = Unbound(Left(cur))
        /\ UNCHANGED <<at, latest, pending>>
    BY DEF Close
  <1>2. Job("bind") \in Jobs /\ Job("bind").action = "bind" /\ Job("bind") # Nothing
    BY NewJob DEF Actions
  <1> QED BY <1>1, <1>2, QUnbound

LEMMA QCancelBind == ASSUME IInv, CancelBind PROVE QInv'
  <1>1. /\ jobs' = LooseJobs /\ cur' = Unbound(cur) /\ putting' = putting /\ ~bindPending'
        /\ UNCHANGED <<at, latest, pending, held, shutdown>>
    BY DEF CancelBind, LooseJobs, service
  <1>2. TypeOK /\ \A c \in Callers : putting[c] # Nothing => putting[c].action \in {"listen", "test"}
    BY DEF IInv, Counted
  <1>3. QType' /\ Counted'
    BY <1>1, <1>2, QueueChanges, CountKept DEF Flagged, TypeOK
  <1>4. Positions'
    BY <1>1, PositionsKept DEF Flagged
  <1>5. ASSUME NEW j \in Jobs \cup {Nothing}, Quiet(j) PROVE Quiet(Unbound(j))
    <2>1. CASE j # Nothing /\ j.action = "bind"
      <3>1. Unbound(j).action = "bind"
        BY <2>1, UnboundOne DEF Alike
      <3> QED BY <2>1, <3>1 DEF Quiet
    <2>2. CASE ~(j # Nothing /\ j.action = "bind")
      <3>1. Unbound(j) = j
        BY <2>2 DEF Unbound
      <3> QED BY <1>5, <3>1
    <2> QED BY <2>1, <2>2
  <1>6. AllQuiet'
    <2>1. \A i \in DOMAIN jobs : jobs[i] \in Jobs \cup {Nothing} /\ Quiet(jobs[i])
      BY <1>2, JobAt DEF IInv, AllQuiet
    <2>2. \A i \in DOMAIN jobs' : Quiet(jobs'[i])
      BY <1>1, <1>5, <2>1 DEF LooseJobs
    <2>3. \A c \in Callers : Quiet(putting'[c])
      BY <1>1 DEF IInv, AllQuiet
    <2>4. Quiet(cur')
      BY <1>1, <1>2, <1>5 DEF IInv, AllQuiet, TypeOK
    <2>5. \A k : Quiet(k) => Quiet(k)'
      BY <1>1 DEF Quiet
    <2> QED BY <2>2, <2>3, <2>4, <2>5 DEF AllQuiet, Quiet
  <1> QED BY <1>3, <1>4, <1>6 DEF QInv

(* The queue takes a job that is counted elsewhere.                        *)
LEMMA QAppend ==
    ASSUME IInv, NEW j \in Jobs, j.action \notin {"configure", "auto"}, ~Full, jobs' = Append(jobs, j),
           Quiet(j), UNCHANGED <<cur, held, latest, pending, bindPending, shutdown, at>>,
           putting' \in [Callers -> Jobs \cup {Nothing}],
           \A c \in Callers : putting'[c] = putting[c] \/ putting'[c] = Nothing
    PROVE  QInv'
  <1>1. jobs \in Seq(Jobs) /\ Len(jobs) <= MaxJobs
    BY DEF IInv, TypeOK
  <1>2. /\ jobs' \in Seq(Jobs) /\ Len(jobs') = Len(jobs) + 1
        /\ Cardinality(Configures(jobs')) = Cardinality(Configures(jobs)) + 0
    BY <1>1, ConfiguresAppend
  <1>3. Len(jobs') <= MaxJobs
    BY <1>1, <1>2, VoiceAssumption DEF Full
  <1>4. QType'
    BY <1>2, <1>3 DEF QType, IInv, TypeOK
  <1>5. Counted'
    <2>1. Cardinality(Configures(jobs)) \in Nat
      BY <1>1, ConfiguresFinite
    <2>2. pending' = Cardinality(Configures(jobs')) + (IF IsConfigure(cur') THEN 1 ELSE 0)
      BY <1>2, <2>1 DEF IInv, Counted
    <2>3. \A c \in Callers : putting'[c] # Nothing => putting'[c].action \in {"listen", "test"}
      BY DEF IInv, Counted
    <2>4. \A i \in DOMAIN jobs' : jobs'[i].action # "auto"
      <3>1. \A i \in DOMAIN jobs' : (i \in DOMAIN jobs /\ jobs'[i] = jobs[i]) \/ jobs'[i] = j
        BY <1>1
      <3> QED BY <3>1 DEF IInv, Counted
    <2> QED BY <2>2, <2>3, <2>4, CountedNext
  <1>6. Positions'
    BY DEF IInv, Positions, Underway
  <1>7. AllQuiet'
    <2>1. \A k : Quiet(k) => Quiet(k)'
      BY DEF Quiet
    <2>2. \A i \in DOMAIN jobs' : (i \in DOMAIN jobs /\ jobs'[i] = jobs[i]) \/ jobs'[i] = j
      BY <1>1
    <2>3. \A i \in DOMAIN jobs' : Quiet(jobs'[i])
      BY <2>2 DEF IInv, AllQuiet
    <2>4. \A c \in Callers : Quiet(putting'[c])
      BY DEF IInv, AllQuiet, Quiet
    <2>5. Quiet(cur')
      BY DEF IInv, AllQuiet
    <2> QED BY <2>1, <2>3, <2>4, <2>5 DEF AllQuiet, Quiet
  <1> QED BY <1>4, <1>5, <1>6, <1>7 DEF QInv

LEMMA QRefresh == ASSUME IInv, Refresh PROVE QInv'
  <1>1. Job("refresh") \in Jobs /\ Job("refresh").action = "refresh"
    BY NewJob DEF Actions
  <1>2. /\ ~Full /\ jobs' = Append(jobs, Job("refresh"))
        /\ UNCHANGED <<putting, cur, held, latest, pending, bindPending, shutdown, at>>
    BY DEF Refresh, Refused, service
  <1>3. Quiet(Job("refresh"))
    BY <1>1 DEF Quiet
  <1> QED BY <1>1, <1>2, <1>3, QAppend DEF IInv, TypeOK

LEMMA QPut == ASSUME IInv, NEW c \in Callers, Put(c) PROVE QInv'
  <1>1. /\ putting' = [putting EXCEPT ![c] = Nothing]
        /\ putting \in [Callers -> Jobs \cup {Nothing}]
        /\ UNCHANGED <<cur, held, latest, pending, bindPending, shutdown, at>>
    BY DEF Put, service, IInv, TypeOK
  <1>2. /\ putting' \in [Callers -> Jobs \cup {Nothing}]
        /\ \A d \in Callers : putting'[d] = putting[d] \/ putting'[d] = Nothing
    BY <1>1
  <1>3. CASE Refused
    <2>1. jobs' = jobs
      BY <1>3 DEF Put
    <2>2. QType' /\ Positions'
      BY <1>1, <1>2, <2>1 DEF IInv, TypeOK, QType, Positions, Underway
    <2>3. Counted'
      BY <1>1, <1>2, <2>1, CountedNext DEF IInv, Counted
    <2>4. AllQuiet'
      BY <1>1, <1>2, <2>1 DEF IInv, AllQuiet, Quiet
    <2> QED BY <2>2, <2>3, <2>4 DEF QInv
  <1>4. CASE ~Refused
    <2>1. putting[c] \in Jobs /\ putting[c].action \notin {"configure", "auto"} /\ Quiet(putting[c])
      BY <1>1 DEF Put, IInv, Counted, AllQuiet
    <2>2. ~Full /\ jobs' = Append(jobs, putting[c])
      BY <1>4 DEF Put, Refused
    <2> QED BY <1>1, <1>2, <2>1, <2>2, QAppend
  <1> QED BY <1>3, <1>4

-----------------------------------------------------------------------------
(* The jobs after each step of the worker.                                 *)

LEMMA QMove ==
    ASSUME IInv, UNCHANGED <<queue, held, latest, pending, bindPending, shutdown>>,
           at \notin {"get", "done"}, at' \notin {"get", "done", "autoTake"},
           at' \in Underway => at \in Underway \/ (cur.action = "listen" => cur.valid /\ latest = "job")
    PROVE  QInv'
  <1>1. QType'
    BY DEF IInv, TypeOK, QType, queue
  <1>2. Counted'
    BY DEF IInv, Counted, Configures, IsConfigure, queue
  <1>3. Positions'
    <2>1. cur' = cur /\ cur # Nothing /\ latest' = latest
      BY DEF IInv, Positions, queue
    <2>2. at' \in Underway /\ cur.action = "listen" => IF cur.valid THEN latest = "job" ELSE cur.cut
      BY DEF IInv, Positions
    <2> QED BY <2>1, <2>2 DEF Positions, Underway
  <1>4. AllQuiet'
    BY DEF IInv, AllQuiet, Quiet, queue
  <1> QED BY <1>1, <1>2, <1>3, <1>4 DEF QInv

LEMMA QSpeak == ASSUME IInv, Speak PROVE QInv'
  <1>1. UNCHANGED <<queue, held, latest, pending, bindPending, shutdown>>
    BY DEF Speak, Listen, Cue, Record, Recognize, Intent, Draft, Confirm, Submit, Await, Say,
           Play, Arm, Yields, Unheard, Beside, service
  <1>2. CASE Listen
    <2>1. at = "listen" /\ at' \in {"finally", "cue"}
      BY <1>2 DEF Listen, Yields
    <2>2. at' = "cue" => Valid /\ ~cur.released
      BY <1>2 DEF Listen, Yields
    <2>3. at' = "cue" => (cur.action = "listen" => cur.valid /\ latest = "job")
      <3>1. cur # Nothing
        BY <2>1 DEF IInv, Positions
      <3> QED BY <2>2, <3>1 DEF IInv, AllQuiet, Quiet, Valid
    <2> QED BY <1>1, <2>1, <2>3, QMove DEF Underway
  <1>3. CASE Cue \/ Record \/ Recognize \/ Intent \/ Draft \/ Confirm \/ Submit \/ Await \/ Say
               \/ Play \/ Arm
    <2>1. at \in Underway
      BY <1>3 DEF Cue, Record, Recognize, Intent, Draft, Confirm, Submit, Await, Say, Play, Arm,
                  Underway
    <2>2. at' \in Underway \cup {"finally", "preempted", "error"}
      BY <1>3 DEF Cue, Record, Recognize, Intent, Draft, Confirm, Submit, Await, Say, Play, Arm,
                  Yields, Unheard, Goto, Underway
    <2> QED BY <1>1, <2>1, <2>2, QMove DEF Underway
  <1> QED BY <1>2, <1>3 DEF Speak

LEMMA QSettings == ASSUME IInv, Apply \/ CloseInput \/ ListDevices \/ BeginBind \/ Error PROVE QInv'
  <1>1. UNCHANGED <<queue, held, latest, pending, bindPending, shutdown>>
    BY DEF Apply, CloseInput, ListDevices, BeginBind, Error, Yields, Beside, service
  <1>2. at \in {"apply", "closing", "refresh", "bind", "error"}
    BY DEF Apply, CloseInput, ListDevices, BeginBind, Error
  <1>3. at' \in {"closing", "refresh", "finally", "preempted", "error"}
    BY DEF Apply, CloseInput, ListDevices, BeginBind, Error, Yields, Applied, Goto
  <1> QED BY <1>1, <1>2, <1>3, QMove DEF Underway

LEMMA QSave == ASSUME IInv, Save PROVE QInv'
  <1>1. at = "save" /\ cur \in Jobs
    BY DEF Save, IInv, Positions, TypeOK
  <1>2. CASE UNCHANGED cur
    <2>1. UNCHANGED <<queue, held, latest, pending, bindPending, shutdown>>
      BY <1>2 DEF Save, Yields, Beside, service, queue
    <2>2. at' \in {"finally", "apply", "error"}
      BY DEF Save, Yields, Goto
    <2> QED BY <1>1, <2>1, <2>2, QMove DEF Underway
  <1>3. ASSUME NEW on \in BOOLEAN, cur' = [cur EXCEPT !.on = on], cur.action = "initialize",
               Goto("apply"), UNCHANGED <<jobs, putting, service, draft, talk, Beside>>
        PROVE  QInv'
    <2>1. cur' \in Jobs /\ cur'.action = "initialize"
      BY <1>1, <1>3 DEF Jobs
    <2>2. cur' # Nothing
      BY <2>1, NothingAssumption
    <2>3. QType'
      BY <1>3, <2>1 DEF IInv, TypeOK, QType
    <2>4. Counted'
      <3>1. IsConfigure(cur') <=> IsConfigure(cur)
        BY <1>3, <2>1 DEF IsConfigure
      <3> QED BY <1>3, <3>1, CountedNext DEF IInv, Counted, service
    <2>5. Positions'
      BY <1>3, <2>2 DEF Positions, Goto, Underway
    <2>6. AllQuiet'
      BY <1>3, <2>1 DEF IInv, AllQuiet, Quiet, service, Beside
    <2> QED BY <2>3, <2>4, <2>5, <2>6 DEF QInv
  <1>4. UNCHANGED cur \/ \E on \in BOOLEAN :
           /\ cur' = [cur EXCEPT !.on = on] /\ cur.action = "initialize"
           /\ Goto("apply") /\ UNCHANGED <<jobs, putting, service, draft, talk, Beside>>
    BY DEF Save, Yields, queue
  <1> QED BY <1>2, <1>3, <1>4

LEMMA QPreempted == ASSUME IInv, Preempted PROVE QInv'
  <1>1. at = "preempted" /\ at' = "finally" /\ UNCHANGED <<pending, latest, shutdown, bindPending>>
    BY DEF Preempted, Goto, Beside
  <1>2. CASE cur.action \in Spoken
    <2>1. Invalidate
      BY <1>2 DEF Preempted
    <2>2. QType' /\ Counted' /\ AllQuiet' /\ Flagged(cur')
      BY <1>1, <2>1, QInvalidate
    <2>3. cur' # Nothing
      BY <1>1, <2>2, CurKept DEF IInv, Positions, Alike
    <2>4. Positions'
      BY <1>1, <2>3 DEF Positions, Underway
    <2> QED BY <2>2, <2>4 DEF QInv
  <1>3. CASE cur.action \notin Spoken
    <2>1. UNCHANGED <<queue, held>>
      BY <1>3 DEF Preempted
    <2> QED BY <1>1, <2>1, QMove DEF Underway
  <1> QED BY <1>2, <1>3

LEMMA QGet == ASSUME IInv, Get PROVE QInv'
  <1>1. /\ at = "get" /\ cur = Nothing
        /\ UNCHANGED <<putting, held, latest, pending, bindPending, shutdown>>
    BY DEF Get, IInv, Positions, service, Beside
  <1>2. CASE shutdown /\ Goto("done") /\ UNCHANGED <<jobs, cur>>
    <2>1. QType' /\ Positions'
      BY <1>1, <1>2 DEF IInv, TypeOK, QType, Positions, Goto, Underway
    <2>2. Counted'
      BY <1>1, <1>2 DEF IInv, Counted, Configures, IsConfigure
    <2>3. AllQuiet'
      BY <1>1, <1>2 DEF IInv, AllQuiet, Quiet
    <2> QED BY <2>1, <2>2, <2>3 DEF QInv
  <1>3. CASE /\ jobs # <<>> /\ cur' = Head(jobs) /\ jobs' = Tail(jobs)
             /\ Goto(FirstStage[Head(jobs).action])
    <2>1. jobs \in Seq(Jobs) /\ Len(jobs) <= MaxJobs /\ Len(jobs) \in Nat /\ MaxJobs \in Nat
      BY VoiceAssumption DEF IInv, TypeOK
    <2>2. /\ jobs' \in Seq(Jobs) /\ Len(jobs') = Len(jobs) - 1 /\ cur' \in Jobs /\ cur' = jobs[1]
          /\ Cardinality(Configures(jobs))
               = Cardinality(Configures(jobs')) + (IF cur'.action = "configure" THEN 1 ELSE 0)
      BY <1>3, <2>1, ConfiguresTail
    <2>3. cur' # Nothing
      BY <2>2, NothingAssumption
    <2>4. QType'
      BY <1>1, <2>1, <2>2 DEF QType, IInv, TypeOK
    <2>5. Counted'
      <3>1. pending = Cardinality(Configures(jobs)) + 0
        BY <1>1 DEF IInv, Counted, IsConfigure
      <3>2. Cardinality(Configures(jobs)) \in Nat
        BY <2>1, ConfiguresFinite
      <3>3. pending' = Cardinality(Configures(jobs')) + (IF IsConfigure(cur') THEN 1 ELSE 0)
        BY <1>1, <2>2, <2>3, <3>1, <3>2 DEF IsConfigure
      <3>4. \A i \in DOMAIN jobs' : i + 1 \in DOMAIN jobs /\ jobs'[i] = jobs[i + 1]
        BY <1>3, <2>1
      <3> QED BY <1>1, <3>3, <3>4, CountedNext DEF IInv, Counted
    <2>6. Positions'
      <3>1. cur'.action \in {"initialize", "configure", "refresh", "bind", "listen", "test", "auto"}
        BY <2>2 DEF Jobs, Spoken
      <3>2. cur'.action # "auto"
        <4>1. 1 \in DOMAIN jobs
          BY <1>3, <2>1
        <4> QED BY <2>2, <4>1 DEF IInv, Counted
      <3>3. at' \in {"save", "refresh", "bind", "listen", "say"} /\ (at' = "say" => cur'.action = "test")
        BY <1>3, <3>1, <3>2 DEF Goto, FirstStage
      <3> QED BY <2>3, <3>3 DEF Positions, Underway
    <2>7. AllQuiet'
      <3>1. \A i \in DOMAIN jobs' : i + 1 \in DOMAIN jobs /\ jobs'[i] = jobs[i + 1]
        BY <1>3, <2>1
      <3>2. \A k : Quiet(k) => Quiet(k)'
        BY <1>1 DEF Quiet
      <3>3. 1 \in DOMAIN jobs
        BY <1>3, <2>1
      <3>4. (\A i \in DOMAIN jobs' : Quiet(jobs'[i])) /\ (\A c \in Callers : Quiet(putting'[c])) /\ Quiet(cur')
        BY <1>1, <2>2, <3>1, <3>3 DEF IInv, AllQuiet
      <3> QED BY <3>2, <3>4 DEF AllQuiet, Quiet
    <2> QED BY <2>4, <2>5, <2>6, <2>7 DEF QInv
  <1> QED BY <1>2, <1>3 DEF Get

LEMMA QAuto == ASSUME IInv, AutoLook PROVE QInv'
  <1>1. /\ cur = Nothing /\ cur' = Job("auto") /\ at' = "autoTake"
        /\ UNCHANGED <<jobs, putting, held, latest, pending, bindPending, shutdown>>
    BY DEF AutoLook, IInv, Positions, service, Beside, Goto
  <1>2. Job("auto") \in Jobs /\ Job("auto").action = "auto" /\ Job("auto") # Nothing
    BY NewJob DEF Actions
  <1>3. QType'
    BY <1>1, <1>2 DEF IInv, TypeOK, QType
  <1>4. Counted'
    <2>1. IsConfigure(cur') <=> IsConfigure(cur)
      BY <1>1, <1>2 DEF IsConfigure
    <2> QED BY <1>1, <2>1, CountedNext DEF IInv, Counted
  <1>5. Positions'
    BY <1>1, <1>2 DEF Positions, Underway
  <1>6. AllQuiet'
    BY <1>1, <1>2 DEF IInv, AllQuiet, Quiet
  <1> QED BY <1>3, <1>4, <1>5, <1>6 DEF QInv

(* Nobody holds the button, so every question has been released.           *)
LEMMA QAutoTake == ASSUME IInv, AutoTake PROVE QInv'
  <1>1. /\ at = "autoTake" /\ cur.action = "auto" /\ cur # Nothing
        /\ UNCHANGED <<queue, held, pending, bindPending, shutdown>>
    BY DEF AutoTake, IInv, Positions, service, Beside
  <1>2. CASE latest' = latest /\ at' = "finally"
    BY <1>1, <1>2, QMove DEF Underway
  <1>3. CASE AutoAdmits /\ latest' = "auto" /\ at' = "say"
    <2>1. ~held
      BY <1>3 DEF AutoAdmits
    <2>2. QType'
      BY <1>1 DEF IInv, TypeOK, QType, queue
    <2>3. Counted'
      BY <1>1 DEF IInv, Counted, Configures, IsConfigure, queue
    <2>4. Positions'
      BY <1>1, <1>3 DEF Positions, queue
    <2>5. AllQuiet'
      BY <1>1, <2>1 DEF IInv, AllQuiet, Quiet, queue
    <2> QED BY <2>2, <2>3, <2>4, <2>5 DEF QInv
  <1> QED BY <1>2, <1>3 DEF AutoTake, Goto

LEMMA QFinally == ASSUME IInv, Finally PROVE QInv'
  <1>1. /\ at = "finally" /\ cur # Nothing /\ cur' = Nothing /\ at' = "get" /\ pending' = Settled
        /\ UNCHANGED <<jobs, putting, held, latest, shutdown, bindPending>>
    BY DEF Finally, IInv, Positions, Goto, Beside
  <1>2. jobs \in Seq(Jobs) /\ Cardinality(Configures(jobs)) \in Nat
    BY ConfiguresFinite DEF IInv, TypeOK
  <1>3. pending = Cardinality(Configures(jobs)) + (IF IsConfigure(cur) THEN 1 ELSE 0)
    BY DEF IInv, Counted
  <1>4. pending' = Cardinality(Configures(jobs))
    BY <1>1, <1>2, <1>3 DEF Settled, IsConfigure
  <1>5. QType' /\ Positions'
    BY <1>1 DEF IInv, TypeOK, QType, Positions, Underway
  <1>6. Counted'
    <2>1. pending' = Cardinality(Configures(jobs')) + (IF IsConfigure(cur') THEN 1 ELSE 0)
      BY <1>1, <1>2, <1>4 DEF IsConfigure
    <2> QED BY <1>1, <2>1, CountedNext DEF IInv, Counted
  <1>7. AllQuiet'
    <2>1. pending = 0 => pending' = 0
      BY <1>2, <1>3, <1>4
    <2> QED BY <1>1, <2>1 DEF IInv, AllQuiet, Quiet
  <1> QED BY <1>5, <1>6, <1>7 DEF QInv

LEMMA QGuard == ASSUME IInv, Guard PROVE QInv'
  <1>1. /\ at = "play" /\ cur # Nothing /\ cur \in Jobs /\ cur' = [cur EXCEPT !.cut = TRUE]
        /\ UNCHANGED <<jobs, putting, at, held, latest, pending, bindPending, shutdown>>
    BY DEF Guard, IInv, Positions, TypeOK, service, Beside
  <1>2. cur' \in Jobs /\ cur'.action = cur.action /\ cur'.valid = cur.valid /\ cur'.cut
        /\ cur'.released = cur.released
    BY <1>1 DEF Jobs
  <1>3. cur' # Nothing
    BY <1>2, NothingAssumption
  <1>4. QType'
    BY <1>1, <1>2 DEF IInv, TypeOK, QType
  <1>5. Counted'
    <2>1. IsConfigure(cur') <=> IsConfigure(cur)
      BY <1>1, <1>2, <1>3 DEF IsConfigure
    <2> QED BY <1>1, <2>1, CountedNext DEF IInv, Counted
  <1>6. Positions'
    BY <1>1, <1>2, <1>3 DEF IInv, Positions, Underway
  <1>7. AllQuiet'
    BY <1>1, <1>2 DEF IInv, AllQuiet, Quiet
  <1> QED BY <1>4, <1>5, <1>6, <1>7 DEF QInv

LEMMA QWindow == ASSUME IInv, Window PROVE QInv'
  <1>1. CASE Configure
    BY <1>1, QQueueConfiguration DEF Configure
  <1> QED BY <1>1, QRelease, QTest, QStop, QRefresh, QBind, QCancelBind DEF Window

LEMMA QPoller ==
    ASSUME IInv, PollRelease \/ PollError \/ PollBind \/ PollLift \/ PollBound \/ PollEnd
    PROVE  QInv'
  <1>1. CASE PollRelease \/ PollLift
    BY <1>1, QRelease DEF PollRelease, PollLift
  <1>2. CASE PollError
    BY <1>2, QInputError DEF PollError
  <1>3. CASE PollBind \/ PollEnd
    BY <1>3, QSame DEF PollBind, PollEnd, Quietly, service
  <1>4. CASE PollBound
    <2>1. CASE BoundAdmits
      <3>1. enabled \in BOOLEAN /\ QueueConfiguration(enabled)
        BY <1>4, <2>1 DEF PollBound, IInv, TypeOK
      <3> QED BY <3>1, QQueueConfiguration
    <2>2. CASE ~BoundAdmits
      BY <1>4, <2>2, QSame DEF PollBound, Quietly, service
    <2> QED BY <2>1, <2>2
  <1> QED BY <1>1, <1>2, <1>3, <1>4

LEMMA QWork == ASSUME IInv, Work PROVE QInv'
  BY QGet, QAuto, QAutoTake, QSave, QSettings, QSpeak, QPreempted, QFinally DEF Work

LEMMA QStep == ASSUME IInv, [Next]_vars PROVE QInv'
  <1>1. CASE UNCHANGED vars \/ VisitEnds \/ Closing
    BY <1>1, QSame DEF vars, VisitEnds, Closing, CloseParts, CloseJoined, CloseEnds, Quietly,
                       service, Beside
  <1>2. ASSUME NEW c \in Pressers, Press(c) PROVE QInv'
    <2>1. c \in Callers
      BY VoiceAssumption
    <2> QED BY <1>2, <2>1, QPress
  <1>3. ASSUME NEW c \in Callers, Put(c) \/ Fail(c) PROVE QInv'
    BY <1>3, QPut, QInputError DEF Fail
  <1> QED BY <1>1, <1>2, <1>3, QWindow, QWork, QGuard, QPoller, QClose DEF Next

-----------------------------------------------------------------------------
(* The other variables' types.                                             *)

TService == held \in BOOLEAN /\ enabled \in BOOLEAN /\ shutdown \in BOOLEAN /\ latest \in {"job", "auto"}
TDraft == review \in Drafts /\ fresh \in BOOLEAN /\ readback \in {"none", "returned", "heard"}
TSides == /\ paused \in BOOLEAN /\ spotter \in {"on", "off"}
          /\ bindPending \in BOOLEAN /\ closing \in {"open", "shut", "joining", "input", "closed"}
TPoller == /\ input \in {"closed", "running", "stopping"} /\ started \in BOOLEAN
           /\ bindActive \in BOOLEAN /\ selected \in BOOLEAN /\ pressed \in BOOLEAN
TBetween == failing \subseteq Callers /\ bound \in BOOLEAN /\ lifting \in BOOLEAN
TWorker == at \in Stages /\ talk \in {"plain", "prompt", "answer"}
Types == TService /\ TDraft /\ TSides /\ TPoller /\ TBetween /\ TWorker

LEMMA TypesFit == TypeOK <=> QType /\ pending \in 0..MaxJobs + 1 /\ Types
  BY DEF TypeOK, QType, Types, TService, TDraft, TSides, TPoller, TBetween, TWorker

LEMMA TWindow == ASSUME Types, Window PROVE Types'
  <1> USE DEF Types, TService, TDraft, TSides, TPoller, TBetween, TWorker
  <1>1. TService' /\ TWorker'
    BY DEF Window, Release, Test, Stop, Configure, QueueConfiguration, Refresh, Bind, CancelBind,
           Invalidate, service
  <1>2. TDraft'
    BY DEF Window, Release, Test, Stop, Configure, QueueConfiguration, Refresh, Bind, CancelBind,
           Forget, draft, Drafts
  <1>3. TSides'
    BY DEF Window, Release, Test, Stop, Configure, QueueConfiguration, Refresh, Bind, CancelBind,
           Refused, Full, sides
  <1>4. TPoller'
    BY DEF Window, Release, Test, Stop, Configure, QueueConfiguration, Refresh, Bind, CancelBind,
           poller
  <1>5. TBetween'
    BY DEF Window, Release, Test, Stop, Configure, QueueConfiguration, Refresh, Bind, CancelBind,
           between
  <1> QED BY <1>1, <1>2, <1>3, <1>4, <1>5

LEMMA TPolling ==
    ASSUME Types, PollRelease \/ PollError \/ PollBind \/ PollLift \/ PollBound \/ PollEnd
    PROVE  Types'
  <1> USE DEF Types, TService, TDraft, TSides, TPoller, TBetween, TWorker
  <1>1. TService' /\ TWorker'
    BY DEF PollRelease, PollError, PollBind, PollLift, PollBound, PollEnd, Release, InputError,
           QueueConfiguration, Invalidate, service
  <1>2. TDraft'
    BY DEF PollRelease, PollError, PollBind, PollLift, PollBound, PollEnd, Release, InputError,
           QueueConfiguration, Forget, draft, Drafts
  <1>3. TSides'
    BY DEF PollRelease, PollError, PollBind, PollLift, PollBound, PollEnd, Release, InputError,
           QueueConfiguration, Refused, Full, sides
  <1>4. TPoller'
    BY DEF PollRelease, PollError, PollBind, PollLift, PollBound, PollEnd, Release, InputError,
           QueueConfiguration, Polling, poller
  <1>5. TBetween'
    <2>1. failing' = failing \/ failing' = failing \cup {"poller"}
      BY DEF PollRelease, PollError, PollBind, PollLift, PollBound, PollEnd, Release, between
    <2>2. "poller" \in Callers
      BY DEF Callers
    <2>3. bound' \in BOOLEAN /\ lifting' \in BOOLEAN
      BY DEF PollRelease, PollError, PollBind, PollLift, PollBound, PollEnd, Release,
             QueueConfiguration, between
    <2> QED BY <2>1, <2>2, <2>3
  <1> QED BY <1>1, <1>2, <1>3, <1>4, <1>5

LEMMA TWorking == ASSUME Types, QType, Counted, Positions, Work PROVE Types'
  <1> USE DEF Types, TService, TDraft, TSides, TPoller, TBetween, TWorker
  <1>1. TSides' /\ TBetween'
    BY DEF Work, Get, AutoLook, AutoTake, Save, Apply, CloseInput, ListDevices, BeginBind, Speak, Listen,
           Cue, Record, Recognize, Intent, Draft, Confirm, Submit, Await, Say, Play, Arm, Preempted,
           Error, Finally, Yields, Unheard, Beside, sides, between
  <1>2. TService'
    <2>0. held' \in BOOLEAN /\ shutdown' \in BOOLEAN /\ latest' \in {"job", "auto"}
      BY DEF Work, Get, AutoLook, AutoTake, Save, Apply, CloseInput, ListDevices, BeginBind, Speak,
             Listen, Cue, Record, Recognize, Intent, Draft, Confirm, Submit, Await, Say, Play, Arm,
             Preempted, Error, Finally, Yields, Unheard, Invalidate, service
    <2>1. CASE Apply
      <3>1. cur.on \in BOOLEAN
        BY <2>1 DEF Apply, Positions, Jobs, QType
      <3> QED BY <2>1, <3>1 DEF Apply, Yields, service
    <2>2. CASE ~Apply
      <3>1. enabled' = enabled
        BY <2>2 DEF Work, Get, AutoLook, AutoTake, Save, CloseInput, ListDevices, BeginBind, Speak,
             Listen, Cue, Record, Recognize, Intent, Draft, Confirm, Submit, Await, Say, Play, Arm,
             Preempted, Error, Finally, Yields, Unheard, service
      <3> QED BY <2>0, <3>1
    <2> QED BY <2>1, <2>2
  <1>3. TDraft'
    BY DEF Work, Get, AutoLook, AutoTake, Save, Apply, CloseInput, ListDevices, BeginBind, Speak, Listen,
           Cue, Record, Recognize, Intent, Draft, Confirm, Submit, Await, Say, Play, Arm, Preempted,
           Error, Finally, Yields, Unheard, Forget, draft, Drafts
  <1>4. TPoller'
    <2>1. CASE Apply \/ CloseInput \/ BeginBind
      BY <2>1 DEF Apply, CloseInput, BeginBind, StartInput, StopInput, Yields, Beside, poller
    <2>2. CASE ~(Apply \/ CloseInput \/ BeginBind)
      <3>1. UNCHANGED poller
        BY <2>2 DEF Work, Get, AutoLook, AutoTake, Save, ListDevices, Speak, Listen, Cue, Record,
             Recognize, Intent, Draft, Confirm, Submit, Await, Say, Play, Arm, Preempted, Error,
             Finally, Yields, Unheard, Beside
      <3> QED BY <3>1 DEF poller
    <2> QED BY <2>1, <2>2
  <1>5. talk' \in {"plain", "prompt", "answer"}
    BY DEF Work, Get, AutoLook, AutoTake, Save, Apply, CloseInput, ListDevices, BeginBind, Speak, Listen,
           Cue, Record, Recognize, Intent, Draft, Confirm, Submit, Await, Say, Play, Arm, Preempted,
           Error, Finally, Yields, Unheard
  <1>6. at' \in Stages
    <2>1. CASE Get
      <3>1. at' = "done" \/ (jobs # <<>> /\ at' = FirstStage[Head(jobs).action])
        BY <2>1 DEF Get, Goto
      <3>2. ASSUME jobs # <<>>, at' = FirstStage[Head(jobs).action] PROVE at' \in Stages
        <4>1. jobs \in Seq(Jobs) /\ Head(jobs) = jobs[1] /\ 1 \in DOMAIN jobs
          BY <3>2 DEF QType
        <4>2. Head(jobs).action \in {"initialize", "configure", "refresh", "bind", "listen", "test"}
          <5>1. Head(jobs) \in Jobs /\ Head(jobs).action # "auto"
            BY <4>1 DEF Counted
          <5> QED BY <5>1 DEF Jobs, Spoken
        <4> QED BY <3>2, <4>2 DEF FirstStage, Stages
      <3> QED BY <3>1, <3>2 DEF Stages
    <2>2. CASE AutoLook \/ AutoTake \/ Save \/ Apply \/ CloseInput \/ ListDevices \/ BeginBind
      BY <2>2 DEF AutoLook, AutoTake, Save, Apply, CloseInput, ListDevices, BeginBind, Yields, Goto,
                  Applied, Stages
    <2>3. CASE Speak
      BY <2>3 DEF Speak, Listen, Cue, Record, Recognize, Intent, Draft, Confirm, Submit, Await, Say,
                  Play, Arm, Yields, Unheard, Goto, Stages
    <2>4. CASE Preempted \/ Error \/ Finally
      BY <2>4 DEF Preempted, Error, Finally, Yields, Goto, Stages
    <2> QED BY <2>1, <2>2, <2>3, <2>4 DEF Work
  <1> QED BY <1>1, <1>2, <1>3, <1>4, <1>5, <1>6

LEMMA TypesStep == ASSUME IInv, [Next]_vars PROVE Types'
  <1>1. Types /\ QType /\ Counted /\ Positions
    BY TypesFit DEF IInv
  <1>2. CASE Window
    BY <1>1, <1>2, TWindow
  <1>3. CASE Work
    BY <1>1, <1>3, TWorking
  <1>4. CASE PollRelease \/ PollError \/ PollBind \/ PollLift \/ PollBound \/ PollEnd
    BY <1>1, <1>4, TPolling
  <1> USE DEF Types, TService, TDraft, TSides, TPoller, TBetween, TWorker
  <1>5. CASE Guard \/ VisitEnds \/ Close \/ Closing \/ UNCHANGED vars
    <2>1. TService' /\ TDraft'
      <3>1. TService'
        BY <1>1, <1>5 DEF Guard, VisitEnds, Close, Closing, CloseParts, CloseJoined, CloseEnds,
                          service, vars
      <3>2. \/ review' \in {"none", review} /\ fresh' = FALSE /\ readback' = "none"
            \/ UNCHANGED <<review, fresh, readback>>
        BY <1>5 DEF Guard, VisitEnds, Close, Closing, CloseParts, CloseJoined, CloseEnds, Forget,
                    draft, vars
      <3> QED BY <1>1, <3>1, <3>2 DEF Drafts
    <2>2. TSides' /\ TPoller'
      <3>1. TSides'
        BY <1>1, <1>5 DEF Guard, VisitEnds, Close, Closing, CloseParts, CloseJoined, CloseEnds,
                          Beside, sides, vars
      <3>2. \/ UNCHANGED poller
            \/ /\ input' \in {input, "stopping"} /\ bindActive' \in {FALSE, bindActive}
               /\ started' \in {FALSE, started} /\ UNCHANGED <<selected, pressed>>
        BY <1>5 DEF Guard, VisitEnds, Close, Closing, CloseParts, CloseJoined, CloseEnds,
                    StopInput, Beside, vars
      <3> QED BY <1>1, <3>1, <3>2 DEF poller
    <2>3. TBetween' /\ TWorker'
      BY <1>1, <1>5 DEF Guard, VisitEnds, Close, Closing, CloseParts, CloseJoined, CloseEnds,
                        Beside, between, vars
    <2> QED BY <2>1, <2>2, <2>3
  <1>6. ASSUME NEW c \in Callers, Press(c) PROVE Types'
    <2>1. TService' /\ TPoller'
      BY <1>1, <1>6 DEF Press, Accept, Ignore
    <2>2. TDraft' /\ TSides' /\ TBetween' /\ TWorker'
      BY <1>1, <1>6 DEF Press, draft, sides, between
    <2> QED BY <2>1, <2>2
  <1>7. ASSUME NEW c \in Callers, Put(c) \/ Fail(c) PROVE Types'
    <2>1. TService' /\ TDraft'
      BY <1>1, <1>7 DEF Put, Fail, InputError, Invalidate, Forget, service, draft, Drafts
    <2>2. TSides' /\ TPoller' /\ TWorker'
      BY <1>1, <1>7 DEF Put, Fail, InputError, sides, poller
    <2>3. failing' = failing \/ failing' = failing \cup {c} \/ failing' = failing \ {c}
      BY <1>7 DEF Put, Fail
    <2>4. TBetween'
      BY <1>1, <1>7, <2>3 DEF Put, Fail
    <2> QED BY <2>1, <2>2, <2>4
  <1> HIDE DEF Types, TService, TDraft, TSides, TPoller, TBetween, TWorker
  <1>8. ASSUME NEW c \in Pressers, Press(c) PROVE Types'
    BY <1>6, <1>8, VoiceAssumption
  <1> QED BY <1>2, <1>3, <1>4, <1>5, <1>7, <1>8 DEF Next

LEMMA TypeStep == ASSUME IInv, [Next]_vars PROVE TypeOK'
  <1>1. QType' /\ Counted' /\ Types'
    BY QStep, TypesStep DEF QInv
  <1>2. pending' \in 0..MaxJobs + 1
    <2>1. pending' = Cardinality(Configures(jobs')) + (IF IsConfigure(cur') THEN 1 ELSE 0)
      BY <1>1 DEF Counted, Configures, IsConfigure
    <2>2. jobs' \in Seq(Jobs) /\ Len(jobs') <= MaxJobs
      BY <1>1 DEF QType
    <2> QED BY <2>1, <2>2, CountRange
  <1> QED BY <1>1, <1>2
          DEF TypeOK, QType, Types, TService, TDraft, TSides, TPoller, TBetween, TWorker, Stages, Drafts

-----------------------------------------------------------------------------
(* The draft and the proximity worker.                                     *)

LEMMA ReadBackStep == ASSUME IInv, [Next]_vars PROVE ReadBack'
  <1>1. ReadBack
    BY DEF IInv
  <1>2. CASE fresh' = FALSE
    BY <1>2 DEF ReadBack
  <1>3. CASE UNCHANGED <<at, draft>>
    BY <1>1, <1>3 DEF ReadBack, draft
  <1>4. CASE UNCHANGED draft /\ at' \notin {"arm", "confirm"}
    BY <1>1, <1>4 DEF ReadBack, draft
  <1>5. CASE Window \/ Guard \/ VisitEnds \/ Close \/ Closing \/ UNCHANGED vars
    <2>1. fresh' = FALSE \/ UNCHANGED <<at, draft>>
      BY <1>5 DEF Window, Release, Test, Stop, Configure, QueueConfiguration, Refresh, Bind,
                  CancelBind, Guard, VisitEnds, Close, Closing, CloseParts, CloseJoined, CloseEnds,
                  Forget, draft, vars
    <2> QED BY <1>2, <1>3, <2>1
  <1>6. CASE PollRelease \/ PollError \/ PollBind \/ PollLift \/ PollBound \/ PollEnd
    <2>1. fresh' = FALSE \/ UNCHANGED <<at, draft>>
      BY <1>6 DEF PollRelease, PollError, PollBind, PollLift, PollBound, PollEnd, Release, InputError,
                  QueueConfiguration, Forget, draft
    <2> QED BY <1>2, <1>3, <2>1
  <1>7. ASSUME NEW c \in Callers, Put(c) \/ Fail(c) \/ Press(c) PROVE ReadBack'
    <2>1. fresh' = FALSE \/ UNCHANGED <<at, draft>>
      BY <1>7 DEF Put, Fail, Press, InputError, Forget, draft
    <2> QED BY <1>2, <1>3, <2>1
  <1>8. CASE Speak
    <2>1. CASE Intent
      <3>1. \/ fresh' = FALSE
            \/ Confirmable /\ UNCHANGED <<fresh, readback>>
            \/ at' = "finally" /\ review' = "none"
        BY <2>1 DEF Intent, Goto
      <3>2. Confirmable => (fresh => readback # "none")
        BY <1>1 DEF Confirmable, ReadBack
      <3> QED BY <1>2, <3>1, <3>2 DEF ReadBack
    <2>2. CASE Draft
      <3>1. at = "draft" /\ at' \in {"say", "finally"} /\ (review' = "draft" \/ UNCHANGED draft)
        BY <2>2 DEF Draft, Goto, draft
      <3> QED BY <1>4, <3>1 DEF ReadBack
    <2>3. CASE Play
      <3>1. /\ UNCHANGED <<review, fresh>> /\ (readback' = readback \/ readback' \in {"heard", "returned"})
            /\ at' \in {"preempted", "error", "finally", "arm", "drop"}
            /\ at' = "arm" => readback' # "none"
        BY <2>3 DEF Play, Yields, Goto, draft
      <3> QED BY <1>1, <3>1 DEF ReadBack
    <2>4. CASE Arm
      <3>1. /\ UNCHANGED <<fresh, readback>> /\ at' = "finally"
            /\ review' = "armed" => at = "arm"
        BY <2>4 DEF Arm, Armable, Goto
      <3> QED BY <1>1, <3>1 DEF ReadBack
    <2>5. CASE Listen \/ Cue \/ Record \/ Recognize \/ Confirm \/ Submit \/ Await \/ Say
      <3>1. fresh' = FALSE \/ (UNCHANGED draft /\ at' \notin {"arm", "confirm"})
        BY <2>5 DEF Listen, Cue, Record, Recognize, Confirm, Submit, Await, Say, Yields, Unheard,
                    Forget, Goto
      <3> QED BY <1>2, <1>4, <3>1
    <2> QED BY <1>8, <2>1, <2>2, <2>3, <2>4, <2>5 DEF Speak
  <1>9. CASE Work /\ ~Speak
    <2>1. fresh' = FALSE \/ UNCHANGED draft
      BY <1>9 DEF Work, Get, AutoLook, AutoTake, Save, Apply, CloseInput, ListDevices, BeginBind,
                  Preempted, Error, Finally, Yields, Forget
    <2>2. at' \notin {"arm", "confirm"}
      <3>1. CASE Get
        <4>1. at' = "done" \/ (jobs # <<>> /\ at' = FirstStage[Head(jobs).action])
          BY <3>1 DEF Get, Goto
        <4>2. ASSUME jobs # <<>>, at' = FirstStage[Head(jobs).action]
              PROVE  at' \notin {"arm", "confirm"}
          <5>1. jobs \in Seq(Jobs) /\ Head(jobs) = jobs[1] /\ 1 \in DOMAIN jobs
            BY <4>2 DEF IInv, TypeOK
          <5>2. Head(jobs) \in Jobs /\ Head(jobs).action # "auto"
            BY <5>1 DEF IInv, Counted
          <5>3. Head(jobs).action \in {"initialize", "configure", "refresh", "bind", "listen", "test"}
            BY <5>2 DEF Jobs, Spoken
          <5> QED BY <4>2, <5>3 DEF FirstStage
        <4> QED BY <4>1, <4>2
      <3>2. CASE ~Get
        <4>1. \/ at' \in {"autoTake", "say", "finally", "apply", "error", "closing", "refresh",
                          "preempted", "get"}
              \/ at' = at /\ at = "closing"
          BY <1>9, <3>2 DEF Work, AutoLook, AutoTake, Save, Apply, CloseInput, ListDevices, BeginBind,
                  Preempted, Error, Finally, Yields, Goto, Applied
        <4> QED BY <4>1
      <3> QED BY <3>1, <3>2
    <2> QED BY <1>2, <1>4, <2>1, <2>2
  <1>10. ASSUME NEW c \in Pressers, Press(c) PROVE ReadBack'
    BY <1>7, <1>10, VoiceAssumption
  <1> QED BY <1>5, <1>6, <1>7, <1>8, <1>9, <1>10 DEF Next

LEMMA PausedStep == ASSUME IInv, [Next]_vars PROVE PausedIsOff'
  <1>1. PausedIsOff
    BY DEF IInv
  <1>2. CASE UNCHANGED <<paused, spotter>> \/ spotter' = "off"
    BY <1>1, <1>2 DEF PausedIsOff
  <1>3. CASE Apply
    BY <1>1, <1>3 DEF Apply, Applies, PausedIsOff, Yields, Beside, sides
  <1>4. CASE Window \/ Guard \/ VisitEnds \/ Close \/ Closing \/ UNCHANGED vars
    <2>1. UNCHANGED <<paused, spotter>> \/ spotter' = "off"
      BY <1>4 DEF Window, Release, Test, Stop, Configure, QueueConfiguration, Refresh, Bind, CancelBind,
                  Guard, VisitEnds, Close, Closing, CloseParts, CloseJoined, CloseEnds, Beside, sides, vars
    <2> QED BY <1>2, <2>1
  <1>5. CASE PollRelease \/ PollError \/ PollBind \/ PollLift \/ PollBound \/ PollEnd
    <2>1. UNCHANGED <<paused, spotter>> \/ spotter' = "off"
      BY <1>5 DEF PollRelease, PollError, PollBind, PollLift, PollBound, PollEnd, Release, InputError,
                  QueueConfiguration, sides
    <2> QED BY <1>2, <2>1
  <1>6. ASSUME NEW c, Put(c) \/ Fail(c) \/ Press(c) PROVE PausedIsOff'
    <2>1. UNCHANGED <<paused, spotter>>
      BY <1>6 DEF Put, Fail, Press, InputError, sides
    <2> QED BY <1>2, <2>1
  <1>7. CASE Work /\ ~Apply
    <2>1. UNCHANGED <<paused, spotter>>
      BY <1>7 DEF Work, Get, AutoLook, AutoTake, Save, CloseInput, ListDevices, BeginBind, Speak, Listen,
           Cue, Record, Recognize, Intent, Draft, Confirm, Submit, Await, Say, Play, Arm, Preempted,
           Error, Finally, Yields, Unheard, Beside, sides
    <2> QED BY <1>2, <2>1
  <1> QED BY <1>3, <1>4, <1>5, <1>6, <1>7 DEF Next
-----------------------------------------------------------------------------
(* The inductive invariant.                                                *)

LEMMA InitIInv == Init => IInv
  <1> SUFFICES ASSUME Init PROVE IInv
    OBVIOUS
  <1>1. Job("initialize") \in Jobs /\ Job("initialize").action = "initialize"
    BY NewJob DEF Actions
  <1>2. /\ jobs = <<Job("initialize")>> /\ jobs \in Seq(Jobs) /\ Len(jobs) = 1 /\ DOMAIN jobs = {1}
        /\ jobs[1] = Job("initialize")
    BY <1>1 DEF Init
  <1>3. TypeOK
    <2>1. QType
      BY <1>2, VoiceAssumption DEF Init, QType
    <2>2. Types
      BY DEF Init, Types, TService, TDraft, TSides, TPoller, TBetween, TWorker, Drafts, Stages
    <2>3. pending \in 0..MaxJobs + 1
      BY VoiceAssumption DEF Init
    <2> QED BY <2>1, <2>2, <2>3, TypesFit
  <1>4. Counted
    <2>1. Configures(jobs) = {}
      BY <1>1, <1>2 DEF Configures
    <2>2. pending = Cardinality(Configures(jobs)) + (IF IsConfigure(cur) THEN 1 ELSE 0)
      BY <2>1, FS_EmptySet DEF Init, IsConfigure
    <2>3. \A c \in Callers : putting[c] = Nothing
      BY DEF Init
    <2>4. \A i \in DOMAIN jobs : jobs[i].action # "auto"
      BY <1>1, <1>2
    <2> QED BY <2>2, <2>3, <2>4 DEF Counted
  <1>5. Positions
    BY DEF Init, Positions, Underway
  <1>6. AllQuiet
    BY <1>1, <1>2 DEF Init, AllQuiet, Quiet
  <1>7. ReadBack /\ PausedIsOff
    BY DEF Init, ReadBack, PausedIsOff
  <1> QED BY <1>3, <1>4, <1>5, <1>6, <1>7 DEF IInv

LEMMA NextIInv == IInv /\ [Next]_vars => IInv'
  <1> SUFFICES ASSUME IInv, [Next]_vars PROVE IInv'
    OBVIOUS
  <1>1. Counted' /\ Positions' /\ AllQuiet'
    BY QStep DEF QInv
  <1>2. TypeOK' /\ ReadBack' /\ PausedIsOff'
    BY TypeStep, ReadBackStep, PausedStep
  <1> QED BY <1>1, <1>2 DEF IInv

-----------------------------------------------------------------------------
(* What it means for the service.                                          *)

(* Every reachable state is a state of the service: in particular the      *)
(* count of pending configurations never goes below zero or past what the  *)
(* queue and the worker hold.                                              *)
THEOREM TypeCorrect == Spec => []TypeOK
  <1>1. IInv => TypeOK
    BY DEF IInv
  <1> QED BY <1>1, InitIInv, NextIInv, PTL DEF Spec

(* The microphone is open only for a button that is held, whatever the     *)
(* callers do between the blocks of the worker.                            *)
THEOREM MicrophoneIsHeld == Spec => []MicrophoneHeld
  <1>1. IInv => MicrophoneHeld
    BY DEF IInv, AllQuiet, Quiet, MicrophoneHeld
  <1> QED BY <1>1, InitIInv, NextIInv, PTL DEF Spec

(* Whoever takes a question back sets both of the Events that its          *)
(* recording and its answer wait on.                                       *)
THEOREM TakenBackIsSilenced == Spec => []QuestionSilenced
  <1>1. ASSUME IInv PROVE QuestionSilenced
    <2>1. ASSUME at \in {"cue", "record", "recognize", "say", "play"},
                 cur.action = "listen", ~cur.valid
          PROVE  cur.cut /\ cur.released
      <3>1. at \in Underway /\ at \notin {"get", "done"}
        BY <2>1 DEF Underway
      <3>2. cur # Nothing /\ cur.cut
        BY <1>1, <2>1, <3>1 DEF IInv, Positions
      <3>3. Quiet(cur)
        BY <1>1 DEF IInv, AllQuiet
      <3>4. cur.released
        BY <2>1, <3>2, <3>3 DEF Quiet
      <3> QED BY <3>2, <3>4
    <2> QED BY <2>1 DEF QuestionSilenced
  <1>2. IInv => QuestionSilenced
    BY <1>1
  <1> QED BY <1>2, InitIInv, NextIInv, PTL DEF Spec

(* A save that was in flight when stop was called does not bring the       *)
(* proximity worker back.                                                  *)
THEOREM StopBeatsSave == Spec => []PausedIsOff
  <1>1. IInv => PausedIsOff
    BY DEF IInv
  <1> QED BY <1>1, InitIInv, NextIInv, PTL DEF Spec

(* Only the worker's own step leaves the confirmation, and it looks once   *)
(* more at the visit the draft was read back in.                           *)
LEMMA ConfirmAlone == ASSUME Next, at = "confirm", at' = "await" PROVE Confirm
  <1>1. at' # at
    OBVIOUS
  <1>2. ~(Window \/ Guard \/ VisitEnds \/ Close \/ Closing)
    BY <1>1 DEF Window, Release, Test, Stop, Configure, QueueConfiguration, Refresh, Bind,
                CancelBind, Guard, VisitEnds, Close, Closing, CloseParts, CloseJoined, CloseEnds
  <1>3. ~(PollRelease \/ PollError \/ PollBind \/ PollLift \/ PollBound \/ PollEnd)
    BY <1>1 DEF PollRelease, PollError, PollBind, PollLift, PollBound, PollEnd, Release, InputError,
                QueueConfiguration
  <1>4. \A c : ~(Press(c) \/ Put(c) \/ Fail(c))
    BY <1>1 DEF Press, Put, Fail, InputError
  <1>5. ~(Get \/ AutoLook \/ AutoTake \/ Save \/ Apply \/ CloseInput \/ ListDevices \/ BeginBind
            \/ Preempted \/ Error \/ Finally)
    BY DEF Get, AutoLook, AutoTake, Save, Apply, CloseInput, ListDevices, BeginBind, Preempted,
           Error, Finally
  <1>6. ~(Listen \/ Cue \/ Record \/ Recognize \/ Intent \/ Draft \/ Submit \/ Await \/ Say
            \/ Play \/ Arm)
    BY DEF Listen, Cue, Record, Recognize, Intent, Draft, Submit, Await, Say, Play, Arm
  <1> QED BY <1>2, <1>3, <1>4, <1>5, <1>6 DEF Next, Work, Speak

LEMMA ConfirmFresh == ASSUME Next, at = "confirm", at' = "await" PROVE fresh
  <1>1. Confirm
    BY ConfirmAlone
  <1> QED BY <1>1 DEF Confirm, Yields

(* A tyre record is queued only for a draft whose readback was played to a *)
(* normal return in the visit it is about, and that nothing has taken back *)
(* since.                                                                  *)
THEOREM RecordsAsRead == Spec => ConfirmedAsRead
  <1>1. ASSUME IInv, Next, at = "confirm", at' = "await" PROVE readback # "none"
    BY <1>1, ConfirmFresh DEF IInv, ReadBack
  <1>2. IInv /\ [Next]_vars => [at = "confirm" /\ at' = "await" => readback # "none"]_vars
    BY <1>1
  <1> QED BY <1>2, InitIInv, NextIInv, PTL DEF Spec, ConfirmedAsRead

(* No call for a readback is taken back between its claim and its first    *)
(* look at the claim.                                                      *)
NoneUnplayed == [][readback' # "returned"]_vars

(* As long as that does not happen, a record is queued only for a draft    *)
(* that was played to its end: the one way a draft is armed unheard is the *)
(* call that a proximity call cancels before it has begun.                 *)
THEOREM HeardUnlessUnplayed == Spec /\ NoneUnplayed => ConfirmedAsHeard
  <1> DEFINE Played == IInv /\ readback # "returned"
  <1>1. Init => Played
    BY InitIInv DEF Init
  <1>2. Played /\ [Next]_vars /\ [readback' # "returned"]_vars => Played'
    <2>1. UNCHANGED vars => readback' = readback
      BY DEF vars, draft
    <2> QED BY <2>1, NextIInv
  <1>3. ASSUME Played, Next, at = "confirm", at' = "await" PROVE readback = "heard"
    <2>1. readback # "none" /\ readback \in {"none", "returned", "heard"}
      BY <1>3, ConfirmFresh DEF IInv, ReadBack, TypeOK
    <2> QED BY <1>3, <2>1
  <1>4. Played /\ [Next]_vars => [at = "confirm" /\ at' = "await" => readback = "heard"]_vars
    BY <1>3
  <1> HIDE DEF Played
  <1> QED BY <1>1, <1>2, <1>4, PTL DEF Spec, NoneUnplayed, ConfirmedAsHeard
=============================================================================
