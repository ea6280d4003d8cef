---------------------------- MODULE SpeechPolicy ----------------------------
(***************************************************************************)
(* ShadowSpeechPolicy of speech_policy.py: which prompt would be spoken.   *)
(*                                                                         *)
(* Inputs of one session time are staged and evaluated together, in a      *)
(* canonical order, when the first input of a later time arrives or the    *)
(* stream is finished: expiry first, then each input, then the candidates  *)
(* (undecided).  The order is kept on arrival here, not made when the      *)
(* batch is complete, and the later input is chosen when the batch has     *)
(* been done: neither is seen by what is done.  A contract breach is final.*)
(*                                                                         *)
(* A revision stands for the digest of a candidate's content, its class    *)
(* and so its priority included; an envelope is a candidate with the time  *)
(* it was issued and its deadline, and its evidence is that of its         *)
(* deadline.  Left out: the schemas and ranges of the contract types, the  *)
(* identity's fields, and the audit records (events, decisions, receipt).  *)
(***************************************************************************)
EXTENDS Integers, Sequences, FiniteSets

CONSTANTS Keys,              \* conflict keys, numbered in their order
          Revisions, Priority,
          Contents,          \* what a caller may say under a key
          MaxTime,           \* bound on session time
          MaxStaged,         \* bound on the inputs of one time
          Lives,             \* how long a candidate may be valid
          StableSamples, StableFor, MaxGap,     \* SpeechPolicyConfig
          GlobalCooldown, ConflictCooldown

ASSUME PolicyAssumption ==
    /\ Keys \subseteq Nat /\ "none" \notin Revisions
    /\ Priority \in [Revisions -> 0..3] /\ Contents \in [Keys -> SUBSET Revisions]
    /\ Lives \subseteq Nat \ {0} /\ {MaxTime, MaxStaged} \subseteq Nat
    /\ StableSamples \in Nat \ {0}
    /\ {StableFor, MaxGap, GlobalCooldown, ConflictCooldown} \subseteq Nat

Never == -1
None == [rev |-> "none"]
NoEvidence == [time |-> Never, sees |-> "none"]

VARIABLES
    phase,      \* "open", "feeding", "deciding", "failed" or "finished"
    now,        \* the time of the staged inputs
    staged,     \* in their canonical order; what is left of them once fed
    undecided,  \* the candidates still to be evaluated
    active, pending,                   \* an envelope per conflict key
    muted, invalidated,
    lastTiming,
    qualitySince, qualityCount, safeSince, safeCount,
    lastSpeech, lastConflict,
    said,       \* history: every prompt spoken
    road        \* history: what the timing evidence of each time has shown

candidates == <<active, pending>>
stability == <<lastTiming, qualitySince, qualityCount, safeSince, safeCount>>
spoken == <<lastSpeech, lastConflict, said>>
policyVars == <<phase, now, staged, undecided, candidates, muted, invalidated, stability,
                spoken, road>>

Pri(e) == Priority[e.rev]
Tactical(e) == e # None /\ Pri(e) < 3

PolicyInit ==
    /\ phase = "open" /\ now = Never /\ staged = <<>>
    /\ undecided = {}
    /\ active = [k \in Keys |-> None] /\ pending = [k \in Keys |-> None]
    /\ muted \in BOOLEAN /\ invalidated = FALSE
    /\ lastTiming = NoEvidence
    /\ qualitySince = Never /\ qualityCount = 0 /\ safeSince = Never /\ safeCount = 0
    /\ lastSpeech = Never /\ lastConflict = [k \in Keys |-> Never]
    /\ said = {} /\ road = [t \in 0..MaxTime |-> "none"]

----------------------------------------------------------------------------
(* What a batch may contain, and the order it is processed in.             *)

Rank == [mute_on |-> 0, mute_off |-> 0, revoke |-> 1, refresh |-> 2, envelope |-> 3,
         timing |-> 4, boundary |-> 5, reset |-> 5]

InputPri(i) == IF i.kind = "envelope" THEN Priority[i.rev] ELSE 0

Before(i, j) ==
    \/ Rank[i.kind] < Rank[j.kind]
    \/ Rank[i.kind] = Rank[j.kind] /\ InputPri(i) < InputPri(j)
    \/ Rank[i.kind] = Rank[j.kind] /\ InputPri(i) = InputPri(j) /\ i.key < j.key

Input(kind, t) ==
    [kind |-> kind, time |-> t, key |-> 0, rev |-> "none", until |-> 0, was |-> None,
     sees |-> "none"]

(* A caller names the content it replaces or revokes, and the envelope it  *)
(* refreshes, by the digest it has last seen.                              *)
Inputs(t) ==
    {Input(x, t) : x \in {"mute_on", "mute_off", "boundary", "reset"}} \cup
    {[Input("timing", t) EXCEPT !.sees = x] : x \in {"safe", "unsafe", "unstable"}} \cup
    UNION {
      {[Input("envelope", t) EXCEPT !.key = k, !.rev = c[1], !.until = t + c[2], !.was = c[3]] :
          c \in Contents[k] \X Lives \X {None, active[k]}} \cup
      {[Input("revoke", t) EXCEPT !.key = k, !.rev = r] : r \in Contents[k]} \cup
      {[Input("refresh", t) EXCEPT !.key = k, !.was = active[k], !.until = t + l] :
          l \in Lives} : k \in Keys}

Ambiguous(b) ==
    \E m, n \in DOMAIN b : m < n /\
        \/ b[m].kind = b[n].kind /\ b[m].kind \in {"envelope", "refresh"} /\ b[m].key = b[n].key
        \/ {b[m].kind, b[n].kind} = {"mute_on", "mute_off"}

----------------------------------------------------------------------------
(* What several handlers do.                                               *)

ClearTactical ==
    /\ active' = [k \in Keys |-> IF Tactical(active[k]) THEN None ELSE active[k]]
    /\ pending' = [k \in Keys |-> IF Tactical(active[k]) THEN None ELSE pending[k]]

ResetStability ==
    /\ lastTiming' = NoEvidence
    /\ qualitySince' = Never /\ qualityCount' = 0 /\ safeSince' = Never /\ safeCount' = 0

FailClosed ==
    /\ phase' = "failed" /\ invalidated' = TRUE
    /\ staged' = <<>> /\ undecided' = {}
    /\ ClearTactical /\ ResetStability
    /\ UNCHANGED <<now, muted, spoken, road>>

Withdraw(k) ==
    /\ active' = [active EXCEPT ![k] = None]
    /\ pending' = [pending EXCEPT ![k] = None]

----------------------------------------------------------------------------
(* feed and finish.                                                        *)

Insert(b, i) ==
    LET later == {n \in DOMAIN b : Before(i, b[n])}
        at == IF later = {} THEN Len(b) + 1 ELSE CHOOSE n \in later : \A m \in later : n <= m
    IN  [n \in 1..(Len(b) + 1) |-> IF n < at THEN b[n] ELSE IF n = at THEN i ELSE b[n - 1]]

Stage(i) ==
    /\ phase = "open" /\ IF staged = <<>> THEN i.time > now ELSE i.time = now
    /\ Len(staged) < MaxStaged
    /\ staged' = Insert(staged, i) /\ now' = i.time
    /\ UNCHANGED <<phase, undecided, candidates, muted, invalidated, stability, spoken, road>>

(* An input of another identity, type or of an earlier time.               *)
Reject == phase = "open" /\ (staged # <<>> \/ now = Never) /\ FailClosed

Expired(k) == active[k] # None /\ now >= active[k].until
ExpireDue ==
    /\ active' = [k \in Keys |-> IF Expired(k) THEN None ELSE active[k]]
    /\ pending' = [k \in Keys |-> IF Expired(k) THEN None ELSE pending[k]]

(* A batch that names one thing twice fails before anything of it is done. *)
Flush ==
    /\ phase = "open" /\ staged # <<>>
    /\ IF Ambiguous(staged) THEN FailClosed
       ELSE /\ phase' = "feeding" /\ ExpireDue
            /\ UNCHANGED <<now, staged, undecided, muted, invalidated, stability, spoken, road>>

----------------------------------------------------------------------------
(* _process_one.                                                           *)

Take(kinds) == phase = "feeding" /\ staged # <<>> /\ Head(staged).kind \in kinds
Done == staged' = Tail(staged) /\ UNCHANGED <<phase, now, undecided, spoken>>

FeedMute ==
    /\ Take({"mute_on", "mute_off"}) /\ Done
    /\ muted' = (Head(staged).kind = "mute_on")
    /\ IF muted' THEN ClearTactical ELSE UNCHANGED candidates
    /\ UNCHANGED <<invalidated, stability, road>>

FeedRevocation ==
    LET i == Head(staged) IN
    /\ Take({"revoke"}) /\ Done
    /\ IF active[i.key] # None /\ active[i.key].rev = i.rev
       THEN Withdraw(i.key) ELSE UNCHANGED candidates
    /\ UNCHANGED <<muted, invalidated, stability, road>>

ActiveOnly(k, new) == pending[k]
AlsoPending(k, new) == IF pending[k] = None THEN None ELSE new
FeedRefresh ==
    LET i == Head(staged)
        old == active[i.key]
        new == [old EXCEPT !.until = i.until]
    IN  /\ Take({"refresh"})
        /\ IF invalidated \/ old = None \/ old # i.was \/ new = old
           THEN FailClosed
           ELSE /\ Done
                /\ active' = [active EXCEPT ![i.key] = new]
                /\ pending' = [pending EXCEPT ![i.key] = AlsoPending(i.key, new)]
                /\ UNCHANGED <<muted, invalidated, stability, road>>

(* Unchanged content keeps the envelope it has; changed content must name  *)
(* the revision it replaces; P3 is never a candidate for speech.           *)
FeedEnvelope ==
    LET i == Head(staged)
        old == active[i.key]
        same == old # None /\ old.rev = i.rev
        new == [rev |-> i.rev, issued |-> i.time, until |-> i.until]
    IN  /\ Take({"envelope"})
        /\ IF invalidated \/ (same /\ i.was = None)
           THEN Done /\ UNCHANGED <<candidates, muted, invalidated, stability, road>>
           ELSE IF same \/ i.was.rev # old.rev THEN FailClosed
           ELSE /\ Done
                /\ active' = [active EXCEPT ![i.key] = new]
                /\ pending' = [pending EXCEPT ![i.key] = IF Tactical(new) THEN new ELSE None]
                /\ UNCHANGED <<muted, invalidated, stability, road>>

Since(was, t) == IF was = Never THEN t ELSE was
GapForgiven(t) == FALSE
Gap(t) == lastTiming # NoEvidence /\ t - lastTiming.time > MaxGap
FeedTiming ==
    LET i == Head(staged)
        since(x) == IF Gap(i.time) THEN Never ELSE x
        count(x) == IF Gap(i.time) THEN 0 ELSE x
    IN  /\ Take({"timing"})
        /\ IF ~invalidated /\ lastTiming.time = i.time /\ lastTiming.sees # i.sees
           THEN FailClosed
           ELSE /\ Done /\ UNCHANGED <<muted, invalidated>>
                /\ IF invalidated
                   THEN ClearTactical /\ UNCHANGED <<stability, road>>
                   ELSE IF lastTiming.time = i.time
                   THEN UNCHANGED <<candidates, stability, road>>
                   ELSE /\ lastTiming' = [time |-> i.time, sees |-> i.sees]
                        /\ road' = [road EXCEPT ![i.time] = i.sees]
                        /\ IF i.sees = "unstable"
                           THEN /\ ClearTactical
                                /\ qualitySince' = Never /\ qualityCount' = 0
                           ELSE /\ UNCHANGED candidates
                                /\ qualitySince' = Since(since(qualitySince), i.time)
                                /\ qualityCount' = count(qualityCount) + 1
                        /\ IF i.sees = "safe"
                           THEN /\ safeSince' = Since(since(safeSince), i.time)
                                /\ safeCount' = count(safeCount) + 1
                           ELSE safeSince' = Never /\ safeCount' = 0

(* A boundary comes last, and a reset of the source or the session ends    *)
(* the identity the policy was made for.                                   *)
FeedBoundary ==
    /\ Take({"boundary", "reset"}) /\ Done
    /\ ClearTactical /\ ResetStability
    /\ invalidated' = (invalidated \/ Head(staged).kind = "reset")
    /\ road' = [road EXCEPT ![now] = "cut"]
    /\ UNCHANGED muted

Fed ==
    /\ phase = "feeding" /\ staged = <<>>
    /\ phase' = "deciding" /\ undecided' = {k \in Keys : pending[k] # None}
    /\ UNCHANGED <<now, staged, candidates, muted, invalidated, stability, spoken, road>>

----------------------------------------------------------------------------
(* _evaluate_pending.  Its deadline test has nothing left to find: what    *)
(* has expired was dropped before, and what is new ends later.             *)

Sooner(j, k) ==
    \/ Pri(pending[j]) < Pri(pending[k])
    \/ Pri(pending[j]) = Pri(pending[k]) /\ pending[j].issued < pending[k].issued
    \/ Pri(pending[j]) = Pri(pending[k]) /\ pending[j].issued = pending[k].issued /\ j < k

Evaluate(k) ==
    /\ phase = "deciding" /\ k \in undecided
    /\ \A j \in undecided \ {k} : ~Sooner(j, k)
    /\ undecided' = undecided \ {k}
    /\ UNCHANGED <<phase, now, staged, muted, invalidated, stability, road>>

Ready(since, count) == since # Never /\ count >= StableSamples /\ now - since >= StableFor
Stable == Ready(qualitySince, qualityCount) /\ lastTiming.time = now
Safe == Ready(safeSince, safeCount)

Cooling(k) ==
    \/ lastSpeech # Never /\ now - lastSpeech < GlobalCooldown
    \/ lastConflict[k] # Never /\ now - lastConflict[k] < ConflictCooldown

MaySpeak(k) == Stable /\ (Pri(pending[k]) = 0 \/ (Safe /\ ~Cooling(k)))

DropMuted(k) == Evaluate(k) /\ muted /\ Withdraw(k) /\ UNCHANGED spoken
Hold(k) == Evaluate(k) /\ ~muted /\ ~MaySpeak(k) /\ UNCHANGED <<candidates, spoken>>

HeardUnlessUrgent(k) == IF Pri(pending[k]) = 0 THEN lastSpeech ELSE now
Heard(k) == now
Speak(k) ==
    /\ Evaluate(k) /\ ~muted /\ MaySpeak(k)
    /\ said' = said \cup {[key |-> k, pri |-> Pri(pending[k]), issued |-> pending[k].issued,
                           time |-> now]}
    /\ lastSpeech' = Heard(k) /\ lastConflict' = [lastConflict EXCEPT ![k] = now]
    /\ pending' = [pending EXCEPT ![k] = None]
    /\ UNCHANGED active

(* The input that completed the batch is staged for the next, or finish    *)
(* had asked for it.                                                       *)
Decided ==
    /\ phase = "deciding" /\ undecided = {}
    /\ phase' \in {"finished"} \cup {x \in {"open"} : now < MaxTime}
    /\ UNCHANGED <<now, staged, undecided, candidates, muted, invalidated, stability, spoken, road>>

Spent == phase \in {"failed", "finished"} /\ UNCHANGED policyVars

Process ==
    \/ FeedMute \/ FeedRevocation \/ FeedRefresh \/ FeedEnvelope
    \/ FeedTiming \/ FeedBoundary

PolicyNext ==
    \/ \E t \in 0..MaxTime : t >= now /\ \E i \in Inputs(t) : Stage(i)
    \/ Reject \/ Flush \/ Process \/ Fed \/ Decided \/ Spent
    \/ \E k \in Keys : DropMuted(k) \/ Hold(k) \/ Speak(k)

PolicySpec == PolicyInit /\ [][PolicyNext]_policyVars

----------------------------------------------------------------------------

(* The road of the last StableFor as the evidence itself shows it: enough  *)
(* good samples, none that is not, no boundary, and no gap.                *)
Shown(good) ==
    \E s \in 0..now :
        LET samples == {t \in s..now : road[t] \in good} IN
        /\ now - s >= StableFor /\ {s, now} \subseteq samples
        /\ Cardinality(samples) >= StableSamples
        /\ \A t \in s..now : road[t] \in good \cup {"none"}
        /\ \A t \in samples \ {now} : \E u \in samples : t < u /\ u - t <= MaxGap

(* Whatever the batches, the gaps and the boundaries: a prompt is spoken   *)
(* only over a road the evidence has shown to be stable (P0) or safe, for  *)
(* the envelope in force, before its deadline, and never while muted.      *)
SpokenOnStableRoad ==
    [][\A x \in said' \ said :
          /\ Shown(IF x.pri = 0 THEN {"safe", "unsafe"} ELSE {"safe"})
          /\ active[x.key].issued = x.issued /\ now < active[x.key].until
          /\ ~muted /\ ~invalidated]_policyVars

(* A candidate is spoken once, and below P0 only after both cool-downs of  *)
(* whatever was spoken before, P0 included.                                *)
SpokenOnceAndSpaced ==
    \A x, y \in said : x # y =>
        /\ x.key = y.key => x.issued # y.issued
        /\ y.pri > 0 /\ x.time <= y.time =>
              /\ y.time - x.time >= GlobalCooldown
              /\ x.key = y.key => y.time - x.time >= ConflictCooldown

(* "can never revive or silently replace a plan" (SHADOW_SPEECH_POLICY.md):*)
(* a candidate is the envelope in force, word for word; nothing tactical   *)
(* outlives a reset, a failure, its deadline or, between two batches, a    *)
(* mute.                                                                   *)
CandidatesInForce ==
    \A k \in Keys :
        /\ pending[k] # None => pending[k] = active[k] /\ Tactical(active[k])
        /\ Tactical(active[k]) => ~invalidated /\ (phase \in {"open", "finished"} => ~muted)
        /\ phase = "deciding" /\ active[k] # None => now < active[k].until
=============================================================================
