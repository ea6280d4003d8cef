---------------------------- MODULE SessionProofs ----------------------------
(***************************************************************************)
(* Proofs about a session: the recording (Capture), and the speech policy  *)
(* that the advisor timeline replays over a session (SpeechPolicy).        *)
(*                                                                         *)
(* The recording, for every set of samples, length of a line and budget.   *)
(* WithinBudget is inductive on its own once the counts are natural        *)
(* numbers.  CompleteIsWhole rests on Whole: a receipt is due only after   *)
(* Finish, when every sample that was offered was also seen, and the       *)
(* reader takes it only if its own count of samples is the receipt's.      *)
(* Readable rests on Sync: the reader knows what the collector remembers,  *)
(* the records still due are those the current sample needs, and what the  *)
(* reader insists on is the record that is next in the Order.  The types   *)
(* come last: that a count of dropped ticks is no negative number follows  *)
(* from Sync, which lets a drop be due only after a gap.                   *)
(***************************************************************************)
EXTENDS Capture, SpeechPolicy, FiniteSetTheorems, TLAPS

Step == [Next]_vars

Counts == {bytes, torn, byteSize} \subseteq Nat

\* The reader stays a record with the fields of a new one.
Fields == {"ok", "bound", "receipt", "seq", "schema", "session", "last", "epoch", "first", "stale",
           "dropped", "pending", "count"}
Shaped(r) == r = [x \in Fields |-> r[x]]

Whole ==
    /\ Shaped(reader) /\ reader.receipt \in BOOLEAN
    /\ status \in {"open", "finishing"} => seen = offered
    /\ "receipt" \in due => due = {"receipt"} /\ status # "open"
    /\ status = "finishing" => due \subseteq {"receipt"}
    /\ reader.receipt =>
          /\ reader.count["frame"] + reader.count["duplicate"] = offered
          /\ status # "open"
          /\ due = {} \/ (status \in {"failed", "closed"} /\ due = {"receipt"})

-----------------------------------------------------------------------------

LEMMA Lengths ==
  /\ MaxBytes \in Nat
  /\ \A k \in Kinds \cup {"receipt"} : Line[k] \in Nat /\ Line[k] > 0
  BY CaptureAssumption

LEMMA InitBudget == Init => Counts /\ WithinBudget
  BY Lengths DEF Init, Counts, WithinBudget

LEMMA WriteBudget ==
  ASSUME NEW k \in Kinds \cup {"receipt"}, Counts, WithinBudget, WriteRecord(k) \/ WriteFails(k)
  PROVE  Counts' /\ WithinBudget'
<1>1. {bytes, torn, byteSize} \subseteq Nat /\ Line[k] \in Nat /\ Line[k] > 0 /\ MaxBytes \in Nat
  BY Lengths DEF Counts
<1>2. byteSize = bytes /\ torn = 0
  BY DEF WriteRecord, WriteFails, WithinBudget
<1>3. Allowed(k) => byteSize + Line[k] <= MaxBytes
  BY <1>1 DEF Allowed
<1>4. CASE WriteRecord(k)
  <2>1. bytes' = bytes + Line[k] /\ byteSize' = byteSize + Line[k] /\ torn' = torn
    BY <1>4 DEF WriteRecord
  <2>2. bytes' + torn' <= MaxBytes /\ byteSize' = bytes' /\ {bytes, torn, byteSize}' \subseteq Nat
    BY <1>1, <1>2, <1>3, <1>4, <2>1 DEF WriteRecord
  <2> QED BY <1>2, <2>1, <2>2 DEF Counts, WithinBudget
<1>5. CASE WriteFails(k)
  <2>1. status' = "failed" /\ byteSize' = byteSize
    BY <1>5 DEF WriteFails
  <2>2. \/ UNCHANGED <<bytes, torn>>
        \/ Allowed(k) /\ torn' \in 1..(Line[k] - 1) /\ UNCHANGED bytes
        \/ Allowed(k) /\ bytes' = bytes + Line[k] /\ UNCHANGED torn
    BY <1>5 DEF WriteFails
  <2>3. bytes' + torn' <= MaxBytes /\ byteSize' <= bytes' /\ {bytes, torn, byteSize}' \subseteq Nat
    <3>1. bytes + torn <= MaxBytes
      BY DEF WithinBudget
    <3> QED BY <1>1, <1>2, <1>3, <2>1, <2>2, <3>1
  <2> QED BY <2>1, <2>3 DEF Counts, WithinBudget
<1> QED BY <1>4, <1>5

LEMMA StepBudget == Counts /\ WithinBudget /\ Step => Counts' /\ WithinBudget'
<1> SUFFICES ASSUME Counts, WithinBudget, Step PROVE Counts' /\ WithinBudget'
  OBVIOUS
<1>1. CASE \E k \in Kinds \cup {"receipt"} : WriteRecord(k) \/ WriteFails(k)
  BY <1>1, WriteBudget
<1>2. CASE (\E s \in Samples : Ingest(s)) \/ Refuse \/ Finish \/ Seal \/ Close \/ Ended
           \/ UNCHANGED vars
  <2>1. UNCHANGED <<bytes, torn, byteSize>>
    BY <1>2 DEF Ingest, Refuse, Finish, Seal, Close, Ended, vars, disk
  <2>2. status' \notin {"failed", "closed"} => status \notin {"failed", "closed"}
    BY <1>2 DEF Ingest, Refuse, Finish, Seal, Close, Ended, vars
  <2> QED BY <2>1, <2>2 DEF Counts, WithinBudget
<1> QED BY <1>1, <1>2 DEF Step, Next

\* The file stays within its budget however writes fail, and the writer
\* never counts a byte that is not there (collector.py:672).
THEOREM BudgetHolds == Spec => []WithinBudget
  BY InitBudget, StepBudget, PTL DEF Spec, Step

-----------------------------------------------------------------------------

\* What a reader knows of the receipt after a record: a refused record
\* changes nothing, and only a receipt that fits is one.
LEMMA ReadKeeps ==
  ASSUME NEW r, NEW m, Shaped(r), r.receipt \in BOOLEAN
  PROVE  /\ Shaped(Read(r, m)) /\ Read(r, m).receipt \in BOOLEAN
         /\ \/ Read(r, m).receipt = r.receipt /\ Read(r, m).count = r.count
            \/ /\ m.kind = "receipt" /\ ReceiptFits(r, m)
               /\ Read(r, m).receipt = TRUE /\ Read(r, m).count = r.count
            \/ m.kind # "receipt" /\ Read(r, m).receipt = r.receipt /\ ~r.receipt
<1> USE DEF Shaped, Fields
<1>1. CASE ~Accepts(r, m)
  <2>1. Read(r, m) = [r EXCEPT !.ok = FALSE]
    BY <1>1 DEF Read
  <2> HIDE DEF Read
  <2> QED BY <2>1
<1>2. CASE Accepts(r, m) /\ m.kind = "receipt"
  <2>1. Read(r, m) = [r EXCEPT !.receipt = TRUE]
    BY <1>2 DEF Read
  <2>2. ReceiptFits(r, m)
    BY <1>2 DEF Accepts, Events, Kinds
  <2> QED BY <1>2, <2>1, <2>2
<1>3. CASE Accepts(r, m) /\ m.kind # "receipt"
  <2>1. ~r.receipt
    BY <1>3 DEF Accepts
  <2>2. Read(r, m) = [r EXCEPT
            !.bound = Bind(r.bound, m),
            !.seq = r.seq + 1,
            !.count = [r.count EXCEPT ![m.kind] = r.count[m.kind] + 1],
            !.schema = IF m.kind = "schema" THEN m.schema ELSE r.schema,
            !.session = IF m.kind = "reset" THEN m.session ELSE r.session,
            !.stale = IF m.kind = "stale" THEN TRUE
                      ELSE IF m.kind \in {"reset", "resumed"} THEN FALSE ELSE r.stale,
            !.dropped = IF m.kind = "drop" THEN r.dropped + m.sees.missing ELSE r.dropped,
            !.first = IF m.kind = "frame" /\ r.first = 0 THEN m.s.tick ELSE r.first,
            !.last = IF m.kind = "frame" THEN FrameOf(m.s) ELSE r.last,
            !.epoch = IF m.kind = "frame" THEN m.session ELSE r.epoch,
            !.pending = PendingAfter(r, m)]
    BY <1>3 DEF Read
  <2> HIDE DEF Read
  <2>4. Shaped(Read(r, m)) /\ Read(r, m).receipt = r.receipt
    BY <2>2
  <2> QED BY <1>3, <2>1, <2>4
<1> QED BY <1>1, <1>2, <1>3

LEMMA InitWhole == Init => Whole
<1>1. Shaped(NewReader) /\ NewReader.receipt = FALSE
  BY DEF NewReader, Shaped, Fields
<1> HIDE DEF NewReader, Shaped
<1> QED BY <1>1 DEF Init, Whole

LEMMA WriteWhole ==
  ASSUME NEW k \in Kinds \cup {"receipt"}, Whole, WriteRecord(k) \/ WriteFails(k)
  PROVE  Whole'
<1>1. /\ status \in {"open", "finishing"} /\ k \in due /\ seen = offered
      /\ UNCHANGED offered
  BY DEF WriteRecord, WriteFails, NextDue, Whole
<1>2. ~reader.receipt
  BY <1>1 DEF Whole
<1>3. Record(k).kind = k /\ (k = "receipt" => Record(k).sees.samples = seen)
  BY DEF Record, Evidence, Receipt
<1>4. /\ Shaped(Read(reader, Record(k))) /\ Read(reader, Record(k)).receipt \in BOOLEAN
      /\ Read(reader, Record(k)).receipt =>
            /\ k = "receipt"
            /\ Read(reader, Record(k)).count = reader.count
            /\ reader.count["frame"] + reader.count["duplicate"] = offered
  <2>1. k = "receipt" /\ ReceiptFits(reader, Record(k))
           => reader.count["frame"] + reader.count["duplicate"] = offered
    BY <1>1, <1>3 DEF ReceiptFits, Account
  <2> QED BY <1>2, <1>3, <2>1, ReadKeeps DEF Whole
<1>5. reader' = reader \/ reader' = Read(reader, Record(k))
  BY DEF WriteRecord, WriteFails
<1>6. Shaped(reader') /\ reader'.receipt \in BOOLEAN
  BY <1>4, <1>5 DEF Whole
<1>7. reader'.receipt => /\ k = "receipt" /\ due = {"receipt"} /\ status = "finishing"
                         /\ reader'.count["frame"] + reader'.count["duplicate"] = offered'
  BY <1>1, <1>2, <1>4, <1>5 DEF Whole
<1>8. CASE WriteRecord(k)
  <2>1. due' = due \ {k} /\ UNCHANGED status
    BY <1>8 DEF WriteRecord
  <2>2. seen' = seen
    BY <1>8 DEF WriteRecord, Remember
  <2> QED BY <1>1, <1>6, <1>7, <2>1, <2>2 DEF Whole
<1>9. CASE WriteFails(k)
  <2>1. status' = "failed" /\ due' = due
    BY <1>9 DEF WriteFails
  <2> QED BY <1>6, <1>7, <2>1 DEF Whole
<1> QED BY <1>8, <1>9

LEMMA StepWhole == Whole /\ Step => Whole'
<1> SUFFICES ASSUME Whole, Step PROVE Whole'
  OBVIOUS
<1>1. CASE \E k \in Kinds \cup {"receipt"} : WriteRecord(k) \/ WriteFails(k)
  BY <1>1, WriteWhole
<1>2. ASSUME NEW s \in Samples, Ingest(s) PROVE Whole'
  <2>1. /\ status = "open" /\ status' = "open" /\ seen = offered /\ ~reader.receipt
        /\ reader' = reader
    BY <1>2 DEF Ingest, disk, Whole
  <2>2. seen' = offered'
    BY <1>2, <2>1 DEF Ingest
  <2>3. "receipt" \notin due'
    BY <1>2 DEF Ingest, Kinds, Events
  <2> QED BY <2>1, <2>2, <2>3 DEF Whole
<1>3. CASE Refuse
  BY <1>3 DEF Refuse, Whole, disk
<1>4. CASE Finish
  BY <1>4 DEF Finish, Whole, collector, disk
<1>5. CASE Seal \/ Close \/ Ended \/ UNCHANGED vars
  BY <1>5 DEF Seal, Close, Ended, Whole, vars, collector, disk
<1> QED BY <1>1, <1>2, <1>3, <1>4, <1>5 DEF Step, Next

\* A file that passes for COMPLETE holds every sample that was offered
\* (live_app_recording.py:60).
THEOREM CompleteHolds == Spec => []CompleteIsWhole
<1>1. Whole => CompleteIsWhole
  BY DEF Whole, CompleteIsWhole, Complete
<1> QED BY <1>1, InitWhole, StepWhole, PTL DEF Spec, Step

-----------------------------------------------------------------------------

All == Kinds \cup {"receipt"}

\* The place of a record in the Order.
Place(k) ==
    CASE k = "run" -> 1 [] k = "schema" -> 2 [] k = "changed" -> 3 [] k = "reset" -> 4
      [] k = "untold" -> 5 [] k = "info" -> 6 [] k = "clock" -> 7 [] k = "stale" -> 8
      [] k = "resumed" -> 9 [] k = "duplicate" -> 10 [] k = "conflict" -> 11
      [] k = "drop" -> 12 [] k = "frame" -> 13 [] k = "receipt" -> 14

Skips(s) == last # NoFrame /\ ~IsReset(s) /\ s.tick > last.tick + 1
Conflicts(s) == Digest(FrameOf(s)) # Digest(last)

\* The collector may still write.
Writing == status = "open" \/ (status = "finishing" /\ due # {})

Numbers ==
    /\ {offered, seen, seq, schema, sessionEpoch, progress} \subseteq Nat
    /\ schemaEpoch \in Int /\ schemaEpoch >= -1
    /\ count \in [Kinds -> Nat]
    /\ last = NoFrame \/ \E s \in Samples : last = FrameOf(s)
    /\ due \subseteq Kinds \cup {"receipt"}

\* The reader knows what the collector remembers.
Agrees ==
    /\ ~reader.receipt
    /\ reader.seq = seq /\ reader.count = count
    /\ reader.schema = schemaEpoch /\ reader.session = sessionEpoch
    /\ reader.last = last /\ reader.first = first /\ reader.dropped = dropped
    /\ reader.stale \in BOOLEAN

\* The counts of the receipt add up, less what is due.
Adds ==
    /\ seen = count["frame"] + count["duplicate"]
              + (IF due \cap {"frame", "duplicate"} = {} THEN 0 ELSE 1)
    /\ count["frame"] > 0 <=> last # NoFrame
    /\ last = NoFrame => count["duplicate"] = 0
    /\ last # NoFrame => seq > 0 /\ schemaEpoch >= 0
    /\ count["reset"] = sessionEpoch
    /\ count["schema"] = schemaEpoch + 1
    /\ schemaEpoch = -1 => count["changed"] = 0
    /\ schemaEpoch >= 0 =>
          count["changed"] = schemaEpoch - (IF NextDue("changed") THEN 1 ELSE 0)
    /\ schema = 0 <=> schemaEpoch = -1

\* The reader's frame is of the current epoch, but between a reset and the
\* frame that follows it.
Epochs ==
    last # NoFrame =>
        IF IsReset(current) /\ "frame" \in due /\ "reset" \notin due
        THEN reader.epoch # sessionEpoch
        ELSE reader.epoch = sessionEpoch

\* What is left of a sample's records.
SchemaPlan(s) ==
    /\ "run" \in due <=> seq = 0
    /\ "schema" \in due \/ schema = s.schema
    /\ "schema" \in due => ("changed" \in due <=> schema # 0)
    /\ "changed" \in due => "schema" \in due \/ NextDue("changed")

ResetPlan(s) ==
    /\ "reset" \in due => IsReset(s) /\ "info" \in due
    /\ IsReset(s) =>
          /\ "frame" \in due
          /\ due \cap {"untold", "clock", "stale", "resumed", "duplicate", "conflict", "drop"} = {}
          /\ "reset" \in due \/ NextDue("info") \/ NextDue("frame")

InfoPlan(s) ==
    /\ "untold" \in due => Untold(s) /\ "info" \in due
    /\ Untold(s) /\ "info" \in due => "untold" \in due \/ NextDue("info")

StalePlan ==
    /\ "stale" \in due => ~reader.stale
    /\ "resumed" \in due => "stale" \in due \/ reader.stale

FramePlan(s) ==
    /\ "duplicate" \in due => IsDuplicate(s) /\ ("conflict" \in due <=> Conflicts(s))
    /\ "conflict" \in due => "duplicate" \in due \/ NextDue("conflict")
    /\ "frame" \in due => ~IsDuplicate(s) /\ due \cap {"duplicate", "conflict"} = {}
    /\ "drop" \in due => Skips(s) /\ "frame" \in due
    /\ "frame" \in due /\ Skips(s) => "drop" \in due \/ NextDue("frame")

Plan ==
    due \cap Kinds # {} =>
        /\ current \in Samples /\ "receipt" \notin due
        /\ SchemaPlan(current) /\ ResetPlan(current) /\ InfoPlan(current)
        /\ StalePlan /\ FramePlan(current)

Silence ==
    stale <=> /\ "resumed" \notin due
              /\ "stale" \in due \/ (reader.stale /\ "reset" \notin due)

\* A record of the current sample that the reader insists on.
Wait(kind, sees) ==
    [need |-> kind, tick |-> current.tick, update |-> current.update, sees |-> sees]

Same == [before |-> Digest(last), after |-> Digest(FrameOf(current)), conflict |-> TRUE]

\* What it insists on when k is next.
Awaited(k) ==
    IF k = "changed" THEN Wait(k, {})
    ELSE IF k = "conflict" THEN Wait(k, Same)
    ELSE IF k \in {"info", "frame"} /\ IsReset(current)
    THEN Wait(k, ResetReasons(last, current))
    ELSE IF (k = "info" /\ Untold(current)) \/ (k = "frame" /\ Skips(current))
    THEN Wait(k, {})
    ELSE NoPending

Pending ==
    /\ due = {} => reader.pending = NoPending
    /\ \A k \in Kinds \cup {"receipt"} : NextDue(k) => reader.pending = Awaited(k)

Sync ==
    /\ reader.ok
    /\ Numbers
    /\ Writing => Agrees /\ Adds /\ Epochs /\ Plan /\ Silence /\ Pending
    /\ status = "finishing" => offered > 0 /\ (due = {} => reader.receipt)
    /\ status = "finished" => (reader.receipt <=> offered > 0)

-----------------------------------------------------------------------------

LEMMA KindsAre ==
  All = {"run", "schema", "changed", "reset", "untold", "info", "clock", "stale",
         "resumed", "duplicate", "conflict", "drop", "frame", "receipt"}
  BY DEF All, Kinds, Events

LEMMA Places ==
  /\ Place("run") = 1 /\ Place("schema") = 2 /\ Place("changed") = 3 /\ Place("reset") = 4
  /\ Place("untold") = 5 /\ Place("info") = 6 /\ Place("clock") = 7 /\ Place("stale") = 8
  /\ Place("resumed") = 9 /\ Place("duplicate") = 10 /\ Place("conflict") = 11
  /\ Place("drop") = 12 /\ Place("frame") = 13 /\ Place("receipt") = 14
  BY DEF Place

\* Next is the first of what is due, before a step and after it.
LEMMA NextTable ==
  ASSUME NEW k \in All
  PROVE  /\ NextDue(k) <=> k \in due /\ \A j \in All : Place(j) < Place(k) => j \notin due
         /\ NextDue(k)' <=> k \in due' /\ \A j \in All : Place(j) < Place(k) => j \notin due'
<1>1. DOMAIN Order = 1..14
  BY DEF Order
<1>2. \A i \in 1..14 : Order[i] \in All /\ Place(Order[i]) = i
  <2> SUFFICES ASSUME NEW i \in 1..14 PROVE Order[i] \in All /\ Place(Order[i]) = i
    OBVIOUS
  <2>1. \/ i = 1 \/ i = 2 \/ i = 3 \/ i = 4 \/ i = 5 \/ i = 6 \/ i = 7
        \/ i = 8 \/ i = 9 \/ i = 10 \/ i = 11 \/ i = 12 \/ i = 13 \/ i = 14
    OBVIOUS
  <2> QED BY <2>1, KindsAre DEF Order, Place
<1>3. \A j \in All : Place(j) \in 1..14 /\ Order[Place(j)] = j
  <2> SUFFICES ASSUME NEW j \in All PROVE \E i \in 1..14 : j = Order[i]
    BY <1>2
  <2>1. /\ Order[1] = "run" /\ Order[2] = "schema" /\ Order[3] = "changed"
        /\ Order[4] = "reset" /\ Order[5] = "untold" /\ Order[6] = "info"
        /\ Order[7] = "clock" /\ Order[8] = "stale" /\ Order[9] = "resumed"
        /\ Order[10] = "duplicate" /\ Order[11] = "conflict" /\ Order[12] = "drop"
        /\ Order[13] = "frame" /\ Order[14] = "receipt"
    BY DEF Order
  <2> QED BY <2>1, KindsAre
<1> HIDE DEF All, Place, Order
<1>4. NextDue(k) <=> k \in due /\ \A j \in All : Place(j) < Place(k) => j \notin due
  <2>1. NextDue(k) <=> k \in due /\ \A j \in 1..(Place(k) - 1) : Order[j] \notin due
    BY <1>1, <1>2, <1>3 DEF NextDue
  <2> QED BY <2>1, <1>2, <1>3
<1>5. NextDue(k)' <=> k \in due' /\ \A j \in All : Place(j) < Place(k) => j \notin due'
  <2>1. NextDue(k)' <=> k \in due' /\ \A j \in 1..(Place(k) - 1) : Order[j] \notin due'
    BY <1>1, <1>2, <1>3 DEF NextDue
  <2> QED BY <2>1, <1>2, <1>3
<1> QED BY <1>4, <1>5

\* Every field of q, a reader r that took the record m.
Took(q, r, m) ==
    /\ q.ok = r.ok /\ q.receipt = r.receipt /\ q.seq = r.seq + 1
    /\ q.bound = Bind(r.bound, m)
    /\ q.count = [r.count EXCEPT ![m.kind] = r.count[m.kind] + 1]
    /\ q.schema = IF m.kind = "schema" THEN m.schema ELSE r.schema
    /\ q.session = IF m.kind = "reset" THEN m.session ELSE r.session
    /\ q.stale = IF m.kind = "stale" THEN TRUE
                 ELSE IF m.kind \in {"reset", "resumed"} THEN FALSE ELSE r.stale
    /\ q.dropped = IF m.kind = "drop" THEN r.dropped + m.sees.missing ELSE r.dropped
    /\ q.first = IF m.kind = "frame" /\ r.first = 0 THEN m.s.tick ELSE r.first
    /\ q.last = IF m.kind = "frame" THEN FrameOf(m.s) ELSE r.last
    /\ q.epoch = IF m.kind = "frame" THEN m.session ELSE r.epoch
    /\ q.pending = PendingAfter(r, m)

LEMMA ReadTakes ==
  ASSUME NEW r, NEW m, Shaped(r), Accepts(r, m), m.kind # "receipt"
  PROVE  Took(Read(r, m), r, m)
<1>1. r = [x \in Fields |-> r[x]]
  BY DEF Shaped
<1>2. Read(r, m) = [r EXCEPT
            !.bound = Bind(r.bound, m),
            !.seq = r.seq + 1,
            !.count = [r.count EXCEPT ![m.kind] = r.count[m.kind] + 1],
            !.schema = IF m.kind = "schema" THEN m.schema ELSE r.schema,
            !.session = IF m.kind = "reset" THEN m.session ELSE r.session,
            !.stale = IF m.kind = "stale" THEN TRUE
                      ELSE IF m.kind \in {"reset", "resumed"} THEN FALSE ELSE r.stale,
            !.dropped = IF m.kind = "drop" THEN r.dropped + m.sees.missing ELSE r.dropped,
            !.first = IF m.kind = "frame" /\ r.first = 0 THEN m.s.tick ELSE r.first,
            !.last = IF m.kind = "frame" THEN FrameOf(m.s) ELSE r.last,
            !.epoch = IF m.kind = "frame" THEN m.session ELSE r.epoch,
            !.pending = PendingAfter(r, m)]
  BY DEF Read
<1> HIDE DEF Read, PendingAfter, Accepts, Bind
<1>3. r = [ok |-> r.ok, bound |-> r.bound, receipt |-> r.receipt, seq |-> r.seq,
           schema |-> r.schema, session |-> r.session, last |-> r.last, epoch |-> r.epoch,
           first |-> r.first, stale |-> r.stale, dropped |-> r.dropped, pending |-> r.pending,
           count |-> r.count]
  BY <1>1 DEF Fields
<1> QED BY <1>2, <1>3 DEF Took

LEMMA RecordIs ==
  ASSUME NEW k
  PROVE  /\ Record(k).kind = k /\ Record(k).seq = seq /\ Record(k).s = current
         /\ Record(k).sees = Evidence(k)
         /\ Record(k).schema = IF k = "schema" THEN schemaEpoch + 1 ELSE schemaEpoch
         /\ Record(k).session = IF k = "reset" THEN sessionEpoch + 1 ELSE sessionEpoch
  BY DEF Record

LEMMA EvidenceIs ==
  /\ Evidence("reset") = ResetReasons(last, current)
  /\ \A k \in {"duplicate", "conflict"} : Evidence(k) =
        [before |-> Digest(last), after |-> Digest(FrameOf(current)),
         conflict |-> "conflict" \in due]
  /\ Evidence("drop") = [before |-> last.tick, missing |-> current.tick - last.tick - 1]
  /\ Evidence("receipt") = Receipt
  BY DEF Evidence

\* A sample's numbers are positive.
LEMMA SampleNumbers ==
  ASSUME NEW s \in Samples
  PROVE  {s.tick, s.update, s.session, s.time, s.schema} \subseteq Nat \ {0}
  BY CaptureAssumption

LEMMA FrameNumbers ==
  ASSUME Numbers
  PROVE  /\ last.tick \in Nat /\ last.update \in Nat /\ last.time \in Nat
         /\ last # NoFrame => last.tick > 0
         /\ last = NoFrame => last.tick = 0
<1>1. CASE last = NoFrame
  BY <1>1 DEF NoFrame
<1>2. CASE \E s \in Samples : last = FrameOf(s)
  <2>1. PICK s \in Samples : last = FrameOf(s)
    BY <1>2
  <2>2. last.tick = s.tick /\ last.update = s.update /\ last.time = s.time
    BY <2>1 DEF FrameOf
  <2>3. {s.tick, s.update, s.time} \subseteq Nat \ {0}
    BY SampleNumbers
  <2>4. last.tick > 0 /\ {last.tick, last.update, last.time} \subseteq Nat
    BY <2>2, <2>3
  <2>5. NoFrame.tick = 0
    BY DEF NoFrame
  <2> QED BY <2>4, <2>5
<1> QED BY <1>1, <1>2 DEF Numbers

LEMMA AwaitedIs ==
  /\ Awaited("changed") = Wait("changed", {})
  /\ IsReset(current) => /\ Awaited("info") = Wait("info", ResetReasons(last, current))
                         /\ Awaited("frame") = Wait("frame", ResetReasons(last, current))
  /\ ~IsReset(current) =>
        /\ Untold(current) => Awaited("info") = Wait("info", {})
        /\ ~Untold(current) => Awaited("info") = NoPending
        /\ Skips(current) => Awaited("frame") = Wait("frame", {})
        /\ ~Skips(current) => Awaited("frame") = NoPending
  /\ Awaited("conflict") = Wait("conflict", Same)
  /\ \A k \in {"run", "schema", "reset", "untold", "clock", "stale", "resumed", "duplicate",
               "drop", "receipt"} : Awaited(k) = NoPending
<1>1. Awaited("changed") = Wait("changed", {})
  BY DEF Awaited
<1>2. IsReset(current) => /\ Awaited("info") = Wait("info", ResetReasons(last, current))
                          /\ Awaited("frame") = Wait("frame", ResetReasons(last, current))
  BY DEF Awaited
<1>3. ~IsReset(current) =>
        /\ Untold(current) => Awaited("info") = Wait("info", {})
        /\ ~Untold(current) => Awaited("info") = NoPending
        /\ Skips(current) => Awaited("frame") = Wait("frame", {})
        /\ ~Skips(current) => Awaited("frame") = NoPending
  BY DEF Awaited
<1>4. Awaited("conflict") = Wait("conflict", Same)
  BY DEF Awaited
<1>5. \A k \in {"run", "schema", "reset", "untold", "clock", "stale", "resumed", "duplicate",
               "drop", "receipt"} : Awaited(k) = NoPending
  BY DEF Awaited
<1> QED BY <1>1, <1>2, <1>3, <1>4, <1>5

LEMMA Waits ==
  ASSUME NEW k, NEW e
  PROVE  /\ Wait(k, e).need = k /\ Wait(k, e).tick = current.tick
         /\ Wait(k, e).update = current.update /\ Wait(k, e).sees = e
         /\ NoPending.need = "none"
  BY DEF Wait, NoPending

\* It never insists on another record than the next.
LEMMA PendingKind ==
  ASSUME NEW k \in All
  PROVE  Awaited(k).need \in {"none", k}
BY AwaitedIs, Waits, KindsAre

\* The reader accepts the record that is next.
LEMMA AcceptsNext ==
  ASSUME NEW k \in All, Sync, Whole, status \in {"open", "finishing"}, NextDue(k)
  PROVE  Accepts(reader, Record(k))
<1> USE DEF All
<1> DEFINE r == reader
           m == Record(k)
<1>1. k \in due /\ \A j \in All : Place(j) < Place(k) => j \notin due
  BY NextTable
<1>2. Numbers /\ Agrees /\ Adds /\ Epochs /\ Plan /\ Silence /\ Pending
  BY <1>1 DEF Sync, Writing
<1>3. r.pending = Awaited(k)
  BY <1>2 DEF Pending, All
<1>4. k # "receipt" =>
        /\ current \in Samples
        /\ SchemaPlan(current) /\ ResetPlan(current) /\ InfoPlan(current)
        /\ StalePlan /\ FramePlan(current)
  BY <1>1, <1>2 DEF Plan, All
<1>5. k = "receipt" => last # NoFrame /\ due = {"receipt"} /\ seen = offered /\ offered > 0
  <2> SUFFICES ASSUME k = "receipt"
               PROVE  last # NoFrame /\ due = {"receipt"} /\ seen = offered /\ offered > 0
    OBVIOUS
  <2>1. due = {"receipt"} /\ status = "finishing" /\ seen = offered
    BY <1>1 DEF Whole
  <2>2. offered > 0
    BY <2>1 DEF Sync
  <2>3. seen = count["frame"] + count["duplicate"]
    BY <1>2, <2>1 DEF Adds, Numbers, Kinds, Events
  <2>4. last # NoFrame
    BY <1>2, <2>1, <2>2, <2>3, KindsAre DEF Adds, Numbers, All
  <2> QED BY <2>1, <2>2, <2>4
<1>6. /\ m.kind = k /\ m.seq = seq /\ m.s = current /\ m.sees = Evidence(k)
      /\ m.schema = IF k = "schema" THEN schemaEpoch + 1 ELSE schemaEpoch
      /\ m.session = IF k = "reset" THEN sessionEpoch + 1 ELSE sessionEpoch
  BY RecordIs
<1> HIDE DEF m, r, Place, All
<1>7. ~r.receipt /\ m.seq = r.seq
  BY <1>2, <1>6 DEF Agrees, r
<1>8. (m.seq = 0) <=> (m.kind = "run")
  <2>1. CASE k = "run"
    BY <2>1, <1>1, <1>4, <1>6 DEF SchemaPlan
  <2>2. CASE k # "run" /\ k # "receipt"
    <3>1. "run" \notin due
      BY <2>2, <1>1, KindsAre, Places
    <3> QED BY <3>1, <2>2, <1>4, <1>6 DEF SchemaPlan
  <2>3. CASE k = "receipt"
    BY <2>3, <1>2, <1>5, <1>6 DEF Adds
  <2> QED BY <2>1, <2>2, <2>3
<1>9. r.pending.need \in {"none", m.kind}
  BY <1>3, <1>6, PendingKind
<1>10. CASE k = "receipt"
  <2>1. r.count["frame"] > 0
    BY <1>2, <1>5, <1>10 DEF Adds, Agrees, r
  <2>2. seen = count["frame"] + count["duplicate"]
    BY <1>2, <1>5, <1>10 DEF Adds, Numbers, Kinds, Events
  <2>3. m.sees = Account(r)
    BY <1>2, <1>6, <1>10, <2>2, EvidenceIs DEF Agrees, Receipt, Account, r
  <2>5. ~NextDue("changed")
    BY <1>5, <1>10, NextTable, KindsAre
  <2>4. count["changed"] = count["schema"] - 1 /\ count["reset"] = sessionEpoch
    BY <1>2, <1>5, <1>10, <2>5 DEF Adds, Numbers
  <2>6. ReceiptFits(r, m)
    BY <1>2, <2>1, <2>3, <2>4 DEF ReceiptFits, Agrees, r
  <2>7. Accepts(r, m)
    BY <1>6, <1>7, <1>8, <1>9, <1>10, <2>6 DEF Accepts
  <2> QED BY <2>7 DEF r, m
<1> SUFFICES ASSUME k # "receipt"
             PROVE  \/ k = "run"
                    \/ k = "schema" /\ m.schema = r.schema + 1
                    \/ k \in Events /\ Placed(r, m) /\ EventFits(r, m)
                    \/ k = "info" /\ Placed(r, m) /\ InfoFits(r, m)
                    \/ k = "frame" /\ Placed(r, m) /\ FrameFits(r, m)
  BY <1>6, <1>7, <1>8, <1>9, <1>10 DEF Accepts, m, r
<1>11. CASE k = "schema"
  BY <1>2, <1>6, <1>11 DEF Agrees, r
<1>12. ASSUME k \notin {"run", "schema"} PROVE Placed(r, m)
  <2>1. {"run", "schema"} \cap due = {}
    BY <1>1, <1>12, KindsAre, Places
  <2>2. schema # 0
    BY <1>4, <2>1, SampleNumbers DEF SchemaPlan
  <2>3. schemaEpoch >= 0
    BY <1>2, <2>2 DEF Adds, Numbers
  <2> QED BY <1>2, <1>6, <1>12, <2>3 DEF Placed, Agrees, Numbers, r
<1>13. last.tick \in Nat /\ current.tick \in Nat /\ current.tick > 0
  BY <1>2, <1>4, FrameNumbers, SampleNumbers
<1>14. CASE k = "info"
  <2>1. InfoFits(r, m)
    <3>1. r.pending.need = "info" =>
              r.pending.tick = current.tick /\ r.pending.update = current.update
      BY <1>3, <1>14, AwaitedIs, Waits
    <3> QED BY <3>1, <1>6 DEF InfoFits
  <2> QED BY <1>12, <1>14, <2>1
<1>15. CASE k = "frame"
  <2>1. InEpoch(r, m) => ~IsReset(current) /\ last # NoFrame
    BY <1>1, <1>2, <1>6, <1>15, KindsAre, Places DEF InEpoch, Epochs, Agrees, r
  <2>2. InEpoch(r, m) => current.tick > last.tick
    <3>1. last # NoFrame /\ ~IsReset(current) => current.tick >= last.tick
      BY <1>13 DEF IsReset, ResetReasons
    <3>2. ~IsDuplicate(current)
      BY <1>4, <1>15, <1>1 DEF FramePlan
    <3> QED BY <1>13, <2>1, <3>1, <3>2 DEF IsDuplicate
  <2>3. r.pending.need = "frame" =>
            r.pending.tick = current.tick /\ r.pending.sees \in {{}, ResetReasons(last, current)}
    BY <1>3, <1>15, AwaitedIs, Waits
  <2>4. FrameFits(r, m)
    BY <1>2, <1>6, <2>2, <2>3 DEF FrameFits, Agrees, r
  <2> QED BY <1>12, <1>15, <2>4
<1>16. CASE k \in {"clock", "untold"}
  BY <1>6, <1>12, <1>16 DEF EventFits, Events
<1>17. CASE k = "reset"
  <2>1. last # NoFrame /\ ResetReasons(last, current) # {}
    BY <1>1, <1>4, <1>17 DEF ResetPlan, IsReset
  <2> QED BY <1>2, <1>6, <1>12, <1>17, <2>1, EvidenceIs DEF EventFits, Events, Agrees, r
<1>18. CASE k = "changed"
  BY <1>3, <1>6, <1>12, <1>18, AwaitedIs, Waits DEF EventFits, Events
<1>19. CASE k = "stale"
  BY <1>1, <1>4, <1>6, <1>12, <1>19 DEF EventFits, Events, StalePlan, r
<1>20. CASE k = "resumed"
  <2>1. "stale" \notin due
    BY <1>1, <1>20, KindsAre, Places
  <2> QED BY <2>1, <1>1, <1>4, <1>6, <1>12, <1>20 DEF EventFits, Events, StalePlan, r
<1>21. ASSUME k \in {"duplicate", "drop"} PROVE ~IsReset(current) /\ InEpoch(r, m)
  <2>1. ~IsReset(current) /\ last # NoFrame
    BY <1>1, <1>4, <1>21 DEF FramePlan, IsDuplicate, Skips
  <2> QED BY <1>2, <1>6, <1>21, <2>1 DEF InEpoch, Epochs, Agrees, r
<1>22. CASE k = "duplicate"
  <2>1. current.tick = last.tick /\ ("conflict" \in due <=> Conflicts(current))
    BY <1>1, <1>4, <1>22 DEF FramePlan, IsDuplicate
  <2>2. m.sees = [before |-> Digest(last), after |-> Digest(FrameOf(current)),
                  conflict |-> "conflict" \in due]
    BY <1>6, <1>22, EvidenceIs
  <2>3. /\ m.sees.before = Digest(last)
        /\ m.sees.conflict = (m.sees.before # m.sees.after)
    BY <2>1, <2>2 DEF Conflicts
  <2> QED BY <1>2, <1>6, <1>12, <1>21, <1>22, <2>1, <2>3 DEF EventFits, Events, Agrees, r
<1>23. CASE k = "conflict"
  <2>1. r.pending.need = "conflict" /\ r.pending.tick = current.tick
    BY <1>3, <1>23, AwaitedIs, Waits
  <2>2. r.pending.sees = Same
    BY <1>3, <1>23, AwaitedIs, Waits
  <2>3. m.sees = [before |-> Digest(last), after |-> Digest(FrameOf(current)),
                  conflict |-> "conflict" \in due]
    BY <1>6, <1>23, EvidenceIs
  <2>4. ("conflict" \in due) = TRUE
    BY <1>1, <1>23
  <2>5. m.sees = r.pending.sees
    BY <2>2, <2>3, <2>4, Zenon DEF Same
  <2> QED BY <1>6, <1>12, <1>23, <2>1, <2>5 DEF EventFits, Events
<1>24. CASE k = "drop"
  <2>1. m.sees = [before |-> last.tick, missing |-> current.tick - last.tick - 1]
    BY <1>6, <1>24, EvidenceIs
  <2>2. current.tick > last.tick + 1
    BY <1>1, <1>4, <1>24 DEF FramePlan, Skips
  <2>3. current.tick - last.tick - 1 >= 1
    BY <1>13, <2>2
  <2> QED BY <1>2, <1>6, <1>12, <1>21, <1>24, <2>1, <2>3 DEF EventFits, Events, Agrees, r
<1> QED BY <1>11, <1>14, <1>15, <1>16, <1>17, <1>18, <1>19, <1>20, <1>22, <1>23, <1>24, KindsAre

\* What the reader insists on after each record of the current sample.
LEMMA AfterIs ==
  ASSUME NEW k \in All, k # "receipt"
  PROVE  LET m == Record(k)
             p == PendingAfter(reader, m)
         IN  /\ k = "schema" => p = IF reader.schema >= 0 THEN Wait("changed", {}) ELSE NoPending
             /\ k = "duplicate" => p = IF "conflict" \in due THEN Wait("conflict", Same)
                                       ELSE NoPending
             /\ k = "drop" => p = Wait("frame", {})
             /\ k = "untold" => p = Wait("info", {})
             /\ k = "reset" => p = Wait("info", ResetReasons(last, current))
             /\ k = "info" => p = IF reader.pending.need = "info" /\ reader.pending.sees # {}
                                  THEN [reader.pending EXCEPT !.need = "frame"] ELSE NoPending
             /\ k \in {"run", "changed", "clock", "stale", "resumed", "conflict", "frame"}
                   => p = NoPending
<1> DEFINE m == Record(k)
           p == PendingAfter(reader, m)
<1>1. m.kind = k /\ m.s = current /\ m.sees = Evidence(k)
  BY RecordIs
<1> HIDE DEF m
<1>2. k = "schema" => p = IF reader.schema >= 0 THEN Wait("changed", {}) ELSE NoPending
  BY <1>1 DEF PendingAfter, Wait
<1>3. k = "duplicate" => p = IF "conflict" \in due THEN Wait("conflict", Same) ELSE NoPending
  <2> SUFFICES ASSUME k = "duplicate"
               PROVE p = IF "conflict" \in due THEN Wait("conflict", Same) ELSE NoPending
    OBVIOUS
  <2>1. m.sees = [before |-> Digest(last), after |-> Digest(FrameOf(current)),
                  conflict |-> "conflict" \in due]
    BY <1>1, EvidenceIs
  <2>2. m.sees.conflict = ("conflict" \in due)
    BY <2>1
  <2>3. CASE "conflict" \in due
    <3>1. ("conflict" \in due) = TRUE
      BY <2>3
    <3>2. m.sees = Same
      BY <2>1, <3>1, Zenon DEF Same
    <3>3. p = Wait("conflict", m.sees)
      BY <1>1, <2>2, <2>3 DEF PendingAfter, Wait
    <3> QED BY <2>3, <3>2, <3>3
  <2>4. CASE "conflict" \notin due
    BY <1>1, <2>2, <2>4 DEF PendingAfter
  <2> QED BY <2>3, <2>4
<1>4. k = "drop" => p = Wait("frame", {})
  BY <1>1 DEF PendingAfter, Wait
<1>5. k = "untold" => p = Wait("info", {})
  BY <1>1 DEF PendingAfter, Wait
<1>6. k = "reset" => p = Wait("info", ResetReasons(last, current))
  BY <1>1, EvidenceIs DEF PendingAfter, Wait
<1>7. k = "info" => p = IF reader.pending.need = "info" /\ reader.pending.sees # {}
                        THEN [reader.pending EXCEPT !.need = "frame"] ELSE NoPending
  BY <1>1 DEF PendingAfter
<1>8. k \in {"run", "changed", "clock", "stale", "resumed", "conflict", "frame"} => p = NoPending
  BY <1>1 DEF PendingAfter
<1> QED BY <1>2, <1>3, <1>4, <1>5, <1>6, <1>7, <1>8 DEF m

\* What comes after k: the records that insist on their predecessor.
LEMMA Succession ==
  ASSUME NEW k \in All, k # "receipt", NextDue(k), due' = due \ {k},
         Plan
  PROVE  /\ \A j \in All : NextDue(j)' =>
              /\ j = "changed" <=> k = "schema" /\ "changed" \in due
              /\ j = "conflict" <=> k = "duplicate" /\ "conflict" \in due
              /\ k \in {"reset", "untold"} => j = "info"
              /\ k = "drop" \/ (k = "info" /\ IsReset(current)) => j = "frame"
              /\ j = "info" /\ IsReset(current) => k = "reset"
              /\ j = "info" /\ Untold(current) => k = "untold"
              /\ j = "frame" /\ IsReset(current) => k = "info"
              /\ j = "frame" /\ Skips(current) => k = "drop"
         /\ k = "schema" /\ "changed" \in due => NextDue("changed")'
         /\ k = "duplicate" /\ "conflict" \in due => NextDue("conflict")'
         /\ k \in {"reset", "untold"} => NextDue("info")'
         /\ k = "drop" \/ (k = "info" /\ IsReset(current)) => NextDue("frame")'
<1>1. k \in due /\ \A j \in All : Place(j) < Place(k) => j \notin due
  BY NextTable
<1>2. /\ current \in Samples /\ "receipt" \notin due
      /\ SchemaPlan(current) /\ ResetPlan(current) /\ InfoPlan(current)
      /\ StalePlan /\ FramePlan(current)
  BY <1>1 DEF Plan, All
<1>3. \A j \in All : NextDue(j) <=> j = k
  BY <1>1, NextTable, KindsAre, Places
<1>4. \A j \in All : NextDue(j)' <=>
          j \in due /\ j # k /\ \A i \in All : Place(i) < Place(j) => i \notin due \/ i = k
  BY NextTable
<1>5. k = "schema" /\ "changed" \in due => NextDue("changed")'
  BY <1>1, <1>4, KindsAre, Places
<1>6. k = "duplicate" /\ "conflict" \in due => NextDue("conflict")'
  BY <1>1, <1>4, KindsAre, Places
<1>7. k \in {"reset", "untold"} => NextDue("info")'
  <2>1. k = "reset" => "untold" \notin due
    BY <1>1, <1>2 DEF ResetPlan
  <2>2. k \in {"reset", "untold"} => "info" \in due
    BY <1>1, <1>2 DEF ResetPlan, InfoPlan
  <2> QED BY <1>1, <1>4, <2>1, <2>2, KindsAre, Places
<1>8. k = "drop" \/ (k = "info" /\ IsReset(current)) => NextDue("frame")'
  <2>1. k = "drop" => "frame" \in due
    BY <1>1, <1>2 DEF FramePlan
  <2>2. IsReset(current) => /\ "frame" \in due
          /\ due \cap {"untold", "clock", "stale", "resumed", "duplicate", "conflict", "drop"} = {}
    BY <1>2 DEF ResetPlan
  <2> QED BY <1>1, <1>4, <2>1, <2>2, KindsAre, Places
<1> SUFFICES ASSUME NEW j \in All, NextDue(j)'
             PROVE  /\ j = "changed" <=> k = "schema" /\ "changed" \in due
                    /\ j = "conflict" <=> k = "duplicate" /\ "conflict" \in due
                    /\ k \in {"reset", "untold"} => j = "info"
                    /\ k = "drop" \/ (k = "info" /\ IsReset(current)) => j = "frame"
                    /\ j = "info" /\ IsReset(current) => k = "reset"
                    /\ j = "info" /\ Untold(current) => k = "untold"
                    /\ j = "frame" /\ IsReset(current) => k = "info"
                    /\ j = "frame" /\ Skips(current) => k = "drop"
  BY <1>5, <1>6, <1>7, <1>8
<1>9. \A i \in All : NextDue(i)' => i = j
  BY <1>4, KindsAre, Places
<1>10. j \in due /\ j # k /\ \A i \in All : Place(i) < Place(j) => i \notin due \/ i = k
  BY <1>4
<1>11. j = "changed" => k = "schema" /\ "changed" \in due
  BY <1>2, <1>3, <1>10, KindsAre, Places DEF SchemaPlan
<1>12. j = "conflict" => k = "duplicate" /\ "conflict" \in due
  BY <1>2, <1>3, <1>10, KindsAre, Places DEF FramePlan
<1>13. j = "info" /\ IsReset(current) => k = "reset"
  BY <1>1, <1>2, <1>3, <1>10, KindsAre, Places DEF ResetPlan
<1>14. j = "info" /\ Untold(current) => k = "untold"
  BY <1>2, <1>3, <1>10, KindsAre, Places DEF InfoPlan
<1>15. j = "frame" /\ IsReset(current) => k = "info"
  BY <1>1, <1>2, <1>3, <1>10, KindsAre, Places DEF ResetPlan
<1>16. j = "frame" /\ Skips(current) => k = "drop"
  BY <1>2, <1>3, <1>10, KindsAre, Places DEF FramePlan
<1> QED BY <1>5, <1>6, <1>7, <1>8, <1>9, <1>11, <1>12, <1>13, <1>14, <1>15, <1>16, KindsAre

\* What is said of the current sample changes with it and the last frame only.
LEMMA Kept ==
  ASSUME UNCHANGED <<current, last>>
  PROVE  /\ IsReset(current)' <=> IsReset(current)
         /\ IsDuplicate(current)' <=> IsDuplicate(current)
         /\ Skips(current)' <=> Skips(current)
         /\ Conflicts(current)' <=> Conflicts(current)
         /\ Same' = Same
         /\ \A j, e : Wait(j, e)' = Wait(j, e)
BY DEF IsReset, IsDuplicate, Skips, Conflicts, Same, Wait

\* A record that is written is taken, and leaves the rest of the plan.
LEMMA WriteSync ==
  ASSUME NEW k \in All, Sync, Whole, WriteRecord(k)
  PROVE  Sync'
<1> DEFINE m == Record(k)
<1>1. /\ status \in {"open", "finishing"} /\ NextDue(k) /\ k \in due
      /\ due' = due \ {k} /\ reader' = Read(reader, m) /\ Remember(k)
      /\ UNCHANGED <<status, offered, current>>
  BY NextTable DEF WriteRecord
<1>2. Numbers /\ Agrees /\ Adds /\ Epochs /\ Plan /\ Silence /\ Pending /\ reader.ok
  BY <1>1 DEF Sync, Writing
<1>3. Accepts(reader, m) /\ Shaped(reader)
  BY <1>1, AcceptsNext DEF Whole
<1>4. m.kind = k /\ m.seq = seq /\ m.s = current /\ m.sees = Evidence(k)
      /\ m.schema = (IF k = "schema" THEN schemaEpoch + 1 ELSE schemaEpoch)
      /\ m.session = (IF k = "reset" THEN sessionEpoch + 1 ELSE sessionEpoch)
  BY RecordIs
<1> HIDE DEF m
<1>5. CASE k = "receipt"
  <2>1. due' = {} /\ status' = "finishing"
    BY <1>1, <1>5 DEF Whole
  <2>2. reader' = [reader EXCEPT !.receipt = TRUE]
    BY <1>1, <1>3, <1>4, <1>5 DEF Read
  <2>3. reader'.receipt = TRUE /\ reader'.ok
    <3> HIDE DEF Shaped
    <3>1. reader = [x \in Fields |-> reader[x]]
      BY <1>3 DEF Shaped
    <3> QED BY <1>2, <2>2, <3>1 DEF Fields
  <2>4. Numbers'
    BY <1>1, <1>2, <1>5, <2>1 DEF Numbers, Remember
  <2> QED BY <1>1, <2>1, <2>3, <2>4 DEF Sync, Writing
<1> SUFFICES ASSUME k # "receipt" PROVE Sync'
  BY <1>5
<1>6. k \in Kinds /\ status = "open"
  BY <1>1, KindsAre DEF All, Whole
<1>7. /\ reader'.ok /\ ~reader'.receipt /\ reader'.seq = seq + 1
      /\ reader'.count = [count EXCEPT ![k] = count[k] + 1]
      /\ reader'.schema = (IF k = "schema" THEN schemaEpoch + 1 ELSE schemaEpoch)
      /\ reader'.session = (IF k = "reset" THEN sessionEpoch + 1 ELSE sessionEpoch)
      /\ reader'.stale = (IF k = "stale" THEN TRUE
                          ELSE IF k \in {"reset", "resumed"} THEN FALSE ELSE reader.stale)
      /\ reader'.dropped = (IF k = "drop" THEN dropped + m.sees.missing ELSE dropped)
      /\ reader'.first = (IF k = "frame" /\ first = 0 THEN current.tick ELSE first)
      /\ reader'.last = (IF k = "frame" THEN FrameOf(current) ELSE last)
      /\ reader'.epoch = (IF k = "frame" THEN sessionEpoch ELSE reader.epoch)
      /\ reader'.pending = PendingAfter(reader, m)
  <2>1. m.kind # "receipt"
    BY <1>4
  <2> HIDE DEF Read, PendingAfter, Accepts, Shaped
  <2>2. Took(reader', reader, m)
    BY <1>1, <1>3, <2>1, ReadTakes
  <2> QED BY <1>2, <1>4, <2>2 DEF Agrees, Took
<1>8. /\ current \in Samples /\ "receipt" \notin due
      /\ SchemaPlan(current) /\ ResetPlan(current) /\ InfoPlan(current)
      /\ StalePlan /\ FramePlan(current)
  BY <1>1, <1>2, <1>6 DEF Plan
<1>9. Agrees'
  <2>1. k = "drop" => m.sees.missing = current.tick - last.tick - 1
    BY <1>4, EvidenceIs
  <2>2. k = "drop" => dropped' = dropped + m.sees.missing
    <3>1. current.tick \in Nat /\ last.tick \in Nat
      BY <1>2, <1>8, FrameNumbers, SampleNumbers
    <3> QED BY <1>1, <2>1, <3>1 DEF Remember
  <2>3. reader'.stale \in BOOLEAN
    BY <1>2, <1>7 DEF Agrees
  <2> QED BY <1>1, <1>7, <2>2, <2>3 DEF Agrees, Remember
<1>10. Numbers'
  <2>1. last' = NoFrame \/ \E s \in Samples : last' = FrameOf(s)
    BY <1>1, <1>2, <1>8 DEF Remember, Numbers
  <2>2. schema' \in Nat
    BY <1>1, <1>2, <1>8, SampleNumbers DEF Remember, Numbers
  <2>3. {offered, seen, seq, sessionEpoch, progress}' \subseteq Nat /\ schemaEpoch' \in Int
        /\ schemaEpoch' >= -1 /\ due' \subseteq All
    BY <1>1, <1>2 DEF Remember, Numbers, All
  <2>4. count' \in [Kinds -> Nat]
    BY <1>1, <1>2, <1>6 DEF Remember, Numbers
  <2> QED BY <2>1, <2>2, <2>3, <2>4 DEF Numbers, All
<1>11. \A j \in All : NextDue(j) <=> j = k
  BY <1>1, NextTable, KindsAre, Places
<1>12. \A j \in All : Place(j) < Place(k) => j \notin due
  BY <1>1, NextTable
<1>13. k = "frame" => due' = {}
  BY <1>1, <1>2, <1>8, <1>12, KindsAre, Places DEF Numbers, All
<1>14. k # "frame" => UNCHANGED <<current, last>>
  BY <1>1 DEF Remember
<1>15. k \notin {"run", "schema"} => schema # 0 /\ schemaEpoch >= 0
  <2> SUFFICES ASSUME k \notin {"run", "schema"} PROVE schema # 0 /\ schemaEpoch >= 0
    OBVIOUS
  <2>1. "schema" \notin due
    BY <1>12, KindsAre, Places
  <2> QED BY <1>2, <1>8, <2>1, SampleNumbers DEF SchemaPlan, Adds, Numbers
<1>16. \A j \in All : NextDue(j)' =>
          /\ j = "changed" <=> k = "schema" /\ "changed" \in due
          /\ j = "conflict" <=> k = "duplicate" /\ "conflict" \in due
          /\ k \in {"reset", "untold"} => j = "info"
          /\ k = "drop" \/ (k = "info" /\ IsReset(current)) => j = "frame"
          /\ j = "info" /\ IsReset(current) => k = "reset"
          /\ j = "info" /\ Untold(current) => k = "untold"
          /\ j = "frame" /\ IsReset(current) => k = "info"
          /\ j = "frame" /\ Skips(current) => k = "drop"
  BY <1>1, <1>2, Succession
<1>17. /\ k = "schema" /\ "changed" \in due => NextDue("changed")'
       /\ k = "duplicate" /\ "conflict" \in due => NextDue("conflict")'
       /\ k \in {"reset", "untold"} => NextDue("info")'
       /\ k = "drop" \/ (k = "info" /\ IsReset(current)) => NextDue("frame")'
  BY <1>1, <1>2, Succession
<1>18. NextDue("changed")' <=> k = "schema" /\ "changed" \in due
  BY <1>16, <1>17, KindsAre
<1>19. Adds'
  <2>1. /\ count \in [Kinds -> Nat]
        /\ {"frame", "duplicate", "reset", "schema", "changed"} \subseteq Kinds
    BY <1>2 DEF Numbers, Kinds, Events
  <2>2. /\ seq' = seq + 1 /\ count' = [count EXCEPT ![k] = @ + 1] /\ seen' = seen
        /\ schema' = (IF k = "schema" THEN current.schema ELSE schema)
        /\ schemaEpoch' = (IF k = "schema" THEN schemaEpoch + 1 ELSE schemaEpoch)
        /\ sessionEpoch' = (IF k = "reset" THEN sessionEpoch + 1 ELSE sessionEpoch)
        /\ last' = (IF k = "frame" THEN FrameOf(current) ELSE last)
    BY <1>1 DEF Remember
  <2>3. \A x \in Kinds : count'[x] = IF x = k THEN count[x] + 1 ELSE count[x]
    BY <1>6, <2>1, <2>2
  <2>4. /\ seq \in Nat /\ seen \in Nat /\ schemaEpoch \in Int /\ schemaEpoch >= -1
        /\ sessionEpoch \in Nat /\ \A x \in Kinds : count[x] \in Nat
    BY <1>2, <2>1 DEF Numbers
  <2>5. seen = count'["frame"] + count'["duplicate"]
                 + (IF due' \cap {"frame", "duplicate"} = {} THEN 0 ELSE 1)
    <3>1. ~({"frame", "duplicate"} \subseteq due)
      BY <1>8 DEF FramePlan
    <3>2. seen = count["frame"] + count["duplicate"]
                   + (IF due \cap {"frame", "duplicate"} = {} THEN 0 ELSE 1)
      BY <1>2 DEF Adds
    <3>3. CASE k \in {"frame", "duplicate"}
      <4>1. due \cap {"frame", "duplicate"} # {} /\ due' \cap {"frame", "duplicate"} = {}
        BY <1>1, <3>1, <3>3
      <4> QED BY <2>1, <2>3, <2>4, <3>2, <3>3, <4>1
    <3>4. CASE k \notin {"frame", "duplicate"}
      <4>1. due \cap {"frame", "duplicate"} = {} <=> due' \cap {"frame", "duplicate"} = {}
        BY <1>1, <3>4
      <4> QED BY <2>1, <2>3, <2>4, <3>2, <3>4, <4>1
    <3> QED BY <3>3, <3>4
  <2>6. /\ count'["frame"] > 0 <=> last' # NoFrame
        /\ last' = NoFrame => count'["duplicate"] = 0
        /\ last' # NoFrame => seq' > 0 /\ schemaEpoch' >= 0
    <3>1. FrameOf(current) # NoFrame
      BY <1>8, SampleNumbers DEF FrameOf, NoFrame
    <3>2. k = "duplicate" => last # NoFrame
      BY <1>1, <1>8 DEF FramePlan, IsDuplicate
    <3> QED BY <1>2, <1>15, <2>1, <2>2, <2>3, <2>4, <3>1, <3>2 DEF Adds
  <2>7. count'["reset"] = sessionEpoch' /\ count'["schema"] = schemaEpoch' + 1
    BY <1>2, <2>1, <2>2, <2>3, <2>4 DEF Adds
  <2>8. NextDue("changed") <=> k = "changed"
    BY <1>11, KindsAre
  <2>9. schema' = 0 <=> schemaEpoch' = -1
    BY <1>2, <1>8, <2>2, <2>4, SampleNumbers DEF Adds
  <2>10. k = "schema" => ("changed" \in due <=> schemaEpoch >= 0)
    BY <1>1, <1>2, <1>8, <2>4 DEF SchemaPlan, Adds
  <2>11. /\ schemaEpoch' = -1 => count'["changed"] = 0
         /\ schemaEpoch' >= 0 =>
               count'["changed"] = schemaEpoch' - (IF NextDue("changed")' THEN 1 ELSE 0)
    <3>1. CASE k = "schema"
      BY <1>2, <1>18, <2>1, <2>2, <2>3, <2>4, <2>8, <2>10, <3>1 DEF Adds
    <3>2. CASE k = "changed"
      BY <1>2, <1>15, <1>18, <2>1, <2>2, <2>3, <2>4, <2>8, <3>2 DEF Adds
    <3>3. CASE k \notin {"schema", "changed"}
      BY <1>2, <1>18, <2>1, <2>2, <2>3, <2>4, <2>8, <3>3 DEF Adds
    <3> QED BY <3>1, <3>2, <3>3
  <2> QED BY <2>2, <2>5, <2>6, <2>7, <2>9, <2>11 DEF Adds
<1>20. Epochs'
  <2>1. CASE k = "frame"
    BY <1>1, <1>7, <1>13, <2>1 DEF Epochs, Remember
  <2>2. CASE k = "reset"
    <3>1. IsReset(current) /\ last # NoFrame /\ "frame" \in due
      BY <1>1, <1>8, <2>2 DEF ResetPlan, IsReset
    <3>2. reader.epoch = sessionEpoch /\ sessionEpoch \in Nat
      BY <1>1, <1>2, <2>2, <3>1 DEF Epochs, Numbers
    <3>3. /\ reader'.epoch = sessionEpoch /\ sessionEpoch' = sessionEpoch + 1
          /\ UNCHANGED <<current, last>>
      BY <1>1, <1>7, <2>2, <3>2 DEF Remember
    <3>4. IsReset(current)' /\ "frame" \in due' /\ "reset" \notin due'
      BY <1>1, <2>2, <3>1, <3>3, Kept
    <3> QED BY <3>2, <3>3, <3>4 DEF Epochs
  <2>3. CASE k \notin {"frame", "reset"}
    <3>1. UNCHANGED <<current, last, sessionEpoch>> /\ reader'.epoch = reader.epoch
      BY <1>1, <1>7, <2>3 DEF Remember
    <3>2. IsReset(current)' <=> IsReset(current)
      BY <3>1, Kept
    <3> QED BY <1>1, <1>2, <2>3, <3>1, <3>2 DEF Epochs
  <2> QED BY <2>1, <2>2, <2>3
<1>21. Silence'
  <2>1. /\ stale' = stale
        /\ stale <=> /\ "resumed" \notin due
                     /\ "stale" \in due \/ (reader.stale /\ "reset" \notin due)
    BY <1>1, <1>2 DEF Silence, Remember
  <2>2. CASE k = "stale"
    <3>1. "reset" \notin due
      BY <1>12, <2>2, KindsAre, Places
    <3> QED BY <1>1, <1>7, <2>1, <2>2, <3>1 DEF Silence
  <2>3. CASE k = "resumed"
    <3>1. "stale" \notin due
      BY <1>12, <2>3, KindsAre, Places
    <3> QED BY <1>1, <1>7, <2>1, <2>3, <3>1 DEF Silence
  <2>4. CASE k = "reset"
    <3>1. "stale" \notin due /\ "resumed" \notin due
      BY <1>1, <1>8, <2>4 DEF ResetPlan
    <3> QED BY <1>1, <1>7, <2>1, <2>4, <3>1 DEF Silence
  <2>5. CASE k \notin {"stale", "resumed", "reset"}
    BY <1>1, <1>7, <2>1, <2>5 DEF Silence
  <2> QED BY <2>2, <2>3, <2>4, <2>5
<1>22. CASE k = "frame"
  <2>1. due' = {}
    BY <1>13, <1>22
  <2>2. Plan'
    BY <2>1 DEF Plan
  <2>3. reader'.pending = NoPending
    BY <1>7, <1>22, AfterIs DEF m
  <2>4. Pending'
    BY <2>1, <2>3, NextTable DEF Pending, All
  <2> QED BY <1>1, <1>6, <1>7, <1>9, <1>10, <1>19, <1>20, <1>21, <2>2, <2>4 DEF Sync, Writing
<1> SUFFICES ASSUME k # "frame" PROVE Plan' /\ Pending'
  BY <1>1, <1>6, <1>7, <1>9, <1>10, <1>19, <1>20, <1>21, <1>22 DEF Sync, Writing
<1>23. UNCHANGED <<current, last>>
  BY <1>14
<1>24. /\ IsReset(current)' <=> IsReset(current)
       /\ IsDuplicate(current)' <=> IsDuplicate(current)
       /\ Skips(current)' <=> Skips(current)
       /\ Conflicts(current)' <=> Conflicts(current)
  BY <1>23, Kept
<1>25. k # "info" => (Untold(current)' <=> Untold(current))
  BY <1>1, <1>23, <1>24 DEF Untold, Remember
<1>26. Plan'
  <2>1. SchemaPlan(current)'
    <3>1. "run" \notin due' /\ seq' # 0
      <4>1. k # "run" => "run" \notin due
        BY <1>12, KindsAre, Places
      <4>2. seq' = seq + 1 /\ seq \in Nat
        BY <1>1, <1>2 DEF Remember, Numbers
      <4> QED BY <1>1, <4>1, <4>2
    <3>2. "schema" \in due' \/ schema' = current.schema
      BY <1>1, <1>8 DEF SchemaPlan, Remember
    <3>3. "schema" \in due' => k # "changed" /\ schema' = schema
      BY <1>1, <1>12, KindsAre, Places DEF Remember
    <3>4. "changed" \in due' => "schema" \in due' \/ NextDue("changed")'
      BY <1>1, <1>8, <1>11, <1>17, KindsAre DEF SchemaPlan
    <3> QED BY <1>1, <1>8, <1>23, <3>1, <3>2, <3>3, <3>4 DEF SchemaPlan
  <2>2. ResetPlan(current)'
    <3>1. "reset" \in due' => k # "info"
      BY <1>1, <1>12, KindsAre, Places
    <3>2. IsReset(current) => "reset" \in due' \/ NextDue("info")' \/ NextDue("frame")'
      BY <1>1, <1>8, <1>11, <1>17, KindsAre DEF ResetPlan
    <3> QED BY <1>1, <1>8, <1>24, <3>1, <3>2 DEF ResetPlan
  <2>3. InfoPlan(current)'
    <3>1. k = "info" => "untold" \notin due' /\ "info" \notin due'
      BY <1>1, <1>12, KindsAre, Places
    <3>2. Untold(current) /\ "info" \in due' => "untold" \in due' \/ NextDue("info")'
      BY <1>1, <1>8, <1>11, <1>17, KindsAre DEF InfoPlan
    <3> QED BY <1>1, <1>8, <1>25, <3>1, <3>2 DEF InfoPlan
  <2>4. StalePlan'
    <3>1. k = "reset" => "stale" \notin due /\ "resumed" \notin due
      BY <1>1, <1>8 DEF ResetPlan
    <3>2. k = "resumed" => "stale" \notin due
      BY <1>12, KindsAre, Places
    <3> QED BY <1>1, <1>7, <1>8, <3>1, <3>2 DEF StalePlan
  <2>5. FramePlan(current)'
    <3>1. "duplicate" \in due' => k # "conflict"
      BY <1>1, <1>12, KindsAre, Places
    <3>2. "conflict" \in due' => "duplicate" \in due' \/ NextDue("conflict")'
      BY <1>1, <1>8, <1>11, <1>17, KindsAre DEF FramePlan
    <3>3. "frame" \in due' /\ Skips(current) => "drop" \in due' \/ NextDue("frame")'
      BY <1>1, <1>8, <1>11, <1>17, KindsAre DEF FramePlan
    <3> QED BY <1>1, <1>8, <1>24, <3>1, <3>2, <3>3 DEF FramePlan
  <2> QED BY <1>1, <1>8, <1>23, <2>1, <2>2, <2>3, <2>4, <2>5 DEF Plan
<1>27. Pending'
  <2>1. reader'.pending = PendingAfter(reader, m) /\ reader.pending = Awaited(k)
    BY <1>1, <1>2, <1>7 DEF Pending, All
  <2>2. reader'.pending =
            IF k = "schema" /\ "changed" \in due THEN Wait("changed", {})
            ELSE IF k = "duplicate" /\ "conflict" \in due THEN Wait("conflict", Same)
            ELSE IF k = "reset" THEN Wait("info", ResetReasons(last, current))
            ELSE IF k = "untold" THEN Wait("info", {})
            ELSE IF k = "drop" THEN Wait("frame", {})
            ELSE IF k = "info" /\ IsReset(current)
            THEN Wait("frame", ResetReasons(last, current))
            ELSE NoPending
    <3>1. k = "schema" => ("changed" \in due <=> reader.schema >= 0)
      BY <1>1, <1>2, <1>8 DEF SchemaPlan, Adds, Agrees, Numbers
    <3>2. CASE k = "info"
      <4>1. CASE IsReset(current)
        <5>1. ResetReasons(last, current) # {}
          BY <4>1 DEF IsReset
        <5>2. reader.pending = Wait("info", ResetReasons(last, current))
          BY <2>1, <3>2, <4>1, AwaitedIs
        <5>3. reader'.pending = [reader.pending EXCEPT !.need = "frame"]
          BY <2>1, <3>2, <5>1, <5>2, AfterIs, Waits DEF m
        <5>4. [Wait("info", ResetReasons(last, current)) EXCEPT !.need = "frame"]
                = Wait("frame", ResetReasons(last, current))
          BY DEF Wait
        <5> QED BY <3>2, <4>1, <5>2, <5>3, <5>4
      <4>2. CASE ~IsReset(current)
        <5>1. reader.pending.need # "info" \/ reader.pending.sees = {}
          BY <2>1, <3>2, <4>2, AwaitedIs, Waits
        <5> QED BY <2>1, <3>2, <4>2, <5>1, AfterIs DEF m
      <4> QED BY <4>1, <4>2
    <3>3. CASE k # "info"
      BY <2>1, <3>1, <3>3, AfterIs, KindsAre DEF m
    <3> QED BY <3>2, <3>3
  <2>3. ASSUME NEW j \in All, NextDue(j)' PROVE reader'.pending = Awaited(j)'
    <3>1. Awaited(j)' =
              IF j = "changed" THEN Wait(j, {})
              ELSE IF j = "conflict" THEN Wait(j, Same)
              ELSE IF j \in {"info", "frame"} /\ IsReset(current)
              THEN Wait(j, ResetReasons(last, current))
              ELSE IF (j = "info" /\ Untold(current)') \/ (j = "frame" /\ Skips(current))
              THEN Wait(j, {})
              ELSE NoPending
      BY <1>23, <1>24, Kept DEF Awaited
    <3>2. j = "info" => k # "info"
      BY <1>1, <2>3, NextTable
    <3>3. k = "untold" => Untold(current) /\ ~IsReset(current)
      BY <1>1, <1>8 DEF InfoPlan, Untold
    <3>4. k = "drop" => Skips(current) /\ ~IsReset(current)
      BY <1>1, <1>8 DEF FramePlan, Skips
    <3>5. k = "reset" => IsReset(current)
      BY <1>1, <1>8 DEF ResetPlan
    <3> QED BY <1>16, <1>25, <2>2, <2>3, <3>1, <3>2, <3>3, <3>4, <3>5
  <2>4. due' = {} => reader'.pending = NoPending
    BY <1>17, <2>2, NextTable, KindsAre
  <2> QED BY <2>3, <2>4 DEF Pending, All
<1> QED BY <1>26, <1>27

\* A write that fails leaves nothing, a torn line, or a line the reader takes.
LEMMA FailSync ==
  ASSUME NEW k \in All, Sync, Whole, WriteFails(k)
  PROVE  Sync'
<1>1. /\ status \in {"open", "finishing"} /\ NextDue(k) /\ status' = "failed"
      /\ UNCHANGED <<offered, due, seen, seq, count, schema, schemaEpoch, sessionEpoch, last,
                     progress>>
  BY DEF WriteFails, collector
<1>2. reader' = reader \/ reader' = Read(reader, Record(k))
  BY DEF WriteFails
<1>3. Accepts(reader, Record(k)) /\ Shaped(reader)
  BY <1>1, AcceptsNext DEF Whole
<1>4. Read(reader, Record(k)).ok
  <2>1. CASE Record(k).kind = "receipt"
    <3>1. Read(reader, Record(k)) = [reader EXCEPT !.receipt = TRUE]
      BY <1>3, <2>1 DEF Read
    <3>2. reader = [x \in Fields |-> reader[x]]
      BY <1>3 DEF Shaped
    <3> QED BY <3>1, <3>2 DEF Fields, Sync
  <2>2. CASE Record(k).kind # "receipt"
    BY <1>3, <2>2, ReadTakes DEF Took, Sync
  <2> QED BY <2>1, <2>2
<1>5. Numbers'
  BY <1>1 DEF Sync, Numbers
<1> QED BY <1>1, <1>2, <1>4, <1>5 DEF Sync, Writing

\* A new sample: what it needs is planned in the order of its records.
LEMMA IngestSync ==
  ASSUME NEW s \in Samples, Sync, Ingest(s)
  PROVE  Sync'
<1>1. /\ status = "open" /\ due = {} /\ current' = s
      /\ offered' = offered + 1 /\ seen' = seen + 1
      /\ UNCHANGED <<status, seq, count, schema, schemaEpoch, sessionEpoch, last, lastInfo,
                     first, dropped, reader>>
  BY DEF Ingest, disk
<1>2. Numbers /\ Agrees /\ Adds /\ Epochs /\ Silence /\ Pending /\ reader.ok
  BY <1>1 DEF Sync, Writing
<1>3. \A k \in Kinds : k \in due' <=> Needs(k, s)
  BY DEF Ingest
<1>4. due' \subseteq Kinds /\ "receipt" \notin due'
  BY DEF Ingest, Kinds, Events
<1>5. /\ "run" \in due' <=> seq = 0
      /\ "schema" \in due' <=> s.schema # schema
      /\ "changed" \in due' <=> s.schema # schema /\ schema # 0
      /\ "reset" \in due' <=> IsReset(s)
      /\ "untold" \in due' <=> Untold(s)
      /\ "info" \in due' <=> InfoDue(s)
      /\ "clock" \in due' <=> ClockBack(s)
      /\ "stale" \in due' <=> Silent(s) /\ ~StaleBefore(s)
      /\ "resumed" \in due' <=> Resumes(s)
  BY <1>3 DEF Needs, Kinds, Events
<1>6. /\ "duplicate" \in due' <=> IsDuplicate(s)
      /\ "conflict" \in due' <=> IsDuplicate(s) /\ Conflicts(s)
      /\ "drop" \in due' <=> Skips(s)
      /\ "frame" \in due' <=> ~IsDuplicate(s)
  BY <1>3 DEF Needs, Kinds, Events, Conflicts, Skips
<1>7. /\ IsReset(current)' <=> IsReset(s)
      /\ IsDuplicate(current)' <=> IsDuplicate(s)
      /\ Skips(current)' <=> Skips(s)
      /\ Conflicts(current)' <=> Conflicts(s)
      /\ Untold(current)' <=> Untold(s)
  BY <1>1 DEF IsReset, IsDuplicate, Skips, Conflicts, Untold
<1>8. IsReset(s) => /\ ~Timed(s) /\ ~IsDuplicate(s) /\ ~Skips(s) /\ ~Untold(s) /\ InfoDue(s)
                    /\ ~ClockBack(s) /\ ~Silent(s) /\ ~Resumes(s)
  BY DEF Timed, ProgressBefore, IsDuplicate, Skips, Untold, InfoDue, ClockBack, Silent, Resumes
<1>9. ~NextDue("changed") /\ ~NextDue("changed")'
  <2>1. "changed" \in due' => "schema" \in due'
    BY <1>5
  <2> QED BY <1>1, <2>1, NextTable, KindsAre, Places
<1>10. Numbers'
  <2>1. progress' \in Nat
    <3>1. progress' = (IF s.clock # NoClock /\ ~IsDuplicate(s) THEN s.clock
                       ELSE IF IsReset(s) THEN NoClock ELSE progress)
      BY DEF Ingest, ProgressBefore
    <3>2. s.clock \in Nat /\ progress \in Nat /\ NoClock \in Nat
      BY <1>2, CaptureAssumption DEF Numbers, NoClock
    <3> QED BY <3>1, <3>2
  <2> QED BY <1>1, <1>2, <1>4, <2>1 DEF Numbers
<1>11. Agrees'
  BY <1>1, <1>2 DEF Agrees
<1>12. Adds'
  <2>1. due' \cap {"frame", "duplicate"} # {} /\ due \cap {"frame", "duplicate"} = {}
    BY <1>1, <1>6
  <2>2. count["frame"] \in Nat /\ count["duplicate"] \in Nat /\ seen \in Nat
    BY <1>2 DEF Numbers, Kinds, Events
  <2> QED BY <1>1, <1>2, <1>9, <2>1, <2>2 DEF Adds
<1>13. Epochs'
  BY <1>1, <1>2, <1>5, <1>7 DEF Epochs
<1>14. stale <=> reader.stale
  BY <1>1, <1>2 DEF Silence
<1>15. ClockBack(s) => ~Silent(s)
  <2>1. CASE IsReset(s)
    BY <2>1, <1>8
  <2>2. CASE ~IsReset(s)
    <3>1. s.clock \in Nat /\ progress \in Nat /\ StaleAfter \in Nat /\ ProgressBefore(s) = progress
      BY <1>2, <2>2, CaptureAssumption DEF Numbers, ProgressBefore
    <3> QED BY <3>1 DEF ClockBack, Silent
  <2> QED BY <2>1, <2>2
<1>16. Silence'
  <2>1. stale' = IF Timed(s) /\ ~ClockBack(s)
                 THEN GoneStale(s) /\ IsDuplicate(s) ELSE StaleBefore(s)
    BY DEF Ingest
  <2>2. stale' <=> IF Timed(s) /\ ~ClockBack(s)
                   THEN GoneStale(s) /\ IsDuplicate(s) ELSE StaleBefore(s)
    BY <2>1
  <2> QED BY <1>1, <1>5, <1>8, <1>14, <1>15, <2>2
          DEF Silence, GoneStale, StaleBefore, Resumes, Silent
<1>17. SchemaPlan(current)'
  BY <1>1, <1>5 DEF SchemaPlan
<1>18. ResetPlan(current)'
  BY <1>5, <1>6, <1>7, <1>8 DEF ResetPlan
<1>19. InfoPlan(current)'
  <2>1. Untold(s) => InfoDue(s)
    BY DEF Untold, InfoDue
  <2> QED BY <1>5, <1>7, <2>1 DEF InfoPlan
<1>20. StalePlan'
  <2>1. Silent(s) => ~IsReset(s)
    BY <1>8
  <2> QED BY <1>1, <1>5, <1>14, <2>1 DEF StalePlan, Resumes, GoneStale, StaleBefore
<1>21. FramePlan(current)'
  <2>1. Skips(s) => ~IsDuplicate(s)
    <3>1. s.tick \in Nat /\ last.tick \in Nat
      BY <1>2, FrameNumbers, SampleNumbers
    <3> QED BY <3>1 DEF Skips, IsDuplicate
  <2> QED BY <1>6, <1>7, <2>1 DEF FramePlan
<1>22. Plan'
  BY <1>1, <1>4, <1>17, <1>18, <1>19, <1>20, <1>21 DEF Plan
<1>23. Pending'
  <2>1. reader'.pending = NoPending
    BY <1>1, <1>2 DEF Pending
  <2>2. ASSUME NEW j \in All, NextDue(j)' PROVE Awaited(j)' = NoPending
    <3>1. j \in due' /\ \A i \in All : Place(i) < Place(j) => i \notin due'
      BY <2>2, NextTable
    <3>2. j # "changed"
      BY <1>5, <3>1, KindsAre, Places
    <3>3. j # "conflict"
      BY <1>6, <3>1, KindsAre, Places
    <3>4. j \in {"info", "frame"} => ~IsReset(s)
      BY <1>5, <3>1, KindsAre, Places
    <3>5. j = "info" => ~Untold(s)
      BY <1>5, <3>1, KindsAre, Places
    <3>6. j = "frame" => ~Skips(s)
      BY <1>6, <3>1, KindsAre, Places
    <3> QED BY <1>7, <3>2, <3>3, <3>4, <3>5, <3>6 DEF Awaited
  <2> QED BY <2>1, <2>2 DEF Pending, All
<1> QED BY <1>1, <1>2, <1>10, <1>11, <1>12, <1>13, <1>16, <1>22, <1>23 DEF Sync, Writing

LEMMA InitSync == Init => Sync
<1> SUFFICES ASSUME Init PROVE Sync
  OBVIOUS
<1>1. /\ reader.ok /\ reader.receipt = FALSE /\ reader.seq = 0 /\ reader.schema = -1
      /\ reader.session = 0 /\ reader.last = NoFrame /\ reader.first = 0
      /\ reader.stale = FALSE /\ reader.dropped = 0 /\ reader.pending = NoPending
      /\ reader.count = [k \in Kinds |-> 0]
  BY DEF Init, NewReader
<1>2. /\ status = "open" /\ due = {} /\ offered = 0 /\ seen = 0 /\ seq = 0 /\ schema = 0
      /\ schemaEpoch = -1 /\ sessionEpoch = 0 /\ last = NoFrame /\ progress = 0
      /\ stale = FALSE /\ first = 0 /\ dropped = 0 /\ count = [k \in Kinds |-> 0]
  BY DEF Init, NoClock
<1>3. Numbers
  BY <1>2 DEF Numbers
<1>4. Agrees
  BY <1>1, <1>2 DEF Agrees
<1>5. Adds
  BY <1>2 DEF Adds, Kinds, Events
<1>6. Epochs /\ Plan /\ Silence
  BY <1>1, <1>2 DEF Epochs, Plan, Silence
<1>7. Pending
  BY <1>1, <1>2, NextTable DEF Pending, All
<1> QED BY <1>1, <1>2, <1>3, <1>4, <1>5, <1>6, <1>7 DEF Sync

\* Every step of the recording keeps writer and reader together.
LEMMA StepSync == Sync /\ Whole /\ Step => Sync'
<1> SUFFICES ASSUME Sync, Whole, Step PROVE Sync'
  OBVIOUS
<1>1. CASE \E s \in Samples : Ingest(s)
  BY <1>1, IngestSync
<1>2. CASE \E k \in Kinds \cup {"receipt"} : WriteRecord(k) \/ WriteFails(k)
  BY <1>2, WriteSync, FailSync DEF All
<1>3. CASE Refuse \/ Close
  <2>1. /\ status' \in {"failed", "closed"} /\ reader' = reader
        /\ offered' \in {offered, offered + 1}
        /\ UNCHANGED <<due, seen, seq, count, schema, schemaEpoch, sessionEpoch, last,
                       progress>>
    BY <1>3 DEF Refuse, Close, collector, disk
  <2> QED BY <2>1 DEF Sync, Writing, Numbers
<1>4. CASE Finish
  <2>1. /\ status = "open" /\ due = {} /\ UNCHANGED <<offered, current, collector, reader>>
        /\ status' = IF offered = 0 THEN "finished" ELSE "finishing"
        /\ due' = IF offered = 0 THEN {} ELSE {"receipt"}
    BY <1>4 DEF Finish, disk
  <2>2. Numbers /\ Agrees /\ Adds /\ Epochs /\ Silence /\ Pending /\ reader.ok
    BY <2>1 DEF Sync, Writing
  <2>3. Numbers'
    BY <2>1, <2>2 DEF Numbers, collector
  <2>4. CASE offered = 0
    BY <2>1, <2>2, <2>3, <2>4 DEF Sync, Writing, Agrees
  <2>5. CASE offered # 0
    <3>1. due' = {"receipt"} /\ due = {} /\ offered > 0 /\ status' = "finishing"
      BY <2>1, <2>2, <2>5 DEF Numbers
    <3>2. Agrees'
      BY <2>1, <2>2 DEF Agrees, collector
    <3>3. ~NextDue("changed") /\ ~NextDue("changed")'
      BY <3>1, NextTable, KindsAre
    <3>4. Adds'
      BY <2>1, <2>2, <3>1, <3>3 DEF Adds, collector
    <3>5. Epochs'
      BY <2>1, <2>2, <3>1 DEF Epochs, collector
    <3>6. Plan'
      BY <3>1 DEF Plan, Kinds, Events
    <3>7. Silence'
      BY <2>1, <2>2, <3>1 DEF Silence, collector
    <3>8. Pending'
      <4>1. reader'.pending = NoPending
        BY <2>1, <2>2 DEF Pending
      <4>2. \A j \in All : NextDue(j)' => j = "receipt"
        BY <3>1, NextTable
      <4>3. Awaited("receipt")' = NoPending
        BY DEF Awaited
      <4> QED BY <3>1, <4>1, <4>2, <4>3 DEF Pending, All
    <3> QED BY <2>1, <2>2, <2>3, <3>1, <3>2, <3>4, <3>5, <3>6, <3>7, <3>8 DEF Sync
  <2> QED BY <2>4, <2>5
<1>5. CASE Seal
  <2>1. /\ status = "finishing" /\ due = {} /\ status' \in {"finished", "failed"}
        /\ UNCHANGED <<offered, due, collector, reader>>
    BY <1>5 DEF Seal, disk
  <2>2. Numbers'
    BY <2>1 DEF Sync, Numbers, collector
  <2> QED BY <2>1, <2>2 DEF Sync, Writing
<1>6. CASE Ended \/ UNCHANGED vars
  <2>1. UNCHANGED vars
    BY <1>6 DEF Ended
  <2> QED BY <2>1 DEF vars, collector, disk, Sync, Writing, Numbers, Agrees, Adds, Epochs, Plan,
                      SchemaPlan, ResetPlan, InfoPlan, StalePlan, FramePlan, Silence, Pending,
                      IsReset, IsDuplicate, Untold, Skips, Conflicts, Awaited, Wait, Same, NextDue
<1> QED BY <1>1, <1>2, <1>3, <1>4, <1>5, <1>6 DEF Step, Next

\* No whole line the writer leaves breaks a rule of the format, for every
\* set of samples in every order, however a write fails; as long as no
\* identity changed no transaction is open between two samples, and a
\* finished recording of a sample is COMPLETE exactly if none did
\* (collector.py:1022 against adapters.py:2334 and 3042).
THEOREM ReadableHolds == Spec => []Readable
<1>1. Sync /\ Whole /\ WithinBudget => Readable
  <2> SUFFICES ASSUME Sync, Whole, WithinBudget PROVE Readable
    OBVIOUS
  <2>1. ASSUME status = "open", due = {}
        PROVE  /\ reader.pending.need = "none"
               /\ reader.count["frame"] + reader.count["duplicate"] = offered
    <3>1. Numbers /\ Agrees /\ Adds /\ Pending
      BY <2>1 DEF Sync, Writing
    <3>2. seen = count["frame"] + count["duplicate"]
      BY <2>1, <3>1 DEF Adds, Numbers, Kinds, Events
    <3> QED BY <2>1, <3>1, <3>2, Waits DEF Whole, Agrees, Pending
  <2>2. status = "finished" => torn = 0
    BY DEF WithinBudget
  <2> QED BY <2>1, <2>2 DEF Sync, Readable, Complete, Clean
<1> QED BY <1>1, InitSync, StepSync, InitWhole, StepWhole, InitBudget, StepBudget, PTL
       DEF Spec, Step

-----------------------------------------------------------------------------

\* The samples of one track, one event and one car class, where they say.
Alike ==
    \A s, t \in Samples :
        /\ TrackOf[s.info] = TrackOf[t.info]
        /\ EventOf[s.info] # 0 /\ EventOf[t.info] # 0 => EventOf[s.info] = EventOf[t.info]
        /\ CarOf[s.values] # 0 /\ CarOf[t.values] # 0 => CarOf[s.values] = CarOf[t.values]

\* What the reader is bound to is what every sample says.
Bound(b) ==
    /\ b.steady
    /\ \A s \in Samples :
          /\ b.track \in {Unseen, TrackOf[s.info]}
          /\ EventOf[s.info] = 0 \/ b.event \in {0, EventOf[s.info]}
          /\ CarOf[s.values] = 0 \/ b.car \in {0, CarOf[s.values]}

LEMMA InitBound == Init => Bound(reader.bound)
<1>1. NewReader.bound = Unbound
  BY DEF NewReader
<1> HIDE DEF NewReader
<1> QED BY <1>1 DEF Init, Bound, Unbound

LEMMA BindBound ==
  ASSUME NEW b, NEW m, Alike, Bound(b), m.s \in Samples
  PROVE  Bound(Bind(b, m))
<1>1. TrackKept(b, m) /\ EventKept(b, m) /\ CarKept(b, m)
  BY DEF Bound, TrackKept, EventKept, CarKept
<1>2. Bind(b, m).steady
  BY <1>1 DEF Bind, Bound
<1>3. \A s \in Samples : Bind(b, m).track \in {Unseen, TrackOf[s.info]}
  BY DEF Bind, Bound, Alike
<1>4. \A s \in Samples : EventOf[s.info] = 0 \/ Bind(b, m).event \in {0, EventOf[s.info]}
  BY DEF Bind, Bound, Alike
<1>5. \A s \in Samples : CarOf[s.values] = 0 \/ Bind(b, m).car \in {0, CarOf[s.values]}
  BY DEF Bind, Bound, Alike
<1> HIDE DEF Bind
<1> QED BY <1>2, <1>3, <1>4, <1>5 DEF Bound

LEMMA ReadBound ==
  ASSUME NEW k \in All, Alike, Bound(reader.bound), Sync, Whole,
         status \in {"open", "finishing"}, NextDue(k)
  PROVE  Bound(Read(reader, Record(k)).bound)
<1> DEFINE m == Record(k)
           q == Read(reader, m)
<1>1. Accepts(reader, m) /\ Shaped(reader) /\ m.kind = k /\ m.s = current
  BY AcceptsNext, RecordIs DEF Whole
<1>2. CASE k = "receipt"
  <2>1. q = [reader EXCEPT !.receipt = TRUE]
    BY <1>1, <1>2 DEF Read
  <2>2. reader = [x \in Fields |-> reader[x]]
    BY <1>1 DEF Shaped
  <2> HIDE DEF q
  <2>3. q.bound = reader.bound
    BY <2>1, <2>2 DEF Fields
  <2> QED BY <2>3 DEF q
<1>3. CASE k # "receipt"
  <2>1. current \in Samples
    <3>1. k \in due
      BY NextTable
    <3>2. due \cap Kinds # {} /\ Writing
      BY <1>3, <3>1 DEF All, Writing
    <3> QED BY <3>2 DEF Sync, Plan
  <2> HIDE DEF m
  <2>2. Took(q, reader, m)
    BY <1>1, <1>3, ReadTakes
  <2> HIDE DEF q
  <2>3. q.bound = Bind(reader.bound, m)
    BY <2>2 DEF Took
  <2> QED BY <1>1, <2>1, <2>3, BindBound DEF m, q
<1> QED BY <1>2, <1>3

LEMMA StepBound ==
  ASSUME Alike
  PROVE  Bound(reader.bound) /\ Sync /\ Whole /\ Step => Bound(reader.bound)'
<1> SUFFICES ASSUME Bound(reader.bound), Sync, Whole, Step PROVE Bound(reader.bound)'
  OBVIOUS
<1>1. ASSUME NEW k \in All, WriteRecord(k) \/ WriteFails(k) PROVE Bound(reader.bound)'
  <2>1. status \in {"open", "finishing"} /\ NextDue(k)
    BY <1>1 DEF WriteRecord, WriteFails
  <2>2. reader' = reader \/ reader' = Read(reader, Record(k))
    BY <1>1 DEF WriteRecord, WriteFails
  <2>3. Bound(reader'.bound)
    BY <2>1, <2>2, ReadBound
  <2> QED BY <2>3 DEF Bound
<1>2. CASE (\E s \in Samples : Ingest(s)) \/ Refuse \/ Finish \/ Seal \/ Close \/ Ended
           \/ UNCHANGED vars
  <2>1. reader' = reader
    BY <1>2 DEF Ingest, Refuse, Finish, Seal, Close, Ended, vars, disk
  <2> QED BY <2>1 DEF Bound
<1> QED BY <1>1, <1>2 DEF Step, Next, All

\* A recording on one track, of one event and in one car is accepted to
\* its last whole line: there, a changed identity is the only thing the
\* reader can refuse, and it never finds one.
THEOREM AlikeIsAccepted ==
  ASSUME Alike
  PROVE  Spec => [](reader.ok /\ reader.bound.steady)
<1>1. Bound(reader.bound) /\ Sync => reader.ok /\ reader.bound.steady
  BY DEF Bound, Sync
<1> QED BY <1>1, InitBound, StepBound, InitSync, StepSync, InitWhole, StepWhole, PTL DEF Spec, Step

-----------------------------------------------------------------------------

\* The type of every variable of the recording.
CaptureTypes ==
    /\ status \in {"open", "finishing", "finished", "failed", "closed"}
    /\ current \in Samples \cup {NoSample}
    /\ due \subseteq Kinds \cup {"receipt"}
    /\ {offered, seen, seq, schema, sessionEpoch, progress, first, dropped} \subseteq Nat
    /\ schemaEpoch \in Nat \cup {-1}
    /\ count \in [Kinds -> Nat]
    /\ last \in {FrameOf(s) : s \in Samples} \cup {NoFrame}
    /\ lastInfo \in [update : Nat, payload : Nat, scope : Nat]
    /\ stale \in BOOLEAN
    /\ {byteSize, bytes, torn} \subseteq Nat
    /\ Shaped(reader) /\ reader.ok

\* The part of it that neither Sync nor the budget gives.
Rest ==
    /\ status \in {"open", "finishing", "finished", "failed", "closed"}
    /\ current \in Samples \cup {NoSample}
    /\ {first, dropped} \subseteq Nat
    /\ lastInfo \in [update : Nat, payload : Nat, scope : Nat]
    /\ stale \in BOOLEAN

LEMMA WriteRest ==
  ASSUME Sync, Rest, NEW k \in All, WriteRecord(k)
  PROVE  Rest'
<1>1. /\ UNCHANGED <<status, current, stale>> /\ status \in {"open", "finishing"} /\ k \in due
      /\ Remember(k)
  BY DEF WriteRecord, Remember, NextDue
<1>2. Writing
  BY <1>1 DEF Writing
<1>3. Numbers /\ Plan
  BY <1>2 DEF Sync
<1>4. k \in Kinds => current \in Samples
  BY <1>1, <1>3 DEF Plan
<1>5. lastInfo' \in [update : Nat, payload : Nat, scope : Nat]
  <2>1. CASE k = "info"
    <3>1. lastInfo' = [update |-> current.update, payload |-> current.info,
                       scope |-> current.scope]
      BY <1>1, <2>1 DEF Remember
    <3>2. current.update \in Nat /\ current.info \in Nat /\ current.scope \in Nat
      BY <1>4, <2>1, CaptureAssumption DEF Kinds
    <3> QED BY <3>1, <3>2
  <2>2. CASE k # "info"
    BY <1>1, <2>2 DEF Remember, Rest
  <2> QED BY <2>1, <2>2
<1>6. first' \in Nat
  <2>1. CASE k = "frame"
    BY <1>1, <1>4, <2>1, SampleNumbers DEF Remember, Kinds, Rest
  <2>2. CASE k # "frame"
    BY <1>1, <2>2 DEF Remember, Rest
  <2> QED BY <2>1, <2>2
<1>7. dropped' \in Nat
  <2>1. CASE k = "drop"
    <3>1. k \in Kinds
      BY <2>1 DEF Kinds, Events
    <3>2. FramePlan(current)
      BY <1>1, <1>3, <3>1 DEF Plan
    <3>3. current.tick > last.tick + 1
      BY <1>1, <2>1, <3>2 DEF FramePlan, Skips
    <3>4. current.tick \in Nat /\ last.tick \in Nat
      BY <1>3, <1>4, <3>1, SampleNumbers, FrameNumbers
    <3>5. dropped' = dropped + current.tick - last.tick - 1 /\ dropped \in Nat
      BY <1>1, <2>1 DEF Remember, Rest
    <3> QED BY <3>3, <3>4, <3>5
  <2>2. CASE k # "drop"
    BY <1>1, <2>2 DEF Remember, Rest
  <2> QED BY <2>1, <2>2
<1> QED BY <1>1, <1>5, <1>6, <1>7 DEF Rest

LEMMA RestStep == Sync /\ Rest /\ Step => Rest'
<1> SUFFICES ASSUME Sync, Rest, Step PROVE Rest'
  OBVIOUS
<1>1. CASE \E s \in Samples : Ingest(s)
  <2>1. PICK s \in Samples : Ingest(s)
    BY <1>1
  <2>2. stale' \in BOOLEAN
    BY <2>1 DEF Ingest, GoneStale, StaleBefore, Rest, Silent, IsDuplicate, Timed, ClockBack
  <2> QED BY <2>1, <2>2 DEF Ingest, Rest
<1>2. CASE \E k \in Kinds \cup {"receipt"} : WriteRecord(k)
  BY <1>2, WriteRest DEF All
<1>3. CASE \E k \in Kinds \cup {"receipt"} : WriteFails(k)
  BY <1>3 DEF WriteFails, Rest, collector
<1>4. CASE Refuse \/ Finish \/ Seal \/ Close \/ Ended \/ UNCHANGED vars
  BY <1>4 DEF Refuse, Finish, Seal, Close, Ended, vars, Rest, collector
<1> QED BY <1>1, <1>2, <1>3, <1>4 DEF Step, Next

\* Every variable of the recording keeps its type: a drop only follows a gap,
\* so the count of dropped ticks is never negative.
THEOREM CaptureTypeCorrect == Spec => []CaptureTypes
<1>1. Init => Rest
  <2>1. NoInfo \in [update : Nat, payload : Nat, scope : Nat]
    BY DEF NoInfo
  <2>2. ASSUME Init PROVE Rest
    <3>1. /\ status = "open" /\ current = NoSample /\ first = 0 /\ dropped = 0
          /\ lastInfo = NoInfo
      BY <2>2 DEF Init
    <3>2. {first, dropped} \subseteq Nat
      BY <3>1
    <3>3. current \in Samples \cup {NoSample}
      BY <3>1
    <3>4. lastInfo \in [update : Nat, payload : Nat, scope : Nat]
      BY <2>1, <3>1
    <3>5. stale = FALSE
      BY <2>2 DEF Init
    <3>6. stale \in BOOLEAN
      BY <3>5, Zenon
    <3> QED BY <3>1, <3>2, <3>3, <3>4, <3>6 DEF Rest
  <2> QED BY <2>2
<1>2. Sync /\ Whole /\ Counts /\ Rest => CaptureTypes
  BY DEF Sync, Numbers, Whole, Counts, Rest, CaptureTypes
<1> QED BY <1>1, <1>2, RestStep, InitSync, StepSync, InitWhole, StepWhole, InitBudget,
       StepBudget, PTL DEF Spec, Step

----------------------------------------------------------------------------

(***************************************************************************)
(* The policy, for any keys, priorities, deadlines and length of session.  *)
(*                                                                         *)
(* SpokenOnceAndSpaced rests on Spaced: what was said is no later than the *)
(* times the cool-downs run from, older than any batch still being fed,    *)
(* and, while a batch is decided, no less urgent than what is still        *)
(* undecided: so no P0 prompt can follow a lesser one of the same time.    *)
(* SpokenOnStableRoad rests on RoadKnown: each counter is the size of the  *)
(* set of good samples its window holds.  CandidatesInForce is InForce     *)
(* between two batches.                                                    *)
(***************************************************************************)

Envelopes == [rev : Revisions, issued : Nat, until : Nat]
(* The good samples of a window.                                           *)
Supporting(since, good, upTo, shown) == {t \in since..upTo : shown[t] \in good}

(* What may be staged, and what each kind of it must say.                  *)
InputSet == [kind : {"mute_on", "mute_off", "revoke", "refresh", "envelope", "timing", "boundary",
                     "reset"},
             time : 0..MaxTime, key : Keys \cup {0}, rev : Revisions \cup {"none"},
             until : Nat, was : Envelopes \cup {None},
             sees : {"safe", "unsafe", "unstable", "none"}]

Fits(i) ==
    /\ i.kind \in {"envelope", "revoke", "refresh"} => i.key \in Keys
    /\ i.kind = "envelope" => i.rev \in Revisions
    /\ i.kind \in {"envelope", "refresh"} => i.time < i.until
    /\ i.kind = "timing" => i.sees # "none"

PolicyTypes ==
    /\ phase \in {"open", "feeding", "deciding", "failed", "finished"}
    /\ now \in -1..MaxTime
    /\ staged \in Seq(InputSet)
    /\ undecided \subseteq Keys
    /\ active \in [Keys -> Envelopes \cup {None}]
    /\ pending \in [Keys -> Envelopes \cup {None}]
    /\ muted \in BOOLEAN /\ invalidated \in BOOLEAN
    /\ lastTiming \in [time : -1..MaxTime, sees : {"safe", "unsafe", "unstable", "none"}]
    /\ qualitySince \in -1..MaxTime /\ qualityCount \in Nat
    /\ safeSince \in -1..MaxTime /\ safeCount \in Nat
    /\ lastSpeech \in -1..MaxTime /\ lastConflict \in [Keys -> -1..MaxTime]
    /\ said \subseteq [key : Keys, pri : 0..3, issued : Nat, time : 0..MaxTime]
    /\ road \in [0..MaxTime -> {"safe", "unsafe", "unstable", "cut", "none"}]

(* A batch is of one time.                                                 *)
Batched ==
    /\ \A n \in 1..Len(staged) : Fits(staged[n]) /\ staged[n].time = now
    /\ staged # <<>> => phase \in {"open", "feeding"}
    /\ staged # <<>> \/ phase \in {"feeding", "deciding"} => now \in 0..MaxTime

(* A muted candidate is left only until its batch is decided.              *)
InForce ==
    /\ \A k \in Keys : pending[k] # None => pending[k] = active[k] /\ Tactical(active[k])
    /\ \A k \in Keys : Tactical(active[k]) =>
          /\ ~invalidated
          /\ muted => /\ phase \in {"feeding", "deciding"} /\ pending[k] # None
                      /\ phase = "deciding" => k \in undecided
    /\ phase \in {"feeding", "deciding"} =>
          \A k \in Keys : active[k] # None => now < active[k].until
    /\ undecided # {} => phase = "deciding"
    /\ \A k \in undecided : pending[k] # None

Spaced ==
    /\ \A x \in said : /\ x.issued <= x.time /\ x.time <= now
                       /\ x.time <= lastSpeech /\ x.time <= lastConflict[x.key]
    /\ phase = "feeding" \/ staged # <<>> => \A x \in said : x.time < now
    /\ phase = "deciding" =>
          \A x \in said : x.time = now => \A k \in undecided : x.pri <= Pri(pending[k])
    /\ \A x \in said : pending[x.key] # None => x.issued < pending[x.key].issued
    /\ \A k \in Keys : pending[k] # None => pending[k].issued <= now

(* What a start and a count say of the road up to the last evidence.       *)
WindowAt(since, samples, good, upTo, shown) ==
    /\ since = Never => samples = 0
    /\ since # Never =>
          /\ since \in 0..upTo
          /\ {since, upTo} \subseteq Supporting(since, good, upTo, shown)
          /\ samples = Cardinality(Supporting(since, good, upTo, shown))
          /\ \A t \in since..upTo : shown[t] \in good \cup {"none"}
          /\ \A t \in Supporting(since, good, upTo, shown) \ {upTo} :
                \E u \in Supporting(since, good, upTo, shown) : t < u /\ u - t <= MaxGap

RoadKnown ==
    /\ lastTiming.time <= now
    /\ \A t \in 0..MaxTime :
          now < t \/ (lastTiming.time # Never /\ lastTiming.time < t) => road[t] = "none"
    /\ WindowAt(qualitySince, qualityCount, {"safe", "unsafe"}, lastTiming.time, road)
    /\ WindowAt(safeSince, safeCount, {"safe"}, lastTiming.time, road)

PolicyInv == Batched /\ InForce /\ Spaced /\ SpokenOnceAndSpaced /\ RoadKnown

(* The least-number principle, for the sets a CHOOSE picks a minimum from. *)
(* Were there no least element, what lies below all of S would be a finite *)
(* set that n |-> n + 1 maps into itself without its 0.                    *)
LEMMA LeastNatural ==
    ASSUME NEW S \in SUBSET Nat, S # {}
    PROVE  \E n \in S : \A m \in S : n <= m
  <1> SUFFICES ASSUME \A n \in S : \E m \in S : m < n PROVE FALSE
    OBVIOUS
  <1>1. PICK k \in S : TRUE
    OBVIOUS
  <1> DEFINE Below == {x \in 0..k : \A m \in S : x < m}
  <1>2. k \in Nat /\ 0 \in Below
    OBVIOUS
  <1>3. ASSUME NEW x \in Below PROVE x + 1 \in Below \ {0}
    <2>1. x \in Nat /\ \A m \in S : m \in Nat /\ x < m
      OBVIOUS
    <2>2. x + 1 \notin S
      BY <2>1
    <2>3. \A m \in S : x + 1 < m
      BY <2>1, <2>2
    <2> QED BY <1>1, <1>2, <2>1, <2>3
  <1>4. IsFiniteSet(Below) /\ IsFiniteSet(Below \ {0})
        /\ Cardinality(Below \ {0}) = Cardinality(Below) - 1
    <2>1. IsFiniteSet(0..k)
      BY <1>2, FS_Interval
    <2>2. IsFiniteSet(Below)
      BY <2>1, FS_Subset
    <2> QED BY <1>2, <2>2, FS_RemoveElement
  <1>5. Cardinality(Below \ {0}) < Cardinality(Below)
    BY <1>4, FS_CardinalityType
  <1> DEFINE next == [x \in Below |-> x + 1]
  <1>6. next \in [Below -> Below \ {0}]
    BY <1>3
  <1>7. \E x, y \in Below : x # y /\ next[x] = next[y]
    <2> HIDE DEF Below, next
    <2> QED BY <1>4, <1>5, <1>6, FS_PigeonHole
  <1> QED BY <1>7

LEMMA NoneIsNoEnvelope == \A e \in Envelopes : e # None /\ e.rev \in Revisions
  BY PolicyAssumption DEF Envelopes, None

LEMMA Priorities == \A r \in Revisions : Priority[r] \in 0..3
  BY PolicyAssumption

(* Whatever is staged is an input of its time, wherever it is put.         *)
LEMMA InputsFit ==
    ASSUME PolicyTypes, NEW t \in 0..MaxTime, NEW i \in Inputs(t)
    PROVE  i \in InputSet /\ Fits(i) /\ i.time = t
  <1>1. /\ t \in Nat /\ Lives \subseteq Nat \ {0}
        /\ \A k \in Keys : Contents[k] \subseteq Revisions /\ active[k] \in Envelopes \cup {None}
    BY PolicyAssumption DEF PolicyTypes
  <1> DEFINE shape(kind, k, r, u, w, x) ==
               [kind |-> kind, time |-> t, key |-> k, rev |-> r, until |-> u, was |-> w, sees |-> x]
             fits(kind, k, r, u, x) ==
               /\ kind \in {"envelope", "revoke", "refresh"} => k \in Keys
               /\ kind = "envelope" => r \in Revisions
               /\ kind \in {"envelope", "refresh"} => t < u
               /\ kind = "timing" => x # "none"
  <1>2. ASSUME NEW kind \in {"mute_on", "mute_off", "revoke", "refresh", "envelope", "timing",
                             "boundary", "reset"},
               NEW k \in Keys \cup {0}, NEW r \in Revisions \cup {"none"}, NEW u \in Nat,
               NEW w \in Envelopes \cup {None}, NEW x \in {"safe", "unsafe", "unstable", "none"},
               fits(kind, k, r, u, x), i = shape(kind, k, r, u, w, x)
        PROVE  i \in InputSet /\ Fits(i) /\ i.time = t
    <2>1. i \in InputSet
      BY <1>2 DEF InputSet
    <2>2. i.kind = kind /\ i.time = t /\ i.key = k /\ i.rev = r /\ i.until = u /\ i.sees = x
      BY <1>2
    <2> QED BY <1>2, <2>1, <2>2 DEF Fits
  <1> HIDE DEF fits
  <1>3. ASSUME NEW x \in {"mute_on", "mute_off", "boundary", "reset"}, i = Input(x, t)
        PROVE  i \in InputSet /\ Fits(i) /\ i.time = t
    <2>1. i = shape(x, 0, "none", 0, None, "none") /\ fits(x, 0, "none", 0, "none")
      BY <1>3 DEF Input, fits
    <2> QED BY <1>2, <2>1
  <1>4. ASSUME NEW x \in {"safe", "unsafe", "unstable"},
               i = [Input("timing", t) EXCEPT !.sees = x]
        PROVE  i \in InputSet /\ Fits(i) /\ i.time = t
    <2>1. i = shape("timing", 0, "none", 0, None, x) /\ fits("timing", 0, "none", 0, x)
      BY <1>4 DEF Input, fits
    <2> QED BY <1>2, <2>1
  <1>5. ASSUME NEW k \in Keys, NEW r \in Contents[k], NEW l \in Lives, NEW w \in {None, active[k]},
               i = [Input("envelope", t) EXCEPT !.key = k, !.rev = r, !.until = t + l, !.was = w]
        PROVE  i \in InputSet /\ Fits(i) /\ i.time = t
    <2>1. w \in Envelopes \cup {None} /\ r \in Revisions /\ t + l \in Nat /\ t < t + l
      BY <1>1
    <2>2. i = shape("envelope", k, r, t + l, w, "none") /\ fits("envelope", k, r, t + l, "none")
      BY <1>5, <2>1 DEF Input, fits
    <2> QED BY <1>2, <2>1, <2>2
  <1>6. ASSUME NEW k \in Keys, NEW r \in Contents[k],
               i = [Input("revoke", t) EXCEPT !.key = k, !.rev = r]
        PROVE  i \in InputSet /\ Fits(i) /\ i.time = t
    <2>1. r \in Revisions
      BY <1>1
    <2>2. i = shape("revoke", k, r, 0, None, "none") /\ fits("revoke", k, r, 0, "none")
      BY <1>6, <2>1 DEF Input, fits
    <2> QED BY <1>2, <2>1, <2>2
  <1>7. ASSUME NEW k \in Keys, NEW l \in Lives,
               i = [Input("refresh", t) EXCEPT !.key = k, !.was = active[k], !.until = t + l]
        PROVE  i \in InputSet /\ Fits(i) /\ i.time = t
    <2>1. active[k] \in Envelopes \cup {None} /\ t + l \in Nat /\ t < t + l
      BY <1>1
    <2>2. i = shape("refresh", k, "none", t + l, active[k], "none")
          /\ fits("refresh", k, "none", t + l, "none")
      BY <1>7, <2>1 DEF Input, fits
    <2> QED BY <1>2, <2>1, <2>2
  <1> HIDE DEF shape
  <1> DEFINE plain == {Input(x, t) : x \in {"mute_on", "mute_off", "boundary", "reset"}}
             sight == {[Input("timing", t) EXCEPT !.sees = x] :
                          x \in {"safe", "unsafe", "unstable"}}
             offers(k) ==
               {[Input("envelope", t) EXCEPT !.key = k, !.rev = c[1], !.until = t + c[2],
                                             !.was = c[3]] :
                   c \in Contents[k] \X Lives \X {None, active[k]}}
             revokes(k) == {[Input("revoke", t) EXCEPT !.key = k, !.rev = r] : r \in Contents[k]}
             renews(k) ==
               {[Input("refresh", t) EXCEPT !.key = k, !.was = active[k], !.until = t + l] :
                   l \in Lives}
  <1>8. i \in plain \cup sight \cup UNION {offers(k) \cup revokes(k) \cup renews(k) : k \in Keys}
    BY DEF Inputs
  <1>9. CASE i \in plain
    BY <1>3, <1>9
  <1>10. CASE i \in sight
    BY <1>4, <1>10
  <1>11. ASSUME NEW k \in Keys, i \in offers(k) PROVE i \in InputSet /\ Fits(i) /\ i.time = t
    <2>1. PICK c \in Contents[k] \X Lives \X {None, active[k]} :
              i = [Input("envelope", t) EXCEPT !.key = k, !.rev = c[1], !.until = t + c[2],
                                               !.was = c[3]]
      BY <1>11
    <2>2. c[1] \in Contents[k] /\ c[2] \in Lives /\ c[3] \in {None, active[k]}
      OBVIOUS
    <2> QED BY <1>5, <2>1, <2>2
  <1>12. ASSUME NEW k \in Keys, i \in revokes(k) PROVE i \in InputSet /\ Fits(i) /\ i.time = t
    BY <1>6, <1>12
  <1>13. ASSUME NEW k \in Keys, i \in renews(k) PROVE i \in InputSet /\ Fits(i) /\ i.time = t
    BY <1>7, <1>13
  <1> HIDE DEF plain, sight, offers, revokes, renews
  <1> QED BY <1>8, <1>9, <1>10, <1>11, <1>12, <1>13

LEMMA InsertKeeps ==
    ASSUME NEW b \in Seq(InputSet), NEW i \in InputSet
    PROVE  /\ Insert(b, i) \in Seq(InputSet) /\ Insert(b, i) # <<>>
           /\ \A n \in 1..Len(Insert(b, i)) :
                 Insert(b, i)[n] = i \/ \E m \in 1..Len(b) : Insert(b, i)[n] = b[m]
  <1> DEFINE later == {n \in DOMAIN b : Before(i, b[n])}
             at == IF later = {} THEN Len(b) + 1
                   ELSE CHOOSE n \in later : \A m \in later : n <= m
             result == [n \in 1..(Len(b) + 1) |->
                           IF n < at THEN b[n] ELSE IF n = at THEN i ELSE b[n - 1]]
  <1>1. Len(b) \in Nat /\ DOMAIN b = 1..Len(b) /\ \A n \in 1..Len(b) : b[n] \in InputSet
    OBVIOUS
  <1>2. at \in 1..(Len(b) + 1)
    <2>1. later \in SUBSET Nat /\ later \subseteq 1..Len(b)
      BY <1>1
    <2> HIDE DEF later
    <2>2. CASE later # {}
      <3>1. \E n \in later : \A m \in later : n <= m
        BY <2>1, <2>2, LeastNatural
      <3>2. at \in later
        BY <2>2, <3>1
      <3> HIDE DEF at
      <3> QED BY <1>1, <2>1, <3>2
    <2> QED BY <1>1, <2>2
  <1> HIDE DEF at
  <1>3. \A n \in 1..(Len(b) + 1) : result[n] = i \/ \E m \in 1..Len(b) : result[n] = b[m]
    <2> SUFFICES ASSUME NEW n \in 1..(Len(b) + 1)
                 PROVE  result[n] = i \/ \E m \in 1..Len(b) : result[n] = b[m]
      OBVIOUS
    <2>1. CASE n < at
      <3>1. n \in 1..Len(b) /\ result[n] = b[n]
        BY <1>1, <1>2, <2>1
      <3> QED BY <3>1
    <2>2. CASE n > at
      <3>1. n - 1 \in 1..Len(b) /\ result[n] = b[n - 1]
        BY <1>1, <1>2, <2>2
      <3> QED BY <3>1
    <2>3. CASE n = at
      BY <2>3
    <2> QED BY <1>1, <1>2, <2>1, <2>2, <2>3
  <1>4. \A n \in 1..(Len(b) + 1) : result[n] \in InputSet
    BY <1>1, <1>3
  <1>5. result \in Seq(InputSet) /\ Len(result) = Len(b) + 1
    BY <1>1, <1>4
  <1>6. result = Insert(b, i)
    BY DEF Insert, at
  <1> HIDE DEF result
  <1> QED BY <1>1, <1>3, <1>5, <1>6

----------------------------------------------------------------------------
(* What a step may be, outcome by outcome.                                 *)

Pruned ==
    /\ phase = "open" /\ staged # <<>> /\ phase' = "feeding" /\ ExpireDue
    /\ UNCHANGED <<now, staged, undecided, muted, invalidated, stability, spoken, road>>

Ignored ==
    /\ phase = "feeding" /\ staged # <<>> /\ Done
    /\ UNCHANGED <<candidates, muted, invalidated, stability, road>>

Refreshed ==
    LET i == Head(staged)
        new == [active[i.key] EXCEPT !.until = i.until]
    IN  /\ Take({"refresh"}) /\ Done
        /\ ~invalidated /\ active[i.key] # None
        /\ active' = [active EXCEPT ![i.key] = new]
        /\ pending' = [pending EXCEPT ![i.key] = AlsoPending(i.key, new)]
        /\ UNCHANGED <<muted, invalidated, stability, road>>

Replaced ==
    LET i == Head(staged)
        new == [rev |-> i.rev, issued |-> i.time, until |-> i.until]
    IN  /\ Take({"envelope"}) /\ Done
        /\ ~invalidated
        /\ active' = [active EXCEPT ![i.key] = new]
        /\ pending' = [pending EXCEPT ![i.key] = IF Tactical(new) THEN new ELSE None]
        /\ UNCHANGED <<muted, invalidated, stability, road>>

Doubted ==
    /\ phase = "feeding" /\ staged # <<>> /\ Done
    /\ ClearTactical
    /\ UNCHANGED <<muted, invalidated, stability, road>>

Window(good, since, samples, sees) ==
    IF sees \in good
    THEN << Since(IF Gap(now) THEN Never ELSE since, now), (IF Gap(now) THEN 0 ELSE samples) + 1 >>
    ELSE << Never, 0 >>

Observed ==
    LET i == Head(staged) IN
    /\ Take({"timing"}) /\ Done
    /\ UNCHANGED <<muted, invalidated>>
    /\ lastTiming.time # i.time
    /\ lastTiming' = [time |-> i.time, sees |-> i.sees]
    /\ road' = [road EXCEPT ![i.time] = i.sees]
    /\ ClearTactical \/ UNCHANGED candidates
    /\ <<qualitySince', qualityCount'>> =
          Window({"safe", "unsafe"}, qualitySince, qualityCount, i.sees)
    /\ <<safeSince', safeCount'>> = Window({"safe"}, safeSince, safeCount, i.sees)

LEMMA StepCases ==
    ASSUME PolicyTypes, Batched, [PolicyNext]_policyVars
    PROVE  \/ UNCHANGED policyVars \/ FailClosed
           \/ \E t \in 0..MaxTime : \E i \in Inputs(t) : Stage(i)
           \/ Pruned \/ FeedMute \/ FeedRevocation \/ Refreshed \/ Replaced \/ Ignored
           \/ Doubted \/ Observed \/ FeedBoundary \/ Fed \/ Decided
           \/ \E k \in Keys : DropMuted(k) \/ Hold(k) \/ Speak(k)
  <1>1. CASE Reject
    BY <1>1 DEF Reject
  <1>2. CASE Flush
    BY <1>2 DEF Flush, Pruned
  <1>3. CASE Spent
    BY <1>3 DEF Spent
  <1>4. CASE FeedRefresh
    BY <1>4 DEF FeedRefresh, Refreshed
  <1>5. CASE FeedEnvelope
    BY <1>5 DEF FeedEnvelope, Ignored, Replaced, Take
  <1>6. CASE FeedTiming
    <2> DEFINE i == Head(staged)
    <2>0. Take({"timing"}) /\ i.time = now /\ i.sees \in {"safe", "unsafe", "unstable"}
      <3>1. Take({"timing"})
        BY <1>6 DEF FeedTiming
      <3>2. staged # <<>> /\ staged \in Seq(InputSet) /\ i.kind = "timing"
        BY <3>1 DEF Take, PolicyTypes
      <3>3. i \in InputSet /\ i = staged[1] /\ 1 \in 1..Len(staged)
        BY <3>2
      <3>4. Fits(i) /\ i.time = now
        BY <3>3 DEF Batched
      <3> QED BY <3>1, <3>2, <3>3, <3>4 DEF Fits, InputSet
    <2>1. CASE FailClosed
      BY <2>1
    <2>2. CASE ~FailClosed /\ invalidated
      <3>1. Doubted
        BY <1>6, <2>2 DEF FeedTiming, Doubted, Take
      <3> QED BY <3>1
    <2>3. CASE ~FailClosed /\ ~invalidated /\ lastTiming.time = i.time
      <3>1. Ignored
        BY <1>6, <2>3 DEF FeedTiming, Ignored, Take
      <3> QED BY <3>1
    <2>4. CASE ~FailClosed /\ ~invalidated /\ lastTiming.time # i.time
      <3>1. /\ Done /\ UNCHANGED <<muted, invalidated>>
            /\ lastTiming' = [time |-> i.time, sees |-> i.sees]
            /\ road' = [road EXCEPT ![i.time] = i.sees]
            /\ ClearTactical \/ UNCHANGED candidates
        BY <1>6, <2>4 DEF FeedTiming
      <3>2. /\ i.sees = "unstable" => qualitySince' = Never /\ qualityCount' = 0
            /\ i.sees # "unstable" =>
                 /\ qualitySince' = Since(IF Gap(i.time) THEN Never ELSE qualitySince, i.time)
                 /\ qualityCount' = (IF Gap(i.time) THEN 0 ELSE qualityCount) + 1
            /\ i.sees = "safe" =>
                 /\ safeSince' = Since(IF Gap(i.time) THEN Never ELSE safeSince, i.time)
                 /\ safeCount' = (IF Gap(i.time) THEN 0 ELSE safeCount) + 1
            /\ i.sees # "safe" => safeSince' = Never /\ safeCount' = 0
        BY <1>6, <2>4 DEF FeedTiming
      <3>3. <<qualitySince', qualityCount'>> =
                Window({"safe", "unsafe"}, qualitySince, qualityCount, i.sees)
        BY <2>0, <3>2 DEF Window
      <3>4. <<safeSince', safeCount'>> = Window({"safe"}, safeSince, safeCount, i.sees)
        BY <2>0, <3>2 DEF Window
      <3>5. Observed
        BY <2>0, <2>4, <3>1, <3>3, <3>4 DEF Observed
      <3> QED BY <3>5
    <2> QED BY <2>1, <2>2, <2>3, <2>4
  <1> QED BY <1>1, <1>2, <1>3, <1>4, <1>5, <1>6, Zenon DEF PolicyNext, Process

----------------------------------------------------------------------------
(* Types and batches.                                                      *)

LEMMA PolicyInitTypes == PolicyInit => PolicyTypes /\ Batched
  <1> SUFFICES ASSUME PolicyInit PROVE PolicyTypes /\ Batched
    OBVIOUS
  <1>1. staged = <<>> /\ Len(staged) = 0 /\ staged \in Seq(InputSet)
    BY DEF PolicyInit
  <1>2. MaxTime \in Nat
    BY PolicyAssumption
  <1>3. PolicyTypes
    <2>1. -1 \in -1..MaxTime
      BY <1>2
    <2>2. /\ active \in [Keys -> Envelopes \cup {None}]
          /\ pending \in [Keys -> Envelopes \cup {None}]
          /\ muted \in BOOLEAN /\ invalidated \in BOOLEAN
      BY DEF PolicyInit
    <2>3. now = -1 /\ qualitySince = -1 /\ safeSince = -1 /\ lastSpeech = -1
      BY DEF PolicyInit, Never
    <2>4. lastTiming \in [time : -1..MaxTime, sees : {"safe", "unsafe", "unstable", "none"}]
      BY <2>1 DEF PolicyInit, Never, NoEvidence
    <2>5. lastConflict \in [Keys -> -1..MaxTime]
      BY <2>1 DEF PolicyInit, Never
    <2>6. road \in [0..MaxTime -> {"safe", "unsafe", "unstable", "cut", "none"}]
      BY DEF PolicyInit
    <2> QED BY <1>1, <2>1, <2>2, <2>3, <2>4, <2>5, <2>6 DEF PolicyInit, PolicyTypes
  <1>4. Batched
    BY <1>1 DEF Batched, PolicyInit
  <1> QED BY <1>3, <1>4

(* The input that is processed next, and what is left after it.            *)
LEMMA HeadFits ==
    ASSUME PolicyTypes, Batched, staged # <<>>
    PROVE  /\ Head(staged) \in InputSet /\ Fits(Head(staged)) /\ Head(staged).time = now
           /\ now \in 0..MaxTime /\ now \in Nat
           /\ Tail(staged) \in Seq(InputSet)
           /\ \A n \in 1..Len(Tail(staged)) : \E m \in 1..Len(staged) : Tail(staged)[n] = staged[m]
  <1>1. staged \in Seq(InputSet) /\ Head(staged) = staged[1] /\ 1 \in 1..Len(staged)
    BY DEF PolicyTypes
  <1>2. Head(staged) \in InputSet /\ Tail(staged) \in Seq(InputSet)
    BY <1>1
  <1>3. \A n \in 1..Len(Tail(staged)) : n + 1 \in 1..Len(staged) /\ Tail(staged)[n] = staged[n + 1]
    BY <1>1
  <1>4. now \in 0..MaxTime /\ now \in Nat
    BY PolicyAssumption DEF Batched
  <1> QED BY <1>1, <1>2, <1>3, <1>4 DEF Batched

LEMMA ClearKeepsTypes ==
    ASSUME PolicyTypes, ClearTactical
    PROVE  /\ active' \in [Keys -> Envelopes \cup {None}]
           /\ pending' \in [Keys -> Envelopes \cup {None}]
  BY DEF PolicyTypes, ClearTactical

(* What a refreshed and a new envelope look like.                          *)
LEMMA RefreshedEnvelope ==
    ASSUME PolicyTypes, Batched, Refreshed
    PROVE  LET k == Head(staged).key IN
           /\ k \in Keys /\ active[k] \in Envelopes
           /\ active'[k] \in Envelopes /\ active'[k].rev = active[k].rev
           /\ active'[k].issued = active[k].issued /\ now < active'[k].until
           /\ pending'[k] = IF pending[k] = None THEN None ELSE active'[k]
           /\ \A j \in Keys \ {k} : active'[j] = active[j] /\ pending'[j] = pending[j]
           /\ active' \in [Keys -> Envelopes \cup {None}]
           /\ pending' \in [Keys -> Envelopes \cup {None}]
  <1> DEFINE i == Head(staged)
             k == i.key
             new == [active[k] EXCEPT !.until = i.until]
  <1>1. staged # <<>> /\ i.kind = "refresh" /\ active[k] # None
    BY DEF Refreshed, Take
  <1>2. i \in InputSet /\ Fits(i) /\ i.time = now
    BY <1>1, HeadFits
  <1>3. k \in Keys /\ now < i.until /\ i.until \in Nat
    BY <1>1, <1>2 DEF Fits, InputSet
  <1>4. active[k] \in Envelopes
    BY <1>1, <1>3 DEF PolicyTypes
  <1>5. /\ new \in Envelopes /\ new.rev = active[k].rev /\ new.issued = active[k].issued
        /\ new.until = i.until
    BY <1>3, <1>4 DEF Envelopes
  <1>6. /\ active' = [active EXCEPT ![k] = new]
        /\ pending' = [pending EXCEPT ![k] = IF pending[k] = None THEN None ELSE new]
    BY DEF Refreshed, AlsoPending
  <1>7. active \in [Keys -> Envelopes \cup {None}] /\ pending \in [Keys -> Envelopes \cup {None}]
    BY DEF PolicyTypes
  <1> HIDE DEF new, i
  <1> QED BY <1>3, <1>4, <1>5, <1>6, <1>7 DEF i

LEMMA ReplacedEnvelope ==
    ASSUME PolicyTypes, Batched, Replaced
    PROVE  LET k == Head(staged).key IN
           /\ k \in Keys /\ active'[k] \in Envelopes
           /\ active'[k].issued = now /\ now < active'[k].until
           /\ pending'[k] = IF Tactical(active'[k]) THEN active'[k] ELSE None
           /\ \A j \in Keys \ {k} : active'[j] = active[j] /\ pending'[j] = pending[j]
           /\ active' \in [Keys -> Envelopes \cup {None}]
           /\ pending' \in [Keys -> Envelopes \cup {None}]
  <1> DEFINE i == Head(staged)
             k == i.key
             new == [rev |-> i.rev, issued |-> i.time, until |-> i.until]
  <1>1. staged # <<>> /\ i.kind = "envelope"
    BY DEF Replaced, Take
  <1>2. i \in InputSet /\ Fits(i) /\ i.time = now /\ now \in Nat
    BY <1>1, HeadFits
  <1>3. k \in Keys /\ i.rev \in Revisions /\ now < i.until /\ i.until \in Nat
    BY <1>1, <1>2 DEF Fits, InputSet
  <1>4. new \in Envelopes /\ new.issued = now /\ new.until = i.until
    BY <1>2, <1>3 DEF Envelopes
  <1>5. /\ active' = [active EXCEPT ![k] = new]
        /\ pending' = [pending EXCEPT ![k] = IF Tactical(new) THEN new ELSE None]
    BY DEF Replaced
  <1>6. active \in [Keys -> Envelopes \cup {None}] /\ pending \in [Keys -> Envelopes \cup {None}]
    BY DEF PolicyTypes
  <1> HIDE DEF new, i
  <1> QED BY <1>3, <1>4, <1>5, <1>6 DEF i

LEMMA WindowTypes ==
    ASSUME NEW good, NEW since \in -1..MaxTime, NEW samples \in Nat, NEW sees, now \in 0..MaxTime
    PROVE  Window(good, since, samples, sees) \in (-1..MaxTime) \X Nat
  <1>1. MaxTime \in Nat
    BY PolicyAssumption
  <1>2. \A x \in -1..MaxTime : Since(x, now) \in -1..MaxTime
    BY DEF Since
  <1> QED BY <1>1, <1>2 DEF Window, Never

LEMMA TypesStep ==
    ASSUME PolicyTypes, Batched, InForce, [PolicyNext]_policyVars PROVE PolicyTypes'
  <1>0. MaxTime \in Nat
    BY PolicyAssumption
  <1> USE DEF PolicyTypes
  <1>1. CASE UNCHANGED policyVars
    BY <1>1 DEF policyVars, candidates, stability, spoken
  <1>2. CASE FailClosed
    <2>1. /\ active' \in [Keys -> Envelopes \cup {None}]
          /\ pending' \in [Keys -> Envelopes \cup {None}]
      BY <1>2, ClearKeepsTypes DEF FailClosed
    <2>2. /\ lastTiming' \in [time : -1..MaxTime, sees : {"safe", "unsafe", "unstable", "none"}]
          /\ qualitySince' \in -1..MaxTime /\ qualityCount' \in Nat
          /\ safeSince' \in -1..MaxTime /\ safeCount' \in Nat
      BY <1>0, <1>2 DEF FailClosed, ResetStability, NoEvidence, Never
    <2>3. staged' \in Seq(InputSet) /\ undecided' \subseteq Keys
      BY <1>2 DEF FailClosed
    <2> QED BY <1>2, <2>1, <2>2, <2>3 DEF FailClosed, spoken
  <1>3. ASSUME NEW t \in 0..MaxTime, NEW i \in Inputs(t), Stage(i) PROVE PolicyTypes'
    <2>1. i \in InputSet /\ i.time = t
      BY InputsFit
    <2>2. staged' \in Seq(InputSet)
      BY <1>3, <2>1, InsertKeeps DEF Stage
    <2>3. now' \in -1..MaxTime
      BY <1>0, <1>3, <2>1 DEF Stage
    <2> QED BY <1>3, <2>2, <2>3 DEF Stage, candidates, stability, spoken
  <1>4. CASE Pruned
    <2>1. /\ active' \in [Keys -> Envelopes \cup {None}]
          /\ pending' \in [Keys -> Envelopes \cup {None}]
      BY <1>4 DEF Pruned, ExpireDue
    <2> QED BY <1>4, <2>1 DEF Pruned, stability, spoken
  <1>5. ASSUME staged # <<>>, Done PROVE staged' \in Seq(InputSet)
    BY <1>5, HeadFits DEF Done
  <1>6. CASE FeedMute
    <2>1. staged # <<>> /\ Done
      BY <1>6 DEF FeedMute, Take
    <2>2. /\ active' \in [Keys -> Envelopes \cup {None}]
          /\ pending' \in [Keys -> Envelopes \cup {None}]
      <3>1. CASE UNCHANGED candidates
        BY <3>1 DEF candidates
      <3> QED BY <1>6, <3>1, ClearKeepsTypes DEF FeedMute
    <2>3. muted' \in BOOLEAN
      BY <1>6, Zenon DEF FeedMute
    <2> QED BY <1>5, <1>6, <2>1, <2>2, <2>3 DEF FeedMute, Done, stability, spoken
  <1>7. CASE FeedRevocation
    <2>1. staged # <<>> /\ Done
      BY <1>7 DEF FeedRevocation, Take
    <2>2. /\ active' \in [Keys -> Envelopes \cup {None}]
          /\ pending' \in [Keys -> Envelopes \cup {None}]
      BY <1>7 DEF FeedRevocation, Withdraw, candidates
    <2> QED BY <1>5, <1>7, <2>1, <2>2 DEF FeedRevocation, Done, stability, spoken
  <1>8. CASE Refreshed
    <2>1. staged # <<>> /\ Done
      BY <1>8 DEF Refreshed, Take
    <2>2. /\ active' \in [Keys -> Envelopes \cup {None}]
          /\ pending' \in [Keys -> Envelopes \cup {None}]
      BY <1>8, RefreshedEnvelope
    <2> QED BY <1>5, <1>8, <2>1, <2>2 DEF Refreshed, Done, stability, spoken
  <1>9. CASE Replaced
    <2>1. staged # <<>> /\ Done
      BY <1>9 DEF Replaced, Take
    <2>2. /\ active' \in [Keys -> Envelopes \cup {None}]
          /\ pending' \in [Keys -> Envelopes \cup {None}]
      BY <1>9, ReplacedEnvelope
    <2> QED BY <1>5, <1>9, <2>1, <2>2 DEF Replaced, Done, stability, spoken
  <1>10. CASE Ignored
    BY <1>5, <1>10 DEF Ignored, Done, candidates, stability, spoken
  <1>11. CASE Doubted
    BY <1>5, <1>11, ClearKeepsTypes DEF Doubted, Done, stability, spoken
  <1>12. CASE Observed
    <2>1. staged # <<>> /\ Done /\ Head(staged).kind = "timing"
      BY <1>12 DEF Observed, Take
    <2>2. /\ Head(staged).time = now /\ now \in 0..MaxTime /\ now \in -1..MaxTime
          /\ Head(staged).sees \in {"safe", "unsafe", "unstable"}
      BY <1>0, <2>1, HeadFits DEF Fits, InputSet
    <2>3. /\ active' \in [Keys -> Envelopes \cup {None}]
          /\ pending' \in [Keys -> Envelopes \cup {None}]
      BY <1>12, ClearKeepsTypes DEF Observed, candidates
    <2>4. /\ qualitySince' \in -1..MaxTime /\ qualityCount' \in Nat
          /\ safeSince' \in -1..MaxTime /\ safeCount' \in Nat
      <3>1. <<qualitySince', qualityCount'>> \in (-1..MaxTime) \X Nat
        BY <1>12, <2>2, WindowTypes DEF Observed
      <3>2. <<safeSince', safeCount'>> \in (-1..MaxTime) \X Nat
        BY <1>12, <2>2, WindowTypes DEF Observed
      <3> QED BY <3>1, <3>2
    <2>5. /\ lastTiming' \in [time : -1..MaxTime, sees : {"safe", "unsafe", "unstable", "none"}]
          /\ road' \in [0..MaxTime -> {"safe", "unsafe", "unstable", "cut", "none"}]
      BY <1>12, <2>2 DEF Observed
    <2> QED BY <1>5, <1>12, <2>1, <2>3, <2>4, <2>5 DEF Observed, Done, spoken
  <1>13. CASE FeedBoundary
    <2>1. staged # <<>> /\ Done /\ now \in 0..MaxTime
      BY <1>13, HeadFits DEF FeedBoundary, Take
    <2>2. /\ active' \in [Keys -> Envelopes \cup {None}]
          /\ pending' \in [Keys -> Envelopes \cup {None}]
      BY <1>13, ClearKeepsTypes DEF FeedBoundary
    <2>3. /\ lastTiming' \in [time : -1..MaxTime, sees : {"safe", "unsafe", "unstable", "none"}]
          /\ qualitySince' \in -1..MaxTime /\ qualityCount' \in Nat
          /\ safeSince' \in -1..MaxTime /\ safeCount' \in Nat
      BY <1>0, <1>13 DEF FeedBoundary, ResetStability, NoEvidence, Never
    <2>4. invalidated' \in BOOLEAN
      BY <1>13, Zenon DEF FeedBoundary
    <2>5. road' \in [0..MaxTime -> {"safe", "unsafe", "unstable", "cut", "none"}]
      BY <1>13, <2>1 DEF FeedBoundary
    <2> QED BY <1>5, <1>13, <2>1, <2>2, <2>3, <2>4, <2>5 DEF FeedBoundary, Done, spoken
  <1>14. CASE Fed
    BY <1>14 DEF Fed, candidates, stability, spoken
  <1>15. CASE Decided
    BY <1>15 DEF Decided, candidates, stability, spoken
  <1>16. ASSUME NEW k \in Keys, Evaluate(k),
                \/ Withdraw(k) /\ UNCHANGED spoken
                \/ UNCHANGED <<candidates, spoken>>
         PROVE  PolicyTypes'
    <2>1. /\ active' \in [Keys -> Envelopes \cup {None}]
          /\ pending' \in [Keys -> Envelopes \cup {None}]
      BY <1>16 DEF Withdraw, candidates
    <2>2. UNCHANGED spoken
      BY <1>16
    <2> QED BY <1>16, <2>1, <2>2 DEF Evaluate, stability, spoken
  <1>17. ASSUME NEW k \in Keys, Speak(k) PROVE PolicyTypes'
    <2>1. now \in 0..MaxTime
      BY <1>17 DEF Speak, Evaluate, Batched
    <2>2. pending' \in [Keys -> Envelopes \cup {None}] /\ active' = active
      BY <1>17 DEF Speak
    <2>3. lastSpeech' \in -1..MaxTime /\ lastConflict' \in [Keys -> -1..MaxTime]
      BY <1>0, <1>17, <2>1 DEF Speak, Heard
    <2>4. said' \subseteq [key : Keys, pri : 0..3, issued : Nat, time : 0..MaxTime]
      <3>1. pending[k] \in Envelopes
        BY <1>17 DEF Speak, Evaluate, InForce
      <3>2. Pri(pending[k]) \in 0..3 /\ pending[k].issued \in Nat
        BY <3>1, Priorities DEF Pri, Envelopes
      <3> QED BY <1>17, <2>1, <3>2 DEF Speak
    <2> QED BY <1>17, <2>2, <2>3, <2>4 DEF Speak, Evaluate, stability
  <1>18. ASSUME NEW k \in Keys, DropMuted(k) \/ Hold(k) PROVE PolicyTypes'
    BY <1>16, <1>18 DEF DropMuted, Hold
  <1> QED BY <1>1, <1>2, <1>3, <1>4, <1>6, <1>7, <1>8, <1>9, <1>10, <1>11, <1>12, <1>13, <1>14,
             <1>15, <1>17, <1>18, StepCases

LEMMA BatchedStep ==
    ASSUME PolicyTypes, Batched, InForce, [PolicyNext]_policyVars PROVE Batched'
  <1>1. CASE UNCHANGED policyVars
    BY <1>1 DEF policyVars, Batched
  <1>2. CASE staged' = <<>> /\ (phase' \in {"feeding", "deciding"} => now' \in 0..MaxTime)
    BY <1>2 DEF Batched
  <1>3. CASE FailClosed
    BY <1>2, <1>3 DEF FailClosed
  <1>4. ASSUME NEW t \in 0..MaxTime, NEW i \in Inputs(t), Stage(i) PROVE Batched'
    <2>1. i \in InputSet /\ i.time = t /\ Fits(i)
      BY InputsFit
    <2>2. /\ \A n \in 1..Len(staged') :
                staged'[n] = i \/ \E m \in 1..Len(staged) : staged'[n] = staged[m]
          /\ staged' # <<>>
      <3>1. staged \in Seq(InputSet) /\ staged' = Insert(staged, i)
        BY <1>4 DEF Stage, PolicyTypes
      <3>2. /\ Insert(staged, i) # <<>>
            /\ \A n \in 1..Len(Insert(staged, i)) :
                  \/ Insert(staged, i)[n] = i
                  \/ \E m \in 1..Len(staged) : Insert(staged, i)[n] = staged[m]
        BY <2>1, <3>1, InsertKeeps
      <3> QED BY <3>1, <3>2, Zenon
    <2>3. now' = t /\ (staged # <<>> => now = t) /\ phase' = "open"
      BY <1>4, <2>1 DEF Stage
    <2>4. \A m \in 1..Len(staged) : Fits(staged[m]) /\ staged[m].time = t
      BY <2>3 DEF Batched
    <2> QED BY <2>1, <2>2, <2>3, <2>4 DEF Batched
  <1>5. CASE staged # <<>> /\ Done /\ phase = "feeding"
    <2>1. /\ now \in 0..MaxTime /\ staged' = Tail(staged) /\ UNCHANGED <<phase, now>>
          /\ \A n \in 1..Len(staged') : \E m \in 1..Len(staged) : staged'[n] = staged[m]
      BY <1>5, HeadFits DEF Done
    <2> QED BY <1>5, <2>1 DEF Batched
  <1>6. CASE FeedMute \/ FeedRevocation \/ Refreshed \/ Replaced \/ Ignored \/ Doubted \/ Observed
             \/ FeedBoundary
    BY <1>5, <1>6 DEF FeedMute, FeedRevocation, Refreshed, Replaced, Ignored, Doubted, Observed,
                      FeedBoundary, Take
  <1>7. CASE Pruned
    BY <1>7 DEF Pruned, Batched
  <1>8. CASE Fed
    BY <1>8 DEF Fed, Batched
  <1>9. CASE Decided
    BY <1>9 DEF Decided, Batched
  <1>10. ASSUME NEW k \in Keys, DropMuted(k) \/ Hold(k) \/ Speak(k) PROVE Batched'
    BY <1>10 DEF DropMuted, Hold, Speak, Evaluate, Batched
  <1> QED BY <1>1, <1>3, <1>4, <1>6, <1>7, <1>8, <1>9, <1>10, StepCases

----------------------------------------------------------------------------
(* What is in force.                                                       *)

LEMMA NoneIsNotTactical == ~Tactical(None)
  BY DEF Tactical

LEMMA InForceStep ==
    ASSUME PolicyTypes, Batched, InForce, [PolicyNext]_policyVars PROVE InForce'
  <1>0. ~Tactical(None)
    BY NoneIsNotTactical
  <1>1. CASE UNCHANGED policyVars
    BY <1>1, Zenon DEF policyVars, candidates, InForce, Tactical, Pri
  <1>2. ASSUME \A k \in Keys :
                  pending'[k] # None => pending'[k] = active'[k] /\ Tactical(active'[k]),
               \A k \in Keys : Tactical(active'[k]) =>
                  /\ ~invalidated'
                  /\ muted' => /\ phase' \in {"feeding", "deciding"} /\ pending'[k] # None
                               /\ phase' = "deciding" => k \in undecided',
               phase' \in {"feeding", "deciding"} =>
                  \A k \in Keys : active'[k] # None => now' < active'[k].until,
               undecided' # {} => phase' = "deciding",
               \A k \in undecided' : pending'[k] # None
        PROVE  InForce'
    BY <1>2, Zenon DEF InForce, Tactical, Pri
  <1>3. ASSUME ClearTactical
        PROVE  /\ \A k \in Keys : ~Tactical(active'[k]) /\ pending'[k] = None
               /\ \A k \in Keys : active'[k] # None => active'[k] = active[k]
    <2>1. \A k \in Keys : /\ active'[k] = IF Tactical(active[k]) THEN None ELSE active[k]
                          /\ pending'[k] = IF Tactical(active[k]) THEN None ELSE pending[k]
      BY <1>3, Zenon DEF ClearTactical
    <2> QED BY <1>0, <2>1, Zenon DEF InForce
  <1>4. CASE FailClosed
    <2>1. ClearTactical /\ undecided' = {} /\ phase' = "failed"
      BY <1>4 DEF FailClosed
    <2> QED BY <1>2, <1>3, <2>1
  <1>5. ASSUME NEW t \in 0..MaxTime, NEW i \in Inputs(t), Stage(i) PROVE InForce'
    BY <1>2, <1>5 DEF Stage, candidates, InForce
  <1>6. CASE Pruned
    <2>1. /\ phase = "open" /\ phase' = "feeding"
          /\ UNCHANGED <<now, undecided, muted, invalidated>>
      BY <1>6 DEF Pruned
    <2>2. now \in Nat /\ \A k \in Keys : active[k] # None => active[k].until \in Nat
      BY <1>6, HeadFits DEF Pruned, PolicyTypes, Envelopes
    <2>3. \A k \in Keys : /\ active'[k] = IF Expired(k) THEN None ELSE active[k]
                          /\ pending'[k] = IF Expired(k) THEN None ELSE pending[k]
      BY <1>6, Zenon DEF Pruned, ExpireDue
    <2>4. \A k \in Keys : active'[k] # None => now < active'[k].until
      BY <2>2, <2>3 DEF Expired
    <2>5. \A k \in Keys : Tactical(active'[k]) => ~invalidated /\ ~muted
      BY <1>0, <2>1, <2>3 DEF InForce
    <2> QED BY <1>0, <1>2, <2>1, <2>3, <2>4, <2>5 DEF InForce
  <1>7. ASSUME staged # <<>>, phase = "feeding", Done
        PROVE  /\ phase' = "feeding" /\ undecided' = {} /\ UNCHANGED now
               /\ \A k \in Keys : active[k] # None => now < active[k].until
    BY <1>7 DEF Done, InForce
  <1>8. CASE FeedMute
    <2>1. staged # <<>> /\ phase = "feeding" /\ Done /\ UNCHANGED invalidated
      BY <1>8 DEF FeedMute, Take
    <2>2. CASE muted' /\ ClearTactical
      BY <1>2, <1>3, <1>7, <2>1, <2>2
    <2>3. CASE ~muted' /\ UNCHANGED candidates
      BY <1>2, <1>7, <2>1, <2>3 DEF candidates, InForce
    <2> QED BY <1>8, <2>2, <2>3, Zenon DEF FeedMute
  <1>9. CASE FeedRevocation
    <2>1. staged # <<>> /\ phase = "feeding" /\ Done /\ UNCHANGED <<muted, invalidated>>
      BY <1>9 DEF FeedRevocation, Take
    <2>2. \A k \in Keys : \/ active'[k] = None /\ pending'[k] = None
                          \/ active'[k] = active[k] /\ pending'[k] = pending[k]
      BY <1>9 DEF FeedRevocation, Withdraw, candidates, PolicyTypes
    <2> QED BY <1>0, <1>2, <1>7, <2>1, <2>2 DEF InForce
  <1>10. CASE Refreshed
    <2> DEFINE k == Head(staged).key
    <2>1. staged # <<>> /\ phase = "feeding" /\ Done /\ UNCHANGED <<muted, invalidated>>
      BY <1>10 DEF Refreshed, Take
    <2>2. /\ k \in Keys /\ active[k] \in Envelopes /\ active'[k] \in Envelopes
          /\ active'[k].rev = active[k].rev /\ now < active'[k].until
          /\ pending'[k] = IF pending[k] = None THEN None ELSE active'[k]
          /\ \A j \in Keys \ {k} : active'[j] = active[j] /\ pending'[j] = pending[j]
      BY <1>10, RefreshedEnvelope
    <2> HIDE DEF k
    <2>3. Tactical(active'[k]) <=> Tactical(active[k])
      BY <2>2, NoneIsNoEnvelope DEF Tactical, Pri
    <2>4. active'[k] # None
      BY <2>2, NoneIsNoEnvelope
    <2>5. \A j \in Keys : pending'[j] # None => pending'[j] = active'[j] /\ Tactical(active'[j])
      BY <2>2, <2>3 DEF InForce
    <2>6. \A j \in Keys : Tactical(active'[j]) => ~invalidated /\ (muted => pending'[j] # None)
      BY <2>2, <2>3, <2>4 DEF InForce
    <2>7. \A j \in Keys : active'[j] # None => now < active'[j].until
      BY <1>7, <2>1, <2>2
    <2> QED BY <1>2, <1>7, <2>1, <2>5, <2>6, <2>7
  <1>11. CASE Replaced
    <2> DEFINE k == Head(staged).key
    <2>1. /\ staged # <<>> /\ phase = "feeding" /\ Done
          /\ UNCHANGED <<muted, invalidated>> /\ ~invalidated
      BY <1>11 DEF Replaced, Take
    <2>2. /\ k \in Keys /\ active'[k] \in Envelopes /\ now < active'[k].until
          /\ pending'[k] = IF Tactical(active'[k]) THEN active'[k] ELSE None
          /\ \A j \in Keys \ {k} : active'[j] = active[j] /\ pending'[j] = pending[j]
      BY <1>11, ReplacedEnvelope
    <2> HIDE DEF k
    <2>3. active'[k] # None
      BY <2>2, NoneIsNoEnvelope
    <2>4. \A j \in Keys : pending'[j] # None => pending'[j] = active'[j] /\ Tactical(active'[j])
      BY <2>2 DEF InForce
    <2>5. \A j \in Keys : Tactical(active'[j]) => ~invalidated /\ (muted => pending'[j] # None)
      BY <2>1, <2>2, <2>3 DEF InForce
    <2>6. \A j \in Keys : active'[j] # None => now < active'[j].until
      BY <1>7, <2>1, <2>2
    <2> QED BY <1>2, <1>7, <2>1, <2>4, <2>5, <2>6
  <1>12. CASE Ignored
    <2>1. staged # <<>> /\ phase = "feeding" /\ Done /\ UNCHANGED <<candidates, muted, invalidated>>
      BY <1>12 DEF Ignored
    <2> QED BY <1>2, <1>7, <2>1 DEF candidates, InForce
  <1>13. CASE Doubted
    <2>1. staged # <<>> /\ phase = "feeding" /\ Done /\ ClearTactical
      BY <1>13 DEF Doubted
    <2> QED BY <1>2, <1>3, <1>7, <2>1
  <1>14. CASE Observed
    <2>1. /\ staged # <<>> /\ phase = "feeding" /\ Done /\ UNCHANGED <<muted, invalidated>>
          /\ ClearTactical \/ UNCHANGED candidates
      BY <1>14 DEF Observed, Take
    <2>2. CASE ClearTactical
      BY <1>2, <1>3, <1>7, <2>1, <2>2
    <2>3. CASE UNCHANGED candidates
      BY <1>2, <1>7, <2>1, <2>3 DEF candidates, InForce
    <2> QED BY <2>1, <2>2, <2>3
  <1>15. CASE FeedBoundary
    <2>1. staged # <<>> /\ phase = "feeding" /\ Done /\ ClearTactical
      BY <1>15 DEF FeedBoundary, Take
    <2> QED BY <1>2, <1>3, <1>7, <2>1
  <1>16. CASE Fed
    <2>1. /\ phase = "feeding" /\ phase' = "deciding"
          /\ undecided' = {k \in Keys : pending[k] # None}
          /\ UNCHANGED <<now, active, pending, muted, invalidated>>
      BY <1>16 DEF Fed, candidates
    <2> QED BY <1>2, <2>1 DEF InForce
  <1>17. CASE Decided
    <2>1. /\ phase = "deciding" /\ phase' \in {"open", "finished"}
          /\ undecided = {} /\ undecided' = {}
          /\ UNCHANGED <<now, active, pending, muted, invalidated>>
      BY <1>17 DEF Decided, candidates
    <2> QED BY <1>2, <2>1 DEF InForce
  <1>18. ASSUME NEW k \in Keys, Evaluate(k)
         PROVE  /\ phase = "deciding" /\ phase' = "deciding" /\ undecided' = undecided \ {k}
                /\ k \in undecided /\ undecided \subseteq Keys
                /\ UNCHANGED <<now, muted, invalidated>>
    BY <1>18 DEF Evaluate, PolicyTypes
  <1>19. ASSUME NEW k \in Keys, DropMuted(k) PROVE InForce'
    <2>1. Evaluate(k) /\ muted
      BY <1>19 DEF DropMuted
    <2>2. /\ active'[k] = None /\ pending'[k] = None
          /\ \A j \in Keys \ {k} : active'[j] = active[j] /\ pending'[j] = pending[j]
      BY <1>19 DEF DropMuted, Withdraw, PolicyTypes
    <2> QED BY <1>0, <1>2, <1>18, <2>1, <2>2 DEF InForce
  <1>20. ASSUME NEW k \in Keys, Hold(k) PROVE InForce'
    <2>1. Evaluate(k) /\ ~muted /\ UNCHANGED <<active, pending>>
      BY <1>20 DEF Hold, candidates
    <2> QED BY <1>2, <1>18, <2>1 DEF InForce
  <1>21. ASSUME NEW k \in Keys, Speak(k) PROVE InForce'
    <2>1. Evaluate(k) /\ ~muted /\ UNCHANGED active
      BY <1>21 DEF Speak
    <2>2. pending'[k] = None /\ \A j \in Keys \ {k} : pending'[j] = pending[j]
      BY <1>21 DEF Speak, PolicyTypes
    <2> QED BY <1>0, <1>2, <1>18, <2>1, <2>2 DEF InForce
  <1> QED BY <1>1, <1>4, <1>5, <1>6, <1>8, <1>9, <1>10, <1>11, <1>12, <1>13, <1>14, <1>15, <1>16,
             <1>17, <1>19, <1>20, <1>21, StepCases

----------------------------------------------------------------------------
(* What has been said.                                                     *)

(* Nothing is said: what pends is what pended, or is issued in a batch     *)
(* that everything said is older than.                                     *)
LEMMA SilentStep ==
    ASSUME PolicyTypes, Batched, Spaced, SpokenOnceAndSpaced, UNCHANGED spoken,
           now' \in Int, now <= now',
           \A k \in Keys : \/ pending'[k] = None
                           \/ pending[k] # None /\ pending'[k].issued = pending[k].issued
                           \/ staged # <<>> /\ pending'[k].issued = now,
           phase' = "feeding" \/ staged' # <<>> => phase = "feeding" \/ staged # <<>> \/ now < now',
           phase' = "deciding" =>
              /\ now' = now
              /\ \/ phase = "feeding"
                 \/ /\ phase = "deciding" /\ undecided' \subseteq undecided
                    /\ \A k \in undecided' : pending'[k] = pending[k]
    PROVE  Spaced' /\ SpokenOnceAndSpaced'
  <1>0. now \in Int /\ said' = said /\ lastSpeech' = lastSpeech /\ lastConflict' = lastConflict
    BY PolicyAssumption DEF PolicyTypes, spoken
  <1>1. /\ lastSpeech \in Int /\ \A k \in Keys : lastConflict[k] \in Int
        /\ \A x \in said : x.key \in Keys /\ x.time \in Nat /\ x.issued \in Nat /\ x.pri \in 0..3
    BY PolicyAssumption DEF PolicyTypes
  <1>2. \A x \in said' : /\ x.issued <= x.time /\ x.time <= now'
                         /\ x.time <= lastSpeech' /\ x.time <= lastConflict'[x.key]
    BY <1>0, <1>1 DEF Spaced
  <1>3. phase' = "feeding" \/ staged' # <<>> => \A x \in said' : x.time < now'
    BY <1>0, <1>1 DEF Spaced
  <1>4. phase' = "deciding" =>
           \A x \in said' : x.time = now' => \A k \in undecided' : x.pri <= Pri(pending'[k])
    <2> SUFFICES ASSUME phase' = "deciding", NEW x \in said', x.time = now', NEW k \in undecided'
                 PROVE  x.pri <= Pri(pending'[k])
      OBVIOUS
    <2>1. /\ phase = "deciding" /\ k \in undecided /\ pending'[k] = pending[k]
          /\ x \in said /\ x.time = now
      BY <1>0, <1>1 DEF Spaced
    <2> QED BY <2>1 DEF Spaced
  <1>5. \A x \in said' : pending'[x.key] # None => x.issued < pending'[x.key].issued
    <2> SUFFICES ASSUME NEW x \in said, pending'[x.key] # None
                 PROVE  x.issued < pending'[x.key].issued
      BY <1>0
    <2>1. CASE pending[x.key] # None /\ pending'[x.key].issued = pending[x.key].issued
      BY <2>1 DEF Spaced
    <2>2. CASE staged # <<>> /\ pending'[x.key].issued = now
      <3>1. x.time < now /\ x.issued <= x.time
        BY <2>2 DEF Spaced
      <3> QED BY <1>0, <1>1, <2>2, <3>1
    <2> QED BY <1>1, <2>1, <2>2
  <1>6. \A k \in Keys : pending'[k] # None => pending'[k].issued <= now'
    <2> SUFFICES ASSUME NEW k \in Keys, pending'[k] # None PROVE pending'[k].issued <= now'
      OBVIOUS
    <2>1. CASE pending[k] # None /\ pending'[k].issued = pending[k].issued
      <3>1. pending[k].issued \in Int /\ pending[k].issued <= now
        BY <2>1 DEF Spaced, PolicyTypes, Envelopes
      <3> QED BY <1>0, <2>1, <3>1
    <2> QED BY <1>0, <2>1
  <1>7. Spaced'
    BY <1>2, <1>3, <1>4, <1>5, <1>6, Zenon DEF Spaced, Pri
  <1> QED BY <1>0, <1>7 DEF SpokenOnceAndSpaced

LEMMA SpokenStep ==
    ASSUME PolicyTypes, Batched, InForce, Spaced, SpokenOnceAndSpaced, NEW k \in Keys, Speak(k)
    PROVE  Spaced' /\ SpokenOnceAndSpaced'
  <1> DEFINE e == pending[k]
             new == [key |-> k, pri |-> Pri(e), issued |-> e.issued, time |-> now]
  <1>0. /\ now \in Nat /\ lastSpeech \in Int /\ \A j \in Keys : lastConflict[j] \in Int
        /\ \A x \in said : x.key \in Keys /\ x.time \in Nat /\ x.issued \in Nat /\ x.pri \in 0..3
        /\ GlobalCooldown \in Nat /\ ConflictCooldown \in Nat
        /\ undecided \subseteq Keys
    <2>1. phase = "deciding"
      BY DEF Speak, Evaluate
    <2>2. now \in Nat /\ GlobalCooldown \in Nat /\ ConflictCooldown \in Nat
      BY <2>1, PolicyAssumption DEF Batched
    <2>3. lastSpeech \in Int /\ \A j \in Keys : lastConflict[j] \in Int
      BY PolicyAssumption DEF PolicyTypes
    <2>4. \A x \in said : x.key \in Keys /\ x.time \in Nat /\ x.issued \in Nat /\ x.pri \in 0..3
      BY PolicyAssumption DEF PolicyTypes
    <2> QED BY <2>2, <2>3, <2>4 DEF PolicyTypes
  <1>1. /\ phase = "deciding" /\ phase' = "deciding" /\ k \in undecided /\ now' = now
        /\ undecided' = undecided \ {k} /\ staged' = staged
        /\ \A j \in undecided \ {k} : ~Sooner(j, k)
        /\ Pri(e) = 0 \/ ~Cooling(k)
    BY DEF Speak, Evaluate, MaySpeak
  <1>2. /\ said' = said \cup {new} /\ lastSpeech' = now
        /\ pending'[k] = None /\ \A j \in Keys \ {k} : pending'[j] = pending[j]
        /\ lastConflict'[k] = now /\ \A j \in Keys \ {k} : lastConflict'[j] = lastConflict[j]
    BY DEF Speak, Heard, PolicyTypes
  <1>3. staged = <<>>
    BY <1>1 DEF Batched
  <1>4. /\ \A j \in undecided : pending[j] \in Envelopes /\ Pri(pending[j]) \in 0..3
        /\ e.issued \in Nat /\ e # None
    <2>1. \A j \in undecided : pending[j] # None /\ pending[j] \in Envelopes
      BY <1>0 DEF InForce, PolicyTypes
    <2> QED BY <1>1, <2>1, Priorities DEF Pri, Envelopes
  <1>5. new.key = k /\ new.pri = Pri(e) /\ new.issued = e.issued /\ new.time = now
    OBVIOUS
  <1> HIDE DEF e, new
  <1>6. \A x \in said : /\ x.issued <= x.time /\ x.time <= now
                        /\ x.time <= lastSpeech /\ x.time <= lastConflict[x.key]
    BY DEF Spaced
  <1>7. \A x \in said' : /\ x.issued <= x.time /\ x.time <= now'
                         /\ x.time <= lastSpeech' /\ x.time <= lastConflict'[x.key]
    <2>1. e.issued <= now
      BY <1>4 DEF e, Spaced
    <2>2. \A x \in said : x.time <= lastConflict'[x.key]
      BY <1>0, <1>2, <1>6
    <2> QED BY <1>0, <1>1, <1>2, <1>4, <1>5, <1>6, <2>1, <2>2
  <1>8. \A x \in said' : x.time = now => \A j \in undecided' : x.pri <= Pri(pending'[j])
    <2> SUFFICES ASSUME NEW x \in said', x.time = now, NEW j \in undecided'
                 PROVE  x.pri <= Pri(pending'[j])
      OBVIOUS
    <2>1. /\ j \in undecided \ {k} /\ pending'[j] = pending[j]
          /\ Pri(pending[j]) \in 0..3 /\ Pri(e) \in 0..3
      BY <1>0, <1>1, <1>2, <1>4 DEF e
    <2>2. CASE x \in said
      BY <1>1, <2>1, <2>2 DEF Spaced
    <2>3. CASE x = new
      <3>1. ~(Pri(pending[j]) < Pri(e))
        BY <1>1, <2>1 DEF Sooner, e
      <3> QED BY <1>5, <2>1, <2>3, <3>1
    <2> QED BY <1>2, <2>2, <2>3
  <1>9. \A x \in said : x.key = k => x.issued < e.issued
    BY <1>4 DEF Spaced, e
  <1>10. \A x \in said' : pending'[x.key] # None => x.issued < pending'[x.key].issued
    <2>1. \A x \in said : x.key # k => pending'[x.key] = pending[x.key]
      BY <1>0, <1>2
    <2> QED BY <1>2, <1>5, <2>1 DEF Spaced
  <1>11. \A j \in Keys : pending'[j] # None => pending'[j].issued <= now'
    BY <1>1, <1>2 DEF Spaced
  <1>12. Spaced'
    <2>1. phase' # "feeding" /\ staged' = <<>>
      BY <1>1, <1>3
    <2> QED BY <1>1, <1>7, <1>8, <1>10, <1>11, <2>1, Zenon DEF Spaced, Pri
  <1>13. ASSUME Pri(e) > 0
         PROVE  \A x \in said : /\ now - x.time >= GlobalCooldown
                                /\ x.key = k => now - x.time >= ConflictCooldown
    <2>1. ~Cooling(k)
      BY <1>1, <1>4, <1>13 DEF e
    <2> SUFFICES ASSUME NEW x \in said
                 PROVE  /\ now - x.time >= GlobalCooldown
                        /\ x.key = k => now - x.time >= ConflictCooldown
      OBVIOUS
    <2>2. x.time \in Nat /\ x.time <= lastSpeech /\ x.time <= lastConflict[x.key]
      BY <1>0, <1>6
    <2> QED BY <1>0, <2>1, <2>2 DEF Cooling, Never
  <1>14. ASSUME NEW x \in said, NEW y \in said, x # y
         PROVE  /\ x.key = y.key => x.issued # y.issued
                /\ y.pri > 0 /\ x.time <= y.time =>
                      /\ y.time - x.time >= GlobalCooldown
                      /\ x.key = y.key => y.time - x.time >= ConflictCooldown
    BY <1>14 DEF SpokenOnceAndSpaced
  <1>15. ASSUME NEW x \in said
         PROVE  /\ x.key = new.key => x.issued # new.issued
                /\ new.pri > 0 /\ x.time <= new.time =>
                      /\ new.time - x.time >= GlobalCooldown
                      /\ x.key = new.key => new.time - x.time >= ConflictCooldown
    BY <1>0, <1>4, <1>5, <1>9, <1>13
  <1>16. ASSUME NEW y \in said
         PROVE  /\ new.key = y.key => new.issued # y.issued
                /\ y.pri > 0 /\ new.time <= y.time =>
                      /\ y.time - new.time >= GlobalCooldown
                      /\ new.key = y.key => y.time - new.time >= ConflictCooldown
    <2>1. new.key = y.key => new.issued # y.issued
      BY <1>0, <1>4, <1>5, <1>9
    <2>2. ASSUME y.pri > 0, new.time <= y.time
          PROVE  /\ y.time - new.time >= GlobalCooldown
                 /\ new.key = y.key => y.time - new.time >= ConflictCooldown
      <3>1. y.time = now
        BY <1>0, <1>5, <1>6, <2>2
      <3>2. y.pri <= Pri(e)
        BY <1>1, <3>1 DEF Spaced, e
      <3>3. Pri(e) \in 0..3 /\ y.pri \in 0..3
        BY <1>0, <1>1, <1>4 DEF e
      <3>4. Pri(e) > 0
        BY <2>2, <3>2, <3>3
      <3> QED BY <1>0, <1>5, <1>13, <3>1, <3>4
    <2> QED BY <2>1, <2>2
  <1>17. SpokenOnceAndSpaced'
    <2> SUFFICES ASSUME NEW x \in said', NEW y \in said', x # y
                 PROVE  /\ x.key = y.key => x.issued # y.issued
                        /\ y.pri > 0 /\ x.time <= y.time =>
                              /\ y.time - x.time >= GlobalCooldown
                              /\ x.key = y.key => y.time - x.time >= ConflictCooldown
      BY Zenon DEF SpokenOnceAndSpaced
    <2>1. CASE x \in said /\ y \in said
      BY <1>14, <2>1
    <2>2. CASE x \in said /\ y = new
      BY <1>15, <2>2
    <2>3. CASE x = new /\ y \in said
      BY <1>16, <2>3
    <2> QED BY <1>2, <2>1, <2>2, <2>3
  <1> QED BY <1>12, <1>17

LEMMA SpacedStep ==
    ASSUME PolicyTypes, Batched, InForce, Spaced, SpokenOnceAndSpaced, [PolicyNext]_policyVars
    PROVE  Spaced' /\ SpokenOnceAndSpaced'
  <1>0. now \in Int /\ now <= now
    BY PolicyAssumption DEF PolicyTypes
  <1>1. CASE UNCHANGED policyVars
    BY <1>1, Zenon DEF policyVars, candidates, spoken, Spaced, SpokenOnceAndSpaced, Pri
  <1>2. ASSUME ClearTactical PROVE \A k \in Keys : pending'[k] = None \/ pending'[k] = pending[k]
    BY <1>2 DEF ClearTactical
  <1>3. ASSUME UNCHANGED spoken, now' = now, staged' = <<>> \/ staged # <<>>, phase' # "deciding",
               phase' = "feeding" => staged # <<>> \/ phase = "feeding",
               \A k \in Keys : \/ pending'[k] = None
                               \/ pending[k] # None /\ pending'[k].issued = pending[k].issued
                               \/ staged # <<>> /\ pending'[k].issued = now
        PROVE  Spaced' /\ SpokenOnceAndSpaced'
    BY <1>0, <1>3, SilentStep
  <1>4. CASE FailClosed
    <2>1. ClearTactical /\ UNCHANGED <<now, spoken>> /\ staged' = <<>> /\ phase' = "failed"
      BY <1>4 DEF FailClosed
    <2> QED BY <1>2, <1>3, <2>1
  <1>5. ASSUME NEW t \in 0..MaxTime, NEW i \in Inputs(t), Stage(i)
        PROVE  Spaced' /\ SpokenOnceAndSpaced'
    <2>1. now' = i.time /\ i.time = t /\ phase' = "open" /\ UNCHANGED <<pending, spoken>>
          /\ IF staged = <<>> THEN i.time > now ELSE i.time = now
      BY <1>5, InputsFit DEF Stage, candidates
    <2>2. now' \in Int /\ now <= now' /\ (staged = <<>> => now < now')
      BY <1>0, <2>1
    <2>3. \A k \in Keys : \/ pending'[k] = None
                          \/ pending[k] # None /\ pending'[k].issued = pending[k].issued
      BY <2>1
    <2> QED BY <2>1, <2>2, <2>3, SilentStep
  <1>6. CASE Pruned
    <2>1. /\ staged # <<>> /\ phase' = "feeding" /\ UNCHANGED <<now, spoken>>
          /\ \A k \in Keys : pending'[k] = None \/ pending'[k] = pending[k]
      BY <1>6 DEF Pruned, ExpireDue
    <2> QED BY <1>3, <2>1
  <1>7. ASSUME staged # <<>>, phase = "feeding", Done,
               \A k \in Keys : \/ pending'[k] = None
                               \/ pending[k] # None /\ pending'[k].issued = pending[k].issued
                               \/ pending'[k].issued = now
        PROVE  Spaced' /\ SpokenOnceAndSpaced'
    <2>1. UNCHANGED <<phase, now, spoken>>
      BY <1>7 DEF Done
    <2> QED BY <1>3, <1>7, <2>1
  <1>8. CASE FeedMute
    <2>1. staged # <<>> /\ phase = "feeding" /\ Done
      BY <1>8 DEF FeedMute, Take
    <2>2. CASE UNCHANGED candidates
      BY <1>7, <2>1, <2>2 DEF candidates
    <2>3. CASE ClearTactical
      BY <1>2, <1>7, <2>1, <2>3
    <2> QED BY <1>8, <2>2, <2>3 DEF FeedMute
  <1>9. CASE FeedRevocation
    <2>1. staged # <<>> /\ phase = "feeding" /\ Done
      BY <1>9 DEF FeedRevocation, Take
    <2>2. \A k \in Keys : pending'[k] = None \/ pending'[k] = pending[k]
      BY <1>9 DEF FeedRevocation, Withdraw, candidates, PolicyTypes
    <2> QED BY <1>7, <2>1, <2>2
  <1>10. CASE Refreshed
    <2> DEFINE k == Head(staged).key
    <2>1. staged # <<>> /\ phase = "feeding" /\ Done
      BY <1>10 DEF Refreshed, Take
    <2>2. /\ k \in Keys /\ active'[k].issued = active[k].issued
          /\ pending'[k] = IF pending[k] = None THEN None ELSE active'[k]
          /\ \A j \in Keys \ {k} : pending'[j] = pending[j]
      BY <1>10, RefreshedEnvelope
    <2>3. pending[k] # None => active[k] = pending[k]
      BY <2>2 DEF InForce
    <2> HIDE DEF k
    <2>4. \A j \in Keys : \/ pending'[j] = None
                          \/ pending[j] # None /\ pending'[j].issued = pending[j].issued
      BY <2>2, <2>3
    <2> QED BY <1>7, <2>1, <2>4
  <1>11. CASE Replaced
    <2> DEFINE k == Head(staged).key
    <2>1. staged # <<>> /\ phase = "feeding" /\ Done
      BY <1>11 DEF Replaced, Take
    <2>2. /\ k \in Keys /\ active'[k].issued = now
          /\ pending'[k] = IF Tactical(active'[k]) THEN active'[k] ELSE None
          /\ \A j \in Keys \ {k} : pending'[j] = pending[j]
      BY <1>11, ReplacedEnvelope
    <2> HIDE DEF k
    <2>3. \A j \in Keys : \/ pending'[j] = None
                          \/ pending'[j].issued = now
                          \/ pending[j] # None /\ pending'[j].issued = pending[j].issued
      BY <2>2
    <2> QED BY <1>7, <2>1, <2>3
  <1>12. CASE Ignored
    BY <1>7, <1>12 DEF Ignored, candidates
  <1>13. CASE Doubted
    BY <1>2, <1>7, <1>13 DEF Doubted
  <1>14. CASE Observed
    <2>1. staged # <<>> /\ phase = "feeding" /\ Done
      BY <1>14 DEF Observed, Take
    <2>2. CASE UNCHANGED candidates
      BY <1>7, <2>1, <2>2 DEF candidates
    <2>3. CASE ClearTactical
      BY <1>2, <1>7, <2>1, <2>3
    <2> QED BY <1>14, <2>2, <2>3 DEF Observed
  <1>15. CASE FeedBoundary
    <2>1. staged # <<>> /\ phase = "feeding" /\ Done /\ ClearTactical
      BY <1>15 DEF FeedBoundary, Take
    <2> QED BY <1>2, <1>7, <2>1
  <1>16. CASE Fed
    <2>1. phase = "feeding" /\ UNCHANGED <<now, staged, pending, spoken>>
      BY <1>16 DEF Fed, candidates
    <2> QED BY <1>0, <2>1, SilentStep
  <1>17. CASE Decided
    <2>1. /\ phase = "deciding" /\ phase' \in {"open", "finished"}
          /\ UNCHANGED <<now, staged, pending, spoken>>
      BY <1>17 DEF Decided, candidates
    <2>2. staged' = <<>>
      BY <2>1 DEF Batched
    <2> QED BY <1>3, <2>1, <2>2
  <1>18. ASSUME NEW k \in Keys, Evaluate(k), UNCHANGED spoken,
                pending' = pending \/ (pending' = [pending EXCEPT ![k] = None])
         PROVE  Spaced' /\ SpokenOnceAndSpaced'
    <2>1. /\ phase = "deciding" /\ UNCHANGED <<phase, now, staged, spoken>>
          /\ undecided' = undecided \ {k} /\ undecided \subseteq Keys
      BY <1>18 DEF Evaluate, PolicyTypes
    <2>2. /\ \A j \in Keys : pending'[j] = None \/ pending'[j] = pending[j]
          /\ \A j \in Keys \ {k} : pending'[j] = pending[j]
      BY <1>18 DEF PolicyTypes
    <2>3. \A j \in undecided' : pending'[j] = pending[j]
      BY <2>1, <2>2
    <2>4. \A j \in Keys : \/ pending'[j] = None
                          \/ pending[j] # None /\ pending'[j].issued = pending[j].issued
      BY <2>2
    <2>5. staged' = <<>>
      BY <2>1 DEF Batched
    <2> QED BY <1>0, <2>1, <2>3, <2>4, <2>5, SilentStep
  <1>19. ASSUME NEW k \in Keys, DropMuted(k) \/ Hold(k) PROVE Spaced' /\ SpokenOnceAndSpaced'
    BY <1>18, <1>19 DEF DropMuted, Hold, Withdraw, candidates
  <1>20. ASSUME NEW k \in Keys, Speak(k) PROVE Spaced' /\ SpokenOnceAndSpaced'
    BY <1>20, SpokenStep
  <1> QED BY <1>1, <1>4, <1>5, <1>6, <1>8, <1>9, <1>10, <1>11, <1>12, <1>13, <1>14, <1>15, <1>16,
             <1>17, <1>19, <1>20, StepCases

----------------------------------------------------------------------------
(* The evidence of a stable road.                                          *)

LEMMA WindowStarts ==
    ASSUME NEW good, NEW at \in Nat, NEW shown, shown[at] \in good
    PROVE  WindowAt(at, 1, good, at, shown)
  <1>1. at \in 0..at /\ at # Never /\ at..at = {at}
    BY DEF Never
  <1>2. Supporting(at, good, at, shown) = {at}
    BY <1>1 DEF Supporting
  <1>3. Cardinality({at}) = 1
    BY FS_Singleton
  <1> QED BY <1>1, <1>2, <1>3 DEF WindowAt

LEMMA WindowExtends ==
    ASSUME NEW good, "none" \notin good, NEW upTo \in Nat, NEW at \in Nat, upTo < at,
           at - upTo <= MaxGap, NEW since \in 0..upTo, NEW samples \in Nat,
           NEW shown, NEW then, WindowAt(since, samples, good, upTo, shown),
           \A t \in since..upTo : then[t] = shown[t],
           \A t \in (upTo + 1)..(at - 1) : then[t] = "none", then[at] \in good
    PROVE  WindowAt(since, samples + 1, good, at, then)
  <1> DEFINE before == Supporting(since, good, upTo, shown)
             after == Supporting(since, good, at, then)
  <1>1. /\ since # Never /\ {since, upTo} \subseteq before /\ samples = Cardinality(before)
        /\ \A t \in since..upTo : shown[t] \in good \cup {"none"}
        /\ \A t \in before \ {upTo} : \E u \in before : t < u /\ u - t <= MaxGap
    BY DEF WindowAt, Never
  <1>2. since..at = (since..upTo) \cup ((upTo + 1)..(at - 1)) \cup {at}
    OBVIOUS
  <1>3. after = before \cup {at}
    BY <1>2 DEF Supporting
  <1>4. at \notin before /\ before \subseteq since..upTo
    BY DEF Supporting
  <1>5. Cardinality(after) = samples + 1
    <2>1. IsFiniteSet(before)
      <3>1. IsFiniteSet(since..upTo)
        BY FS_Interval
      <3> QED BY <1>4, <3>1, FS_Subset
    <2> HIDE DEF before, after
    <2> QED BY <1>1, <1>3, <1>4, <2>1, FS_AddElement
  <1>6. \A t \in since..at : then[t] \in good \cup {"none"}
    BY <1>1, <1>2
  <1>7. ASSUME NEW t \in after \ {at} PROVE \E u \in after : t < u /\ u - t <= MaxGap
    <2>1. CASE t = upTo
      BY <1>3, <2>1
    <2>2. CASE t # upTo
      BY <1>1, <1>3, <1>7, <2>2
    <2> QED BY <2>1, <2>2
  <1>8. since \in 0..at
    OBVIOUS
  <1> HIDE DEF before
  <1> QED BY <1>1, <1>3, <1>5, <1>6, <1>7, <1>8 DEF WindowAt

LEMMA WindowStep ==
    ASSUME PolicyTypes, RoadKnown, now \in 0..MaxTime, NEW sees, lastTiming.time # now,
           road' = [road EXCEPT ![now] = sees],
           NEW good, "none" \notin good, NEW since \in -1..MaxTime, NEW samples \in Nat,
           WindowAt(since, samples, good, lastTiming.time, road)
    PROVE  WindowAt(Window(good, since, samples, sees)[1], Window(good, since, samples, sees)[2],
                    good, now, road')
  <1> DEFINE w == Window(good, since, samples, sees)
             upTo == lastTiming.time
  <1>1. /\ now \in Nat /\ MaxTime \in Nat /\ MaxGap \in Nat
        /\ road'[now] = sees /\ \A t \in 0..MaxTime : t # now => road'[t] = road[t]
    BY PolicyAssumption DEF PolicyTypes
  <1>2. CASE sees \notin good
    <2>1. w[1] = Never /\ w[2] = 0
      BY <1>2 DEF Window
    <2> QED BY <2>1 DEF WindowAt
  <1>3. CASE sees \in good /\ (Gap(now) \/ since = Never)
    <2>1. since = Never => samples = 0
      BY DEF WindowAt
    <2>2. w[1] = now /\ w[2] = 1
      BY <1>3, <2>1 DEF Window, Since
    <2> QED BY <1>1, <1>3, <2>2, WindowStarts
  <1>4. CASE sees \in good /\ ~Gap(now) /\ since # Never
    <2>1. w[1] = since /\ w[2] = samples + 1
      BY <1>4 DEF Window, Since
    <2>2. upTo \in -1..MaxTime /\ since \in 0..upTo /\ upTo <= now
      BY <1>4 DEF PolicyTypes, RoadKnown, WindowAt
    <2>3. upTo \in Nat /\ upTo < now /\ upTo # Never /\ since \in 0..upTo
      BY <1>1, <2>2 DEF Never
    <2>4. now - upTo <= MaxGap
      BY <1>1, <1>4, <2>3 DEF Gap, NoEvidence
    <2>5. /\ \A t \in since..upTo : road'[t] = road[t]
          /\ \A t \in (upTo + 1)..(now - 1) : road'[t] = "none"
      <3>1. \A t \in 0..MaxTime : upTo < t => road[t] = "none"
        BY <2>3 DEF RoadKnown
      <3> QED BY <1>1, <2>3, <3>1
    <2> HIDE DEF w, upTo
    <2>6. road'[now] \in good /\ WindowAt(since, samples, good, upTo, road)
      BY <1>1, <1>4 DEF upTo
    <2>7. WindowAt(since, samples + 1, good, now, road')
      <3>1. PICK shown, then, before : shown = road /\ then = road' /\ before = upTo
        OBVIOUS
      <3>2. PICK at \in Nat : at = now
        BY <1>1
      <3>3. /\ before \in Nat /\ before < at /\ at - before <= MaxGap /\ since \in 0..before
            /\ WindowAt(since, samples, good, before, shown)
            /\ then[at] \in good
        BY <2>3, <2>4, <2>6, <3>1, <3>2
      <3>4. /\ \A t \in since..before : then[t] = shown[t]
            /\ \A t \in (before + 1)..(at - 1) : then[t] = "none"
        BY <2>5, <3>1, <3>2
      <3>5. WindowAt(since, samples + 1, good, at, then)
        BY <3>3, <3>4, WindowExtends
      <3> QED BY <3>1, <3>2, <3>5
    <2> QED BY <2>1, <2>7 DEF w
  <1> QED BY <1>2, <1>3, <1>4

LEMMA RoadKnownStep ==
    ASSUME PolicyTypes, Batched, RoadKnown, [PolicyNext]_policyVars PROVE RoadKnown'
  <1>0. /\ MaxTime \in Nat /\ now \in -1..MaxTime /\ lastTiming.time \in -1..MaxTime
        /\ qualitySince \in -1..MaxTime /\ qualityCount \in Nat
        /\ safeSince \in -1..MaxTime /\ safeCount \in Nat
    BY PolicyAssumption DEF PolicyTypes
  <1>1. ASSUME UNCHANGED <<now, stability, road>> PROVE RoadKnown'
    BY <1>1, Zenon DEF stability, RoadKnown, WindowAt, Supporting
  <1>2. ASSUME NEW t \in 0..MaxTime, NEW i \in Inputs(t), Stage(i) PROVE RoadKnown'
    <2>1. now' = i.time /\ i.time = t /\ UNCHANGED <<stability, road>>
          /\ IF staged = <<>> THEN i.time > now ELSE i.time = now
      BY <1>2, InputsFit DEF Stage
    <2>2. now' \in Int /\ now <= now'
      BY <1>0, <2>1
    <2>3. UNCHANGED <<lastTiming, qualitySince, qualityCount, safeSince, safeCount, road>>
      BY <2>1 DEF stability
    <2>4. /\ lastTiming.time <= now'
          /\ \A u \in 0..MaxTime :
                now' < u \/ (lastTiming.time # Never /\ lastTiming.time < u) => road[u] = "none"
      BY <1>0, <2>2 DEF RoadKnown
    <2>5. /\ WindowAt(qualitySince, qualityCount, {"safe", "unsafe"}, lastTiming.time, road)
          /\ WindowAt(safeSince, safeCount, {"safe"}, lastTiming.time, road)
      BY DEF RoadKnown
    <2> QED BY <2>3, <2>4, <2>5, Zenon DEF RoadKnown, WindowAt, Supporting
  <1>3. ASSUME ResetStability, now' = now,
               \A t \in 0..MaxTime : now < t => road'[t] = road[t]
        PROVE  RoadKnown'
    <2>1. /\ lastTiming'.time = Never
          /\ qualitySince' = Never /\ qualityCount' = 0 /\ safeSince' = Never /\ safeCount' = 0
      BY <1>3 DEF ResetStability, NoEvidence
    <2>2. Never <= now /\ \A t \in 0..MaxTime : now < t => road'[t] = "none"
      BY <1>0, <1>3 DEF RoadKnown, Never
    <2> QED BY <1>3, <2>1, <2>2, Zenon DEF RoadKnown, WindowAt
  <1>4. CASE FailClosed
    BY <1>3, <1>4 DEF FailClosed
  <1>5. CASE FeedBoundary
    <2>1. staged # <<>> /\ now' = now /\ ResetStability /\ road' = [road EXCEPT ![now] = "cut"]
      BY <1>5 DEF FeedBoundary, Take, Done
    <2>2. \A t \in 0..MaxTime : now < t => road'[t] = road[t]
      BY <1>0, <2>1 DEF PolicyTypes
    <2> QED BY <1>3, <2>1, <2>2
  <1>6. CASE Observed
    <2>1. /\ staged # <<>> /\ now' = now /\ lastTiming.time # Head(staged).time
          /\ lastTiming' = [time |-> Head(staged).time, sees |-> Head(staged).sees]
          /\ road' = [road EXCEPT ![Head(staged).time] = Head(staged).sees]
      BY <1>6 DEF Observed, Take, Done
    <2>2. now \in 0..MaxTime /\ Head(staged).time = now
      BY <2>1, HeadFits
    <2>3. lastTiming'.time = now /\ now <= now
      BY <1>0, <2>1, <2>2
    <2>4. \A t \in 0..MaxTime : now < t => road'[t] = "none"
      BY <1>0, <2>1, <2>2 DEF RoadKnown, PolicyTypes
    <2>5. "none" \notin {"safe", "unsafe"} /\ "none" \notin {"safe"}
      OBVIOUS
    <2>6. /\ WindowAt(qualitySince, qualityCount, {"safe", "unsafe"}, lastTiming.time, road)
          /\ WindowAt(safeSince, safeCount, {"safe"}, lastTiming.time, road)
      BY DEF RoadKnown
    <2>7. ASSUME NEW good, "none" \notin good, NEW since \in -1..MaxTime, NEW samples \in Nat,
                 WindowAt(since, samples, good, lastTiming.time, road)
          PROVE  LET w == Window(good, since, samples, Head(staged).sees)
                 IN  WindowAt(w[1], w[2], good, now, road')
      <3>1. PICK sees : sees = Head(staged).sees
        OBVIOUS
      <3>2. lastTiming.time # now /\ road' = [road EXCEPT ![now] = sees]
        BY <2>1, <2>2, <3>1
      <3> QED BY <2>2, <2>7, <3>1, <3>2, WindowStep
    <2>8. WindowAt(qualitySince', qualityCount', {"safe", "unsafe"}, now, road')
      <3>1. <<qualitySince', qualityCount'>> =
               Window({"safe", "unsafe"}, qualitySince, qualityCount, Head(staged).sees)
        BY <1>6 DEF Observed
      <3>2. LET w == Window({"safe", "unsafe"}, qualitySince, qualityCount, Head(staged).sees)
            IN  WindowAt(w[1], w[2], {"safe", "unsafe"}, now, road')
        BY <1>0, <2>5, <2>6, <2>7
      <3> QED BY <3>1, <3>2
    <2>9. WindowAt(safeSince', safeCount', {"safe"}, now, road')
      <3>1. <<safeSince', safeCount'>> = Window({"safe"}, safeSince, safeCount, Head(staged).sees)
        BY <1>6 DEF Observed
      <3>2. LET w == Window({"safe"}, safeSince, safeCount, Head(staged).sees)
            IN  WindowAt(w[1], w[2], {"safe"}, now, road')
        BY <1>0, <2>5, <2>6, <2>7
      <3> QED BY <3>1, <3>2
    <2>10. /\ lastTiming'.time <= now'
           /\ \A t \in 0..MaxTime :
                 now' < t \/ (lastTiming'.time # Never /\ lastTiming'.time < t) => road'[t] = "none"
      BY <2>1, <2>3, <2>4
    <2>11. /\ WindowAt(qualitySince', qualityCount', {"safe", "unsafe"}, lastTiming'.time, road')
           /\ WindowAt(safeSince', safeCount', {"safe"}, lastTiming'.time, road')
      BY <2>3, <2>8, <2>9
    <2> QED BY <2>10, <2>11, Zenon DEF RoadKnown, WindowAt, Supporting
  <1>7. CASE UNCHANGED policyVars
    BY <1>1, <1>7 DEF policyVars
  <1>8. CASE Pruned \/ FeedMute \/ FeedRevocation \/ Refreshed \/ Replaced \/ Ignored \/ Doubted
             \/ Fed \/ Decided
    BY <1>1, <1>8 DEF Pruned, FeedMute, FeedRevocation, Refreshed, Replaced, Ignored, Doubted, Fed,
                      Decided, Done
  <1>9. ASSUME NEW k \in Keys, DropMuted(k) \/ Hold(k) \/ Speak(k) PROVE RoadKnown'
    BY <1>1, <1>9 DEF DropMuted, Hold, Speak, Evaluate
  <1> QED BY <1>2, <1>4, <1>5, <1>6, <1>7, <1>8, <1>9, StepCases

----------------------------------------------------------------------------

LEMMA PolicyInitInv == PolicyInit => PolicyTypes /\ PolicyInv
  <1> SUFFICES ASSUME PolicyInit PROVE PolicyTypes /\ PolicyInv
    OBVIOUS
  <1>1. PolicyTypes /\ Batched
    BY PolicyInitTypes
  <1>2. /\ phase = "open" /\ now = -1 /\ staged = <<>> /\ undecided = {} /\ said = {}
        /\ \A k \in Keys : active[k] = None /\ pending[k] = None
        /\ lastTiming.time = Never /\ \A t \in 0..MaxTime : road[t] = "none"
        /\ qualitySince = Never /\ qualityCount = 0 /\ safeSince = Never /\ safeCount = 0
    BY DEF PolicyInit, NoEvidence, Never
  <1>3. InForce
    BY <1>2, NoneIsNotTactical DEF InForce
  <1>4. Spaced /\ SpokenOnceAndSpaced
    BY <1>2 DEF Spaced, SpokenOnceAndSpaced
  <1>5. RoadKnown
    <2>1. Never <= now
      BY <1>2 DEF Never
    <2> QED BY <1>2, <2>1 DEF RoadKnown, WindowAt
  <1> QED BY <1>1, <1>3, <1>4, <1>5 DEF PolicyInv

LEMMA PolicyInvStep ==
    ASSUME PolicyTypes, PolicyInv, [PolicyNext]_policyVars PROVE PolicyTypes' /\ PolicyInv'
  <1>1. Batched /\ InForce /\ Spaced /\ SpokenOnceAndSpaced /\ RoadKnown
    BY DEF PolicyInv
  <1>2. PolicyTypes'
    BY <1>1, TypesStep
  <1>3. Batched' /\ InForce'
    BY <1>1, BatchedStep, InForceStep
  <1>4. Spaced' /\ SpokenOnceAndSpaced' /\ RoadKnown'
    BY <1>1, SpacedStep, RoadKnownStep
  <1> QED BY <1>2, <1>3, <1>4 DEF PolicyInv

(* The types of the policy's state, and the inductive invariant the three  *)
(* theorems below follow from.                                             *)
THEOREM PolicyInvariant == PolicySpec => [](PolicyTypes /\ PolicyInv)
  <1>1. PolicyInit => PolicyTypes /\ PolicyInv
    BY PolicyInitInv
  <1>2. PolicyTypes /\ PolicyInv /\ [PolicyNext]_policyVars => (PolicyTypes /\ PolicyInv)'
    BY PolicyInvStep
  <1> QED BY <1>1, <1>2, PTL DEF PolicySpec

(* For any number of conflict keys, any classes and deadlines, any length  *)
(* of session and any order and batching of the inputs of its times: no    *)
(* candidate is spoken twice, and what is not P0 is spoken only when both  *)
(* cool-downs of all that was spoken before are over.                      *)
THEOREM SpeechIsSpaced == PolicySpec => []SpokenOnceAndSpaced
  <1>1. PolicyTypes /\ PolicyInv => SpokenOnceAndSpaced
    BY DEF PolicyInv
  <1> QED BY <1>1, PolicyInvariant, PTL

(* A candidate is the envelope in force word for word, and nothing         *)
(* tactical outlives a reset, a failure, its deadline or a mute.           *)
THEOREM CandidatesAreInForce == PolicySpec => []CandidatesInForce
  <1>1. PolicyTypes /\ PolicyInv => CandidatesInForce
    <2> SUFFICES ASSUME InForce PROVE CandidatesInForce
      BY DEF PolicyInv
    <2>1. phase \in {"open", "finished"} => ~(phase \in {"feeding", "deciding"})
      OBVIOUS
    <2> QED BY <2>1 DEF CandidatesInForce, InForce
  <1> QED BY <1>1, PolicyInvariant, PTL

(* What the two counters say of the upTo StableFor is what the evidence of *)
(* those times says: the window they samples is the one Shown asks for.      *)
LEMMA WindowShows ==
    ASSUME PolicyTypes, NEW good, NEW since, NEW samples,
           now \in Nat, WindowAt(since, samples, good, now, road), Ready(since, samples)
    PROVE  Shown(good)
  <1>1. /\ since # Never /\ samples >= StableSamples /\ now - since >= StableFor
        /\ since \in 0..now /\ {since, now} \subseteq Supporting(since, good, now, road)
        /\ samples = Cardinality(Supporting(since, good, now, road))
        /\ \A t \in since..now : road[t] \in good \cup {"none"}
        /\ \A t \in Supporting(since, good, now, road) \ {now} :
              \E u \in Supporting(since, good, now, road) : t < u /\ u - t <= MaxGap
    BY DEF WindowAt, Ready
  <1>2. Supporting(since, good, now, road) = {t \in since..now : road[t] \in good}
    BY DEF Supporting
  <1> QED BY <1>1, <1>2 DEF Shown

LEMMA SpeakStable ==
    ASSUME PolicyTypes, PolicyInv, NEW k \in Keys, Speak(k)
    PROVE  \A x \in said' \ said :
              /\ Shown(IF x.pri = 0 THEN {"safe", "unsafe"} ELSE {"safe"})
              /\ active[x.key].issued = x.issued /\ now < active[x.key].until
              /\ ~muted /\ ~invalidated
  <1>1. /\ phase = "deciding" /\ k \in undecided /\ ~muted
        /\ Stable /\ (Pri(pending[k]) = 0 \/ Safe)
        /\ \A x \in said' \ said :
              x.key = k /\ x.pri = Pri(pending[k]) /\ x.issued = pending[k].issued
    BY DEF Speak, Evaluate, MaySpeak
  <1>2. pending[k] # None /\ pending[k] = active[k] /\ Tactical(active[k])
    BY <1>1 DEF PolicyInv, InForce
  <1>3. ~invalidated /\ now < active[k].until
    BY <1>1, <1>2 DEF PolicyInv, InForce
  <1>4. /\ now \in Nat
        /\ WindowAt(qualitySince, qualityCount, {"safe", "unsafe"}, now, road)
        /\ WindowAt(safeSince, safeCount, {"safe"}, now, road)
    BY <1>1, PolicyAssumption DEF Stable, PolicyInv, Batched, RoadKnown
  <1>5. Shown({"safe", "unsafe"})
    BY <1>1, <1>4, WindowShows DEF Stable
  <1>6. Pri(pending[k]) # 0 => Shown({"safe"})
    BY <1>1, <1>4, WindowShows DEF Safe
  <1> QED BY <1>1, <1>2, <1>3, <1>5, <1>6

(* A prompt is spoken only over a road that the evidence has shown to be   *)
(* stable or safe, for the envelope in force and before its deadline.      *)
THEOREM SpeechNeedsAStableRoad == PolicySpec => SpokenOnStableRoad
  <1> DEFINE Justified ==
        \A x \in said' \ said :
              /\ Shown(IF x.pri = 0 THEN {"safe", "unsafe"} ELSE {"safe"})
              /\ active[x.key].issued = x.issued /\ now < active[x.key].until
              /\ ~muted /\ ~invalidated
  <1>1. ASSUME PolicyTypes, PolicyInv, [PolicyNext]_policyVars PROVE Justified
    <2>1. CASE said' = said
      BY <2>1
    <2>2. ASSUME NEW k \in Keys, Speak(k) PROVE Justified
      BY <1>1, <2>2, SpeakStable
    <2>3. CASE said' # said
      <3>1. ~ \/ UNCHANGED policyVars \/ FailClosed
              \/ \E t \in 0..MaxTime : \E i \in Inputs(t) : Stage(i)
              \/ Pruned \/ FeedMute \/ FeedRevocation \/ Refreshed \/ Replaced \/ Ignored
              \/ Doubted \/ Observed \/ FeedBoundary \/ Fed \/ Decided
              \/ \E k \in Keys : DropMuted(k) \/ Hold(k)
        BY <2>3 DEF policyVars, spoken, FailClosed, Stage, Pruned, FeedMute, FeedRevocation,
                    Refreshed, Replaced, Ignored, Doubted, Observed, FeedBoundary, Fed, Decided,
                    DropMuted, Hold, Done
      <3> QED BY <1>1, <2>2, <3>1, StepCases DEF PolicyInv
    <2> QED BY <2>1, <2>3
  <1>2. PolicyTypes /\ PolicyInv /\ [PolicyNext]_policyVars => [Justified]_policyVars
    BY <1>1
  <1>3. PolicySpec => [][Justified]_policyVars
    <2> HIDE DEF Justified
    <2> QED BY <1>2, PolicyInvariant, PTL DEF PolicySpec
  <1> QED BY <1>3 DEF SpokenOnStableRoad

=============================================================================
