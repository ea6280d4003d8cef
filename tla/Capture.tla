------------------------------ MODULE Capture ------------------------------
(***************************************************************************)
(* The recording of one connection: AppRecorder, the LiveCollector it      *)
(* feeds and the JsonlHandleWriter that puts the records on disk, with the *)
(* reader of CaptureReader following the file.                             *)
(*                                                                         *)
(* One call of ingest decides which records a sample needs (due) and then  *)
(* writes them in the collector's fixed Order, one WriteRecord each.  A    *)
(* write may fail at any byte; every state between two of them is also     *)
(* what a killed process leaves behind, so no action of its own stands for *)
(* a crash.  reader has read the whole lines on disk; torn counts the      *)
(* bytes of a last line that has no newline yet.                           *)
(*                                                                         *)
(* Left out: the JSON form of a record, the private directory, the audit   *)
(* trace of _RecordingSink and its worker thread (module FrameWorker).     *)
(***************************************************************************)
EXTENDS CaptureReader, Sequences

CONSTANTS Samples,      \* the samples the SDK may hand over
          MaxSamples,   \* bound on the samples of one recording
          StaleAfter,   \* the clock difference a source may be silent for
          Line,         \* the length of a record's line, newline included
          MaxBytes      \* max_output_bytes

NoClock == 0   \* no valid capture time: the true ones are positive

ASSUME CaptureAssumption ==
    /\ MaxSamples \in Nat /\ StaleAfter \in Nat /\ MaxBytes \in Nat
    /\ Line \in [Kinds \cup {"receipt"} -> Nat \ {0}]
    /\ \A s \in Samples :
          /\ {s.tick, s.update, s.session, s.time, s.values} \subseteq Nat \ {0}
          /\ {s.schema, s.info, s.scope} \subseteq Nat \ {0}
          /\ s.clock \in Nat
          /\ {TrackOf[s.info], EventOf[s.info], CarOf[s.values]} \subseteq Nat

VARIABLES status,      \* AppRecorder: open, finishing, finished, failed, closed
          offered,     \* the samples handed to AppRecorder.ingest
          current,     \* the sample being recorded
          due,         \* the records still to be written for it
          seen,        \* LiveCollector: the samples it took
          seq, count,  \* the records written, in all and by kind
          schema, schemaEpoch, sessionEpoch,
          last,        \* the last frame recorded
          lastInfo,    \* what the last session information said
          progress, stale,
          first, dropped,
          byteSize,    \* JsonlHandleWriter: the bytes it counts as written
          bytes, torn, \* the disk: whole lines, and a half written one
          reader

collector == <<seen, seq, count, schema, schemaEpoch, sessionEpoch, last, lastInfo,
               progress, stale, first, dropped>>
disk == <<byteSize, bytes, torn, reader>>
vars == <<status, offered, current, due, collector, disk>>

NoSample == [tick |-> 0, update |-> 0, session |-> 0, time |-> 0, values |-> 0,
             schema |-> 0, info |-> 0, scope |-> 0, clock |-> NoClock]

NoInfo == [update |-> 0, payload |-> 0, scope |-> 0]

Init ==
    /\ status = "open"
    /\ offered = 0
    /\ current = NoSample
    /\ due = {}
    /\ seen = 0
    /\ seq = 0
    /\ count = [k \in Kinds |-> 0]
    /\ schema = 0 /\ schemaEpoch = -1 /\ sessionEpoch = 0
    /\ last = NoFrame
    /\ lastInfo = NoInfo
    /\ progress = NoClock /\ stale = FALSE
    /\ first = 0 /\ dropped = 0
    /\ byteSize = 0 /\ bytes = 0 /\ torn = 0
    /\ reader = NewReader

---------------------------------------------------------------------------

\* The order in which ingest writes what a sample needs.
Order == <<"run", "schema", "changed", "reset", "untold", "info", "clock",
           "stale", "resumed", "duplicate", "conflict", "drop", "frame", "receipt">>

IsReset(s) == last # NoFrame /\ ResetReasons(last, s) # {}
IsDuplicate(s) == last # NoFrame /\ ~IsReset(s) /\ s.tick = last.tick

ProgressKept(s) == progress

\* A reset forgets the silence and the session information seen so far.
ProgressBefore(s) == IF IsReset(s) THEN NoClock ELSE progress
StaleBefore(s) == stale /\ ~IsReset(s)

\* _observe_staleness, its three early returns and its comparison.
Timed(s) == s.clock # NoClock /\ ProgressBefore(s) # NoClock
ClockBack(s) == Timed(s) /\ s.clock < ProgressBefore(s)
Silent(s) == Timed(s) /\ s.clock - ProgressBefore(s) > StaleAfter
GoneStale(s) == Silent(s) \/ StaleBefore(s)
Resumes(s) == Timed(s) /\ ~ClockBack(s) /\ ~IsDuplicate(s) /\ GoneStale(s)

InfoDue(s) ==
    \/ last = NoFrame
    \/ IsReset(s)
    \/ [update |-> s.update, payload |-> s.info, scope |-> s.scope] # lastInfo

Untold(s) ==
    /\ last # NoFrame /\ ~IsReset(s)
    /\ s.update = lastInfo.update
    /\ s.info # lastInfo.payload

Needs(k, s) ==
    \/ k = "run" /\ seq = 0
    \/ k = "schema" /\ s.schema # schema
    \/ k = "changed" /\ s.schema # schema /\ schema # 0
    \/ k = "reset" /\ IsReset(s)
    \/ k = "untold" /\ Untold(s)
    \/ k = "info" /\ InfoDue(s)
    \/ k = "clock" /\ ClockBack(s)
    \/ k = "stale" /\ Silent(s) /\ ~StaleBefore(s)
    \/ k = "resumed" /\ Resumes(s)
    \/ k = "duplicate" /\ IsDuplicate(s)
    \/ k = "conflict" /\ IsDuplicate(s) /\ Digest(FrameOf(s)) # Digest(last)
    \/ k = "drop" /\ last # NoFrame /\ ~IsReset(s) /\ s.tick > last.tick + 1
    \/ k = "frame" /\ ~IsDuplicate(s)

\* LiveCollector.ingest up to its first write.  The clock and the flag of
\* _observe_staleness are read nowhere else, so they are set here.
Ingest(s) ==
    /\ status = "open" /\ due = {}
    /\ offered < MaxSamples
    /\ offered' = offered + 1
    /\ seen' = seen + 1
    /\ current' = s
    /\ due' = {k \in Kinds : Needs(k, s)}
    /\ stale' = IF Timed(s) /\ ~ClockBack(s)
                THEN GoneStale(s) /\ IsDuplicate(s) ELSE StaleBefore(s)
    /\ progress' = IF s.clock # NoClock /\ ~IsDuplicate(s)
                   THEN s.clock ELSE ProgressBefore(s)
    /\ UNCHANGED <<status, seq, count, schema, schemaEpoch, sessionEpoch, last,
                   lastInfo, first, dropped, disk>>

RefuseQuietly ==
    /\ status = "open" /\ due = {}
    /\ offered < MaxSamples
    /\ offered' = offered + 1
    /\ UNCHANGED <<status, current, due, collector, disk>>

\* A sample ingest refuses before it writes: malformed, of a replay, or of
\* another sim mode than the run.  The recorder is terminal from here.
Refuse ==
    /\ status = "open" /\ due = {}
    /\ offered < MaxSamples
    /\ offered' = offered + 1
    /\ status' = "failed"
    /\ UNCHANGED <<current, due, collector, disk>>

---------------------------------------------------------------------------

\* The receipt: the collector's own counts.
Receipt ==
    [seq |-> seq, samples |-> seen, dropped |-> dropped, first |-> first,
     final |-> last.tick, schemas |-> schemaEpoch + 1,
     sessions |-> sessionEpoch + 1, count |-> count]

Evidence(k) ==
    CASE k = "reset" -> ResetReasons(last, current)
      [] k \in {"duplicate", "conflict"} ->
            [before |-> Digest(last), after |-> Digest(FrameOf(current)),
             conflict |-> "conflict" \in due]
      [] k = "drop" -> [before |-> last.tick, missing |-> current.tick - last.tick - 1]
      [] k = "receipt" -> Receipt
      [] OTHER -> {}

\* The epochs a record carries: a schema and a reset open the next one.
Record(k) ==
    [kind |-> k, seq |-> seq, s |-> current, sees |-> Evidence(k),
     schema |-> IF k = "schema" THEN schemaEpoch + 1 ELSE schemaEpoch,
     session |-> IF k = "reset" THEN sessionEpoch + 1 ELSE sessionEpoch]

\* What the collector remembers of a record once it is written.
Remember(k) ==
    /\ seq' = IF k = "receipt" THEN seq ELSE seq + 1
    /\ count' = IF k = "receipt" THEN count ELSE [count EXCEPT ![k] = @ + 1]
    /\ schema' = IF k = "schema" THEN current.schema ELSE schema
    /\ schemaEpoch' = IF k = "schema" THEN schemaEpoch + 1 ELSE schemaEpoch
    /\ sessionEpoch' = IF k = "reset" THEN sessionEpoch + 1 ELSE sessionEpoch
    /\ lastInfo' = IF k = "info"
                   THEN [update |-> current.update, payload |-> current.info,
                         scope |-> current.scope]
                   ELSE lastInfo
    /\ dropped' = IF k = "drop" THEN dropped + current.tick - last.tick - 1 ELSE dropped
    /\ last' = IF k = "frame" THEN FrameOf(current) ELSE last
    /\ first' = IF k = "frame" /\ first = 0 THEN current.tick ELSE first
    /\ UNCHANGED <<seen, progress, stale>>

\* JsonlHandleWriter: the next record is the first due one in the Order.
NextDue(k) ==
    \E i \in DOMAIN Order :
        /\ Order[i] = k
        /\ k \in due
        /\ \A j \in 1..(i - 1) : Order[j] \notin due

AllowedBefore(k) == byteSize < MaxBytes

Allowed(k) == Line[k] <= MaxBytes - byteSize

WriteRecord(k) ==
    /\ status \in {"open", "finishing"}
    /\ NextDue(k)
    /\ Allowed(k)
    /\ due' = due \ {k}
    /\ bytes' = bytes + Line[k]
    /\ byteSize' = byteSize + Line[k]
    /\ reader' = Read(reader, Record(k))
    /\ Remember(k)
    /\ UNCHANGED <<status, offered, current, torn>>

\* The call fails: the line would exceed the budget or the descriptor was
\* moved (nothing is written), os.write stops short, or the line is whole
\* but fsync or the second check fails, and the writer does not count it.
WriteFails(k) ==
    /\ status \in {"open", "finishing"}
    /\ NextDue(k)
    /\ status' = "failed"
    /\ \/ UNCHANGED <<bytes, torn, reader>>
       \/ /\ Allowed(k)
          /\ torn' \in 1..(Line[k] - 1)
          /\ UNCHANGED <<bytes, reader>>
       \/ /\ Allowed(k)
          /\ bytes' = bytes + Line[k]
          /\ reader' = Read(reader, Record(k))
          /\ UNCHANGED torn
    /\ UNCHANGED <<offered, current, due, collector, byteSize>>

---------------------------------------------------------------------------

\* AppRecorder.finish: a recording of no sample ends without a receipt.
Finish ==
    /\ status = "open" /\ due = {}
    /\ status' = IF offered = 0 THEN "finished" ELSE "finishing"
    /\ due' = IF offered = 0 THEN {} ELSE {"receipt"}
    /\ UNCHANGED <<offered, current, collector, disk>>

\* JsonlHandleWriter.close and AppRecorder.close after the receipt.
Seal ==
    /\ status = "finishing" /\ due = {}
    /\ status' \in {"finished", "failed"}
    /\ UNCHANGED <<offered, current, due, collector, disk>>

\* AppRecorder.close of an interrupted or failed clip never finalizes it.
Close ==
    /\ status \in {"open", "failed"}
    /\ status = "open" => due = {}
    /\ status' = "closed"
    /\ UNCHANGED <<offered, current, due, collector, disk>>

Ended == status \in {"finished", "closed"} /\ UNCHANGED vars

Next ==
    \/ \E s \in Samples : Ingest(s)
    \/ Refuse
    \/ \E k \in Kinds \cup {"receipt"} : WriteRecord(k) \/ WriteFails(k)
    \/ Finish
    \/ Seal
    \/ Close
    \/ Ended

Spec == Init /\ [][Next]_vars

---------------------------------------------------------------------------

Clean == torn = 0 /\ reader.ok /\ reader.bound.steady

\* A file the validator with require_receipt accepts as COMPLETE.
Complete == Clean /\ reader.receipt

\* The two sides of the format, with 400 lines of rules each, agree on
\* every order of resets, duplicates, drops, silences and schema changes:
\* no whole line breaks a rule of the format, at any instant, so that the
\* only thing the reader can refuse is a changed identity; between two
\* samples no transaction of several records is open, so that an
\* interrupted recording can be recovered with every sample; and one that
\* finished is COMPLETE exactly if it had a sample and kept its track
\* length, and its event and car class in each session (collector.py:1022
\* against adapters.py:2282, 2334, 2501 and 3042).
Readable ==
    /\ reader.ok
    /\ status = "open" /\ due = {} /\ reader.bound.steady =>
        /\ reader.pending.need = "none"
        /\ reader.count["frame"] + reader.count["duplicate"] = offered
    /\ status = "finished" => (Complete <=> offered > 0 /\ reader.bound.steady)

\* A COMPLETE file holds every sample that was offered, and nothing more
\* is to come: no refusal, failure, cut or interruption leaves a shorter
\* file that passes for a whole one (live_app_recording.py:60).
CompleteIsWhole ==
    Complete =>
        /\ due = {} \/ (status \in {"failed", "closed"} /\ due = {"receipt"})
        /\ reader.count["frame"] + reader.count["duplicate"] = offered

\* The file never grows past its budget, a half written line included, and
\* byte_count never counts a byte that is not in a whole line of the file
\* (collector.py:672, live_app_recording.py:63).
WithinBudget ==
    /\ bytes + torn <= MaxBytes
    /\ byteSize <= bytes
    /\ status \notin {"failed", "closed"} => byteSize = bytes /\ torn = 0

============================================================================
