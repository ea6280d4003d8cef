--------------------------- MODULE CaptureReader ---------------------------
(***************************************************************************)
(* What a reader of a capture accepts, record by record: the               *)
(* _CollectorValidator of adapters.py.  A reader is a record r; Read is    *)
(* what it knows after the next record m.  It refuses the file at the      *)
(* first record that breaks the format (ok is FALSE from there on) or that *)
(* changes an identity the reader binds it to (bound.steady is FALSE from  *)
(* there on).  The two are kept apart, and what it would have known of the *)
(* rest is followed all the same: a file is accepted only if both held.    *)
(*                                                                         *)
(* A record m of the file has a kind (its record_type, or its event_kind), *)
(* the collector's sequence number, its two epochs, the sample s it was    *)
(* written for and the evidence it gives.  Every digest is the value it is *)
(* computed from.  Left out: the type and range checks on one field, the   *)
(* identities of the run record, of which a file has one, the driver data  *)
(* of the session information, and the normalisation of a frame's values.  *)
(***************************************************************************)
EXTENDS Integers, FiniteSets

CONSTANTS TrackOf,   \* the track length a FULL payload gives, 0 for none
          EventOf,   \* what it says of the event, 0 for nothing
          CarOf      \* the car class of a frame's values, 0 if not readable

\* The event records, in the collector's terms: schema_changed,
\* session_reset, session_info_changed_without_update,
\* capture_clock_regression, source_stale, source_resumed,
\* duplicate_sample, duplicate_tick_conflict and tick_drop.
Events == {"changed", "reset", "untold", "clock", "stale", "resumed",
           "duplicate", "conflict", "drop"}

Kinds == Events \cup {"run", "schema", "info", "frame"}

\* No frame yet, and nothing pending: values no sample has.
NoFrame == [tick |-> 0, update |-> 0, session |-> 0, time |-> 0, values |-> 0]

NoPending == [need |-> "none", tick |-> 0, update |-> 0, sees |-> {}]

\* What of a sample its frame record keeps: the payload digest covers the
\* tick and the values, SessionNum and SessionTime among them.
FrameOf(s) == [tick |-> s.tick, update |-> s.update, session |-> s.session,
               time |-> s.time, values |-> s.values]

Digest(f) == <<f.tick, f.session, f.time, f.values>>

\* The same rule on both sides: the collector's _reset_reasons and the
\* validator's recomputation from the two frames.
ResetReasons(f, s) ==
    {x \in {"BUFFER_TICK", "SESSION_INFO_UPDATE", "SESSION_NUM", "SESSION_TIME"} :
        \/ x = "BUFFER_TICK" /\ s.tick < f.tick
        \/ x = "SESSION_INFO_UPDATE" /\ s.update < f.update
        \/ x = "SESSION_NUM" /\ s.session # f.session
        \/ x = "SESSION_TIME" /\ s.time < f.time}

Full == 1      \* payload_scope FULL: the other scopes bind nothing
Unseen == -1   \* no FULL session information yet

Unbound == [steady |-> TRUE, track |-> Unseen, event |-> 0, car |-> 0]

NewReader ==
    [ok |-> TRUE, bound |-> Unbound, receipt |-> FALSE, seq |-> 0, schema |-> -1, session |-> 0,
     last |-> NoFrame, epoch |-> -1, first |-> 0, stale |-> FALSE, dropped |-> 0,
     pending |-> NoPending, count |-> [k \in Kinds |-> 0]]

---------------------------------------------------------------------------

\* _epochs, and the epoch test of each record: everything but a reset is in
\* the current session epoch, and a reset opens the next.
Placed(r, m) ==
    /\ 0 <= r.schema
    /\ m.schema = r.schema
    /\ m.session = (IF m.kind = "reset" THEN r.session + 1 ELSE r.session)

\* The pending session information: of a change without an update it must
\* be the announced one, after a reset it must be of the reset's tick.
InfoFits(r, m) ==
    r.pending.need = "info" =>
        /\ m.s.tick = r.pending.tick
        /\ r.pending.sees = {} => m.s.update = r.pending.update

InEpoch(r, m) == r.last # NoFrame /\ r.epoch = m.session

EventFits(r, m) ==
    \/ m.kind \in {"clock", "untold"}
    \/ m.kind = "reset" /\ r.last # NoFrame /\ m.sees # {}
    \/ m.kind = "changed" /\ r.pending.need = "changed" /\ m.s.tick = r.pending.tick
    \/ m.kind = "stale" /\ ~r.stale
    \/ m.kind = "resumed" /\ r.stale
    \/ /\ m.kind = "duplicate"
       /\ InEpoch(r, m)
       /\ m.s.tick = r.last.tick
       /\ m.sees.before = Digest(r.last)
       /\ m.sees.conflict = (m.sees.before # m.sees.after)
    \/ /\ m.kind = "conflict"
       /\ r.pending.need = "conflict"
       /\ m.s.tick = r.pending.tick
       /\ m.sees = r.pending.sees
    \/ /\ m.kind = "drop"
       /\ InEpoch(r, m)
       /\ m.sees.before = r.last.tick
       /\ m.sees.missing = m.s.tick - r.last.tick - 1
       /\ m.sees.missing >= 1

\* A frame's tick grows within its epoch, and a pending drop or reset is
\* about this very frame.
FrameFits(r, m) ==
    /\ InEpoch(r, m) => m.s.tick > r.last.tick
    /\ r.pending.need = "frame" =>
        /\ m.s.tick = r.pending.tick
        /\ r.pending.sees # {} => ResetReasons(r.last, m.s) = r.pending.sees

\* What a receipt must say of the records before it.
Account(r) ==
    [seq |-> r.seq, samples |-> r.count["frame"] + r.count["duplicate"],
     dropped |-> r.dropped, first |-> r.first, final |-> r.last.tick,
     schemas |-> r.schema + 1, sessions |-> r.session + 1, count |-> r.count]

ReceiptFits(r, m) ==
    /\ r.count["frame"] > 0
    /\ m.sees = Account(r)
    /\ r.count["changed"] = r.count["schema"] - 1
    /\ r.count["reset"] = r.session

Accepts(r, m) ==
    /\ ~r.receipt
    /\ m.seq = r.seq
    /\ (m.seq = 0) <=> (m.kind = "run")
    /\ r.pending.need \in {"none", m.kind}
    /\ \/ m.kind = "run"
       \/ m.kind = "schema" /\ m.schema = r.schema + 1
       \/ m.kind = "receipt" /\ ReceiptFits(r, m)
       \/ m.kind \in Events /\ Placed(r, m) /\ EventFits(r, m)
       \/ m.kind = "info" /\ Placed(r, m) /\ InfoFits(r, m)
       \/ m.kind = "frame" /\ Placed(r, m) /\ FrameFits(r, m)

---------------------------------------------------------------------------

\* The record the reader insists on next, and what that record must show.
PendingAfter(r, m) ==
    LET Await(kind, sees) ==
            [need |-> kind, tick |-> m.s.tick, update |-> m.s.update, sees |-> sees]
    IN  CASE m.kind = "schema" /\ r.schema >= 0 -> Await("changed", {})
          [] m.kind = "duplicate" /\ m.sees.conflict -> Await("conflict", m.sees)
          [] m.kind = "drop" -> Await("frame", {})
          [] m.kind = "untold" -> Await("info", {})
          [] m.kind = "reset" -> Await("info", m.sees)
          [] m.kind = "info" /\ r.pending.need = "info" /\ r.pending.sees # {} ->
                [r.pending EXCEPT !.need = "frame"]
          [] OTHER -> NoPending

\* The identities a file is bound to.  The track length, or that there is
\* none, is the same in every FULL session information of the run; what is
\* said of the event and of the car class is the same within one session
\* epoch.  One number stands for all of the event's fields.
Identifies(m) == m.kind = "info" /\ m.s.scope = Full

TrackKept(b, m) == Identifies(m) => b.track \in {Unseen, TrackOf[m.s.info]}

EventKept(b, m) ==
    Identifies(m) => EventOf[m.s.info] = 0 \/ b.event \in {0, EventOf[m.s.info]}

CarKept(b, m) ==
    m.kind = "frame" => CarOf[m.s.values] = 0 \/ b.car \in {0, CarOf[m.s.values]}

Bind(b, m) ==
    [steady |-> b.steady /\ TrackKept(b, m) /\ EventKept(b, m) /\ CarKept(b, m),
     track |-> IF Identifies(m) THEN TrackOf[m.s.info] ELSE b.track,
     event |-> IF m.kind = "reset" THEN 0
               ELSE IF Identifies(m) /\ EventOf[m.s.info] # 0 THEN EventOf[m.s.info]
               ELSE b.event,
     car |-> IF m.kind = "reset" THEN 0
             ELSE IF m.kind = "frame" /\ CarOf[m.s.values] # 0 THEN CarOf[m.s.values]
             ELSE b.car]

Read(r, m) ==
    IF ~Accepts(r, m) THEN [r EXCEPT !.ok = FALSE]
    ELSE IF m.kind = "receipt" THEN [r EXCEPT !.receipt = TRUE]
    ELSE [r EXCEPT
            !.bound = Bind(@, m),
            !.seq = @ + 1,
            !.count[m.kind] = @ + 1,
            !.schema = IF m.kind = "schema" THEN m.schema ELSE @,
            !.session = IF m.kind = "reset" THEN m.session ELSE @,
            !.stale = IF m.kind = "stale" THEN TRUE
                      ELSE IF m.kind \in {"reset", "resumed"} THEN FALSE ELSE @,
            !.dropped = IF m.kind = "drop" THEN @ + m.sees.missing ELSE @,
            !.first = IF m.kind = "frame" /\ @ = 0 THEN m.s.tick ELSE @,
            !.last = IF m.kind = "frame" THEN FrameOf(m.s) ELSE @,
            !.epoch = IF m.kind = "frame" THEN m.session ELSE @,
            !.pending = PendingAfter(r, m)]

============================================================================
