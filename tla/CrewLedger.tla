----------------------------- MODULE CrewLedger -----------------------------
(***************************************************************************)
(* The event ledger of one crew: AppendCrewEvent, removeCrewEvent and       *)
(* UpdateLedgerEventSnapshotURLs, each a read-modify-write of one storage   *)
(* object with a version check and three attempts (crew_events.go,          *)
(* streaming.go).  Nakama storage is external: a write with an empty        *)
(* version is unconditional, one with another version than the stored one   *)
(* is refused.  A storage call may also fail.                              *)
(***************************************************************************)
EXTENDS Filtering, FiniteSets

CONSTANTS
  Writers,        \* goroutines
  Events,
  Attempts,       \* attempts of an operation (3 in the code)
  Retention,      \* EventRollingWindowDays, in ticks
  StartsEmpty,    \* whether the crew has no ledger object yet
  MaxTime,        \* bound: ticks
  MaxReadFaults,  \* bound: reads that fail
  MaxWriteFaults  \* bound: writes that fail and change nothing

ASSUME CrewLedgerAssumption ==
  /\ Attempts \in Nat \ {0} /\ Retention \in Nat
  /\ StartsEmpty \in BOOLEAN
  /\ MaxTime \in Nat /\ MaxReadFaults \in Nat /\ MaxWriteFaults \in Nat

VARIABLES
  stored,   \* the events of the storage object
  version,  \* its version; 0 when there is no object
  now,      \* the clock
  writer,   \* what each goroutine is doing
  append,   \* history: how the append of an event ended
  stamp,    \* history: the timestamp of an event
  asked,    \* history: the removals and backfills that were asked for
  gone,     \* history: events whose removal returned without an error
  faults    \* bounded: failed reads and writes

vars == <<stored, version, now, writer, append, stamp, asked, gone, faults>>

Entry == [id : Events, at : 0..MaxTime, pictures : BOOLEAN]
Idle == [pc |-> "idle"]
Ops == {"append", "remove", "illustrate"}

TypeOK ==
  /\ stored \in Seq(Entry) /\ version \in Nat /\ now \in 0..MaxTime
  /\ writer \in [Writers ->
       {Idle}
       \cup [pc : {"read"}, op : Ops, event : Events, attempt : 1..Attempts]
       \cup [pc : {"write"}, op : Ops, event : Events, attempt : 1..Attempts,
             value : Seq(Entry), version : Nat]]
  /\ append \in [Events -> {"none", "running", "done", "failed"}]
  /\ stamp \in [Events -> 0..MaxTime]
  /\ asked \subseteq {"remove", "illustrate"} \X Events
  /\ gone \subseteq {e \in Events : <<"remove", e>> \in asked}
  /\ faults \in [read : 0..MaxReadFaults, write : 0..MaxWriteFaults]

Init ==
  /\ stored = <<>>
  /\ version = IF StartsEmpty THEN 0 ELSE 1
  /\ now = 0
  /\ writer = [w \in Writers |-> Idle]
  /\ append = [e \in Events |-> "none"] /\ stamp = [e \in Events |-> 0]
  /\ asked = {} /\ gone = {}
  /\ faults = [read |-> 0, write |-> 0]

-----------------------------------------------------------------------------
(* Calls                                                                   *)

Call(w, op, e) ==
  /\ writer[w] = Idle
  /\ writer' = [writer EXCEPT ![w] = [pc |-> "read", op |-> op, event |-> e, attempt |-> 1]]
  /\ UNCHANGED <<stored, version, now, gone, faults>>

(* An event is stamped with the time it happened, now or earlier.          *)
AppendCrewEvent(w, e, at) ==
  /\ append[e] = "none" /\ at <= now
  /\ Call(w, "append", e)
  /\ append' = [append EXCEPT ![e] = "running"]
  /\ stamp' = [stamp EXCEPT ![e] = at]
  /\ UNCHANGED asked

Ask(w, op, e) ==
  /\ append[e] = "done" /\ <<op, e>> \notin asked
  /\ Call(w, op, e)
  /\ asked' = asked \cup {<<op, e>>}
  /\ UNCHANGED <<append, stamp>>

(* A stream that resumes takes its session event back.                     *)
RemoveCrewEvent(w, e) == Ask(w, "remove", e)

(* The backfill job adds the pictures the SFU uploaded late.               *)
UpdateLedgerEventSnapshotURLs(w, e) == Ask(w, "illustrate", e)

-----------------------------------------------------------------------------
(* Attempts                                                                *)

Has(value, e) == \E i \in DOMAIN value : value[i].id = e
NewEvent(e) == [id |-> e, at |-> stamp[e], pictures |-> FALSE]
Recent(value, time) == Filtered(value, {i \in DOMAIN value : value[i].at >= time - Retention})
Without(value, e) == Filtered(value, {i \in DOMAIN value : value[i].id # e})
WithPictures(value, e) ==
  [i \in DOMAIN value |->
     IF value[i].id = e THEN [value[i] EXCEPT !.pictures = TRUE] ELSE value[i]]

(* What an attempt writes after it read value.                             *)
NewValue(op, e, value) ==
  CASE op = "append"     -> Recent(Append(value, NewEvent(e)), now)
    [] op = "remove"     -> Without(value, e)
    [] op = "illustrate" -> WithPictures(value, e)

(* A removal or a backfill that does not find its event returns; what it     *)
(* returns is nil for the removal.                                         *)
Modify(w, value, ver) ==
  LET s == writer[w] IN
  IF s.op # "append" /\ ~Has(value, s.event)
  THEN /\ writer' = [writer EXCEPT ![w] = Idle]
       /\ gone' = IF s.op = "remove" THEN gone \cup {s.event} ELSE gone
  ELSE /\ writer' = [writer EXCEPT ![w] =
            [pc |-> "write", op |-> s.op, event |-> s.event, attempt |-> s.attempt,
             value |-> NewValue(s.op, s.event, value), version |-> ver]]
       /\ UNCHANGED gone

ReadLedger(w) ==
  /\ writer[w].pc = "read"
  /\ Modify(w, stored, version)
  /\ UNCHANGED <<stored, version, now, append, stamp, asked, faults>>

(* readLedger answers a failed read with an empty ledger and no version.   *)
ReadFails(w) ==
  /\ writer[w].pc = "read" /\ faults.read < MaxReadFaults
  /\ faults' = [faults EXCEPT !.read = @ + 1]
  /\ Modify(w, <<>>, 0)
  /\ UNCHANGED <<stored, version, now, append, stamp, asked>>

(* Mutant: every write is unconditional.                                   *)
AlwaysAccepted(ver) == TRUE

(* The version check of the storage.                                       *)
Accepted(ver) == ver = 0 \/ ver = version

Result(s, ok) == IF ok THEN "done" ELSE IF s.attempt = Attempts THEN "failed" ELSE "retry"

Finish(w, ok) ==
  LET s == writer[w]  r == Result(s, ok) IN
  /\ writer' = [writer EXCEPT ![w] =
       IF r = "retry"
       THEN [pc |-> "read", op |-> s.op, event |-> s.event, attempt |-> s.attempt + 1]
       ELSE Idle]
  /\ append' = IF s.op = "append" /\ r # "retry" THEN [append EXCEPT ![s.event] = r] ELSE append
  /\ gone' = IF s.op = "remove" /\ r = "done" THEN gone \cup {s.event} ELSE gone

WriteLedger(w) ==
  LET s == writer[w]  ok == Accepted(s.version) IN
  /\ s.pc = "write"
  /\ IF ok THEN stored' = s.value /\ version' = version + 1 ELSE UNCHANGED <<stored, version>>
  /\ Finish(w, ok)
  /\ UNCHANGED <<now, stamp, asked, faults>>

WriteFails(w) ==
  /\ writer[w].pc = "write" /\ faults.write < MaxWriteFaults
  /\ faults' = [faults EXCEPT !.write = @ + 1]
  /\ Finish(w, FALSE)
  /\ UNCHANGED <<stored, version, now, stamp, asked>>

(* The rolling window is 7 days: no attempt is still under way a tick later. *)
Tick ==
  /\ now < MaxTime /\ \A w \in Writers : writer[w].pc # "write"
  /\ now' = now + 1
  /\ UNCHANGED <<stored, version, writer, append, stamp, asked, gone, faults>>

Next ==
  \/ \E w \in Writers, e \in Events :
       \/ \E at \in 0..now : AppendCrewEvent(w, e, at)
       \/ RemoveCrewEvent(w, e) \/ UpdateLedgerEventSnapshotURLs(w, e)
  \/ \E w \in Writers : ReadLedger(w) \/ ReadFails(w) \/ WriteLedger(w) \/ WriteFails(w)
  \/ Tick

Spec == Init /\ [][Next]_vars

-----------------------------------------------------------------------------
(* Properties                                                              *)

Copies(e) == Cardinality({i \in DOMAIN stored : stored[i].id = e})

Kept ==
  \A e \in Events :
    append[e] = "done" /\ <<"remove", e>> \notin asked /\ stamp[e] >= now - Retention => Copies(e) = 1

NoReadFailed == faults.read = 0

(* An event whose append succeeded is in the ledger exactly once for as long *)
(* as the rolling window keeps it, unless a resume takes it back: no other  *)
(* append, removal or backfill overwrites it and no retry repeats it.      *)
AckedIsKept == NoReadFailed => Kept

(* An event that a resume took back does not come back with the late write   *)
(* of another operation.                                                   *)
GoneStaysGone == NoReadFailed => \A e \in gone : Copies(e) = 0

(* As long as no read fails, the ledger is a log that whole operations change *)
(* one after the other, however their reads and writes interleave.         *)
Log == INSTANCE EventLog WITH log <- stored, clock <- now
ImplementsEventLog == Log!Init /\ [][NoReadFailed => Log!Change \/ Log!Tick]_<<stored, now>>

(* Refuted when a read fails: the operation writes what it did not read      *)
(* (specs/16: "If two writes race, one fails and retries").                *)
ReadFaultLosesNothing == Kept
=============================================================================
