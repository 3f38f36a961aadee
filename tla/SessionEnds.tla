----------------------------- MODULE SessionEnds -----------------------------
(***************************************************************************)
(* The report of a finished game session, from the client's direct call and *)
(* its persisted queue of unsent reports (pending_session_ends.rs,          *)
(* client/presence.rs) to GameSessionEndRPC, which marks the session id     *)
(* before it records the session (crew_events.go).                         *)
(*                                                                         *)
(* A session is the number of its end: queue order is numeric order.  The    *)
(* queue is saved after every change; a save that fails is only logged, and *)
(* leaves the older file or an unreadable one, which reads as empty.  A call *)
(* whose connection breaks may go on running on the server.                *)
(***************************************************************************)
EXTENDS Integers, FiniteSets, FiniteSetsExt

CONSTANTS
  NumSessions,   \* bound: sessions that end
  Refused,       \* sessions of crews the user has left: the server refuses them
  Handlers,      \* server goroutines
  MaxEntries, MaxAttempts,  \* the client's limits
  MaxLost,       \* bound: calls whose connection breaks
  MaxCrashes,    \* bound: crashes of the client
  MaxDrops,      \* bound: times the user turns sharing off or an end gets 30 days old
  SaveFaults,    \* bound: saves of the queue that fail
  ServerFaults   \* bound: failed writes and restarts of the server

ASSUME SessionEndsAssumption ==
  /\ NumSessions \in Nat /\ Refused \subseteq 1..NumSessions
  /\ MaxEntries \in Nat \ {0} /\ MaxAttempts \in Nat \ {0}
  /\ {MaxLost, MaxCrashes, MaxDrops, SaveFaults, ServerFaults} \subseteq Nat

Sessions == 1..NumSessions
NoSession == 0

VARIABLES
  ended,     \* sessions 1..ended have ended
  share,     \* client: share_game_activity
  sending,   \* client: the session it waits for an answer about
  flushing,  \* client: whether that call is part of a flush
  queue,     \* client: the failed flushes a report may still have; 0: not queued
  file,      \* pending_session_ends.json, as open would read it
  aged,      \* sessions 1..aged ended more than 30 days ago
  handler,   \* server: the calls that run
  marked,    \* server: game_session_dedup
  stats,     \* server: how often a session was added to the user's stats
  ledger,    \* server: how often it is in the crew's ledger
  accepted,  \* history: sessions a call was answered with success for
  dropped,   \* history: sessions a rule of the queue dropped
  unsaved,   \* history: the last save failed
  crashed,   \* history: sessions a crash took in a direct call, or after a failed save
  saves,     \* bounded: saves that may still fail
  budget     \* bounded: other failures that may still happen, by kind

queueVars == <<queue, file, unsaved, saves>>
serverVars == <<marked, stats, ledger>>
clientVars == <<ended, share, sending, flushing, queueVars, aged, accepted, dropped, crashed>>
vars == <<clientVars, handler, serverVars, budget>>

Idle == [pc |-> "idle"]
Queues == [Sessions -> 0..MaxAttempts]
Reports(q) == {s \in Sessions : q[s] > 0}
Empty == [s \in Sessions |-> 0]

TypeOK ==
  /\ ended \in 0..NumSessions /\ share \in BOOLEAN
  /\ sending \in Sessions \cup {NoSession} /\ flushing \in BOOLEAN
  /\ queue \in Queues /\ file \in Queues /\ Cardinality(Reports(queue)) <= MaxEntries
  /\ aged \in 0..NumSessions /\ unsaved \in BOOLEAN /\ saves \in 0..SaveFaults
  /\ handler \in [Handlers -> {Idle}
       \cup [pc : {"check", "mark", "record", "ok", "error"}, session : Sessions, awaited : BOOLEAN]]
  /\ marked \subseteq Sessions
  /\ stats \in [Sessions -> Nat] /\ ledger \in [Sessions -> Nat]
  /\ accepted \subseteq Sessions /\ dropped \subseteq Sessions /\ crashed \subseteq Sessions
  /\ budget \in [{"lost", "crash", "drop", "server"} -> Nat]

Init ==
  /\ ended = 0 /\ share = TRUE
  /\ sending = NoSession /\ flushing = FALSE
  /\ queue = Empty /\ file = Empty /\ unsaved = FALSE /\ saves = SaveFaults /\ aged = 0
  /\ handler = [h \in Handlers |-> Idle]
  /\ marked = {}
  /\ stats = [s \in Sessions |-> 0] /\ ledger = [s \in Sessions |-> 0]
  /\ accepted = {} /\ dropped = {} /\ crashed = {}
  /\ budget = [lost |-> MaxLost, crash |-> MaxCrashes, drop |-> MaxDrops, server |-> ServerFaults]

Spend(kind) == budget[kind] > 0 /\ budget' = [budget EXCEPT ![kind] = @ - 1]

-----------------------------------------------------------------------------
(* The client                                                              *)

Oldest(reports) == Min(reports)
Only(q, reports) == [s \in Sessions |-> IF s \in reports THEN q[s] ELSE 0]

(* Time passes: the next session is 30 days old, which no call waits for.   *)
Age ==
  /\ aged < ended /\ aged + 1 # sending
  /\ Spend("drop")
  /\ aged' = aged + 1
  /\ UNCHANGED <<ended, share, sending, flushing, queueVars, handler, serverVars, accepted, dropped,
                 crashed>>

(* Mutant: the change stays in memory.                                     *)
Forget(q) == queue' = q /\ UNCHANGED <<file, unsaved, saves>>

(* save: a failure is only logged.  The file is written in place, so that a  *)
(* write that breaks off, at a crash or a full disk, leaves nothing to read; *)
(* an empty queue removes it.                                              *)
Save(q) ==
  /\ queue' = q
  /\ \/ file' = q /\ unsaved' = FALSE /\ UNCHANGED saves
     \/ /\ saves > 0 /\ saves' = saves - 1
        /\ unsaved' = TRUE
        /\ file' = file \/ (q # Empty /\ file' = Empty)

(* A call for session s starts on the server.                              *)
Request(h, s) ==
  /\ handler[h] = Idle
  /\ handler' = [handler EXCEPT ![h] = [pc |-> "check", session |-> s, awaited |-> TRUE]]
  /\ sending' = s

(* push_unsent: the reports of ended sessions that are too old are dropped,  *)
(* then, over the cap, the oldest.                                         *)
PushUnsent(s) ==
  LET pushed == Reports(queue) \cup {s}
      fresh == pushed \ 1..aged
      kept == IF Cardinality(fresh) > MaxEntries THEN fresh \ {Oldest(fresh)} ELSE fresh IN
  /\ Save(Only([queue EXCEPT ![s] = MaxAttempts], kept))
  /\ dropped' = dropped \cup (pushed \ kept)

(* handle_game_session_end with a crew: the report is sent at once.         *)
SendSessionEnd(h) ==
  /\ share /\ sending = NoSession /\ ended < NumSessions
  /\ ended' = ended + 1
  /\ Request(h, ended')
  /\ flushing' = FALSE
  /\ UNCHANGED <<share, queueVars, aged, serverVars, accepted, dropped, crashed, budget>>

(* ... and with no active crew, or no connection.                          *)
QueueSessionEnd ==
  /\ share /\ sending = NoSession /\ ended < NumSessions
  /\ ended' = ended + 1
  /\ PushUnsent(ended')
  /\ UNCHANGED <<share, sending, flushing, aged, handler, serverVars, accepted, crashed, budget>>

(* flush_pending_session_ends, when a crew becomes the active crew.         *)
Flush(h) ==
  /\ share /\ sending = NoSession /\ queue # Empty
  /\ Request(h, Oldest(Reports(queue)))
  /\ flushing' = TRUE
  /\ UNCHANGED <<ended, share, queueVars, aged, serverVars, accepted, dropped, crashed, budget>>

(* Mutant: a report keeps its place however often it fails.                *)
NeverGivesUp(s) ==
  /\ Save([queue EXCEPT ![s] = IF @ > 1 THEN @ - 1 ELSE @])
  /\ UNCHANGED dropped

(* A failed flush counts; the last attempt drops the report.               *)
CountAttempt(s) ==
  /\ Save([queue EXCEPT ![s] = @ - 1])
  /\ dropped' = IF queue[s] = 1 THEN dropped \cup {s} ELSE dropped

(* The error arm of a call: queue the report, or count the attempt.         *)
CallFails ==
  /\ sending' = NoSession
  /\ IF flushing THEN CountAttempt(sending) ELSE PushUnsent(sending)

(* A report leaves the queue when it is accepted; the flush goes on.       *)
FlushNext(h, s) ==
  LET rest == [queue EXCEPT ![s] = 0] IN
  /\ Save(rest)
  /\ IF rest # Empty
     THEN /\ sending' = Oldest(Reports(rest))
          /\ handler' = [handler EXCEPT ![h] =
               [pc |-> "check", session |-> Oldest(Reports(rest)), awaited |-> TRUE]]
     ELSE sending' = NoSession /\ handler' = [handler EXCEPT ![h] = Idle]

Answered(h) ==
  LET s == handler[h] IN
  /\ s.pc = "ok" /\ s.awaited
  /\ accepted' = accepted \cup {s.session}
  /\ IF flushing THEN FlushNext(h, s.session)
     ELSE /\ sending' = NoSession /\ handler' = [handler EXCEPT ![h] = Idle]
          /\ UNCHANGED queueVars
  /\ UNCHANGED <<ended, share, flushing, aged, serverVars, dropped, crashed, budget>>

Failed(h) ==
  /\ handler[h].pc = "error" /\ handler[h].awaited
  /\ CallFails
  /\ handler' = [handler EXCEPT ![h] = Idle]
  /\ UNCHANGED <<ended, share, flushing, aged, serverVars, accepted, crashed, budget>>

(* The connection of the call breaks; the server never got it, or goes on.  *)
LoseAnswer(h) ==
  /\ handler[h] # Idle /\ handler[h].awaited
  /\ Spend("lost")
  /\ CallFails
  /\ \/ handler' = [handler EXCEPT ![h].awaited = FALSE]
     \/ handler[h].pc = "check" /\ handler' = [handler EXCEPT ![h] = Idle]
  /\ UNCHANGED <<ended, share, flushing, aged, serverVars, accepted, crashed>>

(* The user turns sharing off, which empties the queue, or on again.        *)
SetSharing ==
  /\ sending = NoSession
  /\ share' = ~share
  /\ IF share THEN Spend("drop") ELSE UNCHANGED budget
  /\ IF share /\ queue # Empty
     THEN Save(Empty) /\ dropped' = dropped \cup Reports(queue)
     ELSE UNCHANGED <<queueVars, dropped>>
  /\ UNCHANGED <<ended, sending, flushing, aged, handler, serverVars, accepted, crashed>>

(* open: what the file holds, without the reports that are too old.         *)
Open ==
  LET kept == Only(file, Sessions \ 1..aged) IN
  /\ dropped' = dropped \cup (Reports(file) \ Reports(kept))
  /\ IF kept = file THEN queue' = file /\ unsaved' = FALSE /\ UNCHANGED <<file, saves>>
     ELSE Save(kept)

(* What a crash takes: the report of a direct call, and after a failed save  *)
(* what the file does not hold.                                            *)
TakenByCrash ==
  (IF sending # NoSession /\ ~flushing THEN {sending} ELSE {})
    \cup (IF unsaved THEN Reports(queue) \ Reports(file) ELSE {})

Crash ==
  /\ Spend("crash")
  /\ crashed' = crashed \cup TakenByCrash
  /\ Open
  /\ sending' = NoSession /\ flushing' = FALSE
  /\ handler' = [h \in Handlers |->
       IF handler[h] = Idle THEN Idle ELSE [handler[h] EXCEPT !.awaited = FALSE]]
  /\ UNCHANGED <<ended, share, aged, serverVars, accepted>>

-----------------------------------------------------------------------------
(* GameSessionEndRPC                                                       *)

Become(h, pc) == handler' = [handler EXCEPT ![h].pc = pc]

(* Mutant: the session is marked before the membership check refuses it.   *)
MarkThenCheck(h) ==
  LET s == handler[h].session IN
  /\ handler[h].pc = "check"
  /\ Become(h, IF s \in marked THEN "ok" ELSE IF s \in Refused THEN "error" ELSE "mark")
  /\ marked' = IF s \in Refused THEN marked \cup {s} ELSE marked
  /\ UNCHANGED <<clientVars, stats, ledger, budget>>

(* The membership check, then the read of the dedup mark.                  *)
CheckDuplicate(h) ==
  LET s == handler[h].session IN
  /\ handler[h].pc = "check"
  /\ Become(h, IF s \in Refused THEN "error" ELSE IF s \in marked THEN "ok" ELSE "mark")
  /\ UNCHANGED <<clientVars, serverVars, budget>>

(* Mutant: the mark is written whether or not it is there.                 *)
Overwrite(s) == TRUE

(* The create-only write succeeds for one of concurrent retries.           *)
MayCreate(s) == s \notin marked

MarkSession(h) ==
  LET s == handler[h].session IN
  /\ handler[h].pc = "mark"
  /\ marked' = marked \cup {s}
  /\ Become(h, IF MayCreate(s) THEN "record" ELSE "ok")
  /\ UNCHANGED <<clientVars, stats, ledger, budget>>

(* Any error of that write counts as "another retry got here first".       *)
MarkFails(h) ==
  /\ handler[h].pc = "mark"
  /\ Spend("server")
  /\ Become(h, "ok")
  /\ UNCHANGED <<clientVars, serverVars>>

(* The user's stats, then AppendCrewEvent, which may fail.                 *)
RecordSession(h) ==
  LET s == handler[h].session IN
  /\ handler[h].pc = "record"
  /\ stats' = [stats EXCEPT ![s] = @ + 1]
  /\ \/ ledger' = [ledger EXCEPT ![s] = @ + 1] /\ Become(h, "ok") /\ UNCHANGED budget
     \/ Spend("server") /\ Become(h, "error") /\ UNCHANGED ledger
  /\ UNCHANGED <<clientVars, marked>>

(* The answer of a call nobody waits for.                                  *)
Unheard(h) ==
  /\ handler[h].pc \in {"ok", "error"} /\ ~handler[h].awaited
  /\ handler' = [handler EXCEPT ![h] = Idle]
  /\ UNCHANGED <<clientVars, serverVars, budget>>

(* The server restarts: running calls end where they are, with an error.    *)
Restart ==
  /\ Spend("server")
  /\ handler' = [h \in Handlers |-> Idle]
  /\ IF sending = NoSession THEN UNCHANGED <<sending, queueVars, dropped>> ELSE CallFails
  /\ UNCHANGED <<ended, share, flushing, aged, serverVars, accepted, crashed>>

Serve(h) ==
  CheckDuplicate(h) \/ MarkSession(h) \/ MarkFails(h) \/ RecordSession(h) \/ Unheard(h)
Hear(h) == Answered(h) \/ Failed(h)

Next ==
  \/ \E h \in Handlers :
       SendSessionEnd(h) \/ Flush(h) \/ Serve(h) \/ Hear(h) \/ LoseAnswer(h)
  \/ QueueSessionEnd \/ Age \/ SetSharing \/ Crash \/ Restart

Spec == Init /\ [][Next]_vars

(* Calls run and are answered; a crew is opened, or the socket comes back,   *)
(* again and again, and the user shares in the end.                        *)
FairSpec ==
  /\ Spec
  /\ \A h \in Handlers : WF_vars(Serve(h)) /\ WF_vars(Hear(h))
  /\ SF_vars(\E h \in Handlers : Flush(h))
  /\ WF_vars(~share /\ SetSharing)

-----------------------------------------------------------------------------
(* Properties                                                              *)

Recording(s) == \E h \in Handlers : handler[h] # Idle /\ handler[h].session = s /\ handler[h].pc = "record"

(* Retries, lost answers, crashes and restarts never add a session to the    *)
(* stats or to the ledger twice.                                           *)
RecordedOnce == \A s \in Sessions : stats[s] <= 1 /\ ledger[s] <= 1

(* No storage call of the server failed and the server was never restarted. *)
ServerWorked == budget.server = ServerFaults

InLedger(s) == ledger[s] = 1
AcceptedAndRecorded == \A s \in accepted : InLedger(s) \/ Recording(s)

(* While the server works, a report the client was told is accepted is in    *)
(* the ledger, or the call that marked it is about to put it there.        *)
AcceptedIsRecorded == ServerWorked => AcceptedAndRecorded

(* While the server works, a session that ended is on its way, is queued, is *)
(* recorded, or was dropped by a rule of the queue: none slips between the   *)
(* direct call, the queue, its file and the flush.  Excepted is what a crash *)
(* took in the direct call, or out of a queue whose last save had failed.   *)
NoneVanishes ==
  ServerWorked =>
    \A s \in 1..ended :
      s \in Reports(queue) \cup dropped \cup crashed \cup {sending} \/ Recording(s) \/ InLedger(s)

(* A report is recorded in the end or dropped by a rule, whatever refused    *)
(* reports are ahead of it in the queue; excepted as in NoneVanishes.       *)
EndedIsRecorded ==
  \A s \in Sessions : ended >= s ~> InLedger(s) \/ s \in dropped \cup crashed \/ ~ServerWorked

(* Refuted when an append fails: "Without this queue the report is dropped   *)
(* and the crew feed never shows the night" (pending_session_ends.rs).     *)
AppendFailureIsRetried == AcceptedAndRecorded
=============================================================================
