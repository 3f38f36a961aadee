-------------------------- MODULE SessionEndsProofs --------------------------
(* Theorems about SessionEnds for any number of sessions, goroutines, queue   *)
(* entries and attempts, and for any number of failures of each kind.        *)
EXTENDS SessionEnds, FiniteSetTheorems, WellFoundedInduction, TLAPS

USE SessionEndsAssumption

-----------------------------------------------------------------------------
(* The inductive invariant                                                 *)

Calls == [pc : {"check", "mark", "record", "ok", "error"}, session : Sessions, awaited : BOOLEAN]

Types ==
  /\ ended \in 0..NumSessions /\ flushing \in BOOLEAN
  /\ sending \in Sessions \cup {NoSession} /\ queue \in Queues /\ file \in Queues
  /\ handler \in [Handlers -> {Idle} \cup Calls]
  /\ marked \subseteq Sessions
  /\ stats \in [Sessions -> Nat] /\ ledger \in [Sessions -> Nat]
  /\ budget \in [{"lost", "crash", "drop", "server"} -> Nat]
  /\ budget["server"] <= ServerFaults

(* The client waits for one call, about the session it is sending; a flush   *)
(* leaves the report in the queue until it is answered.  A save that worked  *)
(* leaves the queue in the file.                                           *)
Awaited(h) == handler[h] # Idle /\ handler[h].awaited

OneCall ==
  /\ \A h \in Handlers : Awaited(h) => sending # NoSession /\ handler[h].session = sending
  /\ \A h, g \in Handlers : Awaited(h) /\ Awaited(g) => h = g
  /\ flushing /\ sending # NoSession => sending \in Reports(queue)
  /\ ~unsaved => file = queue

(* The call that marked a session is the one that records it.               *)
Records(h, s) == handler[h].pc = "record" /\ handler[h].session = s

MarkedOnce ==
  /\ \A s \in Sessions, h \in Handlers : Records(h, s) => s \in marked /\ stats[s] = 0
  /\ \A s \in Sessions, h, g \in Handlers : Records(h, s) /\ Records(g, s) => h = g
  /\ \A s \in Sessions : s \notin marked => stats[s] = 0
  /\ \A s \in Sessions : ledger[s] <= stats[s] /\ stats[s] <= 1

(* While the server works a mark stands for the record, and a session that    *)
(* ended is somewhere.                                                     *)
MarkMeansRecord ==
  ServerWorked =>
    /\ \A s \in marked : ledger[s] = 1 \/ \E h \in Handlers : Records(h, s)
    /\ \A h \in Handlers : handler[h].pc = "ok" => handler[h].session \in marked
    /\ accepted \subseteq marked

Somewhere ==
  ServerWorked =>
    \A s \in 1..ended : s \in Reports(queue) \cup dropped \cup crashed \cup {sending} \cup marked

IInv == Types /\ OneCall /\ MarkedOnce /\ MarkMeansRecord /\ Somewhere

-----------------------------------------------------------------------------
LEMMA IdleIsNoCall == Idle.pc = "idle" /\ \A r \in Calls : r # Idle /\ r.pc # "idle"
  BY DEF Idle, Calls

LEMMA SessionsAreNumbers == Sessions \subseteq Nat \ {0} /\ NoSession \notin Sessions
  BY DEF Sessions, NoSession

(* The oldest report of a queue is one of its reports: of the intervals 1..n *)
(* with n in the queue one is contained in all others.                     *)
LEMMA OldestIsQueued ==
  ASSUME NEW q \in SUBSET Sessions, q # {}
  PROVE  Oldest(q) \in q
<1> DEFINE below == {1..n : n \in q}
           R == StrictSubsetOrdering(Sessions)
<1>1. IsFiniteSet(Sessions) /\ FiniteSubsetsOf(Sessions) = SUBSET Sessions
  <2>1. IsFiniteSet(1..NumSessions)
    BY FS_Interval
  <2> QED
    BY <2>1, FS_FiniteSubsetsOfFinite, Zenon DEF Sessions
<1>2. IsWellFoundedOn(R, SUBSET Sessions)
  <2>1. IsWellFoundedOn(StrictSubsetOrdering(Sessions), FiniteSubsetsOf(Sessions))
    BY FS_StrictSubsetOrderingWellFounded
  <2> QED
    BY <1>1, <2>1, Zenon
<1>3. below \subseteq SUBSET Sessions /\ below # {}
  <2>1. \A n \in q : 1..n \subseteq Sessions
    BY DEF Sessions
  <2> QED
    BY <2>1, Zenon
<1>4. PICK least \in below : \A other \in below : <<other, least>> \notin R
  <2> HIDE DEF below, R
  <2> QED
    BY <1>2, <1>3, WFMin
<1>5. PICK x \in q : least = 1..x
  OBVIOUS
<1>6. ASSUME NEW y \in q, y < x PROVE FALSE
  <2>1. 1..y \subseteq 1..x /\ x \in 1..x /\ x \notin 1..y /\ {1..y, 1..x} \subseteq SUBSET Sessions
    BY <1>6 DEF Sessions
  <2>2. 1..y \in below /\ 1..y # 1..x
    BY <2>1
  <2>3. <<1..y, 1..x>> \in R
    BY <2>1, <2>2, Zenon DEF StrictSubsetOrdering
  <2> QED
    BY <1>4, <1>5, <2>2, <2>3
<1>7. \A y \in q : x <= y
  BY <1>6 DEF Sessions
<1> QED
  BY <1>7 DEF Oldest, Min

(* A save keeps the queue it is given, whether or not it reaches the file.    *)
LEMMA SaveStep ==
  ASSUME NEW q \in Queues, file \in Queues, Save(q)
  PROVE  queue' = q /\ file' \in Queues /\ (~unsaved' => file' = queue')
<1>1. Empty \in Queues
  BY DEF Empty, Queues
<1> QED
  BY <1>1 DEF Save

(* A report that is queued pushes none out unless a rule of the queue drops it. *)
LEMMA PushKeepsAll ==
  ASSUME NEW s \in Sessions, queue \in Queues, file \in Queues, PushUnsent(s)
  PROVE  /\ queue' \in Queues /\ file' \in Queues /\ (~unsaved' => file' = queue')
         /\ Reports(queue) \cup {s} \cup dropped \subseteq Reports(queue') \cup dropped'
<1> DEFINE pushed == Reports(queue) \cup {s}
           fresh == pushed \ 1..aged
           kept == IF Cardinality(fresh) > MaxEntries THEN fresh \ {Oldest(fresh)} ELSE fresh
           more == [queue EXCEPT ![s] = MaxAttempts]
<1>1. kept \subseteq pushed /\ Save(Only(more, kept)) /\ dropped' = dropped \cup (pushed \ kept)
  BY DEF PushUnsent
<1> HIDE DEF kept
<1>2. more \in Queues /\ \A d \in pushed : more[d] > 0
  BY DEF Queues, Reports
<1>3. Only(more, kept) \in Queues /\ kept \subseteq Reports(Only(more, kept))
  <2> HIDE DEF more
  <2>1. pushed \subseteq Sessions
    BY DEF Reports
  <2>2. \A d \in Sessions : Only(more, kept)[d] = IF d \in kept THEN more[d] ELSE 0
    BY DEF Only
  <2>3. Only(more, kept) \in Queues
    BY <1>2 DEF Only, Queues
  <2> QED
    BY <1>1, <1>2, <2>1, <2>2, <2>3 DEF Reports
<1> HIDE DEF more, pushed
<1>4. queue' = Only(more, kept) /\ file' \in Queues /\ (~unsaved' => file' = queue')
  BY <1>1, <1>3, SaveStep
<1>5. pushed \subseteq Reports(queue') \cup dropped'
  BY <1>1, <1>3, <1>4
<1> QED
  BY <1>1, <1>3, <1>4, <1>5 DEF pushed

(* A call that fails leaves its report queued or dropped.                    *)
LEMMA FailureKeepsAll ==
  ASSUME Types, OneCall, sending # NoSession, CallFails
  PROVE  /\ sending' = NoSession /\ queue' \in Queues /\ file' \in Queues
         /\ ~unsaved' => file' = queue'
         /\ Reports(queue) \cup {sending} \cup dropped \subseteq Reports(queue') \cup dropped'
<1>1. sending \in Sessions /\ sending' = NoSession /\ queue \in Queues /\ file \in Queues
  BY DEF Types, CallFails
<1>2. CASE flushing
  <2> DEFINE less == [queue EXCEPT ![sending] = @ - 1]
  <2>1. /\ sending \in Reports(queue) /\ Save(less)
        /\ dropped' = IF queue[sending] = 1 THEN dropped \cup {sending} ELSE dropped
    BY <1>2 DEF OneCall, CallFails, CountAttempt
  <2>2. less \in Queues /\ Reports(queue) \subseteq Reports(less) \cup dropped'
    <3>1. queue[sending] \in 1..MaxAttempts
      BY <1>1, <2>1 DEF Reports, Queues
    <3> QED
      BY <1>1, <2>1, <3>1 DEF Reports, Queues
  <2> HIDE DEF less
  <2>3. queue' = less /\ file' \in Queues /\ (~unsaved' => file' = queue')
    BY <1>1, <2>1, <2>2, SaveStep
  <2> QED
    BY <1>1, <2>1, <2>2, <2>3
<1>3. CASE ~flushing
  BY <1>1, <1>3, PushKeepsAll DEF CallFails
<1> QED
  BY <1>2, <1>3

(* A queue that is not empty has an oldest report.                          *)
LEMMA OldestOfQueue ==
  ASSUME NEW q \in Queues, q # Empty
  PROVE  Oldest(Reports(q)) \in Reports(q)
<1>1. Reports(q) # {}
  <2> SUFFICES ASSUME \A s \in Sessions : q[s] = 0 PROVE FALSE
    BY DEF Reports, Queues
  <2>1. q = [s \in Sessions |-> q[s]]
    BY DEF Queues
  <2> QED
    BY <2>1 DEF Empty
<1>2. Reports(q) \in SUBSET Sessions
  BY DEF Reports
<1> QED
  BY <1>1, <1>2, OldestIsQueued

(* Failures only use up the budget.                                         *)
LEMMA SpendStep ==
  ASSUME Types, NEW kind \in {"lost", "crash", "drop", "server"}, Spend(kind)
  PROVE  /\ budget' \in [{"lost", "crash", "drop", "server"} -> Nat]
         /\ budget'["server"] <= ServerFaults
         /\ ServerWorked' => ServerWorked /\ kind # "server"
  BY DEF Types, Spend, ServerWorked

-----------------------------------------------------------------------------
LEMMA InitInv == Init => IInv
<1> SUFFICES ASSUME Init PROVE IInv
  OBVIOUS
<1> DEFINE kinds == {"lost", "crash", "drop", "server"}
<1>1. Types
  <2>1. budget \in [kinds -> Nat] /\ budget["server"] = ServerFaults
    <3>1. {MaxLost, MaxCrashes, MaxDrops, SaveFaults, ServerFaults} \subseteq Nat
      OBVIOUS
    <3> QED
      BY <3>1 DEF Init
  <2>2. ServerFaults \in Nat
    OBVIOUS
  <2>3. handler \in [Handlers -> {Idle} \cup Calls]
    BY DEF Init
  <2>4. /\ ended \in 0..NumSessions /\ flushing \in BOOLEAN
        /\ sending \in Sessions \cup {NoSession} /\ queue \in Queues /\ file \in Queues
        /\ marked \subseteq Sessions
        /\ stats \in [Sessions -> Nat] /\ ledger \in [Sessions -> Nat]
    <3>1. /\ ended = 0 /\ flushing = FALSE /\ sending = NoSession /\ marked = {}
          /\ queue = [s \in Sessions |-> 0] /\ file = [s \in Sessions |-> 0]
          /\ stats = [s \in Sessions |-> 0] /\ ledger = [s \in Sessions |-> 0]
      BY DEF Init, Empty
    <3>2. ended \in 0..NumSessions
      BY <3>1
    <3>3. stats \in [Sessions -> Nat]
      BY <3>1
    <3>4. ledger \in [Sessions -> Nat]
      BY <3>1
    <3>5. queue \in Queues /\ file \in Queues
      BY <3>1 DEF Queues
    <3> QED
      BY <3>1, <3>2, <3>3, <3>4, <3>5, Zenon
  <2> QED
    BY <2>1, <2>2, <2>3, <2>4 DEF Types
<1>2. \A h \in Handlers : handler[h] = Idle /\ handler[h].pc = "idle"
  BY IdleIsNoCall DEF Init
<1>3. OneCall /\ MarkedOnce /\ MarkMeansRecord /\ Somewhere
  BY <1>2 DEF Init, OneCall, Awaited, MarkedOnce, Records, MarkMeansRecord, Somewhere
<1> QED
  BY <1>1, <1>3 DEF IInv

-----------------------------------------------------------------------------
(* The client's steps                                                      *)

(* A call that starts is the one the client waits for.                      *)
LEMMA RequestStep ==
  ASSUME IInv, NEW h \in Handlers, NEW s \in Sessions, Request(h, s), sending = NoSession,
         flushing' \in BOOLEAN, flushing' => s \in Reports(queue),
         UNCHANGED <<queue, file, unsaved>>, ended' \in 0..NumSessions,
         \A d \in 1..ended' : d \in 1..ended \/ d = s,
         UNCHANGED <<serverVars, accepted, dropped, crashed, budget>>
  PROVE  IInv'
<1>1. /\ handler[h] = Idle /\ sending' = s
      /\ handler' = [handler EXCEPT ![h] = [pc |-> "check", session |-> s, awaited |-> TRUE]]
      /\ UNCHANGED <<marked, stats, ledger, accepted, dropped, crashed, budget>>
  BY DEF Request, serverVars
<1> DEFINE r == [pc |-> "check", session |-> s, awaited |-> TRUE]
<1>2. r \in Calls /\ handler'[h] = r /\ \A g \in Handlers \ {h} : handler'[g] = handler[g]
  BY <1>1 DEF Calls, IInv, Types
<1>3. Types'
  BY <1>1, <1>2 DEF IInv, Types
<1>4. \A g \in Handlers : ~Awaited(g)
  BY DEF IInv, OneCall
<1>5. \A g \in Handlers : Awaited(g)' => g = h
  BY <1>2, <1>4 DEF Awaited
<1>6. OneCall'
  BY <1>1, <1>2, <1>5, SessionsAreNumbers DEF OneCall, IInv
<1>7. \A g \in Handlers, d \in Sessions : Records(g, d)' <=> Records(g, d)
  BY <1>1, <1>2, IdleIsNoCall DEF Records
<1>8. MarkedOnce'
  BY <1>1, <1>7 DEF IInv, MarkedOnce
<1>9. ServerWorked' <=> ServerWorked
  BY <1>1 DEF ServerWorked
<1>10. MarkMeansRecord'
  <2> SUFFICES ASSUME ServerWorked PROVE MarkMeansRecord'
    BY <1>9 DEF MarkMeansRecord
  <2>1. \A g \in Handlers : handler'[g].pc = "ok" => handler'[g] = handler[g]
    BY <1>2
  <2> QED
    BY <1>1, <1>7, <2>1 DEF IInv, MarkMeansRecord, Types
<1>11. Somewhere'
  <2>1. \A d \in 1..ended : d # sending
    BY DEF NoSession
  <2> QED
    BY <1>1, <1>9, <2>1 DEF IInv, Somewhere
<1> QED
  BY <1>3, <1>6, <1>8, <1>10, <1>11 DEF IInv

(* A step of the client that ends, drops or starts no call's work on the      *)
(* server: which calls record and which succeeded stays the same.           *)
LEMMA ClientStep ==
  ASSUME IInv, Types', OneCall',
         \A g \in Handlers, d \in Sessions : Records(g, d)' <=> Records(g, d),
         \A g \in Handlers : handler'[g].pc = "ok" =>
           handler[g].pc = "ok" /\ handler'[g].session = handler[g].session,
         UNCHANGED <<marked, stats, ledger>>,
         ServerWorked' => ServerWorked,
         ServerWorked' => accepted' \subseteq marked,
         ServerWorked' => \A s \in 1..ended' :
           s \in Reports(queue') \cup dropped' \cup crashed' \cup {sending'} \cup marked
  PROVE  IInv'
<1>1. MarkedOnce'
  BY DEF IInv, MarkedOnce
<1>2. MarkMeansRecord'
  <2> SUFFICES ASSUME ServerWorked' PROVE MarkMeansRecord'
    BY DEF MarkMeansRecord
  <2> QED
    BY DEF IInv, MarkMeansRecord, Types
<1>3. Somewhere'
  BY DEF Somewhere
<1> QED
  BY <1>1, <1>2, <1>3 DEF IInv

LEMMA SendStep == ASSUME IInv, NEW h \in Handlers, SendSessionEnd(h) PROVE IInv'
<1>1. /\ sending = NoSession /\ ended' = ended + 1 /\ ended' \in Sessions
      /\ Request(h, ended') /\ flushing' = FALSE
      /\ UNCHANGED <<queue, file, unsaved, serverVars, accepted, dropped, crashed, budget>>
  BY DEF SendSessionEnd, queueVars, IInv, Types, Sessions
<1>2. \A d \in 1..ended' : d \in 1..ended \/ d = ended'
  BY <1>1 DEF IInv, Types
<1>3. PICK s \in Sessions : s = ended'
  BY <1>1
<1>4. Request(h, s)
  BY <1>1, <1>3
<1>5. /\ flushing' \in BOOLEAN /\ ended' \in 0..NumSessions
      /\ \A d \in 1..ended' : d \in 1..ended \/ d = s
  <2>1. ended' \in 0..NumSessions
    BY <1>1 DEF Sessions
  <2> QED
    BY <1>1, <1>2, <1>3, <2>1 DEF IInv, Types
<1> QED
  BY <1>1, <1>4, <1>5, RequestStep

LEMMA FlushStep == ASSUME IInv, NEW h \in Handlers, Flush(h) PROVE IInv'
<1>1. /\ sending = NoSession /\ queue # Empty /\ Request(h, Oldest(Reports(queue)))
      /\ flushing' = TRUE
      /\ UNCHANGED <<ended, queue, file, unsaved, serverVars, accepted, dropped, crashed, budget>>
  BY DEF Flush, queueVars
<1>2. PICK s \in Sessions : s = Oldest(Reports(queue)) /\ s \in Reports(queue)
  <2>1. PICK q \in Queues : q = queue
    BY DEF IInv, Types
  <2>2. Oldest(Reports(q)) \in Reports(q) /\ Reports(q) \subseteq Sessions
    BY <1>1, <2>1, OldestOfQueue DEF Reports
  <2> QED
    BY <2>1, <2>2
<1>3. Request(h, s)
  BY <1>1, <1>2
<1>4. /\ ended' \in 0..NumSessions
      /\ \A d \in 1..ended' : d \in 1..ended \/ d = s
  BY <1>1, <1>2 DEF IInv, Types
<1>5. /\ sending = NoSession /\ flushing' \in BOOLEAN
      /\ UNCHANGED <<queue, file, unsaved, serverVars, accepted, dropped, crashed, budget>>
  BY <1>1
<1> QED
  BY <1>2, <1>3, <1>4, <1>5, RequestStep

LEMMA QueueStep == IInv /\ QueueSessionEnd => IInv'
<1> SUFFICES ASSUME IInv, QueueSessionEnd PROVE IInv'
  OBVIOUS
<1>1. /\ sending = NoSession /\ ended' = ended + 1 /\ ended' \in Sessions /\ PushUnsent(ended')
      /\ UNCHANGED <<sending, flushing, handler, marked, stats, ledger, accepted, crashed, budget>>
  BY DEF QueueSessionEnd, IInv, Types, Sessions, serverVars
<1>2. PICK s \in Sessions : s = ended'
  BY <1>1
<1>3. /\ queue' \in Queues /\ file' \in Queues /\ (~unsaved' => file' = queue')
      /\ Reports(queue) \cup {ended'} \cup dropped \subseteq Reports(queue') \cup dropped'
  BY <1>1, <1>2, PushKeepsAll DEF IInv, Types
<1>4. Types'
  <2>1. ended' \in 0..NumSessions
    BY <1>1 DEF Sessions
  <2> QED
    BY <1>1, <1>3, <2>1 DEF IInv, Types
<1>5. OneCall'
  BY <1>1, <1>3 DEF IInv, OneCall, Awaited
<1>6. ServerWorked' <=> ServerWorked
  BY <1>1 DEF ServerWorked
<1>7. \A d \in 1..ended' : d \in 1..ended \/ d = ended'
  BY <1>1 DEF IInv, Types
<1>8. ASSUME ServerWorked'
      PROVE  \A d \in 1..ended' :
               d \in Reports(queue') \cup dropped' \cup crashed' \cup {sending'} \cup marked
  BY <1>1, <1>3, <1>6, <1>7, <1>8 DEF IInv, Somewhere
<1>9. /\ \A g \in Handlers, d \in Sessions : Records(g, d)' <=> Records(g, d)
      /\ ServerWorked' => accepted' \subseteq marked
  BY <1>1, <1>6 DEF Records, IInv, MarkMeansRecord
<1> QED
  BY <1>1, <1>4, <1>5, <1>6, <1>8, <1>9, ClientStep

LEMMA AgeStep == IInv /\ Age => IInv'
<1> SUFFICES ASSUME IInv, Age PROVE IInv'
  OBVIOUS
<1>1. /\ Spend("drop")
      /\ UNCHANGED <<ended, sending, flushing, queue, file, unsaved, handler, marked, stats, ledger,
                     accepted, dropped, crashed>>
  BY DEF Age, queueVars, serverVars
<1>2. Types' /\ (ServerWorked' => ServerWorked)
  BY <1>1, SpendStep DEF IInv, Types
<1>3. OneCall' /\ MarkedOnce'
  BY <1>1 DEF IInv, OneCall, Awaited, MarkedOnce, Records
<1>4. MarkMeansRecord' /\ Somewhere'
  BY <1>1, <1>2 DEF IInv, MarkMeansRecord, Records, Somewhere
<1> QED
  BY <1>2, <1>3, <1>4 DEF IInv

(* An accepted report leaves the queue of a flush, and only then.            *)
LEMMA AnswerKeepsOthers ==
  ASSUME Types, OneCall, NEW h \in Handlers, NEW s \in Sessions,
         IF flushing THEN FlushNext(h, s)
         ELSE /\ sending' = NoSession /\ handler' = [handler EXCEPT ![h] = Idle]
              /\ UNCHANGED queueVars
  PROVE  /\ queue' \in Queues /\ file' \in Queues /\ (~unsaved' => file' = queue')
         /\ Reports(queue) \subseteq Reports(queue') \cup {s}
         /\ \/ sending' = NoSession /\ handler' = [handler EXCEPT ![h] = Idle]
            \/ /\ flushing /\ sending' \in Reports(queue')
               /\ handler' = [handler EXCEPT ![h] =
                    [pc |-> "check", session |-> sending', awaited |-> TRUE]]
<1>1. CASE ~flushing
  BY <1>1 DEF Types, OneCall, queueVars
<1>2. CASE flushing
  <2> DEFINE rest == [queue EXCEPT ![s] = 0]
             oldest == Oldest(Reports(rest))
  <2>1. /\ Save(rest)
        /\ IF rest # Empty
           THEN /\ sending' = oldest
                /\ handler' = [handler EXCEPT ![h] =
                     [pc |-> "check", session |-> oldest, awaited |-> TRUE]]
           ELSE sending' = NoSession /\ handler' = [handler EXCEPT ![h] = Idle]
    BY <1>2 DEF FlushNext
  <2>2. rest \in Queues /\ Reports(queue) \subseteq Reports(rest) \cup {s}
    BY DEF Types, Queues, Reports
  <2>3. rest # Empty => oldest \in Reports(rest)
    BY <2>2, OldestOfQueue
  <2> HIDE DEF rest
  <2>4. queue' = rest /\ file' \in Queues /\ (~unsaved' => file' = queue')
    BY <2>1, <2>2, SaveStep DEF Types
  <2> QED
    BY <1>2, <2>1, <2>2, <2>3, <2>4
<1> QED
  BY <1>1, <1>2

LEMMA AnsweredStep == ASSUME IInv, NEW h \in Handlers, Answered(h) PROVE IInv'
<1> DEFINE s == handler[h]
           more == sending' # NoSession
           next == [pc |-> "check", session |-> sending', awaited |-> TRUE]
<1>1. /\ s.pc = "ok" /\ s.awaited /\ accepted' = accepted \cup {s.session}
      /\ UNCHANGED <<ended, flushing, marked, stats, ledger, dropped, crashed, budget>>
  BY DEF Answered, serverVars
<1>2. s \in Calls /\ Awaited(h) /\ s.session \in Sessions
  BY <1>1, IdleIsNoCall DEF IInv, Types, Awaited, Calls
<1>3. s.session = sending /\ \A g \in Handlers \ {h} : ~Awaited(g)
  BY <1>2 DEF IInv, OneCall
<1>4. /\ queue' \in Queues /\ file' \in Queues /\ (~unsaved' => file' = queue')
      /\ Reports(queue) \subseteq Reports(queue') \cup {s.session}
      /\ \/ sending' = NoSession /\ handler' = [handler EXCEPT ![h] = Idle]
         \/ flushing /\ sending' \in Reports(queue') /\ handler' = [handler EXCEPT ![h] = next]
  BY <1>2, AnswerKeepsOthers DEF Answered, IInv
<1>5. sending' \in Sessions \cup {NoSession} /\ (more => flushing /\ sending' \in Reports(queue'))
  BY <1>4 DEF Reports
<1>6. handler' = [handler EXCEPT ![h] = IF more THEN next ELSE Idle]
  BY <1>4, SessionsAreNumbers DEF Reports
<1>7. more => next \in Calls /\ next.pc = "check" /\ next.session = sending'
  BY <1>5 DEF Calls
<1> HIDE DEF more, next
<1>8. /\ handler'[h] = IF more THEN next ELSE Idle
      /\ \A g \in Handlers \ {h} : handler'[g] = handler[g]
  BY <1>6 DEF IInv, Types
<1>9. Types'
  BY <1>1, <1>4, <1>5, <1>6, <1>7 DEF IInv, Types
<1>10. \A g \in Handlers : Awaited(g)' => g = h /\ more
  BY <1>3, <1>8 DEF Awaited
<1>11. more => handler'[h].session = sending' /\ sending' # NoSession
  BY <1>7, <1>8 DEF more
<1>12. OneCall'
  BY <1>4, <1>5, <1>10, <1>11 DEF OneCall, more
<1>13. \A g \in Handlers, d \in Sessions : Records(g, d)' <=> Records(g, d)
  BY <1>1, <1>7, <1>8, IdleIsNoCall DEF Records
<1>14. ServerWorked' <=> ServerWorked
  BY <1>1 DEF ServerWorked
<1>15. ServerWorked' => s.session \in marked /\ accepted' \subseteq marked
  BY <1>1, <1>14 DEF IInv, MarkMeansRecord
<1>16. ASSUME ServerWorked'
       PROVE  \A d \in 1..ended' :
                d \in Reports(queue') \cup dropped' \cup crashed' \cup {sending'} \cup marked
  BY <1>1, <1>3, <1>4, <1>14, <1>15, <1>16 DEF IInv, Somewhere
<1>17. \A g \in Handlers : handler'[g].pc = "ok" =>
         handler[g].pc = "ok" /\ handler'[g].session = handler[g].session
  BY <1>7, <1>8, IdleIsNoCall
<1> QED
  BY <1>1, <1>9, <1>12, <1>13, <1>14, <1>15, <1>16, <1>17, ClientStep

(* The error arm, whether the server answered it or the connection broke.    *)
LEMMA FailureStep ==
  ASSUME IInv, sending # NoSession, CallFails,
         handler' \in [Handlers -> {Idle} \cup Calls],
         \A g \in Handlers : ~Awaited(g)',
         \A g \in Handlers, d \in Sessions : Records(g, d)' <=> Records(g, d),
         \A g \in Handlers : handler'[g].pc = "ok" =>
           handler[g].pc = "ok" /\ handler'[g].session = handler[g].session,
         UNCHANGED <<ended, flushing, marked, stats, ledger, accepted, crashed>>,
         UNCHANGED budget \/ Spend("lost")
  PROVE  IInv'
<1>1. /\ sending' = NoSession /\ queue' \in Queues /\ file' \in Queues
      /\ ~unsaved' => file' = queue'
      /\ Reports(queue) \cup {sending} \cup dropped \subseteq Reports(queue') \cup dropped'
  BY FailureKeepsAll DEF IInv
<1>2. Types' /\ (ServerWorked' => ServerWorked)
  <2>1. CASE UNCHANGED budget
    BY <1>1, <2>1 DEF IInv, Types, ServerWorked
  <2>2. CASE Spend("lost")
    BY <1>1, <2>2, SpendStep DEF IInv, Types
  <2> QED
    BY <2>1, <2>2
<1>3. OneCall'
  BY <1>1 DEF OneCall
<1>4. ServerWorked' => accepted' \subseteq marked
  BY <1>2 DEF IInv, MarkMeansRecord
<1>5. ASSUME ServerWorked'
      PROVE  \A d \in 1..ended' :
               d \in Reports(queue') \cup dropped' \cup crashed' \cup {sending'} \cup marked
  BY <1>1, <1>2, <1>5 DEF IInv, Somewhere
<1> QED
  BY <1>2, <1>3, <1>4, <1>5, ClientStep

LEMMA FailedStep == ASSUME IInv, NEW h \in Handlers, Failed(h) PROVE IInv'
<1>1. /\ handler[h].pc = "error" /\ handler[h].awaited /\ CallFails
      /\ handler' = [handler EXCEPT ![h] = Idle]
      /\ UNCHANGED <<ended, flushing, marked, stats, ledger, accepted, crashed, budget>>
  BY DEF Failed, serverVars
<1>2. Awaited(h) /\ sending # NoSession /\ \A g \in Handlers \ {h} : ~Awaited(g)
  BY <1>1, IdleIsNoCall DEF IInv, OneCall, Awaited
<1>3. handler'[h] = Idle /\ \A g \in Handlers \ {h} : handler'[g] = handler[g]
  BY <1>1 DEF IInv, Types
<1>4. handler' \in [Handlers -> {Idle} \cup Calls]
  BY <1>1 DEF IInv, Types
<1>5. \A g \in Handlers : ~Awaited(g)'
  BY <1>2, <1>3 DEF Awaited
<1>6. \A g \in Handlers, d \in Sessions : Records(g, d)' <=> Records(g, d)
  BY <1>1, <1>3, IdleIsNoCall DEF Records
<1>7. \A g \in Handlers : handler'[g].pc = "ok" =>
        handler[g].pc = "ok" /\ handler'[g].session = handler[g].session
  BY <1>3, IdleIsNoCall
<1> QED
  BY <1>1, <1>2, <1>4, <1>5, <1>6, <1>7, FailureStep

LEMMA LoseAnswerStep == ASSUME IInv, NEW h \in Handlers, LoseAnswer(h) PROVE IInv'
<1> DEFINE r == handler[h]
           unheard == [r EXCEPT !.awaited = FALSE]
<1>1. /\ Awaited(h) /\ CallFails /\ Spend("lost")
      /\ \/ handler' = [handler EXCEPT ![h] = unheard]
         \/ r.pc = "check" /\ handler' = [handler EXCEPT ![h] = Idle]
      /\ UNCHANGED <<ended, flushing, marked, stats, ledger, accepted, crashed>>
  BY DEF LoseAnswer, Awaited, serverVars
<1>2. sending # NoSession /\ \A g \in Handlers \ {h} : ~Awaited(g)
  BY <1>1 DEF IInv, OneCall
<1>3. r \in Calls
  BY <1>1 DEF Awaited, IInv, Types
<1>4. unheard \in Calls /\ unheard.pc = r.pc /\ unheard.session = r.session /\ ~unheard.awaited
  BY <1>3 DEF Calls
<1> HIDE DEF unheard
<1>5. /\ handler'[h] = unheard \/ (r.pc = "check" /\ handler'[h] = Idle)
      /\ \A g \in Handlers \ {h} : handler'[g] = handler[g]
      /\ handler' \in [Handlers -> {Idle} \cup Calls]
  BY <1>1, <1>4 DEF IInv, Types
<1>6. \A g \in Handlers : ~Awaited(g)'
  BY <1>2, <1>4, <1>5 DEF Awaited
<1>7. \A g \in Handlers, d \in Sessions : Records(g, d)' <=> Records(g, d)
  BY <1>4, <1>5, IdleIsNoCall DEF Records
<1>8. \A g \in Handlers : handler'[g].pc = "ok" =>
        handler[g].pc = "ok" /\ handler'[g].session = handler[g].session
  BY <1>4, <1>5, IdleIsNoCall
<1> QED
  BY <1>1, <1>2, <1>5, <1>6, <1>7, <1>8, FailureStep

LEMMA SetSharingStep == IInv /\ SetSharing => IInv'
<1> SUFFICES ASSUME IInv, SetSharing PROVE IInv'
  OBVIOUS
<1> DEFINE clears == share /\ queue # Empty
<1>0. /\ IF clears THEN Save(Empty) /\ dropped' = dropped \cup Reports(queue)
         ELSE UNCHANGED <<queue, file, unsaved, dropped>>
      /\ Empty \in Queues
  BY DEF SetSharing, queueVars, Empty, Queues
<1> HIDE DEF clears
<1>1. /\ sending = NoSession
      /\ queue' \in Queues /\ file' \in Queues /\ (~unsaved' => file' = queue')
      /\ Reports(queue) \cup dropped \subseteq Reports(queue') \cup dropped'
      /\ UNCHANGED <<ended, sending, flushing, handler, marked, stats, ledger, accepted, crashed>>
      /\ UNCHANGED budget \/ Spend("drop")
  <2>1. /\ sending = NoSession
        /\ UNCHANGED <<ended, sending, flushing, handler, marked, stats, ledger, accepted, crashed>>
        /\ UNCHANGED budget \/ Spend("drop")
    BY DEF SetSharing, serverVars
  <2>2. CASE clears
    BY <1>0, <2>1, <2>2, SaveStep DEF IInv, Types
  <2>3. CASE ~clears
    BY <1>0, <2>1, <2>3 DEF IInv, Types, OneCall
  <2> QED
    BY <2>2, <2>3, <2>1
<1>2. Types' /\ (ServerWorked' => ServerWorked)
  <2>1. CASE UNCHANGED budget
    BY <1>1, <2>1 DEF IInv, Types, ServerWorked
  <2>2. CASE Spend("drop")
    BY <1>1, <2>2, SpendStep DEF IInv, Types
  <2> QED
    BY <1>1, <2>1, <2>2
<1>3. OneCall'
  BY <1>1 DEF IInv, OneCall, Awaited
<1>4. ServerWorked' => accepted' \subseteq marked
  BY <1>1, <1>2 DEF IInv, MarkMeansRecord
<1>5. ASSUME ServerWorked'
      PROVE  \A d \in 1..ended' :
               d \in Reports(queue') \cup dropped' \cup crashed' \cup {sending'} \cup marked
  BY <1>1, <1>2, <1>5 DEF IInv, Somewhere
<1>6. \A g \in Handlers, d \in Sessions : Records(g, d)' <=> Records(g, d)
  BY <1>1 DEF Records
<1> QED
  BY <1>1, <1>2, <1>3, <1>4, <1>5, <1>6, ClientStep

(* The client starts with what the file holds, less what is too old.         *)
LEMMA OpenStep ==
  ASSUME file \in Queues, Open
  PROVE  /\ queue' \in Queues /\ file' \in Queues /\ (~unsaved' => file' = queue')
         /\ Reports(file) \cup dropped \subseteq Reports(queue') \cup dropped'
<1> DEFINE kept == Only(file, Sessions \ 1..aged)
<1>1. /\ dropped' = dropped \cup (Reports(file) \ Reports(kept))
      /\ IF kept = file THEN queue' = file /\ UNCHANGED file ELSE Save(kept)
  BY DEF Open
<1>2. kept \in Queues
  BY DEF Only, Queues
<1> HIDE DEF kept
<1>3. CASE kept = file
  BY <1>1, <1>3
<1>4. CASE kept # file
  BY <1>1, <1>2, <1>4, SaveStep
<1> QED
  BY <1>3, <1>4

(* A crash of the client takes the report of a direct call, and after a failed *)
(* save what the file does not hold; what a flush was sending is queued.     *)
LEMMA CrashStep == IInv /\ Crash => IInv'
<1> SUFFICES ASSUME IInv, Crash PROVE IInv'
  OBVIOUS
<1>1. /\ Spend("crash") /\ sending' = NoSession /\ flushing' = FALSE
      /\ crashed' = crashed \cup TakenByCrash /\ Open
      /\ handler' = [h \in Handlers |->
           IF handler[h] = Idle THEN Idle ELSE [handler[h] EXCEPT !.awaited = FALSE]]
      /\ UNCHANGED <<ended, marked, stats, ledger, accepted>>
  BY DEF Crash, serverVars
<1>0. /\ queue' \in Queues /\ file' \in Queues /\ (~unsaved' => file' = queue')
      /\ Reports(queue) \cup dropped \subseteq Reports(queue') \cup dropped' \cup crashed'
      /\ sending # NoSession => sending \in Reports(queue') \cup dropped' \cup crashed'
  <2>1. /\ Reports(file) \cup dropped \subseteq Reports(queue') \cup dropped'
        /\ queue' \in Queues /\ file' \in Queues /\ (~unsaved' => file' = queue')
    BY <1>1, OpenStep DEF IInv, Types
  <2>2. Reports(queue) \subseteq Reports(file) \cup crashed'
    BY <1>1 DEF TakenByCrash, IInv, OneCall
  <2>3. sending # NoSession => sending \in Reports(queue) \cup crashed'
    BY <1>1 DEF TakenByCrash, IInv, OneCall
  <2> QED
    BY <1>1, <2>1, <2>2, <2>3
<1>2. ASSUME NEW h \in Handlers
      PROVE  \/ handler[h] = Idle /\ handler'[h] = Idle
             \/ /\ handler'[h] \in Calls /\ ~handler'[h].awaited
                /\ handler'[h].pc = handler[h].pc /\ handler'[h].session = handler[h].session
  BY <1>1 DEF IInv, Types, Calls
<1>3. handler' \in [Handlers -> {Idle} \cup Calls]
  BY <1>1, <1>2
<1>4. Types' /\ (ServerWorked' => ServerWorked)
  BY <1>0, <1>1, <1>3, SpendStep DEF IInv, Types
<1>5. OneCall'
  BY <1>0, <1>1, <1>2 DEF OneCall, Awaited
<1>6. \A g \in Handlers, d \in Sessions : Records(g, d)' <=> Records(g, d)
  BY <1>2, IdleIsNoCall DEF Records
<1>7. \A g \in Handlers : handler'[g].pc = "ok" =>
        handler[g].pc = "ok" /\ handler'[g].session = handler[g].session
  BY <1>2, IdleIsNoCall
<1>8. ServerWorked' => accepted' \subseteq marked
  BY <1>1, <1>4 DEF IInv, MarkMeansRecord
<1>9. \A d \in 1..ended : d # NoSession
  BY DEF NoSession
<1>10. ASSUME ServerWorked'
       PROVE  \A d \in 1..ended' :
                d \in Reports(queue') \cup dropped' \cup crashed' \cup {sending'} \cup marked
  BY <1>0, <1>1, <1>4, <1>9, <1>10 DEF IInv, Somewhere
<1> QED
  BY <1>1, <1>4, <1>5, <1>6, <1>7, <1>8, <1>10, ClientStep

-----------------------------------------------------------------------------
(* The server's steps                                                      *)

(* A restart leaves the marks and the records; what ran is gone.             *)
LEMMA RestartStep == IInv /\ Restart => IInv'
<1> SUFFICES ASSUME IInv, Restart PROVE IInv'
  OBVIOUS
<1>1. /\ Spend("server") /\ handler' = [h \in Handlers |-> Idle]
      /\ IF sending = NoSession THEN UNCHANGED <<sending, queue, file, unsaved, dropped>>
         ELSE CallFails
      /\ UNCHANGED <<ended, flushing, marked, stats, ledger, accepted, crashed>>
  BY DEF Restart, serverVars, queueVars
<1>2. ~ServerWorked'
  BY <1>1, SpendStep DEF IInv
<1>3. /\ sending' = NoSession /\ queue' \in Queues /\ file' \in Queues
      /\ ~unsaved' => file' = queue'
  <2>1. CASE sending = NoSession
    BY <1>1, <2>1 DEF IInv, Types, OneCall
  <2>2. CASE sending # NoSession
    BY <1>1, <2>2, FailureKeepsAll DEF IInv
  <2> QED
    BY <2>1, <2>2
<1>4. handler' \in [Handlers -> {Idle} \cup Calls] /\ \A h \in Handlers : handler'[h] = Idle
  BY <1>1
<1>5. Types'
  BY <1>1, <1>3, <1>4, SpendStep DEF IInv, Types
<1>6. OneCall'
  BY <1>3, <1>4 DEF OneCall, Awaited
<1>7. MarkedOnce'
  BY <1>1, <1>4, IdleIsNoCall DEF IInv, MarkedOnce, Records
<1> QED
  BY <1>2, <1>5, <1>6, <1>7 DEF IInv, MarkMeansRecord, Somewhere

(* A call that goes on is the same call.                                    *)
LEMMA BecomeStep ==
  ASSUME IInv, NEW h \in Handlers, NEW pc \in {"check", "mark", "record", "ok", "error"},
         handler[h].pc \in {"check", "mark", "record"},
         Become(h, pc), UNCHANGED <<sending, flushing, queue, file, unsaved>>
  PROVE  /\ handler[h].session \in Sessions
         /\ handler' \in [Handlers -> {Idle} \cup Calls]
         /\ handler'[h].pc = pc /\ handler'[h].session = handler[h].session
         /\ \A g \in Handlers \ {h} : handler'[g] = handler[g]
         /\ OneCall'
<1> DEFINE r == handler[h]
           next == [r EXCEPT !.pc = pc]
<1>1. r \in Calls
  BY IdleIsNoCall DEF IInv, Types
<1>2. /\ next \in Calls /\ next.pc = pc /\ next.session = r.session /\ next.awaited = r.awaited
      /\ r.session \in Sessions /\ r # Idle
  BY <1>1, IdleIsNoCall DEF Calls
<1>3. handler' = [handler EXCEPT ![h] = next]
  BY DEF Become
<1> HIDE DEF next
<1>4. /\ handler' \in [Handlers -> {Idle} \cup Calls] /\ handler'[h] = next
      /\ \A g \in Handlers \ {h} : handler'[g] = handler[g]
  BY <1>2, <1>3 DEF IInv, Types
<1>5. \A g \in Handlers : (Awaited(g)' => Awaited(g)) /\ handler'[g].session = handler[g].session
  BY <1>2, <1>4 DEF Awaited
<1>6. OneCall'
  BY <1>5 DEF IInv, OneCall
<1> QED
  BY <1>2, <1>4, <1>6

LEMMA CheckStep == ASSUME IInv, NEW h \in Handlers, CheckDuplicate(h) PROVE IInv'
<1> DEFINE s == handler[h].session
<1>1. PICK pc \in {"mark", "ok", "error"} : Become(h, pc) /\ (pc = "ok" => s \in marked)
  BY DEF CheckDuplicate
<1>2. handler[h].pc = "check" /\ UNCHANGED <<clientVars, serverVars, budget>>
  BY DEF CheckDuplicate
<1>3. UNCHANGED <<ended, sending, flushing, queue, file, unsaved, accepted, dropped, crashed,
                 marked, stats, ledger>>
  BY <1>2 DEF clientVars, serverVars, queueVars
<1>4. /\ handler' \in [Handlers -> {Idle} \cup Calls] /\ OneCall'
      /\ handler'[h].pc = pc /\ handler'[h].session = s
      /\ \A g \in Handlers \ {h} : handler'[g] = handler[g]
  BY <1>1, <1>2, <1>3, BecomeStep
<1>5. Types' /\ (ServerWorked' <=> ServerWorked)
  BY <1>2, <1>3, <1>4 DEF IInv, Types, ServerWorked
<1>6. \A g \in Handlers, d \in Sessions : Records(g, d)' <=> Records(g, d)
  BY <1>1, <1>2, <1>4 DEF Records
<1>7. MarkedOnce'
  BY <1>3, <1>6 DEF IInv, MarkedOnce
<1>8. MarkMeansRecord'
  <2> SUFFICES ASSUME ServerWorked PROVE MarkMeansRecord'
    BY <1>5 DEF MarkMeansRecord
  <2>1. \A g \in Handlers : handler'[g].pc = "ok" => handler'[g].session \in marked
    BY <1>1, <1>4 DEF IInv, MarkMeansRecord
  <2> QED
    BY <1>3, <1>6, <2>1 DEF IInv, MarkMeansRecord, Types
<1>9. Somewhere'
  BY <1>3, <1>5 DEF IInv, Somewhere
<1> QED
  BY <1>4, <1>5, <1>7, <1>8, <1>9 DEF IInv

(* The create-only write makes one call the recorder of a session.           *)
LEMMA MarkStep == ASSUME IInv, NEW h \in Handlers, MarkSession(h) PROVE IInv'
<1> DEFINE s == handler[h].session
<1>1. PICK pc \in {"record", "ok"} : Become(h, pc) /\ (pc = "record" <=> s \notin marked)
  BY DEF MarkSession, MayCreate
<1>2. /\ handler[h].pc = "mark" /\ marked' = marked \cup {s}
      /\ UNCHANGED <<clientVars, stats, ledger, budget>>
  BY DEF MarkSession
<1>3. UNCHANGED <<ended, sending, flushing, queue, file, unsaved, accepted, dropped, crashed,
                 stats, ledger>>
  BY <1>2 DEF clientVars, queueVars
<1>4. /\ handler' \in [Handlers -> {Idle} \cup Calls] /\ OneCall' /\ s \in Sessions
      /\ handler'[h].pc = pc /\ handler'[h].session = s
      /\ \A g \in Handlers \ {h} : handler'[g] = handler[g]
  BY <1>1, <1>2, <1>3, BecomeStep
<1>5. Types' /\ (ServerWorked' <=> ServerWorked)
  BY <1>2, <1>3, <1>4 DEF IInv, Types, ServerWorked
<1>6. \A g \in Handlers, d \in Sessions :
        Records(g, d)' <=> Records(g, d) \/ (g = h /\ d = s /\ s \notin marked)
  BY <1>1, <1>2, <1>4 DEF Records
<1>7. MarkedOnce'
  BY <1>2, <1>3, <1>6 DEF IInv, MarkedOnce
<1>8. MarkMeansRecord'
  <2> SUFFICES ASSUME ServerWorked PROVE MarkMeansRecord'
    BY <1>5 DEF MarkMeansRecord
  <2>1. \A g \in Handlers : handler'[g].pc = "ok" => handler'[g].session \in marked'
    BY <1>1, <1>2, <1>4 DEF IInv, MarkMeansRecord
  <2>2. \A d \in marked' : ledger'[d] = 1 \/ \E g \in Handlers : Records(g, d)'
    BY <1>2, <1>3, <1>4, <1>6 DEF IInv, MarkMeansRecord, Types
  <2> QED
    BY <1>2, <1>3, <2>1, <2>2 DEF IInv, MarkMeansRecord
<1>9. Somewhere'
  BY <1>2, <1>3, <1>5 DEF IInv, Somewhere
<1> QED
  BY <1>4, <1>5, <1>7, <1>8, <1>9 DEF IInv

LEMMA MarkFailsStep == ASSUME IInv, NEW h \in Handlers, MarkFails(h) PROVE IInv'
<1>1. /\ handler[h].pc = "mark" /\ Spend("server") /\ Become(h, "ok")
      /\ UNCHANGED <<ended, sending, flushing, queue, file, unsaved, marked, stats, ledger>>
  BY DEF MarkFails, clientVars, serverVars, queueVars
<1>2. /\ handler' \in [Handlers -> {Idle} \cup Calls] /\ OneCall' /\ handler'[h].pc = "ok"
      /\ \A g \in Handlers \ {h} : handler'[g] = handler[g]
  BY <1>1, BecomeStep
<1>3. Types' /\ ~ServerWorked'
  BY <1>1, <1>2, SpendStep DEF IInv, Types
<1>4. \A g \in Handlers, d \in Sessions : Records(g, d)' <=> Records(g, d)
  BY <1>1, <1>2 DEF Records
<1>5. MarkedOnce'
  BY <1>1, <1>4 DEF IInv, MarkedOnce
<1> QED
  BY <1>2, <1>3, <1>5 DEF IInv, MarkMeansRecord, Somewhere

(* The recorder records the session, for the first time.                    *)
LEMMA RecordStep == ASSUME IInv, NEW h \in Handlers, RecordSession(h) PROVE IInv'
<1> DEFINE s == handler[h].session
<1>1. PICK pc \in {"ok", "error"} :
        /\ Become(h, pc)
        /\ IF pc = "ok" THEN ledger' = [ledger EXCEPT ![s] = @ + 1] /\ UNCHANGED budget
           ELSE Spend("server") /\ UNCHANGED ledger
  BY DEF RecordSession
<1>2. /\ handler[h].pc = "record" /\ stats' = [stats EXCEPT ![s] = @ + 1]
      /\ UNCHANGED <<ended, sending, flushing, queue, file, unsaved, accepted, dropped, crashed, marked>>
  BY DEF RecordSession, clientVars, queueVars
<1>3. /\ handler' \in [Handlers -> {Idle} \cup Calls] /\ OneCall' /\ s \in Sessions
      /\ handler'[h].pc = pc /\ handler'[h].session = s
      /\ \A g \in Handlers \ {h} : handler'[g] = handler[g]
  BY <1>1, <1>2, BecomeStep
<1>4. Records(h, s) /\ s \in marked /\ stats[s] = 0 /\ ledger[s] = 0
  BY <1>2, <1>3 DEF Records, IInv, MarkedOnce, Types
<1>5. /\ stats' \in [Sessions -> Nat] /\ ledger' \in [Sessions -> Nat]
      /\ stats'[s] = 1 /\ ledger'[s] = IF pc = "ok" THEN 1 ELSE 0
      /\ \A d \in Sessions \ {s} : stats'[d] = stats[d] /\ ledger'[d] = ledger[d]
  BY <1>1, <1>2, <1>3, <1>4 DEF IInv, Types
<1>6. Types' /\ (ServerWorked' => ServerWorked /\ pc = "ok")
  <2>1. CASE pc = "ok"
    BY <1>1, <1>2, <1>3, <1>5, <2>1 DEF IInv, Types, ServerWorked
  <2>2. CASE pc = "error"
    BY <1>1, <1>2, <1>3, <1>5, <2>2, SpendStep DEF IInv, Types
  <2> QED
    BY <2>1, <2>2
<1>7. \A g \in Handlers, d \in Sessions : Records(g, d)' => Records(g, d) /\ d # s
  BY <1>1, <1>3, <1>4 DEF Records, IInv, MarkedOnce
<1>8. \A g \in Handlers, d \in Sessions : Records(g, d) /\ d # s => Records(g, d)'
  BY <1>3 DEF Records
<1>9. MarkedOnce'
  BY <1>2, <1>4, <1>5, <1>7 DEF IInv, MarkedOnce
<1>10. MarkMeansRecord'
  <2> SUFFICES ASSUME ServerWorked, ServerWorked', pc = "ok" PROVE MarkMeansRecord'
    BY <1>6 DEF MarkMeansRecord
  <2>1. \A g \in Handlers : handler'[g].pc = "ok" => handler'[g].session \in marked
    BY <1>3, <1>4 DEF IInv, MarkMeansRecord
  <2>2. \A d \in marked : ledger'[d] = 1 \/ \E g \in Handlers : Records(g, d)'
    BY <1>5, <1>8 DEF IInv, MarkMeansRecord, Types
  <2> QED
    BY <1>2, <2>1, <2>2 DEF IInv, MarkMeansRecord
<1>11. Somewhere'
  BY <1>2, <1>6 DEF IInv, Somewhere
<1> QED
  BY <1>3, <1>6, <1>9, <1>10, <1>11 DEF IInv

LEMMA UnheardStep == ASSUME IInv, NEW h \in Handlers, Unheard(h) PROVE IInv'
<1>1. /\ handler[h].pc \in {"ok", "error"} /\ handler' = [handler EXCEPT ![h] = Idle]
      /\ UNCHANGED <<clientVars, serverVars, budget>>
  BY DEF Unheard
<1>2. UNCHANGED <<ended, sending, flushing, queue, file, unsaved, accepted, dropped, crashed,
                 marked, stats, ledger>>
  BY <1>1 DEF clientVars, serverVars, queueVars
<1>3. /\ handler' \in [Handlers -> {Idle} \cup Calls]
      /\ handler'[h] = Idle /\ \A g \in Handlers \ {h} : handler'[g] = handler[g]
  BY <1>1 DEF IInv, Types
<1>4. Types' /\ (ServerWorked' <=> ServerWorked)
  BY <1>1, <1>2, <1>3 DEF IInv, Types, ServerWorked
<1>5. OneCall'
  BY <1>2, <1>3 DEF IInv, OneCall, Awaited
<1>6. \A g \in Handlers, d \in Sessions : Records(g, d)' <=> Records(g, d)
  BY <1>1, <1>3, IdleIsNoCall DEF Records
<1>7. \A g \in Handlers : handler'[g].pc = "ok" =>
        handler[g].pc = "ok" /\ handler'[g].session = handler[g].session
  BY <1>3, IdleIsNoCall
<1>8. /\ ServerWorked' => accepted' \subseteq marked
      /\ ServerWorked' => \A d \in 1..ended' :
           d \in Reports(queue') \cup dropped' \cup crashed' \cup {sending'} \cup marked
  BY <1>2, <1>4 DEF IInv, MarkMeansRecord, Somewhere
<1> QED
  BY <1>2, <1>4, <1>5, <1>6, <1>7, <1>8, ClientStep

LEMMA StepInv == IInv /\ [Next]_vars => IInv'
<1> SUFFICES ASSUME IInv, [Next]_vars PROVE IInv'
  OBVIOUS
<1>1. CASE UNCHANGED vars
  <2>1. UNCHANGED <<ended, sending, flushing, queue, file, unsaved, handler, marked,
                    stats, ledger, accepted, dropped, crashed, budget>>
    BY <1>1 DEF vars, clientVars, queueVars, serverVars
  <2> QED
    BY <2>1 DEF IInv, Types, OneCall, Awaited, MarkedOnce, Records, MarkMeansRecord, Somewhere,
                ServerWorked
<1> QED
  BY <1>1, SendStep, FlushStep, QueueStep, AnsweredStep, FailedStep, LoseAnswerStep,
     SetSharingStep, AgeStep, CrashStep, RestartStep, CheckStep, MarkStep, MarkFailsStep, RecordStep,
     UnheardStep
  DEF Next, Serve, Hear

-----------------------------------------------------------------------------
(* Theorems                                                                *)

LEMMA IInvAlways == Spec => []IInv
<1>1. Init => IInv
  BY InitInv
<1>2. IInv /\ [Next]_vars => IInv'
  BY StepInv
<1> QED
  BY <1>1, <1>2, PTL DEF Spec

(* Retries, lost answers, crashes of the client and restarts of the server     *)
(* never make GameSessionEndRPC add a session to the stats or to the ledger  *)
(* twice, whatever storage call fails.                                     *)
THEOREM NeverRecordedTwice == Spec => []RecordedOnce
<1>1. ASSUME IInv PROVE RecordedOnce
  <2> SUFFICES ASSUME NEW s \in Sessions PROVE stats[s] <= 1 /\ ledger[s] <= 1
    BY DEF RecordedOnce
  <2>1. stats[s] \in Nat /\ ledger[s] \in Nat /\ ledger[s] <= stats[s] /\ stats[s] <= 1
    BY <1>1 DEF IInv, Types, MarkedOnce
  <2> QED
    BY <2>1
<1> QED
  BY <1>1, IInvAlways, PTL

(* A session that was marked is recorded, or the call that marked it is about *)
(* to record it.                                                           *)
LEMMA MarkedIsRecorded ==
  ASSUME IInv, ServerWorked, NEW s \in marked
  PROVE  InLedger(s) \/ Recording(s)
<1>1. ledger[s] = 1 \/ \E h \in Handlers : Records(h, s)
  BY DEF IInv, MarkMeansRecord
<1>2. ASSUME NEW h \in Handlers, Records(h, s) PROVE Recording(s)
  BY <1>2, IdleIsNoCall DEF Records, Recording
<1> QED
  BY <1>1, <1>2 DEF InLedger

(* While no storage call of the server failed and it was not restarted, a     *)
(* report the client was told is accepted is in the crew's ledger or is being *)
(* put there.                                                              *)
THEOREM AcceptedReportsAreRecorded == Spec => []AcceptedIsRecorded
<1>1. IInv => AcceptedIsRecorded
  BY MarkedIsRecorded DEF IInv, MarkMeansRecord, AcceptedIsRecorded, AcceptedAndRecorded
<1> QED
  BY <1>1, IInvAlways, PTL

(* While the server works, every session that ended is being sent, is queued, *)
(* is recorded, or was dropped by a rule of the queue, also after a crash and *)
(* the start from the file (pending_session_ends.rs); excepted is what a      *)
(* crash took in the direct call or out of a queue whose last save failed.   *)
THEOREM NoReportVanishes == Spec => []NoneVanishes
<1>1. IInv => NoneVanishes
  BY MarkedIsRecorded DEF IInv, Somewhere, NoneVanishes
<1> QED
  BY <1>1, IInvAlways, PTL
=============================================================================
