-------------------------- MODULE StreamHostProofs --------------------------
(* Theorems about StreamHost for every number of starts, of losses of the    *)
(* socket and of lost RPCs.                                                 *)
EXTENDS StreamHost, FiniteSetTheorems, TLAPS

USE StreamHostAssumption

-----------------------------------------------------------------------------
(* The inductive invariant                                                 *)

StepReports == [of : Steps, s : Streams, ok : BOOLEAN]

Types ==
  /\ generation \in Nat /\ drops \in Nat
  /\ start \in Starts /\ hosted \in Streams \cup {NoStream}
  /\ tasks \in [Streams -> SUBSET Steps] /\ reports \in Seq(StepReports)
  /\ carried \subseteq Streams

(* The i-th report brings the connection of s.                              *)
Brings(i, s) == reports[i].of = "sfu" /\ reports[i].ok /\ reports[i].s = s

(* Where the connection of s is: its join is still to come, it was reported, *)
(* or the start in flight has it; else a hosted stream has it.              *)
Coming(s) == "rpc" \in tasks[s] \/ "sfu" \in tasks[s]
Reported(s) == \E i \in DOMAIN reports : Brings(i, s)
InStart(s) == start.s = s /\ start.conn

Mentioned(s) == \E i \in DOMAIN reports : reports[i].s = s
ReportedOnce(s) == \A i, j \in DOMAIN reports : Brings(i, s) /\ Brings(j, s) => i = j

(* A stream has its connection in one place at most.                        *)
OnePlace(s) ==
  /\ Coming(s) => ~Reported(s) /\ ~InStart(s) /\ hosted # s
  /\ Reported(s) => ~InStart(s) /\ hosted # s
  /\ ReportedOnce(s)
  /\ "rpc" \in tasks[s] => tasks[s] = {"rpc"}

(* A generation that was not used yet has left no trace.                     *)
Unused(s) == tasks[s] = {} /\ start.s # s /\ hosted # s /\ ~Mentioned(s)

Placed ==
  /\ start.s # NoStream => hosted = NoStream
  /\ \A s \in Streams : OnePlace(s)
  /\ \A s \in Streams : s > generation => Unused(s)

(* Every connection is somewhere: none is forgotten.                        *)
NoneForgotten ==
  \A s \in Streams : s \in carried <=> Reported(s) \/ InStart(s) \/ hosted = s

IInv == Types /\ Placed /\ NoneForgotten

-----------------------------------------------------------------------------
(* The channel of reports                                                  *)

LEMMA ReportIsAdded ==
  ASSUME reports \in Seq(StepReports), NEW of \in Steps, NEW s \in Streams, NEW ok \in BOOLEAN,
         Report(of, s, ok)
  PROVE  /\ reports' \in Seq(StepReports)
         /\ \A t \in Streams :
              /\ Reported(t)' <=> Reported(t) \/ (of = "sfu" /\ ok /\ t = s)
              /\ Mentioned(t)' <=> Mentioned(t) \/ t = s
              /\ ReportedOnce(t) /\ ~(Reported(t) /\ of = "sfu" /\ ok /\ t = s) => ReportedOnce(t)'
<1> DEFINE r == [of |-> of, s |-> s, ok |-> ok]
           n == Len(reports)
<1>1. r \in StepReports /\ reports' = Append(reports, r)
  BY DEF Report, StepReports
<1>2. /\ reports' \in Seq(StepReports) /\ n \in Nat
      /\ DOMAIN reports = 1..n /\ DOMAIN reports' = 1..(n + 1)
      /\ \A i \in 1..n : reports'[i] = reports[i]
      /\ reports'[n + 1] = r
  BY <1>1
<1>3. ASSUME NEW t \in Streams, NEW i \in DOMAIN reports'
      PROVE  /\ Brings(i, t)' <=> (i \in DOMAIN reports /\ Brings(i, t)) \/ (i = n + 1 /\ of = "sfu" /\ ok /\ t = s)
             /\ reports'[i].s = t <=> (i \in DOMAIN reports /\ reports[i].s = t) \/ (i = n + 1 /\ t = s)
  BY <1>2, <1>3 DEF Brings
<1>4. DOMAIN reports \subseteq DOMAIN reports' /\ n + 1 \in DOMAIN reports' /\ n + 1 \notin DOMAIN reports
  BY <1>2
<1> HIDE DEF n
<1> QED
  BY <1>2, <1>3, <1>4 DEF Reported, Mentioned, ReportedOnce

LEMMA ReportIsTaken ==
  ASSUME reports \in Seq(StepReports), reports # <<>>, reports' = Tail(reports)
  PROVE  /\ reports' \in Seq(StepReports) /\ Head(reports) \in StepReports
         /\ \A t \in Streams :
              LET first == Head(reports).of = "sfu" /\ Head(reports).ok /\ Head(reports).s = t IN
              /\ Reported(t) <=> Reported(t)' \/ first
              /\ Mentioned(t)' => Mentioned(t)
              /\ Head(reports).s = t => Mentioned(t)
              /\ ReportedOnce(t) => ReportedOnce(t)'
              /\ ReportedOnce(t) /\ first => ~Reported(t)'
<1> DEFINE n == Len(reports)
<1>1. /\ n \in Nat \ {0} /\ reports' \in Seq(StepReports)
      /\ DOMAIN reports = 1..n /\ DOMAIN reports' = 1..(n - 1)
      /\ \A i \in 1..(n - 1) : reports'[i] = reports[i + 1]
      /\ Head(reports) = reports[1] /\ reports[1] \in StepReports
  OBVIOUS
<1>2. /\ 1 \in DOMAIN reports
      /\ \A i \in DOMAIN reports' : i + 1 \in DOMAIN reports /\ i + 1 # 1
      /\ \A i \in DOMAIN reports : i = 1 \/ (i - 1 \in DOMAIN reports' /\ i = (i - 1) + 1)
      /\ \A i, j \in DOMAIN reports' : i + 1 = j + 1 => i = j
  BY <1>1
<1>3. ASSUME NEW t \in Streams, NEW i \in DOMAIN reports'
      PROVE  /\ Brings(i, t)' <=> Brings(i + 1, t)
             /\ reports'[i].s = t <=> reports[i + 1].s = t
  BY <1>1 DEF Brings
<1>4. ASSUME NEW t \in Streams
      PROVE  LET first == Brings(1, t) IN
             /\ Reported(t) <=> Reported(t)' \/ first
             /\ Mentioned(t)' => Mentioned(t)
             /\ reports[1].s = t => Mentioned(t)
             /\ ReportedOnce(t) => ReportedOnce(t)'
             /\ ReportedOnce(t) /\ first => ~Reported(t)'
  <2>1. Reported(t) => Reported(t)' \/ Brings(1, t)
    <3> SUFFICES ASSUME NEW i \in DOMAIN reports, Brings(i, t), i # 1
                 PROVE  \E j \in DOMAIN reports' : Brings(j, t)'
      BY DEF Reported
    <3>1. i - 1 \in DOMAIN reports' /\ i = (i - 1) + 1
      BY <1>2
    <3> QED
      BY <1>3, <3>1
  <2>2. Reported(t)' \/ Brings(1, t) => Reported(t)
    BY <1>2, <1>3 DEF Reported
  <2>3. /\ Mentioned(t)' => Mentioned(t)
        /\ reports[1].s = t => Mentioned(t)
    BY <1>2, <1>3 DEF Mentioned
  <2>4. ReportedOnce(t) => ReportedOnce(t)'
    BY <1>2, <1>3 DEF ReportedOnce
  <2>5. ReportedOnce(t) /\ Brings(1, t) => ~Reported(t)'
    BY <1>2, <1>3 DEF ReportedOnce, Reported
  <2> QED
    BY <2>1, <2>2, <2>3, <2>4, <2>5
<1> QED
  BY <1>1, <1>4 DEF Brings

-----------------------------------------------------------------------------
LEMMA InitInv == Init => IInv
<1> SUFFICES ASSUME Init PROVE IInv
  OBVIOUS
<1>1. Types
  BY DEF Init, Types, Starts, NoStart
<1>2. \A s \in Streams : ~Reported(s) /\ ~Mentioned(s) /\ ReportedOnce(s)
  BY DEF Init, Reported, Mentioned, ReportedOnce
<1>3. \A s \in Streams : ~Coming(s) /\ ~InStart(s) /\ hosted # s /\ start.s # s /\ tasks[s] = {}
  BY DEF Init, Coming, InStart, Streams, NoStream, NoStart
<1>4. Placed
  BY <1>2, <1>3 DEF Init, Placed, OnePlace, Unused
<1>5. NoneForgotten
  BY <1>2, <1>3 DEF Init, NoneForgotten
<1> QED
  BY <1>1, <1>4, <1>5 DEF IInv

-----------------------------------------------------------------------------
(* The steps                                                               *)

LEMMA ReportsStay ==
  ASSUME reports' = reports
  PROVE  \A t \in Streams :
           /\ Reported(t)' <=> Reported(t)
           /\ Mentioned(t)' <=> Mentioned(t)
           /\ ReportedOnce(t)' <=> ReportedOnce(t)
  BY DEF Reported, Mentioned, ReportedOnce, Brings

LEMMA StreamsAreNumbers == Streams \subseteq Nat /\ NoStream \notin Streams /\ NoStream = 0
  BY DEF Streams, NoStream

LEMMA NoStartIsAStart == NoStart \in Starts /\ NoStart.s = NoStream /\ ~NoStart.conn
  BY DEF NoStart, Starts

(* A backend step, and any other that leaves the client alone.               *)
LEMMA ClientStays == IInv /\ UNCHANGED <<client, drops>> => IInv'
<1> SUFFICES ASSUME IInv, UNCHANGED <<client, drops>> PROVE IInv'
  OBVIOUS
<1>1. UNCHANGED <<generation, start, hosted, tasks, reports, carried, drops>>
  BY DEF client
<1> QED
  BY <1>1, ReportsStay
  DEF IInv, Types, Placed, OnePlace, Unused, NoneForgotten, Coming, InStart

LEMMA StartStreamStep == IInv /\ StartStream => IInv'
<1> SUFFICES ASSUME IInv, StartStream PROVE IInv'
  OBVIOUS
<1> DEFINE s == generation + 1
<1>1. /\ start = NoStart /\ hosted = NoStream /\ generation' = s
      /\ start' = [NoStart EXCEPT !.s = s] /\ tasks' = [tasks EXCEPT ![s] = {"rpc"}]
      /\ UNCHANGED <<hosted, reports, carried, drops>>
  BY DEF StartStream, bounds
<1>2. s \in Streams /\ s > generation
  BY DEF StartStream, TurnsLeft, Streams, IInv, Types
<1>3. Unused(s) /\ OnePlace(s)
  BY <1>2 DEF IInv, Placed
<1>4. start' \in Starts /\ start'.s = s /\ ~start'.conn
  BY <1>1, <1>2, NoStartIsAStart DEF Starts, NoStart
<1>5. Types'
  BY <1>1, <1>2, <1>4 DEF IInv, Types, Steps
<1>6. tasks'[s] = {"rpc"} /\ \A t \in Streams \ {s} : tasks'[t] = tasks[t]
  BY <1>1, <1>2 DEF IInv, Types
<1>7. ~Reported(s)
  BY <1>3 DEF Unused, Reported, Mentioned, Brings
<1>8. \A t \in Streams : ~InStart(t) /\ ~InStart(t)' /\ hosted' # t
  BY <1>1, <1>4, NoStartIsAStart, StreamsAreNumbers DEF InStart
<1>9. \A t \in Streams : OnePlace(t)'
  BY <1>1, <1>3, <1>6, <1>7, <1>8, ReportsStay DEF IInv, Placed, OnePlace, Coming
<1>10. \A t \in Streams : t > generation' => Unused(t)'
  BY <1>1, <1>2, <1>4, <1>6, ReportsStay, StreamsAreNumbers DEF IInv, Types, Placed, Unused
<1>11. NoneForgotten'
  BY <1>1, <1>8, ReportsStay DEF IInv, NoneForgotten
<1> QED
  BY <1>1, <1>5, <1>9, <1>10, <1>11 DEF IInv, Placed

(* A step of a start that ends reports it; a join that succeeded is from then *)
(* on in the channel.                                                      *)
LEMMA TaskStepStep == ASSUME IInv, NEW s \in Streams, TaskStep(s) PROVE IInv'
<1>1. CASE RpcAnswered(s)
  <2>1. /\ "rpc" \in tasks[s] /\ tasks' = [tasks EXCEPT ![s] = {"native", "sfu"}]
        /\ Report("rpc", s, TRUE) /\ UNCHANGED <<generation, start, hosted, carried, drops>>
    BY <1>1 DEF RpcAnswered, bounds
  <2>2. tasks'[s] = {"native", "sfu"} /\ \A t \in Streams \ {s} : tasks'[t] = tasks[t]
    BY <2>1 DEF IInv, Types
  <2>3. /\ reports' \in Seq(StepReports)
        /\ \A t \in Streams : /\ Reported(t)' <=> Reported(t)
                              /\ Mentioned(t)' <=> Mentioned(t) \/ t = s
                              /\ ReportedOnce(t) => ReportedOnce(t)'
    BY <2>1, ReportIsAdded DEF IInv, Types, Steps
  <2>4. Types'
    BY <2>1, <2>3 DEF IInv, Types, Steps
  <2>5. Placed'
    BY <2>1, <2>2, <2>3 DEF IInv, Placed, OnePlace, Unused, Coming, InStart
  <2>6. NoneForgotten'
    BY <2>1, <2>3 DEF IInv, NoneForgotten, InStart
  <2> QED
    BY <2>4, <2>5, <2>6 DEF IInv
<1>2. CASE RpcFails(s)
  <2>1. /\ "rpc" \in tasks[s] /\ tasks' = [tasks EXCEPT ![s] = {}]
        /\ Report("rpc", s, FALSE) /\ UNCHANGED <<generation, start, hosted, carried, drops>>
    BY <1>2 DEF RpcFails
  <2>2. tasks'[s] = {} /\ \A t \in Streams \ {s} : tasks'[t] = tasks[t]
    BY <2>1 DEF IInv, Types
  <2>3. /\ reports' \in Seq(StepReports)
        /\ \A t \in Streams : /\ Reported(t)' <=> Reported(t)
                              /\ Mentioned(t)' <=> Mentioned(t) \/ t = s
                              /\ ReportedOnce(t) => ReportedOnce(t)'
    BY <2>1, ReportIsAdded DEF IInv, Types, Steps
  <2>4. Types'
    BY <2>1, <2>3 DEF IInv, Types
  <2>5. Placed'
    BY <2>1, <2>2, <2>3 DEF IInv, Placed, OnePlace, Unused, Coming, InStart
  <2>6. NoneForgotten'
    BY <2>1, <2>3 DEF IInv, NoneForgotten, InStart
  <2> QED
    BY <2>4, <2>5, <2>6 DEF IInv
<1>3. ASSUME NEW step \in {"native", "sfu"}, NEW ok \in BOOLEAN, StepEnds(s, step, ok)
      PROVE  IInv'
  <2> DEFINE brings == step = "sfu" /\ ok
  <2>1. /\ step \in tasks[s] /\ tasks' = [tasks EXCEPT ![s] = @ \ {step}]
        /\ carried' = IF brings THEN carried \cup {s} ELSE carried
        /\ Report(step, s, ok) /\ UNCHANGED <<generation, start, hosted, drops>>
    BY <1>3 DEF StepEnds, bounds
  <2>2. tasks'[s] = tasks[s] \ {step} /\ \A t \in Streams \ {s} : tasks'[t] = tasks[t]
    BY <2>1 DEF IInv, Types
  <2>3. /\ reports' \in Seq(StepReports)
        /\ \A t \in Streams :
             /\ Reported(t)' <=> Reported(t) \/ (brings /\ t = s)
             /\ Mentioned(t)' <=> Mentioned(t) \/ t = s
             /\ ReportedOnce(t) /\ ~(Reported(t) /\ brings /\ t = s) => ReportedOnce(t)'
    BY <2>1, ReportIsAdded DEF IInv, Types, Steps
  <2>4. Types'
    BY <2>1, <2>3 DEF IInv, Types
  <2>5. "rpc" \notin tasks[s] /\ OnePlace(s)
    BY <2>1 DEF IInv, Placed, OnePlace
  <2>6. Coming(s)' => Coming(s) /\ ~brings
    BY <2>2, <2>5 DEF Coming
  <2>7. brings => Coming(s)
    BY <2>1 DEF Coming
  <2> HIDE DEF brings
  <2>8. \A t \in Streams : OnePlace(t)'
    <3>1. OnePlace(s)'
      BY <2>1, <2>2, <2>3, <2>5, <2>6, <2>7 DEF OnePlace, InStart
    <3>2. ASSUME NEW t \in Streams \ {s} PROVE OnePlace(t)'
      BY <2>1, <2>2, <2>3 DEF IInv, Placed, OnePlace, InStart, Coming
    <3> QED
      BY <3>1, <3>2
  <2>9. Placed'
    BY <2>1, <2>2, <2>3, <2>8 DEF IInv, Placed, Unused
  <2>10. NoneForgotten'
    BY <2>1, <2>3 DEF IInv, NoneForgotten, InStart
  <2> QED
    BY <2>4, <2>9, <2>10 DEF IInv
<1> QED
  BY <1>1, <1>2, <1>3 DEF TaskStep

(* cancel_host_start leaves the connection the start has; one that is        *)
(* reported stays in the channel.                                          *)
LEMMA CancelKeeps ==
  ASSUME IInv, CancelHostStart
  PROVE  /\ start' \in Starts /\ start'.s = NoStream
         /\ tasks' \in [Streams -> SUBSET Steps] /\ carried' \subseteq Streams
         /\ \A t \in Streams :
              /\ ~InStart(t)'
              /\ tasks'[t] = tasks[t] \/ tasks'[t] = {}
              /\ t \in carried' <=> t \in carried /\ ~InStart(t)
<1>1. /\ start' = NoStart /\ tasks' = [tasks EXCEPT ![start.s] = {}]
      /\ carried' = IF start.conn THEN carried \ {start.s} ELSE carried
  BY DEF CancelHostStart
<1>2. tasks' \in [Streams -> SUBSET Steps] /\ carried' \subseteq Streams
  BY <1>1 DEF IInv, Types
<1>3. \A t \in Streams : tasks'[t] = tasks[t] \/ tasks'[t] = {}
  BY <1>1 DEF IInv, Types
<1>4. \A t \in Streams : t \in carried' <=> t \in carried /\ ~InStart(t)
  BY <1>1 DEF InStart
<1> QED
  BY <1>1, <1>2, <1>3, <1>4, NoStartIsAStart, StreamsAreNumbers DEF InStart

LEMMA StartingIsNotHosting ==
  ASSUME IInv, NEW t \in Streams, InStart(t)
  PROVE  hosted # t
  BY StreamsAreNumbers DEF IInv, Placed, InStart

LEMMA CancelStartStep == IInv /\ CancelStart => IInv'
<1> SUFFICES ASSUME IInv, CancelStart PROVE IInv'
  OBVIOUS
<1>1. CancelHostStart /\ UNCHANGED <<generation, hosted, reports, drops>>
  BY DEF CancelStart, bounds
<1>2. Types'
  BY <1>1, CancelKeeps DEF IInv, Types
<1>3. Placed'
  BY <1>1, CancelKeeps, ReportsStay, StreamsAreNumbers
  DEF IInv, Placed, OnePlace, Unused, Coming
<1>4. NoneForgotten'
  <2>1. \A t \in Streams : OnePlace(t)
    BY DEF IInv, Placed
  <2> QED
    BY <1>1, <2>1, CancelKeeps, ReportsStay, StartingIsNotHosting DEF IInv, NoneForgotten, OnePlace
<1> QED
  BY <1>2, <1>3, <1>4 DEF IInv

(* A report is taken: by the start it is of, or as one that is too late.      *)
LEMMA TakeReportStep == IInv /\ TakeReport => IInv'
<1> SUFFICES ASSUME IInv, TakeReport PROVE IInv'
  OBVIOUS
<1> DEFINE r == Head(reports)
           first(t) == r.of = "sfu" /\ r.ok /\ r.s = t
<1>1. /\ reports # <<>> /\ reports' = Tail(reports)
      /\ DropReport(r) \/ FailHostStart(r) \/ TakeStep(r)
      /\ UNCHANGED <<generation, drops>>
  BY DEF TakeReport, bounds
<1>2. /\ reports' \in Seq(StepReports) /\ r \in StepReports
      /\ \A t \in Streams :
           /\ Reported(t) <=> Reported(t)' \/ first(t)
           /\ Mentioned(t)' => Mentioned(t)
           /\ r.s = t => Mentioned(t)
           /\ ReportedOnce(t) => ReportedOnce(t)'
           /\ ReportedOnce(t) /\ first(t) => ~Reported(t)'
  BY <1>1, ReportIsTaken DEF IInv, Types
<1>3. r.s \in Streams /\ r.of \in Steps /\ r.ok \in BOOLEAN
  BY <1>2 DEF StepReports
<1>4. \A t \in Streams : first(t) => t = r.s /\ Reported(t) /\ ~Reported(t)'
  BY <1>2 DEF IInv, Placed, OnePlace
<1>5. \A t \in Streams : OnePlace(t) /\ (t > generation => Unused(t))
  BY DEF IInv, Placed
<1>6. CASE DropReport(r)
  <2>1. /\ r.s # start.s /\ carried' = IF first(r.s) THEN carried \ {r.s} ELSE carried
        /\ UNCHANGED <<start, hosted, tasks>>
    BY <1>6 DEF DropReport
  <2>2. Types'
    BY <1>1, <1>2, <2>1 DEF IInv, Types
  <2> HIDE DEF first, r
  <2>3. Placed'
    BY <1>1, <1>2, <1>5, <2>1 DEF IInv, Placed, OnePlace, Unused, Coming, InStart
  <2>4. NoneForgotten'
    BY <1>2, <1>3, <1>4, <1>5, <2>1 DEF IInv, NoneForgotten, OnePlace, InStart
  <2> QED
    BY <2>2, <2>3, <2>4 DEF IInv
<1>7. CASE FailHostStart(r)
  <2>1. CancelHostStart /\ UNCHANGED hosted /\ \A t \in Streams : ~first(t)
    BY <1>7 DEF FailHostStart
  <2> HIDE DEF first, r
  <2>2. Types'
    BY <1>1, <1>2, <2>1, CancelKeeps DEF IInv, Types
  <2>3. Placed'
    BY <1>1, <1>2, <1>5, <2>1, CancelKeeps, StreamsAreNumbers
    DEF IInv, Placed, OnePlace, Unused, Coming
  <2>4. NoneForgotten'
    BY <1>2, <1>5, <2>1, CancelKeeps, StartingIsNotHosting DEF IInv, NoneForgotten, OnePlace
  <2> QED
    BY <2>2, <2>3, <2>4 DEF IInv
<1>8. CASE TakeStep(r)
  <2>0. PICK s \in Streams : s = r.s
    BY <1>3
  <2>1. PICK has \in Starts :
          /\ has.s = s /\ (has.conn <=> start.conn \/ r.of = "sfu")
          /\ start' = IF has.native /\ has.conn THEN NoStart ELSE has
          /\ hosted' = IF has.native /\ has.conn THEN s ELSE hosted
    <3> DEFINE has == CASE r.of = "rpc"    -> [start EXCEPT !.resp = TRUE]
                        [] r.of = "native" -> [start EXCEPT !.native = TRUE]
                        [] r.of = "sfu"    -> [start EXCEPT !.conn = TRUE]
    <3>1. start \in Starts /\ start.s = s
      BY <2>0, <1>8 DEF IInv, Types, TakeStep
    <3>2. has \in Starts /\ has.s = s /\ (has.conn <=> start.conn \/ r.of = "sfu")
      BY <1>3, <3>1 DEF Starts, Steps
    <3>3. /\ start' = IF has.native /\ has.conn THEN NoStart ELSE has
          /\ hosted' = IF has.native /\ has.conn THEN s ELSE hosted
      BY <2>0, <1>8 DEF TakeStep
    <3> QED
      BY <3>2, <3>3
  <2>2. s = start.s /\ r.ok /\ UNCHANGED <<tasks, carried>> /\ hosted = NoStream
    BY <2>0, <1>3, <1>8, StreamsAreNumbers DEF TakeStep, IInv, Placed
  <2>3. \A t \in Streams : first(t) <=> r.of = "sfu" /\ t = s
    BY <2>0, <2>2
  <2>4. Mentioned(s) /\ ~Unused(s)
    BY <2>0, <1>2 DEF Unused
  <2>5. Types'
    BY <2>0, <1>1, <1>2, <2>1, <2>2, NoStartIsAStart DEF IInv, Types
  <2> HIDE DEF first, r
  <2>6. CASE has.native /\ has.conn
    <3>1. start' = NoStart /\ hosted' = s /\ \A t \in Streams : ~InStart(t)' /\ start'.s # t
      BY <2>0, <2>1, <2>6, NoStartIsAStart, StreamsAreNumbers DEF InStart
    <3>2. Reported(s) \/ InStart(s)
      BY <2>0, <1>2, <2>1, <2>2, <2>3, <2>6 DEF InStart
    <3>3. ~Reported(s)' /\ ~Coming(s)
      <4>1. OnePlace(s) /\ start.s = s
        BY <1>5, <2>0, <2>2
      <4>2. ~Coming(s)
        BY <3>2, <4>1 DEF OnePlace
      <4>3. CASE Reported(s)
        <5>1. ~start.conn
          BY <4>1, <4>3 DEF OnePlace, InStart
        <5>2. first(s)
          BY <2>0, <2>1, <2>3, <2>6, <5>1
        <5> QED
          BY <1>4, <4>2, <5>2
      <4>4. CASE ~Reported(s)
        BY <1>2, <4>2, <4>4
      <4> QED
        BY <4>3, <4>4
    <3>4. \A t \in Streams : OnePlace(t)'
      <4>1. OnePlace(s)'
        BY <2>0, <1>2, <1>5, <2>2, <3>1, <3>3 DEF OnePlace, Coming
      <4>2. ASSUME NEW t \in Streams, t # s PROVE OnePlace(t)'
        <5>1. OnePlace(t) /\ hosted' # t /\ ~InStart(t)' /\ tasks' = tasks
          BY <2>0, <1>5, <2>2, <3>1, <4>2
        <5>2. (Reported(t)' => Reported(t)) /\ (ReportedOnce(t) => ReportedOnce(t)')
          BY <1>2
        <5> QED
          BY <5>1, <5>2 DEF OnePlace, Coming
      <4> QED
        BY <4>1, <4>2
    <3>5. \A t \in Streams : t > generation' => Unused(t)'
      BY <2>0, <1>1, <1>2, <1>5, <2>2, <2>4, <3>1 DEF Unused
    <3>6. NoneForgotten'
      BY <2>0, <1>2, <2>2, <2>3, <3>1, <3>2, StreamsAreNumbers DEF IInv, NoneForgotten, InStart
    <3> QED
      BY <2>5, <3>1, <3>4, <3>5, <3>6, NoStartIsAStart DEF IInv, Placed
  <2>7. CASE ~(has.native /\ has.conn)
    <3>1. /\ hosted' = hosted
          /\ start'.s = start.s /\ (start'.conn <=> start.conn \/ r.of = "sfu")
      BY <2>0, <2>1, <2>2, <2>7
    <3>2. \A t \in Streams : InStart(t)' <=> InStart(t) \/ first(t)
      BY <2>0, <2>2, <2>3, <3>1 DEF InStart
    <3>3. \A t \in Streams : OnePlace(t)'
      BY <2>0, <1>2, <1>4, <1>5, <2>2, <3>1, <3>2, StreamsAreNumbers DEF OnePlace, Coming
    <3>4. \A t \in Streams : t > generation' => Unused(t)'
      BY <2>0, <1>1, <1>2, <1>5, <2>2, <3>1 DEF Unused
    <3>5. NoneForgotten'
      BY <2>0, <1>2, <2>2, <3>1, <3>2 DEF IInv, NoneForgotten
    <3> QED
      BY <2>0, <2>2, <2>5, <3>1, <3>3, <3>4, <3>5 DEF IInv, Placed
  <2> QED
    BY <2>6, <2>7
<1> QED
  BY <1>1, <1>6, <1>7, <1>8

(* The end of a hosted stream leaves its connection.                        *)
LEMMA HostedEnds ==
  ASSUME IInv, hosted' = NoStream, carried' = carried \ {hosted},
         UNCHANGED <<generation, start, tasks, reports, drops>>
  PROVE  IInv'
<1>1. Types'
  BY DEF IInv, Types
<1>2. Placed'
  BY ReportsStay, StreamsAreNumbers DEF IInv, Placed, OnePlace, Unused, Coming, InStart
<1>3. \A t \in Streams : OnePlace(t)
  BY DEF IInv, Placed
<1>4. \A t \in Streams : InStart(t)' <=> InStart(t)
  BY DEF InStart
<1>5. NoneForgotten'
  BY <1>3, <1>4, ReportsStay, StartingIsNotHosting, StreamsAreNumbers
  DEF IInv, NoneForgotten, OnePlace
<1> QED
  BY <1>1, <1>2, <1>5 DEF IInv

(* With the app all its tasks, reports and connections are gone.             *)
LEMMA AppExitsStep == IInv /\ AppExits => IInv'
<1> SUFFICES ASSUME IInv, AppExits PROVE IInv'
  OBVIOUS
<1>1. /\ start' = NoStart /\ hosted' = NoStream /\ reports' = <<>> /\ carried' = {}
      /\ tasks' = [s \in Streams |-> {}] /\ generation' = generation /\ drops' \in {drops, drops + 1}
  BY DEF AppExits, LoseSocket
<1>2. Types'
  BY <1>1, NoStartIsAStart DEF IInv, Types
<1>3. \A s \in Streams : /\ ~Reported(s)' /\ ~Mentioned(s)' /\ ReportedOnce(s)'
                        /\ start'.s # s /\ hosted' # s /\ tasks'[s] = {}
  BY <1>1, NoStartIsAStart, StreamsAreNumbers DEF Reported, Mentioned, ReportedOnce
<1>4. Placed'
  BY <1>1, <1>3 DEF Placed, OnePlace, Unused, Coming
<1>5. NoneForgotten'
  BY <1>1, <1>3 DEF NoneForgotten, InStart
<1> QED
  BY <1>2, <1>4, <1>5 DEF IInv

(* A loss of the socket, a sign-in and an answer that does not come leave the *)
(* call and its connections as they are.                                    *)
LEMMA SocketStep ==
  ASSUME IInv, drops' \in {drops, drops + 1},
         UNCHANGED <<generation, start, hosted, tasks, reports, carried>>
  PROVE  IInv'
  BY ReportsStay
  DEF IInv, Types, Placed, OnePlace, Unused, NoneForgotten, Coming, InStart

LEMMA NetworkStep == IInv /\ Network => IInv'
<1> SUFFICES ASSUME IInv, Network PROVE IInv'
  OBVIOUS
<1>1. CASE SocketDrops
  BY <1>1, SocketStep DEF SocketDrops, LoseSocket
<1>2. CASE Reconnect
  BY <1>2, SocketStep DEF Reconnect, bounds
<1>3. CASE ResumeTimesOut
  BY <1>3, SocketStep DEF ResumeTimesOut
<1>4. CASE ResumeFails
  BY <1>4, HostedEnds DEF ResumeFails, EndHostedStream
<1>5. ASSUME NEW h \in handlers, CallIsLost(h) PROVE IInv'
  BY <1>5, ClientStays DEF CallIsLost
<1>6. CASE Login
  BY <1>6, SocketStep DEF Login, bounds
<1> QED
  BY <1>1, <1>2, <1>3, <1>4, <1>5, <1>6, AppExitsStep DEF Network

(* No handler of the backend touches the client.                            *)
LEMMA BackendStep == IInv /\ Backend => IInv'
<1> SUFFICES ASSUME IInv, Backend PROVE UNCHANGED <<client, drops>>
  BY ClientStays
<1>1. ASSUME NEW h \in handlers, Handle(h) PROVE UNCHANGED <<client, drops>>
  BY <1>1
  DEF Handle, StoreStreamSession, LoadForLive, AdvertiseStream, ClearPending, WriteOnline,
      RegisterSession, CountSession, WriteOffline, ReadMeta, LoadSession, DeleteMeta,
      DeleteSession, LoadPending, DeletePending, AppendSession, KeepForResume, ReadLive,
      LoadLive, ReadRecord, Restore, RestoreSession, DeleteRecord, RemoveEvent, bounds
<1>2. CASE StreamGC
  BY <1>2 DEF StreamGC, bounds
<1> QED
  BY <1>1, <1>2 DEF Backend

LEMMA StepInv == IInv /\ [Next]_vars => IInv'
<1> SUFFICES ASSUME IInv, [Next]_vars PROVE IInv'
  OBVIOUS
<1>1. CASE EndStream
  BY <1>1, HostedEnds DEF EndStream, EndHostedStream, bounds
<1>2. ASSUME NEW h \in handlers, ResumeAnswered(h) PROVE IInv'
  <2>1. CASE UNCHANGED <<hosted, carried>>
    BY <1>2, <2>1, SocketStep DEF ResumeAnswered, bounds
  <2>2. CASE hosted' = NoStream /\ carried' = carried \ {hosted}
    BY <1>2, <2>2, HostedEnds DEF ResumeAnswered, bounds
  <2> QED
    BY <1>2, <2>1, <2>2 DEF ResumeAnswered
<1>3. CASE UNCHANGED vars
  BY <1>3, ClientStays DEF vars, bounds
<1>4. CASE Logout
  BY <1>4, SocketStep DEF Logout, LoseSocket
<1> QED
  BY <1>1, <1>2, <1>3, <1>4, StartStreamStep, CancelStartStep, NetworkStep, TakeReportStep,
     BackendStep, TaskStepStep
  DEF Next, User

-----------------------------------------------------------------------------
(* Theorems                                                                *)

LEMMA IInvAlways == Spec => []IInv
<1>1. Init => IInv
  BY InitInv
<1>2. IInv /\ [Next]_vars => IInv'
  BY StepInv
<1> QED
  BY <1>1, <1>2, PTL DEF Spec

(* Every connection to the SFU is the hosted stream's, is held by the start   *)
(* in flight or is about to be reported to the client                       *)
(* (client/streaming.rs): a start that was cancelled, failed, timed out or   *)
(* replaced never makes the client forget one.                              *)
THEOREM NoConnectionIsForgotten == Spec => []NoneForgotten
<1>1. IInv => NoneForgotten
  BY DEF IInv
<1> QED
  BY <1>1, IInvAlways, PTL

(* Once nothing is under way the host has its SFU connection exactly while it *)
(* hosts a stream, for any number of starts, lost sockets and lost RPCs.     *)
THEOREM ConnectionIffHosting == Spec => []CarriedIsHosted
<1>1. ASSUME IInv PROVE CarriedIsHosted
  <2> SUFFICES ASSUME Settled PROVE carried = {hosted} \ {NoStream}
    BY DEF CarriedIsHosted
  <2>1. \A t \in Streams : ~Reported(t) /\ ~InStart(t)
    BY NoStartIsAStart DEF Settled, Reported, InStart
  <2>2. \A t \in Streams : t \in carried <=> hosted = t
    BY <1>1, <2>1 DEF IInv, NoneForgotten
  <2>3. carried \subseteq Streams /\ hosted \in Streams \cup {NoStream}
    BY <1>1 DEF IInv, Types
  <2> QED
    BY <2>2, <2>3, StreamsAreNumbers
<1> QED
  BY <1>1, IInvAlways, PTL

-----------------------------------------------------------------------------
(* The shape of a handler                                                  *)

(* The storage calls a handler of each kind makes.                          *)
PlacesOf(kind) ==
  CASE kind = "start"  -> {"store"}
    [] kind = "live"   -> {"load", "advertise", "online", "store"}
    [] kind = "stop"   -> {"read", "deleteMeta", "deleteSession", "loadPending", "deletePending", "append", "online"}
    [] kind = "resume" -> {"read", "loadLive", "readRecord", "restore", "store", "deleteRecord", "removeEvent",
                           "online", "ok", "refused"}
    [] kind = "begin"  -> {"register", "online"}
    [] kind = "end"    -> {"count", "offline", "read", "load", "deleteMeta", "deleteSession", "append", "keep"}
    [] kind = "gc"     -> {"read", "load", "deleteMeta", "deleteSession", "append", "keep"}

(* A handler is where its kind can be, and has read what it is about to use: *)
(* a clean-up the stream and its session, a resume the record.              *)
WellFormed(h) ==
  /\ h.at \in PlacesOf(h.kind)
  /\ h.kind \in {"start", "live", "stop", "resume"} => h.s \in Streams
  /\ h.got # NoStream => IsEnder(h) /\ h.at \notin {"count", "offline", "read"}
  /\ IsCleanup(h) /\ h.at \in {"deleteMeta", "deleteSession", "append", "keep"} => h.rec.s = h.got /\ h.got # NoStream
  /\ IsCleanup(h) /\ h.at = "load" => h.got # NoStream
  /\ h.kind = "resume" /\ h.at \in {"restore", "store", "deleteRecord", "removeEvent"} =>
       h.rec.s = h.s /\ h.rec.session # "none"

(* The resume the client waits for is one of a hosted stream; a start in     *)
(* flight has its number.                                                  *)
Shaped ==
  /\ \A h \in handlers : WellFormed(h)
  /\ resume.s # NoStream => resume.session # "none"
  /\ awaiting # 0 => hosted # NoStream
  /\ start.s = NoStream => start = NoStart

Typed == TypeOK /\ Shaped

LEMMA RecordsAreTyped == NoRecord \in Records /\ NoRecord.s = NoStream
  BY DEF NoRecord, Records

LEMMA NewCall ==
  ASSUME NEW kind \in Kinds, NEW s \in Streams \cup {NoStream}, NEW n \in Nat, NEW at \in Places
  PROVE  /\ Call(kind, s, n, at) \in Handlers
         /\ Call(kind, s, n, at).kind = kind /\ Call(kind, s, n, at).s = s /\ Call(kind, s, n, at).n = n
         /\ Call(kind, s, n, at).at = at /\ Call(kind, s, n, at).got = NoStream
  BY RecordsAreTyped DEF Call, Handlers

LEMMA Moved ==
  ASSUME NEW h \in Handlers, NEW at \in Places
  PROVE  LET g == [h EXCEPT !.at = at] IN
         /\ g \in Handlers /\ g.at = at
         /\ g.kind = h.kind /\ g.s = h.s /\ g.n = h.n /\ g.got = h.got /\ g.rec = h.rec
  BY DEF Handlers

LEMMA PlacesAreKnown ==
  /\ \A kind \in Kinds : PlacesOf(kind) \subseteq Places
  /\ {"read", "count", "register", "load", "store"} \subseteq Places
  BY DEF Kinds, PlacesOf, Places

(* A new handler has read nothing yet.                                       *)
LEMMA NewIsFormed ==
  ASSUME NEW kind \in Kinds, NEW s \in Streams \cup {NoStream}, NEW n \in Nat, NEW at \in PlacesOf(kind),
         kind \in {"start", "live", "stop", "resume"} => s \in Streams,
         at \in {"read", "count", "register"} \/ kind \in {"start", "live"}
  PROVE  Call(kind, s, n, at) \in Handlers /\ WellFormed(Call(kind, s, n, at))
<1>1. at \in Places
  BY PlacesAreKnown
<1>2. /\ Call(kind, s, n, at) \in Handlers
      /\ Call(kind, s, n, at).kind = kind /\ Call(kind, s, n, at).s = s
      /\ Call(kind, s, n, at).at = at /\ Call(kind, s, n, at).got = NoStream
  BY <1>1, NewCall
<1> QED
  BY <1>2 DEF WellFormed, IsCleanup

LEMMA FirstPlaces ==
  /\ Kinds = {"start", "live", "stop", "resume", "begin", "end", "gc"}
  /\ "store" \in PlacesOf("start") /\ "load" \in PlacesOf("live") /\ "read" \in PlacesOf("stop")
  /\ "read" \in PlacesOf("resume") /\ "register" \in PlacesOf("begin")
  /\ "count" \in PlacesOf("end") /\ "read" \in PlacesOf("gc")
  BY DEF Kinds, PlacesOf

(* The handlers the client, the socket and the GC make.                      *)
LEMMA CallsAreFormed ==
  /\ \A s \in Streams : /\ Call("start", s, 0, "store") \in Handlers /\ WellFormed(Call("start", s, 0, "store"))
                        /\ Call("live", s, 0, "load") \in Handlers /\ WellFormed(Call("live", s, 0, "load"))
                        /\ StopCall(s) \in Handlers /\ WellFormed(StopCall(s))
  /\ \A n \in Nat : /\ Call("end", NoStream, n, "count") \in Handlers /\ WellFormed(Call("end", NoStream, n, "count"))
                    /\ Call("begin", NoStream, n, "register") \in Handlers /\ WellFormed(Call("begin", NoStream, n, "register"))
  /\ \A s \in Streams, n \in Nat : Call("resume", s, n, "read") \in Handlers /\ WellFormed(Call("resume", s, n, "read"))
  /\ Call("gc", NoStream, 0, "read") \in Handlers /\ WellFormed(Call("gc", NoStream, 0, "read"))
<1> USE FirstPlaces, NewIsFormed
<1>1. ASSUME NEW s \in Streams
      PROVE  /\ Call("start", s, 0, "store") \in Handlers /\ WellFormed(Call("start", s, 0, "store"))
             /\ Call("live", s, 0, "load") \in Handlers /\ WellFormed(Call("live", s, 0, "load"))
  OBVIOUS
<1>2. ASSUME NEW s \in Streams
      PROVE  StopCall(s) \in Handlers /\ WellFormed(StopCall(s))
  BY DEF StopCall
<1>3. ASSUME NEW n \in Nat
      PROVE  /\ Call("end", NoStream, n, "count") \in Handlers /\ WellFormed(Call("end", NoStream, n, "count"))
             /\ Call("begin", NoStream, n, "register") \in Handlers /\ WellFormed(Call("begin", NoStream, n, "register"))
  OBVIOUS
<1>4. ASSUME NEW s \in Streams, NEW n \in Nat
      PROVE  Call("resume", s, n, "read") \in Handlers /\ WellFormed(Call("resume", s, n, "read"))
  OBVIOUS
<1>5. Call("gc", NoStream, 0, "read") \in Handlers /\ WellFormed(Call("gc", NoStream, 0, "read"))
  OBVIOUS
<1> QED
  BY <1>1, <1>2, <1>3, <1>4, <1>5

(* A handler that goes on keeps what it has read.                            *)
LEMMA GoesIsFormed ==
  ASSUME NEW h \in Handlers, WellFormed(h), NEW at \in PlacesOf(h.kind),
         at \notin {"count", "read", "load", "restore"}, at = "offline" => h.got = NoStream,
         IsCleanup(h) /\ at \in {"deleteMeta", "deleteSession", "append", "keep"} =>
           h.at \in {"deleteMeta", "deleteSession", "append"},
         h.kind = "resume" /\ at \in {"store", "deleteRecord", "removeEvent"} =>
           h.at \in {"restore", "store", "deleteRecord"}
  PROVE  [h EXCEPT !.at = at] \in Handlers /\ WellFormed([h EXCEPT !.at = at])
<1> DEFINE g == [h EXCEPT !.at = at]
<1>1. h.kind \in Kinds /\ at \in Places
  BY PlacesAreKnown DEF Handlers
<1>2. /\ g \in Handlers /\ g.at = at
      /\ g.kind = h.kind /\ g.s = h.s /\ g.got = h.got /\ g.rec = h.rec
  BY <1>1, Moved
<1> HIDE DEF g
<1>3. WellFormed(g)
  BY <1>2 DEF WellFormed, IsCleanup, IsEnder
<1> QED
  BY <1>2, <1>3 DEF g

(* A handler ends or goes on as a well-formed one of its kind; only ReadMeta  *)
(* finds a stream, and a stream_live that is about to look or to advertise   *)
(* was so before.                                                          *)
Told(h, s) == h.kind = "live" /\ h.s = s /\ h.at \in {"load", "advertise"}

Keeps(h) ==
  \/ Ends(h)
  \/ \E g \in Handlers :
       /\ WellFormed(g) /\ Becomes(h, g)
       /\ g.kind = h.kind /\ g.s = h.s /\ g.n = h.n
       /\ g.got = h.got \/ (ReadMeta(h) /\ g.got = meta)
       /\ \A s \in Streams : Told(g, s) => Told(h, s)

LEMMA GoesKeeps ==
  ASSUME Typed, NEW h \in handlers, NEW at \in PlacesOf(h.kind), Goes(h, at),
         at \notin {"count", "read", "load", "restore"}, at = "offline" => h.got = NoStream,
         IsCleanup(h) /\ at \in {"deleteMeta", "deleteSession", "append", "keep"} =>
           h.at \in {"deleteMeta", "deleteSession", "append"},
         h.kind = "resume" /\ at \in {"store", "deleteRecord", "removeEvent"} =>
           h.at \in {"restore", "store", "deleteRecord"},
         at = "advertise" => h.at = "load"
  PROVE  Keeps(h)
<1>1. h \in Handlers /\ WellFormed(h)
  BY DEF Typed, TypeOK, Shaped
<1> DEFINE g == [h EXCEPT !.at = at]
<1>2. g \in Handlers /\ WellFormed(g)
  BY <1>1, GoesIsFormed
<1>3. at \in Places
  BY <1>1, PlacesAreKnown DEF Handlers
<1>4. g.kind = h.kind /\ g.s = h.s /\ g.n = h.n /\ g.at = at /\ g.got = h.got
  BY <1>1, <1>3, Moved
<1>5. Becomes(h, g)
  BY DEF Goes
<1> HIDE DEF g
<1> QED
  BY <1>2, <1>4, <1>5 DEF Keeps, Told

LEMMA BecomesKeeps ==
  ASSUME NEW h, NEW g \in Handlers, WellFormed(g), Becomes(h, g), g.kind = h.kind, g.s = h.s, g.n = h.n,
         g.kind # "live", g.got = h.got \/ (ReadMeta(h) /\ g.got = meta)
  PROVE  Keeps(h)
  BY DEF Keeps, Told

(* What is known of a handler by the call it is about to make.               *)
LEMMA WhereItIs ==
  ASSUME Typed, NEW h \in handlers
  PROVE  /\ h \in Handlers /\ WellFormed(h) /\ h.kind \in Kinds /\ h.at \in PlacesOf(h.kind)
         /\ h.s \in Streams \cup {NoStream} /\ h.got \in Streams \cup {NoStream} /\ h.rec \in Records /\ h.n \in Nat
         /\ h.at \in {"load", "store", "read", "online"} \/
            /\ h.at \in {"advertise"} => h.kind = "live"
            /\ h.at \in {"register"} => h.kind = "begin"
            /\ h.at \in {"count", "offline"} => h.kind = "end"
            /\ h.at \in {"deleteMeta", "deleteSession", "append"} => IsEnder(h)
            /\ h.at \in {"loadPending", "deletePending"} => h.kind = "stop"
            /\ h.at = "keep" => IsCleanup(h)
            /\ h.at \in {"loadLive", "readRecord", "restore", "deleteRecord", "removeEvent", "ok", "refused"} => h.kind = "resume"
         /\ h.at = "online" => h.kind \in {"live", "begin", "stop", "resume"}
<1>1. h \in Handlers /\ WellFormed(h)
  BY DEF Typed, TypeOK, Shaped
<1>2. /\ h.kind \in Kinds /\ h.at \in PlacesOf(h.kind) /\ h.at \in Places
      /\ h.s \in Streams \cup {NoStream} /\ h.got \in Streams \cup {NoStream} /\ h.rec \in Records /\ h.n \in Nat
  BY <1>1 DEF Handlers, WellFormed
<1> QED
  BY <1>1, <1>2 DEF Kinds, PlacesOf, IsEnder, IsCleanup

LEMMA HandleKeeps == ASSUME Typed, NEW h \in handlers, Handle(h) PROVE Keeps(h)
<1>0. /\ h \in Handlers /\ WellFormed(h) /\ h.kind \in Kinds /\ h.rec \in Records
      /\ h.got \in Streams \cup {NoStream}
  BY WhereItIs
<1>1. CASE StoreStreamSession(h) \/ ClearPending(h) \/ KeepForResume(h)
  BY <1>1 DEF Keeps, StoreStreamSession, ClearPending, KeepForResume
<1>2. CASE LoadForLive(h)
  <2>1. h.kind = "live" /\ h.at = "load" /\ (Goes(h, "advertise") \/ Ends(h))
    BY <1>2 DEF LoadForLive
  <2>2. "advertise" \in PlacesOf(h.kind)
    BY <2>1 DEF PlacesOf
  <2> QED
    BY <2>1, <2>2, GoesKeeps DEF Keeps, IsCleanup
<1>3. CASE AdvertiseStream(h)
  <2>1. h.kind = "live" /\ Goes(h, "online")
    BY <1>3 DEF AdvertiseStream
  <2>2. "online" \in PlacesOf(h.kind)
    BY <2>1 DEF PlacesOf
  <2> QED
    BY <2>1, <2>2, GoesKeeps DEF IsCleanup
<1>4. CASE WriteOnline(h)
  <2>1. \/ h.kind = "live" /\ Goes(h, "store")
        \/ Ends(h)
        \/ h.kind = "resume" /\ Goes(h, "ok")
    <3>1. h.kind \in {"live", "begin", "stop", "resume"}
      BY <1>4, WhereItIs DEF WriteOnline
    <3> QED
      BY <1>4, <3>1 DEF WriteOnline
  <2>2. (h.kind = "live" => "store" \in PlacesOf(h.kind)) /\ (h.kind = "resume" => "ok" \in PlacesOf(h.kind))
    BY DEF PlacesOf
  <2> QED
    BY <2>1, <2>2, GoesKeeps DEF Keeps, IsCleanup
<1>5. CASE RegisterSession(h)
  <2>1. h.kind = "begin" /\ (Goes(h, "online") \/ Ends(h))
    BY <1>5, WhereItIs DEF RegisterSession
  <2>2. "online" \in PlacesOf(h.kind)
    BY <2>1 DEF PlacesOf
  <2> QED
    BY <2>1, <2>2, GoesKeeps DEF Keeps, IsCleanup
<1>6. CASE CountSession(h)
  <2>1. h.kind = "end" /\ h.at = "count" /\ (Goes(h, "offline") \/ Ends(h))
    BY <1>6, WhereItIs DEF CountSession
  <2>2. "offline" \in PlacesOf(h.kind) /\ h.got = NoStream
    BY <1>0, <2>1 DEF PlacesOf, WellFormed
  <2> QED
    BY <2>1, <2>2, GoesKeeps DEF Keeps, IsCleanup
<1>7. CASE WriteOffline(h)
  <2>1. h.kind = "end" /\ h.at = "offline" /\ Goes(h, "read")
    BY <1>7, WhereItIs DEF WriteOffline
  <2> DEFINE g == [h EXCEPT !.at = "read"]
  <2>2. "read" \in PlacesOf("end") /\ "read" \in Places /\ h.got = NoStream
    BY <1>0, <2>1 DEF PlacesOf, Places, WellFormed
  <2>3. g \in Handlers /\ g.kind = "end" /\ g.s = h.s /\ g.n = h.n /\ g.at = "read" /\ g.got = NoStream
    BY <1>0, <2>1, <2>2, Moved
  <2> HIDE DEF g
  <2>4. WellFormed(g)
    BY <2>2, <2>3 DEF WellFormed, IsCleanup
  <2> QED
    BY <2>1, <2>2, <2>3, <2>4, BecomesKeeps DEF Goes, g
<1>8. CASE ReadMeta(h)
  <2>1. CASE Ends(h)
    BY <2>1 DEF Keeps
  <2>2. CASE ~Ends(h)
    <3> DEFINE to == IF IsCleanup(h) THEN "load" ELSE "deleteMeta"
               g == [h EXCEPT !.got = meta, !.at = to]
    <3>1. IsEnder(h) /\ Becomes(h, g) /\ (IsCleanup(h) => meta # NoStream)
      BY <1>8, <2>2 DEF ReadMeta
    <3>2. to \in PlacesOf(h.kind) /\ to \in Places
      BY <1>0, <3>1 DEF PlacesOf, Places, IsEnder, IsCleanup
    <3>3. meta \in Streams \cup {NoStream}
      BY DEF Typed, TypeOK
    <3>4. g \in Handlers /\ g.kind = h.kind /\ g.s = h.s /\ g.n = h.n /\ g.at = to /\ g.got = meta
      BY <1>0, <3>2, <3>3 DEF Handlers
    <3> HIDE DEF g
    <3>5. WellFormed(g)
      BY <1>0, <3>1, <3>2, <3>4 DEF WellFormed, IsEnder, IsCleanup
    <3> QED
      BY <1>8, <3>1, <3>4, <3>5, BecomesKeeps DEF IsEnder, IsCleanup
  <2> QED
    BY <2>1, <2>2
<1>9. CASE LoadSession(h)
  <2> DEFINE rec == [s |-> h.got, session |-> sessions[h.got], event |-> 0]
             g == [h EXCEPT !.at = "deleteMeta", !.rec = rec]
  <2>1. IsCleanup(h) /\ h.at = "load" /\ Becomes(h, g)
    BY <1>9 DEF LoadSession
  <2>2. h.got \in Streams
    BY <1>0, <2>1 DEF WellFormed
  <2>3. rec \in Records /\ rec.s = h.got
    BY <2>2 DEF Typed, TypeOK, Records
  <2>4. "deleteMeta" \in PlacesOf(h.kind) /\ "deleteMeta" \in Places
    BY <2>1 DEF PlacesOf, Places, IsCleanup
  <2> HIDE DEF rec
  <2>5. g \in Handlers /\ g.kind = h.kind /\ g.s = h.s /\ g.n = h.n /\ g.at = "deleteMeta" /\ g.got = h.got /\ g.rec = rec
    BY <1>0, <2>3, <2>4 DEF Handlers
  <2> HIDE DEF g
  <2>6. WellFormed(g)
    BY <1>0, <2>1, <2>2, <2>3, <2>4, <2>5, StreamsAreNumbers DEF WellFormed, IsEnder, IsCleanup
  <2> QED
    BY <2>1, <2>5, <2>6, BecomesKeeps DEF IsCleanup
<1>10. CASE DeleteMeta(h)
  <2>1. IsEnder(h) /\ h.at = "deleteMeta" /\ Goes(h, "deleteSession")
    BY <1>10, WhereItIs DEF DeleteMeta
  <2>2. "deleteSession" \in PlacesOf(h.kind)
    BY <2>1 DEF PlacesOf, IsEnder, IsCleanup
  <2> QED
    BY <2>1, <2>2, GoesKeeps DEF IsCleanup, IsEnder
<1>11. CASE DeleteSession(h)
  <2>1. /\ IsEnder(h) /\ h.at = "deleteSession"
        /\ (h.kind = "stop" /\ Goes(h, "loadPending")) \/ Goes(h, "append")
    BY <1>11, WhereItIs DEF DeleteSession
  <2>2. (h.kind = "stop" => "loadPending" \in PlacesOf(h.kind)) /\ "append" \in PlacesOf(h.kind)
    BY <2>1 DEF PlacesOf, IsEnder, IsCleanup
  <2> QED
    BY <2>1, <2>2, GoesKeeps DEF IsCleanup, IsEnder
<1>12. CASE LoadPending(h) \/ DeletePending(h)
  <2>1. h.kind = "stop" /\ (Goes(h, "deletePending") \/ Goes(h, "append"))
    BY <1>12, WhereItIs DEF LoadPending, DeletePending
  <2>2. {"deletePending", "append"} \subseteq PlacesOf(h.kind)
    BY <2>1 DEF PlacesOf
  <2> QED
    BY <2>1, <2>2, GoesKeeps DEF IsCleanup
<1>13. CASE AppendSession(h)
  <2> DEFINE next == IF h.kind = "stop" THEN "online" ELSE "keep"
  <2>1. IsEnder(h) /\ h.at = "append"
    BY <1>13, WhereItIs DEF AppendSession
  <2>2. next \in PlacesOf(h.kind) /\ next \in Places /\ (next = "keep" => IsCleanup(h))
    BY <2>1 DEF PlacesOf, Places, IsEnder, IsCleanup
  <2>3. CASE h.got = NoStream
    BY <1>13, <2>1, <2>2, <2>3, GoesKeeps DEF AppendSession, IsEnder, IsCleanup
  <2>4. CASE h.got # NoStream
    <3> DEFINE g == [h EXCEPT !.at = next, !.rec.event = written[h.got] + 1]
    <3>1. Becomes(h, g)
      BY <1>13, <2>4 DEF AppendSession
    <3>2. h.got \in Streams /\ written[h.got] + 1 \in Nat
      BY <1>0, <2>4 DEF Typed, TypeOK
    <3>3. g \in Handlers /\ g.kind = h.kind /\ g.s = h.s /\ g.n = h.n /\ g.at = next /\ g.got = h.got /\ g.rec.s = h.rec.s
      BY <1>0, <2>2, <3>2 DEF Handlers, Records
    <3>4. next \in {"online", "keep"} /\ (IsCleanup(h) => h.rec.s = h.got)
      BY <1>0, <2>1 DEF WellFormed
    <3> HIDE DEF g, next
    <3>5. WellFormed(g)
      BY <1>0, <2>1, <2>2, <2>4, <3>3, <3>4 DEF WellFormed, IsEnder, IsCleanup
    <3> QED
      BY <2>1, <3>1, <3>3, <3>5, BecomesKeeps DEF IsEnder, IsCleanup
  <2> QED
    BY <2>3, <2>4
<1>14. CASE ReadLive(h) \/ LoadLive(h)
  <2>1. h.kind = "resume" /\ (Ends(h) \/ \E at \in {"loadLive", "readRecord", "ok"} : Goes(h, at))
    BY <1>14, WhereItIs DEF ReadLive, LoadLive, Answers
  <2>2. {"loadLive", "readRecord", "ok"} \subseteq PlacesOf(h.kind)
    BY <2>1 DEF PlacesOf
  <2> QED
    BY <2>1, <2>2, GoesKeeps DEF Keeps, IsCleanup
<1>15. CASE ReadRecord(h)
  <2>1. h.kind = "resume"
    BY <1>15, WhereItIs DEF ReadRecord
  <2>2. "refused" \in PlacesOf(h.kind) /\ "restore" \in PlacesOf(h.kind) /\ "restore" \in Places /\ h.s \in Streams
    BY <1>0, <2>1 DEF PlacesOf, Places, WellFormed
  <2>3. CASE Answers(h, "refused")
    BY <2>1, <2>2, <2>3, GoesKeeps DEF Keeps, IsCleanup, Answers
  <2>4. CASE ~Answers(h, "refused")
    <3> DEFINE g == [h EXCEPT !.at = "restore", !.rec = resume]
    <3>1. resume.s = h.s /\ Becomes(h, g)
      BY <1>15, <2>4 DEF ReadRecord
    <3>2. resume \in Records /\ resume.session # "none"
      BY <2>2, <3>1, StreamsAreNumbers DEF Typed, TypeOK, Shaped
    <3>3. g \in Handlers /\ g.kind = h.kind /\ g.s = h.s /\ g.n = h.n /\ g.at = "restore" /\ g.got = h.got /\ g.rec = resume
      BY <1>0, <2>2, <3>2 DEF Handlers
    <3> HIDE DEF g
    <3>4. WellFormed(g)
      BY <1>0, <2>1, <2>2, <3>1, <3>2, <3>3 DEF WellFormed, IsEnder, IsCleanup
    <3> QED
      BY <2>1, <3>1, <3>3, <3>4, BecomesKeeps
  <2> QED
    BY <2>3, <2>4
<1>16. CASE Restore(h) \/ RestoreSession(h) \/ DeleteRecord(h) \/ RemoveEvent(h)
  <2>1. /\ h.kind = "resume"
        /\ \/ h.at = "restore" /\ Goes(h, "store")
           \/ h.at = "store" /\ Goes(h, "deleteRecord")
           \/ h.at = "deleteRecord" /\ Goes(h, "removeEvent")
           \/ Goes(h, "online")
    BY <1>16, WhereItIs DEF Restore, RestoreSession, DeleteRecord, RemoveEvent
  <2>2. {"store", "deleteRecord", "removeEvent", "online"} \subseteq PlacesOf(h.kind)
    BY <2>1 DEF PlacesOf
  <2> QED
    BY <2>1, <2>2, GoesKeeps DEF IsCleanup
<1> QED
  BY <1>1, <1>2, <1>3, <1>4, <1>5, <1>6, <1>7, <1>8, <1>9, <1>10, <1>11, <1>12, <1>13, <1>14, <1>15, <1>16 DEF Handle

(* A step of the client or of the GC adds handlers, and ends some.           *)
LEMMA CallsKeepShape ==
  ASSUME Typed, resume' = resume, NEW c \in Handlers, WellFormed(c), NEW d \in Handlers, WellFormed(d),
         handlers' \subseteq handlers \cup {c, d},
         awaiting' # 0 => hosted' # NoStream,
         start'.s = NoStream => start' = NoStart
  PROVE  handlers' \subseteq Handlers /\ Shaped'
<1>1. handlers' \subseteq Handlers
  BY DEF Typed, TypeOK
<1>2. \A h \in handlers' : WellFormed(h)'
  BY DEF Typed, Shaped, WellFormed
<1> QED
  BY <1>1, <1>2 DEF Typed, Shaped

(* What a step leaves to type once the client's part is (IInv).              *)
BackendTypes ==
  /\ generation \in 0..MaxTurns /\ awaiting \in 0..MaxTurns
  /\ socket \in BOOLEAN /\ signedIn \in BOOLEAN
  /\ meta \in Streams \cup {NoStream} /\ sessions \in [Streams -> {"none", "pending", "live"}]
  /\ resume \in Records /\ ledger \subseteq Streams \X Nat /\ written \in [Streams -> Nat]
  /\ registered \in Nat /\ presence \in {"online", "offline"}
  /\ drops \in 0..MaxTurns /\ faults \in 0..MaxFaults
  /\ seen \subseteq Streams /\ torn \subseteq Streams /\ hidden \subseteq Streams

LEMMA TypeParts ==
  ASSUME IInv, BackendTypes, handlers \subseteq Handlers
  PROVE  TypeOK
  BY DEF IInv, Types, BackendTypes, TypeOK, StepReports

LEMMA TypedParts ==
  ASSUME TypeOK
  PROVE  BackendTypes
  BY DEF BackendTypes, TypeOK

LEMMA UserTyped ==
  ASSUME IInv, Typed, User
  PROVE  BackendTypes' /\ handlers' \subseteq Handlers /\ Shaped'
<1>1. BackendTypes
  BY TypedParts DEF Typed
<1>2. CASE StartStream
  <2> DEFINE s == generation + 1
  <2>1. s \in Streams
    BY <1>1, <1>2 DEF StartStream, TurnsLeft, Streams, BackendTypes
  <2>2. BackendTypes'
    BY <1>1, <1>2, <2>1 DEF StartStream, TurnsLeft, BackendTypes, records, online, bounds, history
  <2>3. /\ handlers' = handlers \cup {Call("start", s, 0, "store")} /\ resume' = resume
        /\ awaiting' = awaiting /\ awaiting = 0 /\ start' = [NoStart EXCEPT !.s = s]
    BY <1>2 DEF StartStream, records
  <2>4. start'.s # NoStream
    BY <2>1, <2>3, StreamsAreNumbers DEF NoStart
  <2>5. Call("start", s, 0, "store") \in Handlers /\ WellFormed(Call("start", s, 0, "store"))
    BY <2>1, CallsAreFormed
  <2> DEFINE c == Call("start", s, 0, "store")
  <2>6. c \in Handlers /\ WellFormed(c) /\ handlers' \subseteq handlers \cup {c, c}
    BY <2>3, <2>5
  <2> HIDE DEF c
  <2> QED
    BY <2>2, <2>3, <2>4, <2>6, CallsKeepShape
<1>3. CASE EndStream
  <2>1. BackendTypes'
    BY <1>1, <1>3 DEF EndStream, BackendTypes, records, online, bounds, history
  <2>2. /\ handlers' \subseteq handlers \cup {StopCall(hosted)} /\ resume' = resume
        /\ awaiting' = 0 /\ start' = start /\ hosted \in Streams
    BY <1>3 DEF EndStream, EndHostedStream, Sends, records, Typed, TypeOK
  <2> DEFINE c == StopCall(hosted)
  <2>3. c \in Handlers /\ WellFormed(c) /\ handlers' \subseteq handlers \cup {c, c}
    BY <2>2, CallsAreFormed
  <2>4. start'.s = NoStream => start' = NoStart
    BY <2>2 DEF Typed, Shaped
  <2>5. awaiting' # 0 => hosted' # NoStream
    BY <2>2
  <2> HIDE DEF c
  <2> QED
    BY <2>1, <2>2, <2>3, <2>4, <2>5, CallsKeepShape
<1>4. CASE CancelStart
  <2>1. BackendTypes'
    BY <1>1, <1>4 DEF CancelStart, BackendTypes, records, online, bounds, history
  <2>2. /\ handlers' \subseteq handlers \cup {StopCall(start.s)} /\ resume' = resume
        /\ awaiting' = 0 /\ start' = NoStart /\ start.s \in Streams
    BY <1>4 DEF CancelStart, CancelHostStart, Sends, records, Typed, TypeOK, Shaped, Starts
  <2> DEFINE c == StopCall(start.s)
  <2>3. c \in Handlers /\ WellFormed(c) /\ handlers' \subseteq handlers \cup {c, c}
    BY <2>2, CallsAreFormed
  <2> HIDE DEF c
  <2> QED
    BY <2>1, <2>2, <2>3, CallsKeepShape
<1>5. CASE Logout
  <2> DEFINE c == Call("end", NoStream, drops + 1, "count")
  <2>1. c \in Handlers /\ WellFormed(c)
    BY <1>1, CallsAreFormed DEF BackendTypes
  <2>2. /\ handlers' \subseteq handlers \cup {c} /\ resume' = resume /\ awaiting' = 0
        /\ start' = start
    BY <1>5 DEF Logout, LoseSocket, records
  <2>3. BackendTypes'
    <3>1. drops' \in 0..MaxTurns /\ socket' \in BOOLEAN
      <4>1. TurnsLeft => drops + 1 \in 0..MaxTurns
        BY <1>1 DEF TurnsLeft, BackendTypes
      <4> QED
        BY <1>1, <1>5, <4>1 DEF Logout, LoseSocket, BackendTypes
    <3>2. /\ UNCHANGED <<generation, awaiting, records, registered, history>> /\ signedIn' = FALSE
          /\ presence' \in {presence, "offline"} /\ faults < MaxFaults /\ faults' = faults + 1
      BY <1>5 DEF Logout
    <3>3. faults' \in 0..MaxFaults /\ presence' \in {"online", "offline"}
      BY <1>1, <3>2 DEF BackendTypes
    <3> QED
      BY <1>1, <3>1, <3>2, <3>3 DEF BackendTypes, records, history
  <2>4. start'.s = NoStream => start' = NoStart
    BY <2>2 DEF Typed, Shaped
  <2> HIDE DEF c
  <2>5. handlers' \subseteq handlers \cup {c, c}
    BY <2>2
  <2> QED
    BY <2>1, <2>2, <2>3, <2>4, <2>5, CallsKeepShape
<1> QED
  BY <1>2, <1>3, <1>4, <1>5 DEF User

LEMMA TakeReportTyped ==
  ASSUME IInv, Typed, TakeReport
  PROVE  BackendTypes' /\ handlers' \subseteq Handlers /\ Shaped'
<1>1. BackendTypes'
  BY TypedParts DEF Typed, TakeReport, BackendTypes, records, online, bounds, history
<1> DEFINE r == Head(reports)
<1>2. r \in StepReports
  BY ReportIsTaken DEF TakeReport, IInv, Types
<1>3. r.s \in Streams /\ r.of \in Steps
  BY <1>2 DEF StepReports
<1>4. /\ resume' = resume /\ awaiting' = 0
      /\ DropReport(r) \/ FailHostStart(r) \/ TakeStep(r)
  BY DEF TakeReport, records
<1>5. \/ start' = start /\ handlers' = handlers
      \/ start' = NoStart /\ handlers' \subseteq handlers \cup {StopCall(r.s)}
      \/ (start' = NoStart \/ start'.s = r.s) /\ handlers' \subseteq handlers \cup {Call("live", r.s, 0, "load")}
  <2>1. CASE DropReport(r)
    BY <2>1 DEF DropReport
  <2>2. CASE FailHostStart(r)
    BY <2>2 DEF FailHostStart, CancelHostStart, Sends
  <2>3. CASE TakeStep(r)
    <3>1. start \in Starts /\ start.s = r.s
      BY <2>3 DEF IInv, Types, TakeStep
    <3> HIDE DEF r
    <3>2. start' = NoStart \/ start'.s = r.s
      BY <1>3, <2>3, <3>1 DEF TakeStep, Starts, Steps
    <3>3. handlers' \subseteq handlers \cup {Call("live", r.s, 0, "load")}
      BY <2>3 DEF TakeStep, Sends
    <3> QED
      BY <3>2, <3>3
  <2> QED
    BY <1>4, <2>1, <2>2, <2>3
<1>6. /\ StopCall(r.s) \in Handlers /\ WellFormed(StopCall(r.s))
      /\ Call("live", r.s, 0, "load") \in Handlers /\ WellFormed(Call("live", r.s, 0, "load"))
  BY <1>3, CallsAreFormed
<1>7. start'.s = NoStream => start' = NoStart
  BY <1>3, <1>5, StreamsAreNumbers DEF Typed, Shaped
<1> HIDE DEF r
<1>8. handlers' \subseteq handlers \cup {StopCall(r.s), Call("live", r.s, 0, "load")}
  BY <1>5
<1> QED
  BY <1>1, <1>4, <1>6, <1>7, <1>8, CallsKeepShape

LEMMA SocketTyped ==
  ASSUME IInv, Typed, SocketDrops \/ AppExits \/ Login \/ Reconnect
  PROVE  BackendTypes' /\ handlers' \subseteq Handlers /\ Shaped'
<1>1. BackendTypes /\ IInv'
  BY TypedParts, NetworkStep DEF Typed, Network
<1>2. BackendTypes'
  <2>0. TurnsLeft => drops + 1 \in 0..MaxTurns
    BY <1>1 DEF TurnsLeft, BackendTypes
  <2>1. CASE SocketDrops
    BY <1>1, <2>0, <2>1 DEF SocketDrops, LoseSocket, BackendTypes, records, online, history
  <2>2. CASE AppExits
    <3>1. drops' \in 0..MaxTurns /\ socket' \in BOOLEAN
      BY <1>1, <2>0, <2>2 DEF AppExits, LoseSocket, BackendTypes
    <3>2. awaiting' = 0 /\ UNCHANGED <<generation, signedIn, records, online, faults, history>> /\ 0 \in 0..MaxTurns
      BY <2>2 DEF AppExits
    <3> QED
      BY <1>1, <3>1, <3>2 DEF BackendTypes, records, online, history
  <2>3. CASE Reconnect
    BY <1>1, <2>3 DEF Reconnect, BackendTypes, records, online, bounds, history
  <2>4. CASE Login
    <3>1. hidden' \subseteq Streams
      BY <1>1, <2>4 DEF Login, BackendTypes, Typed, TypeOK
    <3> QED
      BY <1>1, <2>4, <3>1 DEF Login, BackendTypes, records, online, bounds
  <2> QED
    BY <2>1, <2>2, <2>3, <2>4
<1>3. CASE SocketDrops \/ AppExits
  <2> DEFINE call == Call("end", NoStream, drops + 1, "count")
  <2>1. call \in Handlers /\ WellFormed(call)
    BY <1>1, CallsAreFormed DEF BackendTypes
  <2>2. /\ handlers' \subseteq handlers \cup {call} /\ resume' = resume
        /\ awaiting' # 0 => hosted' # NoStream
        /\ start'.s = NoStream => start' = NoStart
    BY <1>3 DEF SocketDrops, AppExits, LoseSocket, records, Typed, Shaped
  <2> HIDE DEF call
  <2>3. handlers' \subseteq handlers \cup {call, call}
    BY <2>2
  <2> QED
    BY <1>2, <2>1, <2>2, <2>3, CallsKeepShape
<1>4. CASE Reconnect
  <2> DEFINE begin == Call("begin", NoStream, drops, "register")
             again == IF hosted # NoStream THEN Call("resume", hosted, drops, "read") ELSE begin
  <2>1. begin \in Handlers /\ WellFormed(begin)
    BY <1>1, CallsAreFormed DEF BackendTypes
  <2>2. hosted # NoStream => /\ Call("resume", hosted, drops, "read") \in Handlers
                             /\ WellFormed(Call("resume", hosted, drops, "read"))
    BY <1>1, CallsAreFormed DEF BackendTypes, Typed, TypeOK
  <2>3. again \in Handlers /\ WellFormed(again)
    BY <2>1, <2>2
  <2>4. handlers' \subseteq handlers \cup {begin, again}
    BY <1>4 DEF Reconnect
  <2>5. /\ resume' = resume /\ (awaiting' # 0 => hosted' # NoStream)
        /\ start'.s = NoStream => start' = NoStart
    BY <1>4 DEF Reconnect, records, Typed, Shaped
  <2> HIDE DEF begin, again
  <2> QED
    BY <1>2, <2>1, <2>3, <2>4, <2>5, CallsKeepShape
<1>5. CASE Login
  <2> DEFINE c == Call("begin", NoStream, drops, "register")
  <2>1. c \in Handlers /\ WellFormed(c)
    BY <1>1, CallsAreFormed DEF BackendTypes
  <2>2. /\ handlers' = handlers \cup {c} /\ resume' = resume /\ awaiting' = 0
        /\ start'.s = NoStream => start' = NoStart
    BY <1>5 DEF Login, records, Typed, Shaped
  <2> HIDE DEF c
  <2>3. handlers' \subseteq handlers \cup {c, c}
    BY <2>2
  <2> QED
    BY <1>2, <2>1, <2>2, <2>3, CallsKeepShape
<1> QED
  BY <1>3, <1>4, <1>5

LEMMA ResumeTyped ==
  ASSUME IInv, Typed, ResumeTimesOut \/ ResumeFails \/ \E h \in handlers : CallIsLost(h) \/ ResumeAnswered(h)
  PROVE  BackendTypes' /\ handlers' \subseteq Handlers /\ Shaped'
<1>1. BackendTypes
  BY TypedParts DEF Typed
<1>2. ASSUME NEW h \in handlers, CallIsLost(h)
      PROVE  BackendTypes' /\ handlers' \subseteq Handlers /\ Shaped'
  <2>0. h.s \in Streams
    BY <1>2, WhereItIs DEF CallIsLost, WellFormed
  <2>1. BackendTypes'
    BY <1>1, <1>2, <2>0 DEF CallIsLost, BackendTypes, client, records, online, bounds
  <2>2. handlers' \subseteq handlers /\ UNCHANGED <<resume, awaiting, hosted, start>>
    BY <1>2 DEF CallIsLost, Ends, client, records
  <2> QED
    BY <2>1, <2>2 DEF Typed, TypeOK, Shaped, WellFormed
<1>3. CASE awaiting # 0
  <2> DEFINE c == StopCall(hosted)
  <2>1. hosted \in Streams
    BY <1>3 DEF Typed, TypeOK, Shaped
  <2>2. c \in Handlers /\ WellFormed(c)
    BY <2>1, CallsAreFormed
  <2>3. ASSUME awaiting' = 0, UNCHANGED <<start, resume>>, handlers' \subseteq handlers \cup {c, c}
        PROVE  handlers' \subseteq Handlers /\ Shaped'
    <3>1. start'.s = NoStream => start' = NoStart
      BY <2>3 DEF Typed, Shaped
    <3> HIDE DEF c
    <3> QED
      BY <2>2, <2>3, <3>1, CallsKeepShape
  <2>4. CASE ResumeTimesOut
    <3>1. BackendTypes'
      BY <1>1, <2>1, <2>4 DEF ResumeTimesOut, BackendTypes, records, online
    <3> QED
      BY <2>3, <2>4, <3>1 DEF ResumeTimesOut, records
  <2>5. CASE ResumeFails
    <3>1. BackendTypes'
      BY <1>1, <2>1, <2>5 DEF ResumeFails, BackendTypes, records, online, history
    <3> QED
      BY <2>3, <2>5, <3>1 DEF ResumeFails, EndHostedStream, Sends, records
  <2>6. ASSUME NEW h \in handlers, ResumeAnswered(h)
        PROVE  BackendTypes' /\ handlers' \subseteq Handlers /\ Shaped'
    <3>1. BackendTypes'
      BY <1>1, <2>6 DEF ResumeAnswered, BackendTypes, records, online, bounds, history
    <3> QED
      BY <2>3, <2>6, <3>1 DEF ResumeAnswered, records
  <2> QED
    BY <1>2, <2>4, <2>5, <2>6
<1>4. CASE awaiting = 0
  BY <1>2, <1>4 DEF ResumeTimesOut, ResumeFails, ResumeAnswered, Awaited
<1> QED
  BY <1>3, <1>4

LEMMA HandleTyped ==
  ASSUME Typed, NEW h \in handlers, Handle(h)
  PROVE  BackendTypes' /\ handlers' \subseteq Handlers /\ Shaped'
<1>1. BackendTypes
  BY TypedParts DEF Typed
<1>2. /\ h.s \in Streams \cup {NoStream} /\ h.got \in Streams \cup {NoStream} /\ h.rec \in Records
      /\ h.rec.s \in Streams \cup {NoStream} /\ h.rec.session \in {"none", "pending", "live"} /\ h.rec.event \in Nat
      /\ WellFormed(h)
  BY WhereItIs DEF Records
<1>3. /\ UNCHANGED <<generation, awaiting, socket, signedIn, hosted, start, drops, faults>>
      /\ handlers' \subseteq Handlers /\ \A g \in handlers' : WellFormed(g)'
  <2>1. Keeps(h)
    BY HandleKeeps
  <2>2. handlers' \subseteq Handlers /\ \A g \in handlers' : WellFormed(g)'
    BY <2>1 DEF Keeps, Ends, Becomes, Typed, TypeOK, Shaped, WellFormed
  <2> QED
    BY <2>2
    DEF Handle, StoreStreamSession, LoadForLive, AdvertiseStream, ClearPending, WriteOnline,
        RegisterSession, CountSession, WriteOffline, ReadMeta, LoadSession, DeleteMeta,
        DeleteSession, LoadPending, DeletePending, AppendSession, KeepForResume, ReadLive,
        LoadLive, ReadRecord, Restore, RestoreSession, DeleteRecord, RemoveEvent, bounds, client
<1>4. resume' \in Records /\ (resume'.s # NoStream => resume'.session # "none")
  <2>1. CASE resume' = resume
    BY <2>1 DEF Typed, TypeOK, Shaped
  <2>2. CASE KeepForResume(h) \/ DeleteRecord(h)
    BY <1>1, <1>2, <2>2, RecordsAreTyped DEF KeepForResume, DeleteRecord, Typed, TypeOK, Shaped
  <2> QED
    BY <2>1, <2>2
    DEF Handle, StoreStreamSession, LoadForLive, AdvertiseStream, ClearPending, WriteOnline,
        RegisterSession, CountSession, WriteOffline, ReadMeta, LoadSession, DeleteMeta,
        DeleteSession, LoadPending, DeletePending, AppendSession, ReadLive,
        LoadLive, ReadRecord, Restore, RestoreSession, RemoveEvent, records
<1>5. Shaped'
  BY <1>3, <1>4 DEF Typed, Shaped
<1>6. /\ meta' \in Streams \cup {NoStream}
      /\ seen' \subseteq Streams /\ torn' \subseteq Streams /\ hidden' \subseteq Streams
  <2>1. UNCHANGED <<meta, history>> \/ AdvertiseStream(h) \/ ReadMeta(h) \/ DeleteMeta(h)
          \/ LoadLive(h) \/ ReadRecord(h) \/ Restore(h)
    BY DEF Handle, StoreStreamSession, LoadForLive, ClearPending, WriteOnline,
        RegisterSession, CountSession, WriteOffline, LoadSession,
        DeleteSession, LoadPending, DeletePending, AppendSession, KeepForResume, ReadLive,
        RestoreSession, DeleteRecord, RemoveEvent, records, history
  <2>2. AdvertiseStream(h) \/ LoadLive(h) \/ ReadRecord(h) \/ Restore(h) => h.s \in Streams
    BY <1>2, WhereItIs DEF AdvertiseStream, LoadLive, ReadRecord, Restore, WellFormed
  <2>3. \A read : Torn(read) \subseteq Streams
    BY <1>1 DEF Torn, BackendTypes
  <2>4. CASE AdvertiseStream(h) \/ DeleteMeta(h) \/ Restore(h)
    BY <1>1, <2>2, <2>3, <2>4 DEF AdvertiseStream, DeleteMeta, Restore, BackendTypes
  <2>5. CASE ReadMeta(h)
    BY <1>1, <2>5 DEF ReadMeta, BackendTypes, records
  <2>6. CASE LoadLive(h) \/ ReadRecord(h)
    BY <1>1, <2>2, <2>6 DEF LoadLive, ReadRecord, BackendTypes, records
  <2>7. CASE UNCHANGED <<meta, history>>
    BY <1>1, <2>7 DEF BackendTypes, history
  <2> QED
    BY <2>1, <2>4, <2>5, <2>6, <2>7
<1>7. sessions' \in [Streams -> {"none", "pending", "live"}]
  <2>1. UNCHANGED sessions \/ StoreStreamSession(h) \/ ClearPending(h) \/ DeleteSession(h)
          \/ DeletePending(h) \/ RestoreSession(h)
    BY DEF Handle, LoadForLive, AdvertiseStream, WriteOnline,
        RegisterSession, CountSession, WriteOffline, ReadMeta, LoadSession, DeleteMeta,
        LoadPending, AppendSession, KeepForResume, ReadLive,
        LoadLive, ReadRecord, Restore, DeleteRecord, RemoveEvent, records
  <2>2. CASE DeleteSession(h)
    BY <1>1, <2>2 DEF DeleteSession, BackendTypes
  <2>3. CASE StoreStreamSession(h) \/ ClearPending(h) \/ DeletePending(h) \/ RestoreSession(h)
    BY <1>1, <1>2, <2>3 DEF StoreStreamSession, ClearPending, DeletePending, RestoreSession, BackendTypes
  <2> QED
    BY <1>1, <2>1, <2>2, <2>3 DEF BackendTypes
<1>8. ledger' \subseteq Streams \X Nat /\ written' \in [Streams -> Nat]
  <2>1. UNCHANGED <<ledger, written>> \/ AppendSession(h) \/ RemoveEvent(h)
    BY DEF Handle, StoreStreamSession, LoadForLive, AdvertiseStream, ClearPending, WriteOnline,
        RegisterSession, CountSession, WriteOffline, ReadMeta, LoadSession, DeleteMeta,
        DeleteSession, LoadPending, DeletePending, KeepForResume, ReadLive,
        LoadLive, ReadRecord, Restore, RestoreSession, DeleteRecord, records
  <2>2. CASE AppendSession(h)
    <3>1. CASE h.got = NoStream
      BY <1>1, <2>2, <3>1 DEF AppendSession, BackendTypes
    <3>2. CASE h.got \in Streams
      <4>1. written[h.got] + 1 \in Nat
        BY <1>1, <3>2 DEF BackendTypes
      <4>2. /\ ledger' = ledger \cup {<<h.got, written[h.got] + 1>>}
            /\ written' = [written EXCEPT ![h.got] = written[h.got] + 1]
        BY <2>2, <3>2, StreamsAreNumbers DEF AppendSession
      <4> QED
        BY <1>1, <3>2, <4>1, <4>2 DEF BackendTypes
    <3> QED
      BY <1>2, <3>1, <3>2
  <2>3. CASE RemoveEvent(h)
    BY <1>1, <2>3 DEF RemoveEvent, BackendTypes
  <2> QED
    BY <1>1, <2>1, <2>2, <2>3 DEF BackendTypes
<1>9. registered' \in Nat /\ presence' \in {"online", "offline"}
  <2>1. UNCHANGED online \/ WriteOnline(h) \/ RegisterSession(h) \/ CountSession(h) \/ WriteOffline(h)
    BY DEF Handle, StoreStreamSession, LoadForLive, AdvertiseStream, ClearPending,
        ReadMeta, LoadSession, DeleteMeta, DeleteSession, LoadPending, DeletePending, AppendSession,
        KeepForResume, ReadLive, LoadLive, ReadRecord, Restore, RestoreSession, DeleteRecord, RemoveEvent
  <2>2. /\ registered' \in {registered, registered + 1} \/ (registered' = IF registered = 0 THEN 0 ELSE registered - 1)
        /\ presence' \in {presence, "online", "offline"}
    BY <2>1 DEF WriteOnline, RegisterSession, CountSession, WriteOffline, online
  <2> QED
    BY <1>1, <2>2 DEF BackendTypes
<1> QED
  BY <1>1, <1>3, <1>4, <1>5, <1>6, <1>7, <1>8, <1>9 DEF BackendTypes

LEMMA NextTyped ==
  ASSUME IInv, Typed, [Next]_vars
  PROVE  Typed'
<1>1. IInv'
  BY StepInv
<1>2. BackendTypes' /\ handlers' \subseteq Handlers /\ Shaped'
  <2>1. CASE UNCHANGED vars
    <3>1. BackendTypes'
      BY <2>1, TypedParts DEF Typed, vars, BackendTypes, client, records, online, bounds, history
    <3> QED
      BY <2>1, <3>1 DEF Typed, TypeOK, Shaped, WellFormed, vars, client, records
  <2>2. CASE StreamGC
    <3>1. BackendTypes'
      BY <2>2, TypedParts DEF StreamGC, Typed, BackendTypes, client, records, online, bounds, history
    <3> DEFINE c == Call("gc", NoStream, 0, "read")
    <3>2. c \in Handlers /\ WellFormed(c) /\ handlers' \subseteq handlers \cup {c, c}
      BY <2>2, CallsAreFormed DEF StreamGC
    <3>3. UNCHANGED <<resume, awaiting, hosted, start>>
      BY <2>2 DEF StreamGC, client, records
    <3>4. (awaiting' # 0 => hosted' # NoStream) /\ (start'.s = NoStream => start' = NoStart)
      BY <3>3 DEF Typed, Shaped
    <3> HIDE DEF c
    <3> QED
      BY <3>1, <3>2, <3>3, <3>4, CallsKeepShape
  <2>3. ASSUME NEW s \in Streams, TaskStep(s)
        PROVE  BackendTypes' /\ handlers' \subseteq Handlers /\ Shaped'
    <3>1. BackendTypes'
      <4>1. UNCHANGED <<generation, awaiting, socket, signedIn, records, online, drops, history>>
            /\ faults' \in {faults, faults + 1}
            /\ (faults' = faults \/ faults < MaxFaults)
        BY <2>3 DEF TaskStep, RpcAnswered, RpcFails, StepEnds, bounds
      <4> QED
        BY <4>1, TypedParts DEF Typed, BackendTypes, records, online, history
    <3>2. handlers' \subseteq handlers /\ UNCHANGED <<resume, awaiting, hosted, start>>
      BY <2>3 DEF TaskStep, RpcAnswered, RpcFails, StepEnds, records
    <3> QED
      BY <3>1, <3>2 DEF Typed, TypeOK, Shaped, WellFormed
  <2> QED
    BY <2>1, <2>2, <2>3, UserTyped, TakeReportTyped, SocketTyped, ResumeTyped, HandleTyped
    DEF Next, Network, Backend
<1>3. TypeOK'
  BY <1>1, <1>2 DEF IInv, Types, BackendTypes, TypeOK, StepReports
<1> QED
  BY <1>2, <1>3 DEF Typed

LEMMA InitTyped == Init => Typed
<1> SUFFICES ASSUME Init PROVE Typed
  OBVIOUS
<1>1. IInv
  BY InitInv
<1>2. BackendTypes /\ handlers \subseteq Handlers
  BY RecordsAreTyped DEF Init, BackendTypes
<1>3. Shaped
  BY RecordsAreTyped DEF Init, Shaped, NoRecord
<1> QED
  BY <1>1, <1>2, <1>3, TypeParts DEF Typed

-----------------------------------------------------------------------------
(* The records of one stream                                               *)

(* h ends s: it has read the advertisement of s.                            *)
Ending(h, s) == IsEnder(h) /\ h.got = s
BeforeAppend == {"load", "deleteMeta", "deleteSession", "loadPending", "deletePending", "append"}

(* The last advertisement of s has no event yet.                            *)
Open(s) == meta = s \/ \E h \in handlers : Ending(h, s) /\ h.at \in BeforeAppend

(* s is not advertised, and nobody ends it.                                 *)
Over(s) == meta # s /\ \A h \in handlers : ~Ending(h, s)

(* h resumed s and has still to remove the event of the end before.         *)
Undoes(h, s) == h.kind = "resume" /\ h.rec.s = s /\ h.at \in {"store", "deleteRecord", "removeEvent"}

OneEnder(s) == \A g, h \in handlers : Ending(g, s) /\ Ending(h, s) => g = h
OneUser(s) == \A g, h \in handlers : Uses(g, s) /\ Uses(h, s) => g = h
PastMeta(s) == \A h \in handlers : Ending(h, s) /\ h.at \notin {"load", "deleteMeta"} => meta # s

(* The record, a resume that has read it and a clean-up that is about to     *)
(* write it name the last event of s.                                       *)
RecordFits(s) ==
  resume.s = s /\ (\A h \in handlers : ~Uses(h, s)) => Over(s) /\ resume.event = written[s] /\ written[s] > 0
RestoreFits(s) ==
  \A h \in handlers : Uses(h, s) /\ h.at = "restore" => Over(s) /\ h.rec.event = written[s] /\ written[s] > 0
KeepFits(s) ==
  \A h \in handlers : Ending(h, s) /\ h.at = "keep" => h.rec.event = written[s] /\ written[s] > 0

(* Each resume that goes on removes an event of its own, and never that of   *)
(* an end that stands.                                                     *)
UndoFits(s) ==
  /\ \A h \in handlers : Undoes(h, s) => h.rec.event <= written[s] /\ (~Open(s) => h.rec.event < written[s])
  /\ \A g, h \in handlers : Undoes(g, s) /\ Undoes(h, s) /\ g.rec.event = h.rec.event => g = h

(* The events in the ledger: those still to be removed, and the one of the   *)
(* end that stands.                                                        *)
StillThere(s, n) == \E h \in handlers : Undoes(h, s) /\ h.rec.event = n
LedgerFits(s) ==
  \A n \in Nat : <<s, n>> \in ledger <=> StillThere(s, n) \/ (~Open(s) /\ n = written[s] /\ n > 0)

Core(s) ==
  /\ OneEnder(s) /\ OneUser(s) /\ PastMeta(s) /\ RecordFits(s) /\ RestoreFits(s) /\ KeepFits(s)
  /\ UndoFits(s) /\ LedgerFits(s)

Plain(h, s) == ~Ending(h, s) /\ ~Uses(h, s) /\ ~Undoes(h, s)

(* Nothing of s was ever advertised: so it is before its stream_live.       *)
Untouched(s) ==
  /\ written[s] = 0 /\ meta # s /\ resume.s # s
  /\ \A h \in handlers : Plain(h, s)
FreshFits(s) == s > generation \/ start.s = s \/ (\E h \in handlers : Told(h, s)) => Untouched(s)

(* One stream_live for a start; it and the stops of s come after the start.  *)
LiveFits(s) ==
  /\ \A g, h \in handlers : g.kind = "live" /\ h.kind = "live" /\ g.s = s /\ h.s = s => g = h
  /\ \A h \in handlers : h.kind \in {"live", "stop"} /\ h.s = s => s <= generation /\ s # start.s

(* A stream that was advertised is so still, is being ended by a handler that *)
(* writes its event, or has an event: no end goes by without one.            *)
Recorded(s) == s \in seen => Open(s) \/ written[s] > 0

Fits(s) ==
  /\ FreshFits(s) /\ LiveFits(s) /\ (s \notin seen => Untouched(s))
  /\ s \notin torn => Core(s) /\ Recorded(s)

-----------------------------------------------------------------------------
(* What leaves a stream as it is                                           *)

(* h becomes g, which does for s the same as h, one call later.             *)
Follows(g, h, s) ==
  /\ Ending(g, s) =>
       /\ Ending(h, s) /\ (g.at = "keep" => h.at = "keep" /\ g.rec = h.rec)
       /\ g.at \notin {"load", "deleteMeta"} => h.at \notin {"load", "deleteMeta"} \/ meta' # s
  /\ Uses(g, s) => Uses(h, s) /\ (g.at = "restore" => h.at = "restore" /\ g.rec = h.rec)
  /\ Undoes(g, s) => Undoes(h, s) /\ g.rec = h.rec

SameRecords(s) ==
  /\ meta' = s => meta = s
  /\ written'[s] = written[s]
  /\ \A n \in Nat : <<s, n>> \in ledger' <=> <<s, n>> \in ledger

LEMMA Kept ==
  ASSUME NEW s \in Streams, Core(s), NEW h, NEW g,
         \A x \in handlers' : Plain(x, s) \/ (x \in handlers /\ x # h) \/ (x = g /\ h \in handlers /\ Follows(g, h, s)),
         Open(s)' <=> Open(s),
         resume' = resume \/ resume'.s # s,
         resume'.s # s \/ ((\A x \in handlers' : ~Uses(x, s)) => \A x \in handlers : ~Uses(x, s)),
         \A n \in Nat : StillThere(s, n)' <=> StillThere(s, n),
         SameRecords(s)
  PROVE  Core(s)'
<1> DEFINE From(x) == \/ x \in handlers /\ x # h
                      \/ x = g /\ h \in handlers
<1>1. ASSUME NEW x \in handlers', NEW y \in handlers', Ending(x, s), Ending(y, s)
      PROVE  x = y
  BY <1>1 DEF Core, OneEnder, Follows, Plain
<1>2. ASSUME NEW x \in handlers', NEW y \in handlers', Uses(x, s), Uses(y, s)
      PROVE  x = y
  BY <1>2 DEF Core, OneUser, Follows, Plain
<1>3. ASSUME NEW x \in handlers', Ending(x, s), x.at \notin {"load", "deleteMeta"}
      PROVE  meta' # s
  BY <1>3 DEF Core, PastMeta, Follows, Plain, SameRecords
<1>4. Over(s) => Over(s)'
  <2> SUFFICES ASSUME Over(s), NEW x \in handlers' PROVE meta' # s /\ ~Ending(x, s)
    BY DEF Over, Ending, IsEnder, IsCleanup, SameRecords
  <2> QED
    BY DEF Over, SameRecords, Follows, Plain
<1>5. RecordFits(s)'
  BY <1>4 DEF Core, RecordFits, SameRecords, Uses
<1>6. ASSUME NEW x \in handlers', Uses(x, s), x.at = "restore"
      PROVE  Over(s) /\ x.rec.event = written[s] /\ written[s] > 0
  BY <1>6 DEF Core, RestoreFits, Follows, Plain
<1>7. ASSUME NEW x \in handlers', Ending(x, s), x.at = "keep"
      PROVE  x.rec.event = written[s] /\ written[s] > 0
  BY <1>7 DEF Core, KeepFits, Follows, Plain
<1>8. ASSUME NEW x \in handlers', Undoes(x, s)
      PROVE  x.rec.event <= written[s] /\ (~Open(s) => x.rec.event < written[s])
  BY <1>8 DEF Core, UndoFits, Follows, Plain
<1>9. ASSUME NEW x \in handlers', NEW y \in handlers', Undoes(x, s), Undoes(y, s), x.rec.event = y.rec.event
      PROVE  x = y
  BY <1>9 DEF Core, UndoFits, Follows, Plain
<1>10. OneEnder(s)' /\ OneUser(s)' /\ PastMeta(s)'
  BY <1>1, <1>2, <1>3 DEF OneEnder, OneUser, PastMeta, Ending, IsEnder, IsCleanup, Uses
<1>11. RestoreFits(s)' /\ KeepFits(s)'
  BY <1>4, <1>6, <1>7 DEF RestoreFits, KeepFits, SameRecords, Ending, IsEnder, IsCleanup, Uses
<1>12. UndoFits(s)'
  BY <1>8, <1>9 DEF UndoFits, SameRecords, Undoes
<1>13. LedgerFits(s)'
  BY DEF Core, LedgerFits, SameRecords
<1> QED
  BY <1>5, <1>10, <1>11, <1>12, <1>13 DEF Core

(* Handlers that have nothing to do with s come and go.                      *)
LEMMA Spared ==
  ASSUME NEW s \in Streams,
         \A x \in handlers' : Plain(x, s) \/ x \in handlers,
         \A x \in handlers : Plain(x, s) \/ x \in handlers',
         meta' = s <=> meta = s, SameRecords(s),
         resume' = resume \/ resume'.s # s
  PROVE  (Core(s) => Core(s)') /\ (Untouched(s) => Untouched(s)')
<1>1. Untouched(s) => Untouched(s)'
  BY DEF Untouched, Plain, Ending, IsEnder, IsCleanup, Uses, Undoes, SameRecords
<1>2. Open(s)' <=> Open(s)
  BY DEF Open, Plain, Ending, IsEnder, IsCleanup
<1>3. \A n \in Nat : StillThere(s, n)' <=> StillThere(s, n)
  BY DEF StillThere, Plain, Undoes
<1>4. (\A x \in handlers' : ~Uses(x, s)) => \A x \in handlers : ~Uses(x, s)
  BY DEF Plain
<1>5. ASSUME Core(s) PROVE Core(s)'
  <2>1. PICK h : h \notin handlers
    BY NoSetContainsEverything
  <2>2. \A x \in handlers' : Plain(x, s) \/ (x \in handlers /\ x # h)
    BY <2>1
  <2> QED
    BY <1>2, <1>3, <1>4, <1>5, <2>2, Kept
<1> QED
  BY <1>1, <1>5

(* A handler that has nothing to do with s makes its call.                   *)
LEMMA SparedByOne ==
  ASSUME NEW s \in Streams, NEW h \in handlers, Plain(h, s),
         Ends(h) \/ \E g : Plain(g, s) /\ Becomes(h, g),
         meta' = s <=> meta = s, SameRecords(s),
         resume' = resume \/ resume'.s # s
  PROVE  (Core(s) => Core(s)') /\ (Untouched(s) => Untouched(s)')
  BY Spared DEF Ends, Becomes

-----------------------------------------------------------------------------
(* The calls of a handler                                                  *)

Preserves(s) == (Core(s) /\ s \notin torn' => Core(s)') /\ (Untouched(s) => Untouched(s)')

(* A handler that makes its call as g.                                       *)
Next1(h, g, at) ==
  /\ Becomes(h, g) /\ g.at = at
  /\ g.kind = h.kind /\ g.s = h.s /\ g.n = h.n /\ g.got = h.got /\ g.rec = h.rec

LEMMA GoesOn ==
  ASSUME Typed, NEW h \in handlers, NEW at \in Places, Goes(h, at)
  PROVE  \E g \in Handlers : Next1(h, g, at)
<1> DEFINE g == [h EXCEPT !.at = at]
<1>1. h \in Handlers
  BY DEF Typed, TypeOK
<1>2. /\ g \in Handlers /\ g.at = at
      /\ g.kind = h.kind /\ g.s = h.s /\ g.n = h.n /\ g.got = h.got /\ g.rec = h.rec
  BY <1>1, Moved
<1>3. Becomes(h, g)
  BY DEF Goes
<1> HIDE DEF g
<1> QED
  BY <1>2, <1>3 DEF Next1

(* These calls do not touch the records of a stream's end.                   *)
LEMMA PlainSteps ==
  ASSUME Typed, NEW h \in handlers, NEW s \in Streams,
         \/ StoreStreamSession(h) \/ LoadForLive(h) \/ ClearPending(h) \/ (WriteOnline(h) /\ h.kind # "stop")
         \/ RegisterSession(h) \/ CountSession(h) \/ WriteOffline(h) \/ ReadLive(h) \/ LoadLive(h)
  PROVE  Preserves(s)
<1>1. Plain(h, s)
  BY WhereItIs, StreamsAreNumbers
  DEF StoreStreamSession, LoadForLive, ClearPending, WriteOnline, RegisterSession, CountSession, WriteOffline,
      ReadLive, LoadLive, WellFormed, Plain, Ending, Uses, Undoes, IsEnder, IsCleanup
<1>2. Ends(h) \/ \E at \in Places : Goes(h, at) /\ (h.kind # "resume" \/ at \in {"loadLive", "readRecord", "ok"})
  <2>1. /\ WriteOnline(h) /\ h.kind # "stop" => h.kind \in {"live", "begin", "resume"}
        /\ h.at = "loadLive" => h.kind = "resume"
        /\ h.at = "register" => h.kind = "begin"
        /\ h.at \in {"count", "offline"} => h.kind = "end"
    BY WhereItIs DEF WriteOnline
  <2> QED
    BY <2>1
    DEF StoreStreamSession, LoadForLive, ClearPending, WriteOnline, RegisterSession, CountSession, WriteOffline,
        ReadLive, LoadLive, Answers, Places
<1>3. Ends(h) \/ \E g : Plain(g, s) /\ Becomes(h, g)
  <2> SUFFICES ASSUME NEW at \in Places, Goes(h, at), h.kind # "resume" \/ at \in {"loadLive", "readRecord", "ok"}
               PROVE  \E g : Plain(g, s) /\ Becomes(h, g)
    BY <1>2
  <2>1. PICK g \in Handlers : Next1(h, g, at)
    BY GoesOn
  <2> QED
    BY <1>1, <2>1 DEF Next1, Plain, Ending, Uses, Undoes, IsEnder, IsCleanup
<1>4. meta' = meta /\ resume' = resume /\ SameRecords(s)
  BY DEF StoreStreamSession, LoadForLive, ClearPending, WriteOnline, RegisterSession, CountSession, WriteOffline,
      ReadLive, LoadLive, records, SameRecords
<1> QED
  BY <1>1, <1>3, <1>4, SparedByOne DEF Preserves

(* A stop that has written its event is done.                                *)
LEMMA StopEnds ==
  ASSUME Typed, NEW h \in handlers, NEW s \in Streams, WriteOnline(h), h.kind = "stop"
  PROVE  Preserves(s)
<1>1. /\ h.at = "online" /\ handlers' = handlers \ {h} /\ h.kind # "resume"
      /\ UNCHANGED <<meta, resume, ledger, written>>
  BY DEF WriteOnline, Ends, records
<1>2. SameRecords(s)
  BY <1>1 DEF SameRecords
<1>3. Open(s)' <=> Open(s)
  BY <1>1 DEF Open, BeforeAppend, Ending, IsEnder, IsCleanup
<1>4. \A n \in Nat : StillThere(s, n)' <=> StillThere(s, n)
  BY <1>1 DEF StillThere, Undoes
<1>5. (\A x \in handlers' : ~Uses(x, s)) => \A x \in handlers : ~Uses(x, s)
  BY <1>1 DEF Uses
<1>6. \A x \in handlers' : x \in handlers /\ x # h
  BY <1>1
<1>7. Core(s) => Core(s)'
  BY <1>1, <1>2, <1>3, <1>4, <1>5, <1>6, Kept
<1>8. Untouched(s) => Untouched(s)'
  BY <1>1 DEF Untouched, Plain, Ending, IsEnder, IsCleanup, Uses, Undoes
<1> QED
  BY <1>7, <1>8 DEF Preserves

(* A handler that has read the advertisement makes a call before the event.  *)
LEMMA EnderGoesOn ==
  ASSUME NEW s \in Streams, NEW h \in handlers, NEW g, Becomes(h, g), IsEnder(h), g.kind = h.kind, g.got = h.got,
         h.at \in BeforeAppend, g.at \in BeforeAppend,
         g.at \notin {"load", "deleteMeta"} => h.at \notin {"load", "deleteMeta"} \/ meta' # s,
         meta' = meta \/ (meta' # s /\ (h.got = s \/ meta # s \/ s \in torn')),
         resume' = resume, SameRecords(s)
  PROVE  Preserves(s)
<1>0. handlers' = (handlers \ {h}) \cup {g} /\ h.kind # "resume"
  BY DEF Becomes, IsEnder, IsCleanup
<1>1. Follows(g, h, s)
  BY <1>0 DEF Follows, Ending, IsEnder, IsCleanup, Uses, Undoes, BeforeAppend
<1>2. \A n \in Nat : StillThere(s, n)' <=> StillThere(s, n)
  BY <1>0 DEF StillThere, Undoes
<1>3. (\A x \in handlers' : ~Uses(x, s)) => \A x \in handlers : ~Uses(x, s)
  BY <1>0 DEF Uses
<1>4. \A x \in handlers' : (x \in handlers /\ x # h) \/ (x = g /\ h \in handlers /\ Follows(g, h, s))
  BY <1>0, <1>1
<1>5. s \notin torn' => (Open(s)' <=> Open(s))
  BY <1>0 DEF Open, Ending, IsEnder, IsCleanup
<1>6. Core(s) /\ s \notin torn' => Core(s)'
  BY <1>2, <1>3, <1>4, <1>5, Kept
<1>7. Untouched(s) => Untouched(s)'
  BY <1>0 DEF Untouched, Plain, Ending, IsEnder, IsCleanup, Uses, Undoes, SameRecords
<1> QED
  BY <1>6, <1>7 DEF Preserves

LEMMA EnderSteps ==
  ASSUME Typed, NEW h \in handlers, NEW s \in Streams,
         LoadSession(h) \/ DeleteMeta(h) \/ DeleteSession(h) \/ LoadPending(h) \/ DeletePending(h)
  PROVE  Preserves(s)
<1>0. h \in Handlers /\ WellFormed(h) /\ (h.at = "load" /\ IsCleanup(h) => h.got \in Streams)
  BY WhereItIs DEF WellFormed
<1>1. SameRecords(s) /\ resume' = resume
  BY DEF LoadSession, DeleteMeta, DeleteSession, LoadPending, DeletePending, records, SameRecords, Torn, NoStream, Streams
<1>2. CASE LoadSession(h)
  <2> DEFINE rec == [s |-> h.got, session |-> sessions[h.got], event |-> 0]
             g == [h EXCEPT !.at = "deleteMeta", !.rec = rec]
  <2>1. /\ Becomes(h, g) /\ h.at = "load" /\ IsEnder(h) /\ meta' = meta
    BY <1>2 DEF LoadSession, IsEnder, records
  <2>2. g.kind = h.kind /\ g.got = h.got /\ g.at = "deleteMeta"
    BY <1>0 DEF Handlers
  <2> HIDE DEF g
  <2> QED
    BY <1>1, <2>1, <2>2, EnderGoesOn DEF BeforeAppend
<1>3. CASE DeleteMeta(h)
  <2>1. /\ Goes(h, "deleteSession") /\ h.at = "deleteMeta" /\ IsEnder(h) /\ meta' = NoStream /\ torn' = Torn(h.got)
    BY <1>3, WhereItIs DEF DeleteMeta
  <2>2. PICK g \in Handlers : Next1(h, g, "deleteSession")
    BY <2>1, GoesOn DEF Places
  <2>3. meta' # s /\ (h.got = s \/ meta # s \/ s \in torn')
    BY <2>1, StreamsAreNumbers DEF Torn
  <2> QED
    BY <1>1, <2>1, <2>2, <2>3, EnderGoesOn DEF BeforeAppend, Next1
<1>4. CASE DeleteSession(h) \/ LoadPending(h) \/ DeletePending(h)
  <2>1. PICK at \in {"loadPending", "deletePending", "append"} :
          Goes(h, at) /\ h.at \in {"deleteSession", "loadPending", "deletePending"} /\ IsEnder(h) /\ meta' = meta
    BY <1>4, WhereItIs DEF DeleteSession, LoadPending, DeletePending, IsEnder, records
  <2>2. PICK g \in Handlers : Next1(h, g, at)
    BY <2>1, GoesOn DEF Places
  <2> QED
    BY <1>1, <2>1, <2>2, EnderGoesOn DEF BeforeAppend, Next1
<1> QED
  BY <1>2, <1>3, <1>4

(* stream_live advertises a stream that was never advertised.                *)
LEMMA AdvertiseStep ==
  ASSUME Typed, NEW h \in handlers, NEW s \in Streams, AdvertiseStream(h), FreshFits(s)
  PROVE  /\ Core(s) /\ s \notin torn' => Core(s)'
         /\ h.s # s /\ Untouched(s) => Untouched(s)'
<1>0. /\ h.kind = "live" /\ h.at = "advertise" /\ h.s \in Streams /\ h.got = NoStream
      /\ Goes(h, "online") /\ meta' = h.s /\ torn' = Torn(h.s) /\ UNCHANGED <<resume, ledger, written>>
  BY WhereItIs DEF AdvertiseStream, WellFormed, IsEnder, IsCleanup
<1>1. PICK g \in Handlers : Next1(h, g, "online")
  BY <1>0, GoesOn DEF Places
<1>2. Plain(h, s) /\ Plain(g, s) /\ Becomes(h, g)
  BY <1>0, <1>1, StreamsAreNumbers DEF Plain, Next1, Ending, IsEnder, IsCleanup, Uses, Undoes
<1>3. CASE h.s # s
  <2>1. meta = s => ~Untouched(s) /\ s \in torn'
    BY <1>0, <1>3, StreamsAreNumbers DEF Torn, Untouched
  <2>2. CASE meta = s
    BY <2>1, <2>2
  <2>3. CASE meta # s
    <3>1. SameRecords(s) /\ (meta' = s <=> meta = s) /\ resume' = resume
      BY <1>0, <1>3, <2>3 DEF SameRecords
    <3> QED
      BY <1>2, <3>1, SparedByOne
  <2> QED
    BY <2>2, <2>3
<1>4. CASE h.s = s
  <2>1. Told(h, s)
    BY <1>0, <1>4 DEF Told
  <2>2. Untouched(s)
    BY <2>1 DEF FreshFits
  <2>3. handlers' = (handlers \ {h}) \cup {g} /\ \A x \in handlers' : Plain(x, s)
    BY <1>2, <2>2 DEF Becomes, Untouched
  <2>4. written' = written /\ written[s] = 0 /\ meta' = s /\ resume' = resume /\ resume.s # s /\ ledger' = ledger
    BY <1>0, <1>4, <2>2 DEF Untouched
  <2>5. Core(s) => \A n \in Nat : <<s, n>> \notin ledger
    BY <2>2, <2>4 DEF Core, LedgerFits, StillThere, Untouched, Plain
  <2>6. Open(s)' /\ \A n \in Nat : ~StillThere(s, n)'
    BY <2>3, <2>4 DEF Open, StillThere, Plain, Undoes
  <2>7. Core(s) => LedgerFits(s)'
    BY <2>4, <2>5, <2>6 DEF LedgerFits
  <2>8. OneEnder(s)' /\ PastMeta(s)' /\ KeepFits(s)'
    BY <2>3 DEF OneEnder, PastMeta, KeepFits, Plain, Ending, IsEnder, IsCleanup
  <2>9. OneUser(s)' /\ RecordFits(s)' /\ RestoreFits(s)' /\ UndoFits(s)'
    BY <2>3, <2>4 DEF OneUser, RecordFits, RestoreFits, UndoFits, Plain, Uses, Undoes
  <2> QED
    BY <1>4, <2>7, <2>8, <2>9 DEF Core
<1> QED
  BY <1>3, <1>4

(* The first handler that reads the advertisement; a second one makes it torn. *)
LEMMA ReadMetaStep ==
  ASSUME Typed, NEW h \in handlers, NEW s \in Streams, ReadMeta(h)
  PROVE  Preserves(s)
<1>0. /\ IsEnder(h) /\ h.at = "read" /\ h.got = NoStream /\ h \in Handlers
      /\ UNCHANGED <<meta, resume, ledger, written>>
  BY WhereItIs DEF ReadMeta, WellFormed, records
<1>1. SameRecords(s)
  BY <1>0 DEF SameRecords
<1>2. Plain(h, s)
  BY <1>0, StreamsAreNumbers DEF Plain, Ending, Uses, Undoes, IsEnder, IsCleanup
<1>3. CASE Ends(h)
  BY <1>0, <1>1, <1>2, <1>3, SparedByOne DEF Preserves
<1>4. CASE ~Ends(h)
  <2> DEFINE to == IF IsCleanup(h) THEN "load" ELSE "deleteMeta"
             g == [h EXCEPT !.got = meta, !.at = to]
  <2>1. Becomes(h, g)
    BY <1>4 DEF ReadMeta
  <2>2. g.kind = h.kind /\ g.got = meta /\ g.at = to
    BY <1>0 DEF Handlers
  <2> HIDE DEF g
  <2>3. handlers' = (handlers \ {h}) \cup {g} /\ g.kind # "resume" /\ IsEnder(g) /\ g.at \in {"load", "deleteMeta"}
    BY <1>0, <2>1, <2>2 DEF Becomes, IsEnder, IsCleanup
  <2>4. CASE meta # s
    <3>1. Plain(g, s)
      BY <2>2, <2>3, <2>4 DEF Plain, Ending, Uses, Undoes
    <3> QED
      BY <1>0, <1>1, <1>2, <2>1, <3>1, SparedByOne DEF Preserves
  <2>5. CASE meta = s
    <3>1. ~Untouched(s)
      BY <2>5 DEF Untouched
    <3> SUFFICES ASSUME Core(s), s \notin torn'
                 PROVE  Core(s)'
      BY <3>1 DEF Preserves
    <3>2. \A x \in handlers : ~Ending(x, s)
      BY <2>5, StreamsAreNumbers DEF ReadMeta, Ending
    <3>3. ~Over(s) /\ Open(s) /\ Open(s)'
      BY <1>0, <2>5 DEF Over, Open
    <3>4. \A x \in handlers' : Ending(x, s) => x = g
      BY <2>3, <3>2
    <3>5. OneEnder(s)' /\ PastMeta(s)' /\ KeepFits(s)'
      BY <2>3, <3>4 DEF OneEnder, PastMeta, KeepFits, Ending, IsEnder, IsCleanup
    <3>6. /\ \A x \in handlers' : Uses(x, s) => x \in handlers
          /\ \A x \in handlers : Uses(x, s) => x \in handlers'
          /\ \A x \in handlers' : Undoes(x, s) => x \in handlers
          /\ \A x \in handlers : Undoes(x, s) => x \in handlers'
      BY <1>2, <2>3 DEF Uses, Undoes, Plain
    <3>7. OneUser(s)'
      BY <3>6 DEF Core, OneUser, Uses
    <3>8. RecordFits(s)' /\ RestoreFits(s)'
      BY <1>0, <3>3, <3>6 DEF Core, RecordFits, RestoreFits, Uses
    <3>9. UndoFits(s)'
      BY <1>0, <3>3, <3>6 DEF Core, UndoFits, Undoes
    <3>10. \A n \in Nat : StillThere(s, n)' <=> StillThere(s, n)
      BY <3>6 DEF StillThere, Undoes
    <3>11. LedgerFits(s)'
      BY <1>0, <3>3, <3>10 DEF Core, LedgerFits
    <3> QED
      BY <3>5, <3>7, <3>8, <3>9, <3>11 DEF Core
  <2> QED
    BY <2>4, <2>5
<1> QED
  BY <1>3, <1>4

(* The event of an end: the stream is over, and the event is its last.       *)
LEMMA AppendStep ==
  ASSUME Typed, NEW h \in handlers, NEW s \in Streams, AppendSession(h)
  PROVE  Preserves(s)
<1> DEFINE next == IF h.kind = "stop" THEN "online" ELSE "keep"
           w == written[s]
<1>0. /\ h.at = "append" /\ IsEnder(h) /\ h \in Handlers /\ h.rec \in Records /\ UNCHANGED <<meta, resume>>
      /\ w \in Nat /\ next \in {"online", "keep"}
  BY WhereItIs DEF AppendSession, Typed, TypeOK
<1>1. CASE h.got # s
  <2>1. Plain(h, s)
    BY <1>0, <1>1 DEF Plain, Ending, Uses, Undoes, IsEnder, IsCleanup
  <2>2. SameRecords(s)
    BY <1>0, <1>1 DEF AppendSession, SameRecords, Typed, TypeOK
  <2>3. \E g : Plain(g, s) /\ Becomes(h, g)
    <3>1. CASE h.got = NoStream
      <4>1. Goes(h, next)
        BY <3>1 DEF AppendSession
      <4>2. PICK g \in Handlers : Next1(h, g, next)
        BY <4>1, GoesOn DEF Places
      <4> QED
        BY <1>0, <1>1, <4>2 DEF Next1, Plain, Ending, Uses, Undoes, IsEnder, IsCleanup
    <3>2. CASE h.got # NoStream
      <4> DEFINE g == [h EXCEPT !.at = next, !.rec.event = written[h.got] + 1]
      <4>1. Becomes(h, g)
        BY <3>2 DEF AppendSession
      <4>2. g.kind = h.kind /\ g.got = h.got
        BY <1>0 DEF Handlers
      <4> HIDE DEF g
      <4> QED
        BY <1>0, <1>1, <4>1, <4>2 DEF Plain, Ending, Uses, Undoes, IsEnder, IsCleanup
    <3> QED
      BY <3>1, <3>2
  <2> QED
    BY <1>0, <2>1, <2>2, <2>3, SparedByOne DEF Preserves
<1>2. CASE h.got = s
  <2> DEFINE g == [h EXCEPT !.at = next, !.rec.event = w + 1]
  <2>1. Becomes(h, g) /\ ledger' = ledger \cup {<<s, w + 1>>} /\ written' = [written EXCEPT ![s] = w + 1]
    BY <1>2, StreamsAreNumbers DEF AppendSession
  <2>2. g.kind = h.kind /\ g.got = s /\ g.at = next /\ g.rec.event = w + 1
    BY <1>0, <1>2 DEF Handlers, Records
  <2>3. written'[s] = w + 1
    BY <2>1 DEF Typed, TypeOK
  <2> HIDE DEF g, next
  <2>4. /\ handlers' = (handlers \ {h}) \cup {g} /\ h.kind # "resume" /\ g.kind # "resume" /\ IsEnder(g)
        /\ g.at \in {"online", "keep"}
    BY <1>0, <2>1, <2>2 DEF Becomes, IsEnder, IsCleanup
  <2>5. Ending(h, s) /\ ~Untouched(s)
    BY <1>0, <1>2 DEF Ending, Untouched, Plain
  <2> SUFFICES ASSUME Core(s)
               PROVE  Core(s)'
    BY <2>5 DEF Preserves
  <2>6. Open(s) /\ ~Over(s) /\ meta # s
    BY <1>0, <2>5 DEF Open, Over, BeforeAppend, Core, PastMeta
  <2>7. \A x \in handlers' : Ending(x, s) <=> x = g
    BY <2>2, <2>4, <2>5 DEF Core, OneEnder, Ending
  <2>8. ~Open(s)'
    BY <1>0, <2>4, <2>6, <2>7 DEF Open, BeforeAppend, Ending, IsEnder, IsCleanup
  <2>9. OneEnder(s)' /\ PastMeta(s)' /\ KeepFits(s)'
    BY <1>0, <2>2, <2>3, <2>6, <2>7 DEF OneEnder, PastMeta, KeepFits, Ending, IsEnder, IsCleanup
  <2>10. \A x : Uses(x, s) \/ Undoes(x, s) => (x \in handlers' <=> x \in handlers)
    BY <2>4 DEF Uses, Undoes
  <2>11. OneUser(s)' /\ RestoreFits(s)'
    BY <2>6, <2>10 DEF Core, OneUser, RestoreFits, Uses
  <2>12. RecordFits(s)'
    <3>1. resume.s # s \/ \E x \in handlers : Uses(x, s)
      BY <2>6 DEF Core, RecordFits
    <3> QED
      BY <1>0, <2>10, <3>1 DEF RecordFits, Uses
  <2>13. UndoFits(s)'
    <3>1. ASSUME NEW x \in handlers', Undoes(x, s) PROVE x.rec.event <= w /\ x.rec.event \in Nat
      BY <2>10, <3>1 DEF Core, UndoFits, Typed, TypeOK, Handlers, Records
    <3>2. ASSUME NEW x \in handlers', Undoes(x, s) PROVE x.rec.event <= w + 1 /\ x.rec.event < w + 1
      BY <1>0, <3>1, <3>2
    <3>3. ASSUME NEW x \in handlers', NEW y \in handlers', Undoes(x, s), Undoes(y, s), x.rec.event = y.rec.event
          PROVE  x = y
      BY <2>10, <3>3 DEF Core, UndoFits
    <3> QED
      BY <2>3, <3>2, <3>3 DEF UndoFits, Undoes
  <2>14. \A n \in Nat : StillThere(s, n)' <=> StillThere(s, n)
    BY <2>10 DEF StillThere, Undoes
  <2>15. LedgerFits(s)'
    <3>1. \A n \in Nat : <<s, n>> \in ledger' <=> StillThere(s, n) \/ n = w + 1
      BY <2>1, <2>6 DEF Core, LedgerFits
    <3> QED
      BY <1>0, <2>3, <2>8, <2>14, <3>1 DEF LedgerFits
  <2> QED
    BY <2>9, <2>11, <2>12, <2>13, <2>15 DEF Core
<1> QED
  BY <1>1, <1>2

(* The record of an end names its event.                                     *)
LEMMA KeepStep ==
  ASSUME Typed, NEW h \in handlers, NEW s \in Streams, KeepForResume(h)
  PROVE  Preserves(s)
<1>0. /\ h.at = "keep" /\ IsCleanup(h) /\ IsEnder(h) /\ h.kind # "resume" /\ h.rec.s = h.got
      /\ handlers' = handlers \ {h} /\ UNCHANGED <<meta, ledger, written>>
      /\ resume' = resume \/ resume' = h.rec
  BY WhereItIs DEF KeepForResume, Ends, WellFormed, IsEnder, IsCleanup
<1>1. SameRecords(s)
  BY <1>0 DEF SameRecords
<1>2. CASE h.got # s
  <2>1. Plain(h, s)
    BY <1>0, <1>2 DEF Plain, Ending, Uses, Undoes
  <2>2. Ends(h) /\ (resume' = resume \/ resume'.s # s)
    BY <1>0, <1>2 DEF Ends
  <2> QED
    BY <1>0, <1>1, <2>1, <2>2, SparedByOne DEF Preserves
<1>3. CASE h.got = s
  <2>1. Ending(h, s) /\ ~Untouched(s)
    BY <1>0, <1>3 DEF Ending, Untouched, Plain
  <2> SUFFICES ASSUME Core(s)
               PROVE  Core(s)'
    BY <2>1 DEF Preserves
  <2>2. meta # s /\ h.rec.event = written[s] /\ written[s] > 0 /\ ~Over(s)
    BY <1>0, <2>1 DEF Core, PastMeta, KeepFits, Over
  <2>3. \A x \in handlers' : ~Ending(x, s)
    BY <1>0, <2>1 DEF Core, OneEnder
  <2>4. Over(s)'
    BY <1>0, <2>2, <2>3 DEF Over, Ending, IsEnder, IsCleanup
  <2>5. \A x : Uses(x, s) \/ Undoes(x, s) => (x \in handlers' <=> x \in handlers)
    BY <1>0 DEF Uses, Undoes
  <2>6. Open(s)' <=> Open(s)
    BY <1>0 DEF Open, BeforeAppend, Ending, IsEnder, IsCleanup
  <2>7. OneEnder(s)' /\ PastMeta(s)' /\ KeepFits(s)'
    BY <2>3 DEF OneEnder, PastMeta, KeepFits, Ending, IsEnder, IsCleanup
  <2>8. OneUser(s)' /\ RestoreFits(s)'
    BY <2>2, <2>5 DEF Core, OneUser, RestoreFits, Uses
  <2>9. RecordFits(s)'
    <3>1. CASE resume' = h.rec
      BY <1>0, <2>2, <2>4, <3>1 DEF RecordFits
    <3>2. CASE resume' = resume
      <4>1. resume.s # s \/ \E x \in handlers : Uses(x, s)
        BY <2>2 DEF Core, RecordFits
      <4> QED
        BY <2>5, <3>2, <4>1 DEF RecordFits, Uses
    <3> QED
      BY <1>0, <3>1, <3>2
  <2>10. UndoFits(s)'
    BY <1>0, <2>5, <2>6 DEF Core, UndoFits, Undoes
  <2>11. \A n \in Nat : StillThere(s, n)' <=> StillThere(s, n)
    BY <2>5 DEF StillThere, Undoes
  <2>12. LedgerFits(s)'
    BY <1>0, <2>6, <2>11 DEF Core, LedgerFits
  <2> QED
    BY <2>7, <2>8, <2>9, <2>10, <2>12 DEF Core
<1> QED
  BY <1>2, <1>3

(* The first resume that reads the record; a second one makes it torn.       *)
LEMMA ReadRecordStep ==
  ASSUME Typed, NEW h \in handlers, NEW s \in Streams, ReadRecord(h)
  PROVE  Preserves(s)
<1>0. /\ h.at = "readRecord" /\ h.kind = "resume" /\ h.s \in Streams /\ h.got = NoStream /\ h \in Handlers
      /\ UNCHANGED <<meta, resume, ledger, written>>
  BY WhereItIs DEF ReadRecord, WellFormed, IsEnder, IsCleanup, records
<1>1. SameRecords(s)
  BY <1>0 DEF SameRecords
<1>2. Plain(h, s)
  BY <1>0 DEF Plain, Ending, Uses, Undoes, IsEnder, IsCleanup
<1>3. CASE Answers(h, "refused")
  <2>1. Ends(h) \/ \E g \in Handlers : Next1(h, g, "refused")
    BY <1>3, GoesOn DEF Answers, Places
  <2>2. \A g : Next1(h, g, "refused") => Plain(g, s) /\ Becomes(h, g)
    BY <1>0 DEF Next1, Plain, Ending, Uses, Undoes, IsEnder, IsCleanup
  <2> QED
    BY <1>0, <1>1, <1>2, <2>1, <2>2, SparedByOne DEF Preserves
<1>4. CASE ~Answers(h, "refused")
  <2> DEFINE g == [h EXCEPT !.at = "restore", !.rec = resume]
  <2>1. /\ resume.s = h.s /\ Becomes(h, g)
        /\ torn' = IF \E x \in handlers : Uses(x, h.s) THEN torn \cup {h.s} ELSE torn
    BY <1>4 DEF ReadRecord
  <2>2. g.kind = "resume" /\ g.got = NoStream /\ g.at = "restore" /\ g.rec = resume
    BY <1>0 DEF Handlers
  <2> HIDE DEF g
  <2>3. handlers' = (handlers \ {h}) \cup {g} /\ ~Ending(g, s) /\ ~Undoes(g, s)
    BY <1>0, <2>1, <2>2, StreamsAreNumbers DEF Becomes, Ending, Undoes
  <2>4. CASE h.s # s
    <3>1. Plain(g, s)
      BY <2>1, <2>2, <2>3, <2>4 DEF Plain, Uses
    <3> QED
      BY <1>0, <1>1, <1>2, <2>1, <3>1, SparedByOne DEF Preserves
  <2>5. CASE h.s = s
    <3>1. ~Untouched(s)
      BY <2>1, <2>5 DEF Untouched
    <3> SUFFICES ASSUME Core(s), s \notin torn'
                 PROVE  Core(s)'
      BY <3>1 DEF Preserves
    <3>2. \A x \in handlers : ~Uses(x, s)
      BY <2>1, <2>5
    <3>3. Over(s) /\ resume.event = written[s] /\ written[s] > 0
      BY <2>1, <2>5, <3>2 DEF Core, RecordFits
    <3>4. \A x \in handlers' : ~Ending(x, s)
      BY <2>3, <3>3 DEF Over
    <3>5. Over(s)'
      BY <1>0, <3>3, <3>4 DEF Over, Ending, IsEnder, IsCleanup
    <3>6. \A x \in handlers' : Uses(x, s) <=> x = g
      BY <2>1, <2>2, <2>3, <2>5, <3>2 DEF Uses
    <3>7. \A x : Undoes(x, s) => (x \in handlers' <=> x \in handlers)
      BY <1>2, <2>3 DEF Plain
    <3>8. Open(s)' <=> Open(s)
      BY <1>0, <3>3, <3>5 DEF Open, Over, Ending, IsEnder, IsCleanup
    <3>9. OneEnder(s)' /\ PastMeta(s)' /\ KeepFits(s)'
      BY <3>4 DEF OneEnder, PastMeta, KeepFits, Ending, IsEnder, IsCleanup
    <3>10. OneUser(s)' /\ RecordFits(s)'
      BY <2>3, <3>6 DEF OneUser, RecordFits, Uses
    <3>11. RestoreFits(s)'
      BY <1>0, <2>2, <3>3, <3>5, <3>6 DEF RestoreFits, Uses
    <3>12. UndoFits(s)'
      BY <1>0, <3>7, <3>8 DEF Core, UndoFits, Undoes
    <3>13. \A n \in Nat : StillThere(s, n)' <=> StillThere(s, n)
      BY <3>7 DEF StillThere, Undoes
    <3>14. LedgerFits(s)'
      BY <1>0, <3>8, <3>13 DEF Core, LedgerFits
    <3> QED
      BY <3>9, <3>10, <3>11, <3>12, <3>14 DEF Core
  <2> QED
    BY <2>4, <2>5
<1> QED
  BY <1>3, <1>4

(* The stream is advertised again; the event of its end is still to be        *)
(* removed, and no other resume is about to remove it.                      *)
LEMMA RestoreStep ==
  ASSUME Typed, NEW h \in handlers, NEW s \in Streams, Restore(h)
  PROVE  Preserves(s)
<1>0. /\ h.at = "restore" /\ h.kind = "resume" /\ h.s \in Streams /\ h.rec.s = h.s /\ h.got = NoStream
      /\ Goes(h, "store") /\ meta' = h.s /\ torn' = Torn(h.s) /\ UNCHANGED <<resume, ledger, written>>
  BY WhereItIs DEF Restore, WellFormed, IsEnder, IsCleanup
<1>1. PICK g \in Handlers : Next1(h, g, "store")
  BY <1>0, GoesOn DEF Places
<1>2. handlers' = (handlers \ {h}) \cup {g} /\ g.kind = "resume" /\ g.at = "store" /\ g.rec = h.rec
  BY <1>0, <1>1 DEF Next1, Becomes
<1>3. CASE h.s # s
  <2>1. Plain(h, s) /\ Plain(g, s) /\ Becomes(h, g)
    BY <1>0, <1>1, <1>3 DEF Plain, Next1, Ending, IsEnder, IsCleanup, Uses, Undoes
  <2>2. CASE meta = s
    <3>1. ~Untouched(s) /\ s \in torn'
      BY <1>0, <1>3, <2>2, StreamsAreNumbers DEF Torn, Untouched
    <3> QED
      BY <3>1 DEF Preserves
  <2>3. CASE meta # s
    <3>1. SameRecords(s) /\ (meta' = s <=> meta = s) /\ resume' = resume
      BY <1>0, <1>3, <2>3 DEF SameRecords
    <3> QED
      BY <2>1, <3>1, SparedByOne DEF Preserves
  <2> QED
    BY <2>2, <2>3
<1>4. CASE h.s = s
  <2>1. Uses(h, s) /\ ~Untouched(s)
    BY <1>0, <1>4 DEF Uses, Untouched, Plain
  <2> SUFFICES ASSUME Core(s)
               PROVE  Core(s)'
    BY <2>1 DEF Preserves
  <2>2. Over(s) /\ h.rec.event = written[s] /\ written[s] > 0
    BY <1>0, <2>1 DEF Core, RestoreFits
  <2>3. ~Open(s) /\ Open(s)' /\ meta' = s
    BY <1>0, <1>4, <2>2 DEF Open, Over
  <2>4. \A x \in handlers' : ~Ending(x, s)
    BY <1>2, <2>2 DEF Over, Ending, IsEnder, IsCleanup
  <2>5. \A x \in handlers' : Uses(x, s) <=> x = g
    BY <1>0, <1>2, <1>4, <2>1 DEF Core, OneUser, Uses
  <2>6. \A x \in handlers' : Undoes(x, s) => x = g \/ x \in handlers
    BY <1>2
  <2>7. OneEnder(s)' /\ PastMeta(s)' /\ KeepFits(s)'
    BY <2>4 DEF OneEnder, PastMeta, KeepFits, Ending, IsEnder, IsCleanup
  <2>8. OneUser(s)' /\ RecordFits(s)' /\ RestoreFits(s)'
    BY <1>2, <2>5 DEF OneUser, RecordFits, RestoreFits, Uses
  <2>9. written[s] \in Nat /\ \A x \in handlers : x.rec.event \in Nat
    BY DEF Typed, TypeOK, Handlers, Records
  <2>10. \A x \in handlers : Undoes(x, s) => x.rec.event < written[s]
    BY <2>3 DEF Core, UndoFits
  <2>11. Undoes(g, s) /\ ~Undoes(h, s) /\ g.rec.event = written[s]
    BY <1>0, <1>2, <1>4, <2>2 DEF Undoes
  <2>12. UndoFits(s)'
    <3>1. ASSUME NEW x \in handlers', Undoes(x, s) PROVE x.rec.event <= written[s]
      BY <2>6, <2>9, <2>10, <2>11, <3>1
    <3>2. ASSUME NEW x \in handlers', NEW y \in handlers', Undoes(x, s), Undoes(y, s), x.rec.event = y.rec.event
          PROVE  x = y
      BY <2>6, <2>9, <2>10, <2>11, <3>2 DEF Core, UndoFits
    <3> QED
      BY <1>0, <2>3, <3>1, <3>2 DEF UndoFits, Undoes
  <2>13. \A n \in Nat : StillThere(s, n)' <=> StillThere(s, n) \/ n = written[s]
    BY <1>2, <2>11 DEF StillThere, Undoes
  <2>14. LedgerFits(s)'
    BY <1>0, <2>2, <2>3, <2>13 DEF Core, LedgerFits
  <2> QED
    BY <2>7, <2>8, <2>12, <2>14 DEF Core
<1> QED
  BY <1>3, <1>4

(* The session is back, then the record is deleted.                          *)
LEMMA RestoredSteps ==
  ASSUME Typed, NEW h \in handlers, NEW s \in Streams, RestoreSession(h) \/ DeleteRecord(h)
  PROVE  Preserves(s)
<1>0. /\ h.at \in {"store", "deleteRecord"} /\ h.kind = "resume" /\ h.rec.s = h.s /\ h.got = NoStream
      /\ UNCHANGED <<meta, ledger, written>>
      /\ \/ h.at = "store" /\ resume' = resume /\ Goes(h, "deleteRecord")
         \/ h.at = "deleteRecord" /\ resume'.s = NoStream /\ Goes(h, "removeEvent")
  BY WhereItIs, RecordsAreTyped DEF RestoreSession, DeleteRecord, WellFormed, IsEnder, IsCleanup
<1>1. PICK at \in {"deleteRecord", "removeEvent"} :
        Goes(h, at) /\ (at = "deleteRecord" => resume' = resume) /\ (at = "removeEvent" => resume'.s = NoStream)
        /\ (h.at = "deleteRecord" => at = "removeEvent")
  BY <1>0
<1>2. PICK g \in Handlers : Next1(h, g, at)
  BY <1>1, GoesOn DEF Places
<1>3. /\ handlers' = (handlers \ {h}) \cup {g} /\ g.kind = "resume" /\ g.at = at /\ g.rec = h.rec
      /\ g.at \in {"deleteRecord", "removeEvent"}
  BY <1>0, <1>1, <1>2 DEF Next1, Becomes
<1>4. SameRecords(s) /\ (resume' = resume \/ resume'.s # s)
  BY <1>0, StreamsAreNumbers DEF SameRecords
<1>5. Follows(g, h, s) /\ (Plain(h, s) => Plain(g, s))
  BY <1>0, <1>3 DEF Follows, Plain, Ending, IsEnder, IsCleanup, Uses, Undoes
<1>6. Open(s)' <=> Open(s)
  BY <1>0, <1>3 DEF Open, Ending, IsEnder, IsCleanup
<1>7. \A n \in Nat : StillThere(s, n)' <=> StillThere(s, n)
  BY <1>0, <1>3 DEF StillThere, Undoes
<1>8. resume'.s # s \/ ((\A x \in handlers' : ~Uses(x, s)) => \A x \in handlers : ~Uses(x, s))
  <2>1. CASE at = "removeEvent"
    BY <1>1, <2>1, StreamsAreNumbers
  <2>2. CASE at = "deleteRecord"
    <3>1. Uses(h, s) => Uses(g, s)
      BY <1>0, <1>3, <2>2 DEF Uses
    <3> QED
      BY <1>3, <3>1
  <2> QED
    BY <2>1, <2>2
<1>9. \A x \in handlers' : (x \in handlers /\ x # h) \/ (x = g /\ h \in handlers /\ Follows(g, h, s))
  BY <1>3, <1>5
<1>10. Core(s) => Core(s)'
  BY <1>4, <1>6, <1>7, <1>8, <1>9, Kept
<1>11. Untouched(s) => Untouched(s)'
  <2> SUFFICES ASSUME Untouched(s) PROVE Untouched(s)'
    OBVIOUS
  <2>1. \A x \in handlers' : Plain(x, s)
    BY <1>3, <1>5 DEF Untouched
  <2>2. meta' # s /\ written'[s] = 0 /\ resume'.s # s
    BY <1>4 DEF Untouched, SameRecords
  <2> QED
    BY <2>1, <2>2 DEF Untouched, Plain, Ending, IsEnder, IsCleanup, Uses, Undoes
<1> QED
  BY <1>10, <1>11 DEF Preserves

(* Only the event that this resume undoes is removed.                        *)
LEMMA RemoveStep ==
  ASSUME Typed, NEW h \in handlers, NEW s \in Streams, RemoveEvent(h)
  PROVE  Preserves(s)
<1> DEFINE e == h.rec.event
<1>0. /\ h.at = "removeEvent" /\ h.kind = "resume" /\ h.rec.s = h.s /\ h.got = NoStream
      /\ Goes(h, "online") /\ ledger' = ledger \ {<<h.s, e>>} /\ UNCHANGED <<meta, resume, written>>
  BY WhereItIs DEF RemoveEvent, WellFormed, IsEnder, IsCleanup
<1>1. PICK g \in Handlers : Next1(h, g, "online")
  BY <1>0, GoesOn DEF Places
<1>2. handlers' = (handlers \ {h}) \cup {g} /\ Becomes(h, g) /\ Plain(g, s)
  BY <1>0, <1>1 DEF Next1, Becomes, Plain, Ending, IsEnder, IsCleanup, Uses, Undoes
<1>3. CASE h.s # s
  <2>1. Plain(h, s)
    BY <1>0, <1>3 DEF Plain, Ending, IsEnder, IsCleanup, Uses, Undoes
  <2>2. SameRecords(s)
    BY <1>0, <1>3 DEF SameRecords
  <2> QED
    BY <1>0, <1>2, <2>1, <2>2, SparedByOne DEF Preserves
<1>4. CASE h.s = s
  <2>1. Undoes(h, s) /\ ~Untouched(s) /\ ~Ending(h, s) /\ ~Uses(h, s)
    BY <1>0, <1>4 DEF Undoes, Uses, Ending, IsEnder, IsCleanup, Untouched, Plain
  <2> SUFFICES ASSUME Core(s)
               PROVE  Core(s)'
    BY <2>1 DEF Preserves
  <2>2. \A x : Ending(x, s) \/ Uses(x, s) => (x \in handlers' <=> x \in handlers)
    BY <1>2, <2>1 DEF Plain
  <2>3. \A x \in handlers' : Undoes(x, s) => x \in handlers /\ x # h
    BY <1>2 DEF Plain
  <2>4. (Open(s)' <=> Open(s)) /\ (Over(s)' <=> Over(s))
    BY <1>0, <2>2 DEF Open, Over, Ending, IsEnder, IsCleanup
  <2>5. OneEnder(s)' /\ PastMeta(s)' /\ KeepFits(s)'
    BY <1>0, <2>2 DEF Core, OneEnder, PastMeta, KeepFits, Ending, IsEnder, IsCleanup
  <2>6. OneUser(s)' /\ RecordFits(s)' /\ RestoreFits(s)'
    BY <1>0, <2>2, <2>4 DEF Core, OneUser, RecordFits, RestoreFits, Uses
  <2>7. UndoFits(s)'
    BY <1>0, <2>3, <2>4 DEF Core, UndoFits, Undoes
  <2>8. \A n \in Nat : StillThere(s, n)' <=> StillThere(s, n) /\ n # e
    BY <1>2, <2>1, <2>3 DEF Core, UndoFits, StillThere, Undoes
  <2>9. ~Open(s) => e # written[s]
    <3>1. e \in Nat /\ written[s] \in Nat
      BY DEF Typed, TypeOK, Handlers, Records
    <3> QED
      BY <2>1, <3>1 DEF Core, UndoFits
  <2>10. \A n \in Nat : <<s, n>> \in ledger' <=> <<s, n>> \in ledger /\ n # e
    BY <1>0, <1>4
  <2>11. LedgerFits(s)'
    BY <1>0, <2>4, <2>8, <2>9, <2>10 DEF Core, LedgerFits
  <2> QED
    BY <2>5, <2>6, <2>7, <2>11 DEF Core
<1> QED
  BY <1>3, <1>4

(* A handler that takes the advertisement of s away has read it, or s is torn; *)
(* once it has read it, it ends only after it wrote the event.               *)
LEMMA HandleRecords ==
  ASSUME Typed, NEW h \in handlers, NEW s \in Streams, Handle(h), Recorded(s), s \notin torn'
  PROVE  Recorded(s)'
<1>0. /\ h.got \in Streams \cup {NoStream} /\ s # NoStream
      /\ written \in [Streams -> Nat]
  BY WhereItIs, StreamsAreNumbers DEF Typed, TypeOK
<1>1. CASE AdvertiseStream(h)
  <2>1. /\ meta' = h.s /\ seen' = seen \cup {h.s} /\ torn' = Torn(h.s) /\ written' = written
        /\ h.kind = "live" /\ Goes(h, "online")
    BY <1>1 DEF AdvertiseStream
  <2>2. h.s # s => meta # s
    BY <1>0, <2>1 DEF Torn
  <2>3. ASSUME NEW x \in handlers, Ending(x, s) PROVE x \in handlers'
    BY <2>1, <2>3 DEF Goes, Becomes, Ending, IsEnder, IsCleanup
  <2> QED
    BY <2>1, <2>2, <2>3 DEF Recorded, Open, Ending, IsEnder, IsCleanup
<1>2. CASE Restore(h)
  <2>1. /\ meta' = h.s /\ seen' = seen /\ torn' = Torn(h.s) /\ written' = written
        /\ h.kind = "resume" /\ Goes(h, "store")
    BY <1>2, WhereItIs DEF Restore
  <2>2. h.s # s => meta # s
    BY <1>0, <2>1 DEF Torn
  <2>3. ASSUME NEW x \in handlers, Ending(x, s) PROVE x \in handlers'
    BY <2>1, <2>3 DEF Goes, Becomes, Ending, IsEnder, IsCleanup
  <2> QED
    BY <2>1, <2>2, <2>3 DEF Recorded, Open, Ending, IsEnder, IsCleanup
<1>3. CASE AppendSession(h)
  <2>1. IsEnder(h) /\ UNCHANGED <<meta, seen>>
    BY <1>3, WhereItIs DEF AppendSession, records, history
  <2>2. CASE h.got = s
    <3>1. written' = [written EXCEPT ![s] = written[s] + 1]
      BY <1>0, <1>3, <2>2 DEF AppendSession
    <3>2. written'[s] > 0
      BY <1>0, <3>1
    <3> QED
      BY <3>2 DEF Recorded
  <2>3. CASE h.got # s
    <3>1. written'[s] = written[s]
      BY <1>0, <1>3, <2>3 DEF AppendSession
    <3>2. ASSUME NEW x \in handlers, Ending(x, s) PROVE x \in handlers'
      BY <1>3, <2>3, <3>2 DEF AppendSession, Goes, Becomes, Ending
    <3> QED
      BY <2>1, <3>1, <3>2 DEF Recorded, Open, Ending, IsEnder, IsCleanup
  <2> QED
    BY <2>2, <2>3
<1>4. CASE DeleteMeta(h)
  <2>1. /\ meta' = NoStream /\ torn' = Torn(h.got) /\ UNCHANGED <<written, seen>>
        /\ IsEnder(h) /\ h.at = "deleteMeta" /\ Goes(h, "deleteSession")
    BY <1>4, WhereItIs DEF DeleteMeta
  <2>2. PICK g \in Handlers : Next1(h, g, "deleteSession")
    BY <2>1, GoesOn DEF Places
  <2>3. meta = s => h.got = s
    BY <1>0, <2>1 DEF Torn
  <2>4. (meta = s \/ Ending(h, s)) => Ending(g, s) /\ g.at \in BeforeAppend /\ g \in handlers'
    BY <2>1, <2>2, <2>3 DEF Next1, Becomes, Ending, IsEnder, IsCleanup, BeforeAppend
  <2>5. \A x \in handlers : x # h => x \in handlers'
    BY <2>2 DEF Next1, Becomes
  <2> QED
    BY <2>1, <2>4, <2>5 DEF Recorded, Open, Ending, IsEnder, IsCleanup
<1>5. CASE LoadSession(h) \/ DeleteSession(h) \/ LoadPending(h) \/ DeletePending(h)
  <2>1. UNCHANGED <<meta, written, seen>> /\ h \in Handlers
    BY <1>5, WhereItIs DEF LoadSession, DeleteSession, LoadPending, DeletePending, records, history
  <2>2. PICK g : Becomes(h, g) /\ g.kind = h.kind /\ g.got = h.got /\ g.at \in BeforeAppend
    <3>1. CASE LoadSession(h)
      <4> DEFINE rec == [s |-> h.got, session |-> sessions[h.got], event |-> 0]
                 g == [h EXCEPT !.at = "deleteMeta", !.rec = rec]
      <4>1. Becomes(h, g)
        BY <3>1 DEF LoadSession
      <4>2. g.kind = h.kind /\ g.got = h.got /\ g.at = "deleteMeta"
        BY <2>1 DEF Handlers
      <4> HIDE DEF g
      <4> QED
        BY <4>1, <4>2 DEF BeforeAppend
    <3>2. CASE DeleteSession(h) \/ LoadPending(h) \/ DeletePending(h)
      <4>1. PICK at \in {"loadPending", "deletePending", "append"} : Goes(h, at)
        BY <3>2 DEF DeleteSession, LoadPending, DeletePending
      <4>2. PICK g \in Handlers : Next1(h, g, at)
        BY <4>1, GoesOn DEF Places
      <4> QED
        BY <4>1, <4>2 DEF Next1, BeforeAppend
    <3> QED
      BY <1>5, <3>1, <3>2
  <2>3. Ending(h, s) => Ending(g, s) /\ g \in handlers'
    BY <2>2 DEF Becomes, Ending, IsEnder, IsCleanup
  <2>4. \A x \in handlers : x # h => x \in handlers'
    BY <2>2 DEF Becomes
  <2> QED
    BY <2>1, <2>2, <2>3, <2>4 DEF Recorded, Open, Ending, IsEnder, IsCleanup
<1>6. CASE ~(\/ AdvertiseStream(h) \/ Restore(h) \/ AppendSession(h) \/ DeleteMeta(h)
            \/ LoadSession(h) \/ DeleteSession(h) \/ LoadPending(h) \/ DeletePending(h))
  <2>1. UNCHANGED <<meta, written, seen>>
    BY <1>6
    DEF Handle, StoreStreamSession, LoadForLive, ClearPending, WriteOnline, RegisterSession, CountSession,
        WriteOffline, ReadMeta, KeepForResume, ReadLive, LoadLive, ReadRecord, RestoreSession, DeleteRecord,
        RemoveEvent, records, history
  <2>2. ~(Ending(h, s) /\ h.at \in BeforeAppend)
    <3> SUFFICES ASSUME Ending(h, s), h.at \in BeforeAppend PROVE FALSE
      OBVIOUS
    <3>1. IsEnder(h) /\ h.got # NoStream
      BY <1>0 DEF Ending
    <3> QED
      BY <1>6, <3>1
      DEF Handle, StoreStreamSession, LoadForLive, ClearPending, WriteOnline, RegisterSession, CountSession,
          WriteOffline, ReadMeta, KeepForResume, ReadLive, LoadLive, ReadRecord, RestoreSession, DeleteRecord,
          RemoveEvent, BeforeAppend, IsEnder, IsCleanup
  <2>3. \A x \in handlers : x # h => x \in handlers'
    BY HandleKeeps DEF Keeps, Ends, Becomes
  <2> QED
    BY <2>1, <2>2, <2>3 DEF Recorded, Open, Ending, IsEnder, IsCleanup
<1> QED
  BY <1>1, <1>2, <1>3, <1>4, <1>5, <1>6

LEMMA HandleFits ==
  ASSUME Typed, NEW h \in handlers, NEW s \in Streams, Handle(h), Fits(s)
  PROVE  Fits(s)'
<1>1. AdvertiseStream(h) \/ Preserves(s)
  <2>1. ASSUME \/ StoreStreamSession(h) \/ LoadForLive(h) \/ ClearPending(h) \/ (WriteOnline(h) /\ h.kind # "stop")
               \/ RegisterSession(h) \/ CountSession(h) \/ WriteOffline(h) \/ ReadLive(h) \/ LoadLive(h)
        PROVE  Preserves(s)
    BY <2>1, PlainSteps
  <2>2. WriteOnline(h) => Preserves(s)
    BY <2>1, StopEnds
  <2>3. LoadSession(h) \/ DeleteMeta(h) \/ DeleteSession(h) \/ LoadPending(h) \/ DeletePending(h) => Preserves(s)
    BY EnderSteps
  <2>4. ReadMeta(h) \/ AppendSession(h) \/ KeepForResume(h) => Preserves(s)
    BY ReadMetaStep, AppendStep, KeepStep
  <2>5. ReadRecord(h) \/ Restore(h) \/ RestoreSession(h) \/ DeleteRecord(h) \/ RemoveEvent(h) => Preserves(s)
    BY ReadRecordStep, RestoreStep, RestoredSteps, RemoveStep
  <2> QED
    BY <2>1, <2>2, <2>3, <2>4, <2>5 DEF Handle
<1>2. UNCHANGED <<generation, start>>
  BY DEF Handle, StoreStreamSession, LoadForLive, AdvertiseStream, ClearPending, WriteOnline,
        RegisterSession, CountSession, WriteOffline, ReadMeta, LoadSession, DeleteMeta,
        DeleteSession, LoadPending, DeletePending, AppendSession, KeepForResume, ReadLive,
        LoadLive, ReadRecord, Restore, RestoreSession, DeleteRecord, RemoveEvent, client
<1>3. torn \subseteq torn' /\ seen \subseteq seen'
  BY DEF Handle, StoreStreamSession, LoadForLive, AdvertiseStream, ClearPending, WriteOnline,
        RegisterSession, CountSession, WriteOffline, ReadMeta, LoadSession, DeleteMeta,
        DeleteSession, LoadPending, DeletePending, AppendSession, KeepForResume, ReadLive,
        LoadLive, ReadRecord, Restore, RestoreSession, DeleteRecord, RemoveEvent, Torn, history
<1>4. Keeps(h)
  BY HandleKeeps
<1>5. LiveFits(s)'
  <2>1. ASSUME NEW x \in handlers', x.kind \in {"live", "stop"}, x.s = s
        PROVE  s <= generation /\ s # start.s
    BY <1>4, <2>1 DEF Fits, LiveFits, Keeps, Ends, Becomes
  <2>2. ASSUME NEW x \in handlers', NEW y \in handlers', x.kind = "live", y.kind = "live", x.s = s, y.s = s
        PROVE  x = y
    BY <1>4, <2>2 DEF Fits, LiveFits, Keeps, Ends, Becomes
  <2> QED
    BY <1>2, <2>1, <2>2 DEF LiveFits
<1>6. ASSUME NEW x \in handlers', Told(x, s) PROVE \E y \in handlers : Told(y, s)
  BY <1>4, <1>6 DEF Keeps, Ends, Becomes
<1>7. s > generation' \/ start'.s = s \/ (\E x \in handlers' : Told(x, s)') => Untouched(s)
  BY <1>2, <1>6 DEF Fits, FreshFits, Told
<1>8. s \notin torn' => Recorded(s)'
  BY <1>3, HandleRecords DEF Fits
<1>9. CASE Preserves(s)
  BY <1>3, <1>5, <1>7, <1>8, <1>9 DEF Fits, FreshFits, Preserves
<1>10. CASE AdvertiseStream(h)
  <2>0. seen' = seen \cup {h.s}
    BY <1>10 DEF AdvertiseStream
  <2>1. s \notin torn' => Core(s)' /\ Recorded(s)'
    BY <1>3, <1>8, <1>10, AdvertiseStep DEF Fits
  <2>2. CASE h.s # s
    BY <1>5, <1>7, <1>10, <2>0, <2>1, <2>2, AdvertiseStep DEF Fits, FreshFits
  <2>3. CASE h.s = s
    <3>1. h.kind = "live" /\ Goes(h, "online")
      BY <1>10 DEF AdvertiseStream
    <3>2. s <= generation /\ s # start.s
      BY <2>3, <3>1 DEF Fits, LiveFits
    <3>3. PICK g \in Handlers : Next1(h, g, "online")
      BY <3>1, GoesOn DEF Places
    <3>4. \A x \in handlers' : x = g \/ (x \in handlers /\ x # h)
      BY <3>3 DEF Next1, Becomes
    <3>5. \A x \in handlers' : ~Told(x, s)
      BY <2>3, <3>1, <3>3, <3>4 DEF Fits, LiveFits, Told, Next1
    <3>6. ~(s > generation)
      BY <3>2, StreamsAreNumbers DEF Typed, TypeOK
    <3>7. FreshFits(s)'
      BY <1>2, <3>2, <3>5, <3>6 DEF FreshFits, Told
    <3> QED
      BY <1>5, <2>0, <2>1, <2>3, <3>7 DEF Fits
  <2> QED
    BY <2>2, <2>3
<1> QED
  BY <1>1, <1>9, <1>10

(* A call that was just made has read nothing.                               *)
LEMMA CallsArePlain ==
  ASSUME NEW kind, NEW of, NEW n, NEW at, NEW s \in Streams
  PROVE  Plain(Call(kind, of, n, at), s) /\ Call(kind, of, n, at).kind = kind /\ Call(kind, of, n, at).s = of
  BY StreamsAreNumbers DEF Call, NoRecord, Plain, Ending, Uses, Undoes

(* A step that leaves the records alone and makes calls; c is the one of the  *)
(* client about a stream.                                                  *)
LEMMA CallsFit ==
  ASSUME Typed, NEW s \in Streams, Fits(s), NEW c, Plain(c, s),
         UNCHANGED <<meta, resume, ledger, written, seen, torn>>,
         \A x \in handlers' : x \in handlers \/ x = c \/ (x.kind \notin {"live", "stop"} /\ Plain(x, s)),
         \A x \in handlers : x \in handlers' \/ Plain(x, s),
         generation' \in Nat, generation <= generation',
         start'.s = s => start.s = s \/ s > generation,
         c.kind \in {"live", "stop"} /\ c.s = s => s <= generation /\ s # start'.s,
         c.kind = "live" /\ c.s = s => start.s = s
  PROVE  Fits(s)'
<1>1. SameRecords(s)
  BY DEF SameRecords
<1>2. (Core(s) => Core(s)') /\ (Untouched(s) => Untouched(s)')
  BY <1>1, Spared
<1>3. generation \in Nat /\ s \in Nat
  BY StreamsAreNumbers DEF Typed, TypeOK
<1>4. LiveFits(s)'
  <2>1. ASSUME NEW x \in handlers', x.kind \in {"live", "stop"}, x.s = s
        PROVE  s <= generation' /\ s # start'.s
    BY <1>3, <2>1 DEF Fits, LiveFits
  <2>2. ASSUME NEW x \in handlers', NEW y \in handlers', x.kind = "live", y.kind = "live", x.s = s, y.s = s
        PROVE  x = y
    BY <2>2 DEF Fits, LiveFits
  <2> QED
    BY <2>1, <2>2 DEF LiveFits
<1>5. s > generation' => s > generation
  BY <1>3
<1>6. ASSUME NEW x \in handlers', Told(x, s) PROVE Untouched(s)
  BY <1>6 DEF Fits, FreshFits, Told
<1>7. FreshFits(s)'
  BY <1>2, <1>5, <1>6 DEF Fits, FreshFits, Told
<1>8. Recorded(s) => Recorded(s)'
  BY DEF Recorded, Open, Plain, Ending, IsEnder, IsCleanup
<1> QED
  BY <1>2, <1>4, <1>7, <1>8 DEF Fits

(* Where the client is with a stream.                                        *)
LEMMA StreamOfClient ==
  ASSUME IInv, NEW s \in Streams
  PROVE  /\ start.s = s \/ hosted = s => ~(s > generation) /\ s <= generation
         /\ hosted = s => start.s # s
<1>1. s \in Nat /\ generation \in Nat
  BY StreamsAreNumbers DEF IInv, Types
<1> QED
  BY <1>1, StreamsAreNumbers DEF IInv, Placed, Unused

LEMMA UserFits ==
  ASSUME IInv, Typed, NEW s \in Streams, Fits(s), User
  PROVE  Fits(s)'
<1>0. generation \in Nat /\ s \in Nat
  BY StreamsAreNumbers DEF Typed, TypeOK
<1>1. CASE StartStream
  <2> DEFINE t == generation + 1
             c == Call("start", t, 0, "store")
  <2>1. /\ generation' = t /\ start' = [NoStart EXCEPT !.s = t] /\ handlers' = handlers \cup {c}
        /\ UNCHANGED <<meta, resume, ledger, written, seen, torn>>
    BY <1>1 DEF StartStream, records, history
  <2>2. start'.s = t
    BY <2>1 DEF NoStart
  <2>3. Plain(c, s) /\ c.kind = "start"
    BY CallsArePlain
  <2> HIDE DEF c
  <2> QED
    BY <1>0, <2>1, <2>2, <2>3, CallsFit
<1>2. CASE EndStream
  <2> DEFINE c == StopCall(hosted)
  <2>1. /\ handlers \subseteq handlers' /\ handlers' \subseteq handlers \cup {c}
        /\ UNCHANGED <<generation, start, meta, resume, ledger, written, seen, torn>>
    BY <1>2 DEF EndStream, EndHostedStream, Sends, records, history
  <2>2. Plain(c, s) /\ c.kind = "stop" /\ c.s = hosted
    BY CallsArePlain DEF StopCall
  <2> HIDE DEF c
  <2> QED
    BY <1>0, <2>1, <2>2, CallsFit, StreamOfClient
<1>3. CASE CancelStart
  <2> DEFINE c == StopCall(start.s)
  <2>1. /\ handlers \subseteq handlers' /\ handlers' \subseteq handlers \cup {c} /\ start' = NoStart
        /\ UNCHANGED <<generation, meta, resume, ledger, written, seen, torn>>
    BY <1>3 DEF CancelStart, CancelHostStart, Sends, records, history
  <2>2. Plain(c, s) /\ c.kind = "stop" /\ c.s = start.s
    BY CallsArePlain DEF StopCall
  <2>3. start'.s # s
    BY <2>1, NoStartIsAStart, StreamsAreNumbers
  <2> HIDE DEF c
  <2> QED
    BY <1>0, <2>1, <2>2, <2>3, CallsFit, StreamOfClient
<1>4. CASE Logout
  <2> DEFINE c == Call("end", NoStream, drops + 1, "count")
  <2>1. /\ handlers \subseteq handlers' /\ handlers' \subseteq handlers \cup {c}
        /\ UNCHANGED <<generation, start, meta, resume, ledger, written, seen, torn>>
    BY <1>4 DEF Logout, LoseSocket, records, history
  <2>2. Plain(c, s) /\ c.kind = "end"
    BY CallsArePlain
  <2> HIDE DEF c
  <2> QED
    BY <1>0, <2>1, <2>2, CallsFit
<1> QED
  BY <1>1, <1>2, <1>3, <1>4 DEF User

LEMMA TakeReportFits ==
  ASSUME IInv, Typed, NEW s \in Streams, Fits(s), TakeReport
  PROVE  Fits(s)'
<1> DEFINE r == Head(reports)
<1>0. generation \in Nat /\ s \in Nat
  BY StreamsAreNumbers DEF Typed, TypeOK
<1>1. /\ UNCHANGED <<generation, meta, resume, ledger, written, seen, torn>>
      /\ DropReport(r) \/ FailHostStart(r) \/ TakeStep(r)
  BY DEF TakeReport, records, history
<1>2. r \in StepReports
  BY ReportIsTaken DEF TakeReport, IInv, Types
<1>3. r.s \in Streams /\ r.of \in Steps
  BY <1>2 DEF StepReports
<1> HIDE DEF r
<1>4. CASE DropReport(r)
  <2> DEFINE c == Call("gc", NoStream, 0, "read")
  <2>1. Plain(c, s) /\ c.kind = "gc"
    BY CallsArePlain
  <2>2. handlers' = handlers /\ start' = start
    BY <1>4 DEF DropReport
  <2> HIDE DEF c
  <2> QED
    BY <1>0, <1>1, <2>1, <2>2, CallsFit
<1>5. CASE FailHostStart(r)
  <2> DEFINE c == StopCall(start.s)
  <2>1. /\ handlers \subseteq handlers' /\ handlers' \subseteq handlers \cup {c} /\ start' = NoStart
    BY <1>5 DEF FailHostStart, CancelHostStart, Sends
  <2>2. Plain(c, s) /\ c.kind = "stop" /\ c.s = start.s
    BY CallsArePlain DEF StopCall
  <2>3. start'.s # s
    BY <2>1, NoStartIsAStart, StreamsAreNumbers
  <2> HIDE DEF c
  <2> QED
    BY <1>0, <1>1, <2>1, <2>2, <2>3, CallsFit, StreamOfClient
<1>6. CASE TakeStep(r)
  <2> DEFINE c == Call("live", start.s, 0, "load")
  <2>1. start \in Starts /\ start.s = r.s
    BY <1>6 DEF IInv, Types, TakeStep
  <2>2. \/ start' = NoStart /\ handlers' \in {handlers, handlers \cup {c}}
        \/ start'.s = start.s /\ handlers' = handlers
    BY <1>3, <1>6, <2>1 DEF TakeStep, Sends, Starts, Steps
  <2>3. Plain(c, s) /\ c.kind = "live" /\ c.s = start.s
    BY CallsArePlain
  <2>4. start' = NoStart => start'.s # s
    BY NoStartIsAStart, StreamsAreNumbers
  <2> HIDE DEF c
  <2>5. CASE start' = NoStart /\ handlers' \in {handlers, handlers \cup {c}}
    BY <1>0, <1>1, <2>3, <2>4, <2>5, CallsFit, StreamOfClient
  <2>6. CASE start'.s = start.s /\ handlers' = handlers
    <3> DEFINE d == Call("gc", NoStream, 0, "read")
    <3>1. Plain(d, s) /\ d.kind = "gc"
      BY CallsArePlain
    <3> HIDE DEF d
    <3> QED
      BY <1>0, <1>1, <2>6, <3>1, CallsFit
  <2> QED
    BY <2>2, <2>5, <2>6
<1> QED
  BY <1>1, <1>4, <1>5, <1>6

LEMMA NetworkFits ==
  ASSUME IInv, Typed, NEW s \in Streams, Fits(s), Network \/ \E h \in handlers : ResumeAnswered(h)
  PROVE  Fits(s)'
<1>0. generation \in Nat /\ s \in Nat
  BY StreamsAreNumbers DEF Typed, TypeOK
<1>1. /\ UNCHANGED <<generation, meta, resume, ledger, written, seen, torn>>
      /\ start' \in {start, NoStart}
  BY DEF Network, SocketDrops, AppExits, Login, Reconnect, ResumeTimesOut, ResumeFails, CallIsLost,
         ResumeAnswered, records, history, client
<1>2. start'.s = s => start.s = s
  BY <1>1, NoStartIsAStart, StreamsAreNumbers
<1> DEFINE c == StopCall(hosted)
<1>3. Plain(c, s) /\ c.kind = "stop" /\ c.s = hosted
  BY CallsArePlain DEF StopCall
<1>4. c.s = s => s <= generation /\ s # start'.s
  BY <1>2, <1>3, StreamOfClient
<1>5. \A h \in handlers : h.at \in {"ok", "refused"} => Plain(h, s)
  <2> SUFFICES ASSUME NEW h \in handlers, h.at \in {"ok", "refused"} PROVE Plain(h, s)
    OBVIOUS
  <2>1. h.kind = "resume"
    BY WhereItIs
  <2> QED
    BY <2>1 DEF Plain, Ending, IsEnder, IsCleanup, Uses, Undoes
<1>6. /\ \A x \in handlers' : x \in handlers \/ x = c \/ (x.kind \notin {"live", "stop"} /\ Plain(x, s))
      /\ \A x \in handlers : x \in handlers' \/ Plain(x, s)
  <2>1. CASE SocketDrops \/ AppExits
    <3> DEFINE e == Call("end", NoStream, drops + 1, "count")
    <3>1. Plain(e, s) /\ e.kind = "end"
      BY CallsArePlain
    <3>2. \A x \in handlers' : x \in handlers \/ x = e
      BY <2>1 DEF SocketDrops, AppExits, LoseSocket
    <3>3. \A x \in handlers : x \in handlers' \/ x.at \in {"ok", "refused"}
      BY <2>1 DEF SocketDrops, AppExits, LoseSocket
    <3> QED
      BY <1>5, <3>1, <3>2, <3>3
  <2>2. CASE Reconnect
    <3>1. ASSUME NEW x \in handlers', x \notin handlers
          PROVE  x.kind \notin {"live", "stop"} /\ Plain(x, s)
      <4>1. x = Call("begin", NoStream, drops, "register") \/ x = Call("resume", hosted, drops, "read")
        BY <2>2, <3>1 DEF Reconnect
      <4> QED
        BY <4>1, CallsArePlain
    <3> QED
      BY <2>2, <3>1 DEF Reconnect
  <2>3. CASE ResumeTimesOut \/ ResumeFails
    BY <2>3 DEF ResumeTimesOut, ResumeFails, EndHostedStream, Sends
  <2>6. CASE Login
    <3>1. handlers' = handlers \cup {Call("begin", NoStream, drops, "register")}
      BY <2>6 DEF Login
    <3> QED
      BY <3>1, CallsArePlain
  <2>4. ASSUME NEW h \in handlers, CallIsLost(h)
        PROVE  handlers' \subseteq handlers /\ \A x \in handlers : x \in handlers' \/ Plain(x, s)
    <3>1. h.got = NoStream /\ h.kind # "resume" /\ handlers' = handlers \ {h}
      BY <2>4, WhereItIs DEF CallIsLost, Ends, WellFormed, IsEnder, IsCleanup
    <3> QED
      BY <3>1, StreamsAreNumbers DEF Plain, Ending, Uses, Undoes
  <2>5. ASSUME NEW h \in handlers, ResumeAnswered(h)
        PROVE  handlers' \subseteq handlers \cup {c} /\ \A x \in handlers : x \in handlers' \/ Plain(x, s)
    BY <1>5, <2>5 DEF ResumeAnswered
  <2> QED
    BY <2>1, <2>2, <2>3, <2>4, <2>5, <2>6 DEF Network
<1> HIDE DEF c
<1> QED
  BY <1>0, <1>1, <1>2, <1>3, <1>4, <1>6, CallsFit

LEMMA NextFits ==
  ASSUME IInv, Typed, [Next]_vars, NEW s \in Streams, Fits(s)
  PROVE  Fits(s)'
<1> DEFINE c == Call("gc", NoStream, 0, "read")
<1>0. generation \in Nat /\ Plain(c, s) /\ c.kind = "gc"
  <2>1. generation \in Nat
    BY DEF Typed, TypeOK
  <2> QED
    BY <2>1, CallsArePlain
<1>1. CASE StreamGC
  <2>1. handlers' = handlers \cup {c} /\ UNCHANGED <<generation, start, meta, resume, ledger, written, seen, torn>>
    BY <1>1 DEF StreamGC, client, records, history
  <2> HIDE DEF c
  <2> QED
    BY <1>0, <2>1, CallsFit
<1>2. ASSUME NEW t \in Streams, TaskStep(t)
      PROVE  Fits(s)'
  <2>1. UNCHANGED <<generation, start, meta, resume, ledger, written, seen, torn>>
    BY <1>2 DEF TaskStep, RpcAnswered, RpcFails, StepEnds, records, history
  <2> DEFINE d == Call("start", t, 0, "store")
  <2>2. handlers' \subseteq handlers /\ handlers \subseteq handlers' \cup {d}
    BY <1>2 DEF TaskStep, RpcAnswered, RpcFails, StepEnds
  <2>3. Plain(d, s)
    BY CallsArePlain
  <2> HIDE DEF c, d
  <2> QED
    BY <1>0, <2>1, <2>2, <2>3, CallsFit
<1>3. CASE UNCHANGED vars
  <2>1. UNCHANGED <<generation, start, meta, resume, ledger, written, seen, torn, handlers>>
    BY <1>3 DEF vars, client, records, history
  <2> HIDE DEF c
  <2> QED
    BY <1>0, <2>1, CallsFit
<1> QED
  BY <1>1, <1>2, <1>3, UserFits, TakeReportFits, NetworkFits, HandleFits DEF Next, Backend

LEMMA InitFits ==
  ASSUME Init, NEW s \in Streams
  PROVE  Fits(s)
<1>1. handlers = {} /\ meta # s /\ resume.s # s /\ written[s] = 0 /\ ledger = {} /\ s \notin seen
  BY RecordsAreTyped, StreamsAreNumbers DEF Init
<1>2. Untouched(s)
  BY <1>1 DEF Untouched
<1>3. Core(s)
  BY <1>1 DEF Core, OneEnder, OneUser, PastMeta, RecordFits, RestoreFits, KeepFits, UndoFits, LedgerFits, StillThere
<1> QED
  BY <1>1, <1>2, <1>3 DEF Fits, FreshFits, LiveFits, Recorded

LEMMA FitsAlways == Spec => [](Typed /\ \A s \in Streams : Fits(s))
<1>1. Init => Typed /\ \A s \in Streams : Fits(s)
  BY InitTyped, InitFits
<1>2. IInv /\ Typed /\ (\A s \in Streams : Fits(s)) /\ [Next]_vars => (Typed /\ \A s \in Streams : Fits(s))'
  BY NextTyped, NextFits DEF Streams
<1> QED
  BY <1>1, <1>2, IInvAlways, PTL DEF Spec

(* Every handler makes the calls of its kind, with the types of the module.  *)
THEOREM TypeCorrect == Spec => []TypeOK
<1>1. Typed => TypeOK
  BY DEF Typed
<1> QED
  BY <1>1, FitsAlways, PTL

(* A stream that the crew saw and that is over is in its ledger once, one that *)
(* goes on or was never advertised is not, for any number of starts, lost      *)
(* sockets, lost RPCs and sign-outs: StopStreamRPC, cleanupStreamIfHost and    *)
(* resumeStream of streaming.go.                                            *)
THEOREM EndedIsRecordedOnce == Spec => []OneEventPerStream
<1>1. ASSUME Typed, \A s \in Streams : Fits(s) PROVE OneEventPerStream
  <2> SUFFICES ASSUME Settled, NEW s \in Streams \ torn
               PROVE  Cardinality(Events(s)) = IF s \in seen /\ meta # s THEN 1 ELSE 0
    BY DEF OneEventPerStream
  <2>1. \A n \in Nat : <<s, n>> \in ledger <=> meta # s /\ n = written[s] /\ n > 0
    BY <1>1 DEF Settled, Fits, Core, LedgerFits, StillThere, Open
  <2>2. ledger \subseteq Streams \X Nat /\ written[s] \in Nat
    BY <1>1 DEF Typed, TypeOK
  <2>3. meta # s => (s \in seen <=> written[s] > 0)
    BY <1>1, <2>2 DEF Settled, Fits, Recorded, Untouched, Open
  <2>4. CASE s \in seen /\ meta # s
    <3>1. Events(s) = {<<s, written[s]>>}
      BY <2>1, <2>2, <2>3, <2>4 DEF Events
    <3> QED
      BY <2>4, <3>1, FS_Singleton
  <2>5. CASE ~(s \in seen /\ meta # s)
    <3>1. Events(s) = {}
      BY <2>1, <2>2, <2>3, <2>5 DEF Events
    <3> QED
      BY <2>5, <3>1, FS_EmptySet
  <2> QED
    BY <2>4, <2>5
<1> QED
  BY <1>1, FitsAlways, PTL

-----------------------------------------------------------------------------
(* A live host is found                                                    *)

(* The resume the client waits for is the newest, of the stream it hosts; a    *)
(* client with a socket has a session.                                       *)
Numbered ==
  /\ ~socket => drops > 0
  /\ socket => signedIn
  /\ \A h \in handlers : h.kind = "resume" =>
       /\ h.n <= drops /\ (h.n = drops => socket)
       /\ Awaited(h) => h.s = hosted

LEMMA NumberedKept ==
  ASSUME Numbered, UNCHANGED <<drops, socket>>, socket => signedIn', awaiting' = 0 \/ UNCHANGED <<awaiting, hosted>>,
         \A g \in handlers' : g.kind = "resume" =>
           \E h \in handlers : h.kind = "resume" /\ h.n = g.n /\ h.s = g.s
  PROVE  Numbered'
<1>1. ASSUME NEW g \in handlers', g.kind = "resume"
      PROVE  g.n <= drops /\ (g.n = drops => socket) /\ (Awaited(g)' => g.s = hosted')
  <2>1. PICK h \in handlers : h.kind = "resume" /\ h.n = g.n /\ h.s = g.s
    BY <1>1
  <2> QED
    BY <2>1 DEF Numbered, Awaited
<1> QED
  BY <1>1 DEF Numbered

(* What a call of a handler leaves alone.                                    *)
LEMMA HandleFrame ==
  ASSUME NEW h \in handlers, Handle(h)
  PROVE  /\ UNCHANGED <<generation, start, hosted, tasks, reports, awaiting, socket, signedIn, drops>>
         /\ torn \subseteq torn' /\ hidden \subseteq hidden'
<1> USE DEF client, bounds, history, records, online, Torn
<1>1. CASE StoreStreamSession(h) \/ LoadForLive(h) \/ AdvertiseStream(h) \/ ClearPending(h)
  BY <1>1 DEF StoreStreamSession, LoadForLive, AdvertiseStream, ClearPending
<1>2. CASE WriteOnline(h) \/ RegisterSession(h) \/ CountSession(h) \/ WriteOffline(h)
  BY <1>2 DEF WriteOnline, RegisterSession, CountSession, WriteOffline
<1>3. CASE ReadMeta(h) \/ LoadSession(h) \/ DeleteMeta(h) \/ DeleteSession(h)
  BY <1>3 DEF ReadMeta, LoadSession, DeleteMeta, DeleteSession
<1>4. CASE LoadPending(h) \/ DeletePending(h) \/ AppendSession(h) \/ KeepForResume(h)
  BY <1>4 DEF LoadPending, DeletePending, AppendSession, KeepForResume
<1>5. CASE ReadLive(h) \/ LoadLive(h) \/ ReadRecord(h) \/ Restore(h)
  BY <1>5 DEF ReadLive, LoadLive, ReadRecord, Restore
<1>6. CASE RestoreSession(h) \/ DeleteRecord(h) \/ RemoveEvent(h)
  BY <1>6 DEF RestoreSession, DeleteRecord, RemoveEvent
<1> QED
  BY <1>1, <1>2, <1>3, <1>4, <1>5, <1>6 DEF Handle

LEMMA NextNumbered ==
  ASSUME Typed, Numbered, [Next]_vars
  PROVE  Numbered'
<1>0. drops \in Nat
  BY DEF Typed, TypeOK
<1>1. CASE \E h \in handlers : Handle(h)
  <2>1. PICK h \in handlers : Handle(h)
    BY <1>1
  <2>2. \A g \in handlers' : g \in handlers \/ (g.kind = h.kind /\ g.n = h.n /\ g.s = h.s)
    BY <2>1, HandleKeeps DEF Keeps, Ends, Becomes
  <2>3. UNCHANGED <<drops, socket, signedIn, awaiting, hosted>>
    BY <2>1, HandleFrame
  <2> QED
    BY <2>2, <2>3, NumberedKept DEF Numbered
<1>2. CASE SocketDrops \/ AppExits \/ Logout
  <2>1. /\ awaiting' = 0 \/ UNCHANGED <<awaiting, hosted>>
        /\ \/ UNCHANGED <<drops, socket>> /\ ~socket
           \/ socket' = FALSE /\ drops' = drops + 1
        /\ \A g \in handlers' : g \in handlers \/ g = Call("end", NoStream, drops + 1, "count")
    BY <1>2 DEF SocketDrops, AppExits, Logout, LoseSocket
  <2>2. Call("end", NoStream, drops + 1, "count").kind # "resume"
    BY DEF Call
  <2>3. CASE UNCHANGED <<drops, socket>> /\ ~socket
    BY <2>1, <2>2, <2>3, NumberedKept
  <2>4. CASE socket' = FALSE /\ drops' = drops + 1
    <3>1. ASSUME NEW g \in handlers', g.kind = "resume"
          PROVE  g.n <= drops' /\ (g.n = drops' => socket') /\ (Awaited(g)' => g.s = hosted')
      <4>1. g \in handlers /\ g.n \in Nat
        BY <2>1, <2>2, <3>1 DEF Typed, TypeOK, Handlers
      <4> QED
        BY <1>0, <2>1, <2>4, <3>1, <4>1 DEF Numbered, Awaited
    <3> QED
      BY <1>0, <2>4, <3>1 DEF Numbered
  <2> QED
    BY <2>1, <2>3, <2>4
<1>3. CASE Reconnect \/ Login
  <2> DEFINE b == Call("begin", NoStream, drops, "register")
             c == Call("resume", hosted, drops, "read")
  <2>1. b.kind = "begin" /\ c.kind = "resume" /\ c.n = drops /\ c.s = hosted
    BY DEF Call
  <2>2. /\ ~socket /\ socket' = TRUE /\ signedIn' = TRUE /\ drops' = drops /\ hosted' = hosted
        /\ awaiting' \in {drops, 0}
        /\ \A g \in handlers' : g \in handlers \/ g = b \/ g = c
    <3>1. signedIn \in BOOLEAN
      BY DEF Typed, TypeOK
    <3> QED
      BY <1>3, <3>1 DEF Reconnect, Login, Numbered, bounds
  <2> HIDE DEF b, c
  <2>3. ASSUME NEW g \in handlers', g.kind = "resume"
        PROVE  g.n <= drops' /\ (g.n = drops' => socket') /\ (Awaited(g)' => g.s = hosted')
    <3>1. CASE g = c
      BY <1>0, <2>1, <2>2, <3>1
    <3>2. CASE g \in handlers
      BY <1>0, <2>2, <2>3, <3>2 DEF Numbered, Awaited
    <3> QED
      BY <2>1, <2>2, <2>3, <3>1, <3>2
  <2> QED
    BY <2>2, <2>3 DEF Numbered
<1>4. CASE StartStream \/ EndStream \/ CancelStart \/ TakeReport \/ StreamGC
  <2>1. /\ UNCHANGED <<drops, socket, signedIn>>
        /\ awaiting' = 0 \/ UNCHANGED <<awaiting, hosted>>
    BY <1>4 DEF StartStream, EndStream, CancelStart, TakeReport, StreamGC, client, bounds
  <2>2. \A g \in handlers' : g \in handlers \/
          \E kind \in {"start", "live", "stop", "gc"} : \E s, at : g = Call(kind, s, 0, at)
    <3>1. CASE TakeReport
      BY <3>1 DEF TakeReport, DropReport, FailHostStart, TakeStep, CancelHostStart, Sends, StopCall
    <3> QED
      BY <1>4, <3>1
      DEF StartStream, EndStream, CancelStart, EndHostedStream, CancelHostStart, Sends, StopCall, StreamGC
  <2>3. \A g \in handlers' : g.kind = "resume" => g \in handlers
    BY <2>2 DEF Call
  <2> QED
    BY <2>1, <2>3, NumberedKept DEF Numbered
<1>5. CASE ResumeTimesOut \/ ResumeFails \/ (\E h \in handlers : CallIsLost(h) \/ ResumeAnswered(h)) \/ (\E s \in Streams : TaskStep(s))
  <2>1. /\ UNCHANGED <<drops, socket, signedIn>>
        /\ awaiting' = 0 \/ UNCHANGED <<awaiting, hosted>>
    BY <1>5 DEF ResumeTimesOut, ResumeFails, CallIsLost, ResumeAnswered, TaskStep, RpcAnswered, RpcFails, StepEnds, client, bounds
  <2>2. \A g \in handlers' : g \in handlers \/ g = StopCall(hosted)
    <3>1. CASE ResumeTimesOut \/ ResumeFails
      BY <3>1 DEF ResumeTimesOut, ResumeFails, EndHostedStream, Sends
    <3>2. CASE \E h \in handlers : CallIsLost(h) \/ ResumeAnswered(h)
      BY <3>2 DEF CallIsLost, ResumeAnswered, Ends
    <3>3. CASE \E s \in Streams : TaskStep(s)
      BY <3>3 DEF TaskStep, RpcAnswered, RpcFails, StepEnds
    <3> QED
      BY <1>5, <3>1, <3>2, <3>3
  <2>3. StopCall(hosted).kind = "stop"
    BY DEF StopCall, Call
  <2> QED
    BY <2>1, <2>2, <2>3, NumberedKept DEF Numbered
<1>6. CASE UNCHANGED vars
  BY <1>6, NumberedKept DEF vars, client, bounds, Numbered
<1> QED
  BY <1>1, <1>2, <1>3, <1>4, <1>5, <1>6 DEF Next, User, Network, Backend

(* The session of a stream, and who may change it.                           *)
LEMMA SessionsMove ==
  ASSUME Typed, NEW h \in handlers, Handle(h), NEW s \in Streams
  PROVE  \/ sessions'[s] = sessions[s]
         \/ StoreStreamSession(h) /\ h.s = s /\ sessions'[s] = "pending"
         \/ ClearPending(h) /\ h.s = s
         \/ Ending(h, s)
         \/ h.kind = "stop" /\ h.s = s
         \/ RestoreSession(h) /\ Uses(h, s) /\ sessions'[s] # "none"
<1>0. /\ h.s \in Streams \cup {NoStream} /\ sessions \in [Streams -> {"none", "pending", "live"}]
      /\ WellFormed(h) /\ h.rec \in Records
  BY WhereItIs DEF Typed, TypeOK
<1>1. CASE StoreStreamSession(h)
  BY <1>0, <1>1 DEF StoreStreamSession
<1>2. CASE ClearPending(h)
  BY <1>0, <1>2 DEF ClearPending
<1>3. CASE DeleteSession(h)
  BY <1>0, <1>3, WhereItIs DEF DeleteSession, Ending
<1>4. CASE DeletePending(h)
  BY <1>0, <1>4, WhereItIs DEF DeletePending
<1>5. CASE RestoreSession(h)
  <2>1. h.rec.s = h.s /\ h.rec.session # "none" /\ h.s \in Streams
    BY <1>0, <1>5 DEF RestoreSession, WellFormed
  <2> QED
    BY <1>0, <1>5, <2>1 DEF RestoreSession, Uses
<1>6. CASE UNCHANGED sessions
  BY <1>6
<1>7. UNCHANGED sessions \/ StoreStreamSession(h) \/ ClearPending(h) \/ DeleteSession(h) \/ DeletePending(h) \/ RestoreSession(h)
  <2> USE DEF client, records, online, bounds, history
  <2>1. CASE LoadForLive(h) \/ AdvertiseStream(h) \/ WriteOnline(h) \/ RegisterSession(h) \/ CountSession(h) \/ WriteOffline(h)
    BY <2>1 DEF LoadForLive, AdvertiseStream, WriteOnline, RegisterSession, CountSession, WriteOffline
  <2>2. CASE ReadMeta(h) \/ LoadSession(h) \/ DeleteMeta(h) \/ LoadPending(h) \/ AppendSession(h) \/ KeepForResume(h)
    BY <2>2 DEF ReadMeta, LoadSession, DeleteMeta, LoadPending, AppendSession, KeepForResume
  <2>3. CASE ReadLive(h) \/ LoadLive(h) \/ ReadRecord(h) \/ Restore(h) \/ DeleteRecord(h) \/ RemoveEvent(h)
    BY <2>3 DEF ReadLive, LoadLive, ReadRecord, Restore, DeleteRecord, RemoveEvent
  <2> QED
    BY <2>1, <2>2, <2>3 DEF Handle
<1> QED
  BY <1>1, <1>2, <1>3, <1>4, <1>5, <1>6, <1>7

(* A stream has no session that is not pending before its stream_live; what   *)
(* the start in flight has done besides its RPC follows the stored session.  *)
NotLive(s) == s > generation \/ start.s = s => sessions[s] # "live"
Done(i, s) == reports[i].s = s /\ reports[i].ok
Answered(s) ==
  start.s = s /\ sessions[s] # "pending" =>
    /\ tasks[s] \subseteq {"rpc"} /\ ~start.native /\ ~start.conn
    /\ \A i \in DOMAIN reports : ~Done(i, s)

(* A stream that is hosted is not stopped.                                   *)
NoStop(s) == \A h \in handlers : h.kind = "stop" /\ h.s = s => s # hosted

Starting(s) == NotLive(s) /\ Answered(s) /\ NoStop(s)

LEMMA HandleStarting ==
  ASSUME Typed, NEW s \in Streams, NEW h \in handlers, Handle(h), Fits(s), Starting(s)
  PROVE  Starting(s)'
<1>1. UNCHANGED <<generation, start, hosted, tasks, reports>>
  BY HandleFrame
<1>2. ASSUME s > generation \/ start.s = s
      PROVE  sessions'[s] \in {sessions[s], "pending"}
  <2>1. Untouched(s)
    BY <1>2 DEF Fits, FreshFits
  <2>2. ~Ending(h, s) /\ ~Uses(h, s)
    BY <2>1 DEF Untouched, Plain
  <2>3. ~(h.kind \in {"live", "stop"} /\ h.s = s)
    <3>1. h.kind \in {"live", "stop"} /\ h.s = s => s <= generation /\ s # start.s
      BY DEF Fits, LiveFits
    <3>2. s \in Nat /\ generation \in Nat
      BY StreamsAreNumbers DEF Typed, TypeOK
    <3> QED
      BY <1>2, <3>1, <3>2
  <2> QED
    BY <2>2, <2>3, SessionsMove DEF ClearPending
<1>3. NotLive(s)'
  BY <1>1, <1>2 DEF Starting, NotLive
<1>4. Answered(s)'
  BY <1>1, <1>2 DEF Starting, Answered, Done
<1>5. \A g \in handlers' : g \in handlers \/ (g.kind = h.kind /\ g.s = h.s)
  BY HandleKeeps DEF Keeps, Ends, Becomes
<1>6. NoStop(s)'
  BY <1>1, <1>5 DEF Starting, NoStop
<1> QED
  BY <1>3, <1>4, <1>6 DEF Starting

(* The start is over, or was never that of s.                                *)
LEMMA StartingEnds ==
  ASSUME NEW s \in Streams, Typed, Starting(s), sessions' = sessions, start'.s # s,
         generation' \in Nat, generation <= generation',
         hosted' = s => hosted = s \/ start.s = s,
         \A g \in handlers' : g.kind = "stop" /\ g.s = s => g \in handlers \/ hosted' # s,
         hosted' = s /\ start.s = s => \A g \in handlers : ~(g.kind = "stop" /\ g.s = s)
  PROVE  Starting(s)'
<1>1. NotLive(s)'
  BY StreamsAreNumbers DEF Typed, TypeOK, Starting, NotLive
<1>2. Answered(s)'
  BY DEF Answered
<1>3. NoStop(s)'
  BY DEF Starting, NoStop
<1> QED
  BY <1>1, <1>2, <1>3 DEF Starting

(* Steps that say nothing of the start.                                      *)
LEMMA StartingStays ==
  ASSUME NEW s \in Streams, Starting(s), UNCHANGED <<generation, start, sessions>>,
         hosted' = hosted \/ hosted' # s,
         start.s = s /\ sessions[s] # "pending" =>
           /\ tasks'[s] \subseteq tasks[s]
           /\ \A i \in DOMAIN reports' : Done(i, s)' => \E j \in DOMAIN reports : Done(j, s),
         \A g \in handlers' : g.kind = "stop" /\ g.s = s => g \in handlers \/ hosted' # s
  PROVE  Starting(s)'
<1>1. NotLive(s)'
  BY DEF Starting, NotLive
<1>2. Answered(s)'
  BY DEF Starting, Answered
<1>3. NoStop(s)'
  BY DEF Starting, NoStop
<1> QED
  BY <1>1, <1>2, <1>3 DEF Starting

LEMMA DoneIsReported ==
  ASSUME NEW s \in Streams, reports \in Seq(StepReports)
  PROVE  /\ reports # <<>> /\ reports' = Tail(reports) =>
              \A i \in DOMAIN reports' : Done(i, s)' => \E j \in DOMAIN reports : Done(j, s)
         /\ \A of \in Steps, t \in Streams, ok \in BOOLEAN : Report(of, t, ok) =>
              \A i \in DOMAIN reports' : Done(i, s)' => (t = s /\ ok) \/ \E j \in DOMAIN reports : Done(j, s)
         /\ (\E j \in DOMAIN reports : Done(j, s)) => Mentioned(s)
<1>1. ASSUME reports # <<>>, reports' = Tail(reports), NEW i \in DOMAIN reports', Done(i, s)'
      PROVE  \E j \in DOMAIN reports : Done(j, s)
  <2>1. i \in 1..(Len(reports) - 1) /\ reports'[i] = reports[i + 1] /\ i + 1 \in DOMAIN reports
    BY <1>1
  <2> QED
    BY <1>1, <2>1 DEF Done
<1>2. ASSUME NEW of \in Steps, NEW t \in Streams, NEW ok \in BOOLEAN, Report(of, t, ok), NEW i \in DOMAIN reports', Done(i, s)'
      PROVE  (t = s /\ ok) \/ \E j \in DOMAIN reports : Done(j, s)
  <2>1. (i \in DOMAIN reports /\ reports'[i] = reports[i]) \/ reports'[i] = [of |-> of, s |-> t, ok |-> ok]
    BY <1>2 DEF Report
  <2> QED
    BY <1>2, <2>1 DEF Done
<1>3. (\E j \in DOMAIN reports : Done(j, s)) => Mentioned(s)
  BY DEF Done, Mentioned
<1> QED
  BY <1>1, <1>2, <1>3

LEMMA UserStarting ==
  ASSUME IInv, Typed, NEW s \in Streams, Fits(s), Starting(s), User
  PROVE  Starting(s)'
<1>0. /\ generation \in Nat /\ NoStart.s # s /\ StopCall(start.s).s = start.s
      /\ ~(hosted = s /\ start.s = s)
  BY StreamOfClient, NoStartIsAStart, StreamsAreNumbers DEF Typed, TypeOK, StopCall, Call
<1>1. CASE StartStream
  <2> DEFINE c == Call("start", generation + 1, 0, "store")
  <2>1. /\ generation' = generation + 1 /\ start' = [NoStart EXCEPT !.s = generation + 1]
        /\ tasks' = [tasks EXCEPT ![generation + 1] = {"rpc"}]
        /\ handlers' = handlers \cup {c} /\ c.kind = "start"
        /\ UNCHANGED <<hosted, reports, sessions>>
    BY <1>1 DEF StartStream, records, Call
  <2> HIDE DEF c
  <2>2. start'.s = generation + 1 /\ ~start'.native /\ ~start'.conn
    BY <2>1 DEF NoStart
  <2>3. CASE s = generation + 1
    <3>1. s > generation
      BY <1>0, <2>3
    <3>2. NotLive(s)'
      BY <2>1, <3>1 DEF Starting, NotLive
    <3>3. \A i \in DOMAIN reports : ~Done(i, s)
      BY <3>1, DoneIsReported DEF IInv, Types, Placed, Unused
    <3>4. tasks'[s] = {"rpc"}
      BY <2>1, <2>3 DEF IInv, Types
    <3>5. Answered(s)'
      BY <2>1, <2>2, <3>3, <3>4 DEF Answered, Done
    <3>6. NoStop(s)'
      BY <2>1 DEF Starting, NoStop
    <3> QED
      BY <3>2, <3>5, <3>6 DEF Starting
  <2>4. CASE s # generation + 1
    BY <1>0, <2>1, <2>2, <2>4, StartingEnds
  <2> QED
    BY <2>3, <2>4
<1>2. CASE EndStream
  <2>1. /\ UNCHANGED <<generation, start, sessions, tasks, reports>> /\ hosted' = NoStream
    BY <1>2 DEF EndStream, EndHostedStream, records
  <2> QED
    BY <2>1, StartingStays, StreamsAreNumbers DEF Done
<1>3. CASE CancelStart
  <2>1. /\ start' = NoStart /\ UNCHANGED <<generation, hosted, sessions>>
        /\ \A g \in handlers' : g \in handlers \/ g = StopCall(start.s)
    BY <1>3 DEF CancelStart, CancelHostStart, Sends, records
  <2> QED
    BY <1>0, <2>1, StartingEnds
<1>4. CASE Logout
  <2>1. /\ UNCHANGED <<generation, start, sessions, tasks, reports, hosted>>
        /\ \A g \in handlers' : g \in handlers \/ g = Call("end", NoStream, drops + 1, "count")
    BY <1>4 DEF Logout, LoseSocket, records
  <2>2. Call("end", NoStream, drops + 1, "count").kind = "end"
    BY DEF Call
  <2> QED
    BY <2>1, <2>2, StartingStays DEF Done
<1> QED
  BY <1>1, <1>2, <1>3, <1>4 DEF User

LEMMA TakeReportStarting ==
  ASSUME IInv, Typed, NEW s \in Streams, Fits(s), Starting(s), TakeReport
  PROVE  Starting(s)'
<1> DEFINE r == Head(reports)
<1>0. /\ generation \in Nat /\ NoStart.s # s /\ StopCall(start.s).s = start.s
      /\ ~(hosted = s /\ start.s = s) /\ reports \in Seq(StepReports) /\ start \in Starts
  BY StreamOfClient, NoStartIsAStart, StreamsAreNumbers DEF Typed, TypeOK, StopCall, Call, StepReports
<1>1. /\ reports # <<>> /\ reports' = Tail(reports) /\ UNCHANGED <<generation, sessions>>
      /\ DropReport(r) \/ FailHostStart(r) \/ TakeStep(r)
  BY DEF TakeReport, records
<1>2. r = reports[1] /\ 1 \in DOMAIN reports /\ r \in StepReports
  BY <1>0, <1>1
<1>3. \A i \in DOMAIN reports' : Done(i, s)' => \E j \in DOMAIN reports : Done(j, s)
  BY <1>0, <1>1, DoneIsReported
<1> HIDE DEF r
<1>4. CASE DropReport(r)
  BY <1>1, <1>3, <1>4, StartingStays DEF DropReport
<1>5. CASE FailHostStart(r)
  <2>1. /\ start' = NoStart /\ UNCHANGED hosted
        /\ \A g \in handlers' : g \in handlers \/ g = StopCall(start.s)
    BY <1>5 DEF FailHostStart, CancelHostStart, Sends
  <2> QED
    BY <1>0, <1>1, <2>1, StartingEnds
<1>6. CASE TakeStep(r)
  <2> DEFINE c == Call("live", r.s, 0, "load")
  <2>1. /\ r.s = start.s /\ r.ok
        /\ \/ start' = NoStart /\ hosted' = start.s
           \/ start'.s = start.s /\ hosted' = hosted
        /\ \A g \in handlers' : g \in handlers \/ g = c
    <3> DEFINE has == CASE r.of = "rpc"    -> [start EXCEPT !.resp = TRUE]
                        [] r.of = "native" -> [start EXCEPT !.native = TRUE]
                        [] r.of = "sfu"    -> [start EXCEPT !.conn = TRUE]
               ready == has.native /\ has.conn
    <3>1. /\ r.s = start.s /\ r.ok
          /\ start' = IF ready THEN NoStart ELSE has
          /\ hosted' = IF ready THEN r.s ELSE hosted
          /\ handlers' \subseteq handlers \cup {c}
      BY <1>6 DEF TakeStep, Sends
    <3>2. r.of \in {"rpc", "native", "sfu"}
      BY <1>2 DEF StepReports, Steps
    <3>3. has.s = start.s
      BY <1>0, <3>2 DEF Starts
    <3> HIDE DEF has, ready, c
    <3> QED
      BY <3>1, <3>3
  <2>2. c.kind = "live"
    BY DEF Call
  <2> HIDE DEF c
  <2>3. CASE start.s = s
    <3>1. sessions[s] = "pending"
      BY <1>2, <2>1, <2>3 DEF Starting, Answered, Done
    <3>2. \A g \in handlers : ~(g.kind = "stop" /\ g.s = s)
      BY <2>3 DEF Fits, LiveFits
    <3>3. CASE start'.s = s
      <4>1. NotLive(s)' /\ Answered(s)'
        BY <1>1, <3>1 DEF NotLive, Answered
      <4>2. NoStop(s)'
        BY <2>1, <2>2, <3>2 DEF NoStop
      <4> QED
        BY <4>1, <4>2 DEF Starting
    <3>4. CASE start'.s # s
      BY <1>0, <1>1, <2>1, <2>2, <2>3, <3>2, <3>4, StartingEnds
    <3> QED
      BY <3>3, <3>4
  <2>4. CASE start.s # s
    <3>1. start'.s # s
      BY <1>0, <2>1, <2>4
    <3> QED
      BY <1>0, <1>1, <2>1, <2>2, <2>4, <3>1, StartingEnds
  <2> QED
    BY <2>3, <2>4
<1> QED
  BY <1>1, <1>4, <1>5, <1>6

LEMMA TaskStarting ==
  ASSUME IInv, Typed, NEW s \in Streams, Starting(s), NEW t \in Streams, TaskStep(t)
  PROVE  Starting(s)'
<1>0. reports \in Seq(StepReports) /\ tasks \in [Streams -> SUBSET Steps] /\ sessions \in [Streams -> {"none", "pending", "live"}]
  BY DEF Typed, TypeOK, IInv, Types
<1>1. /\ UNCHANGED <<generation, start, sessions, hosted>>
      /\ \A g \in handlers' : g \in handlers
  BY DEF TaskStep, RpcAnswered, RpcFails, StepEnds, records
<1>2. ASSUME start.s = s, sessions[s] # "pending"
      PROVE  /\ tasks'[s] \subseteq tasks[s]
             /\ \A i \in DOMAIN reports' : Done(i, s)' => \E j \in DOMAIN reports : Done(j, s)
  <2>1. sessions[s] = "none" /\ tasks[s] \subseteq {"rpc"}
    BY <1>0, <1>2 DEF Starting, NotLive, Answered
  <2>2. CASE RpcAnswered(t)
    <3>1. t # s /\ tasks'[s] = tasks[s] /\ Report("rpc", t, TRUE)
      BY <1>0, <2>1, <2>2 DEF RpcAnswered
    <3> QED
      BY <1>0, <3>1, DoneIsReported DEF Steps
  <2>3. CASE RpcFails(t)
    <3>1. tasks'[s] \subseteq tasks[s] /\ Report("rpc", t, FALSE)
      BY <1>0, <2>3 DEF RpcFails
    <3> QED
      BY <1>0, <3>1, DoneIsReported DEF Steps
  <2>4. ASSUME NEW step \in {"native", "sfu"}, NEW ok \in BOOLEAN, StepEnds(t, step, ok)
        PROVE  /\ tasks'[s] \subseteq tasks[s]
               /\ \A i \in DOMAIN reports' : Done(i, s)' => \E j \in DOMAIN reports : Done(j, s)
    <3>1. t # s /\ tasks'[s] = tasks[s] /\ Report(step, t, ok)
      BY <1>0, <2>1, <2>4 DEF StepEnds
    <3> QED
      BY <1>0, <3>1, DoneIsReported DEF Steps
  <2> QED
    BY <2>2, <2>3, <2>4 DEF TaskStep
<1> QED
  BY <1>1, <1>2, StartingStays

LEMMA NetworkStarting ==
  ASSUME IInv, Typed, NEW s \in Streams, Starting(s), Network \/ (\E h \in handlers : ResumeAnswered(h)) \/ StreamGC
  PROVE  Starting(s)'
<1>0. generation \in Nat /\ NoStart.s # s /\ NoStream # s
  BY NoStartIsAStart, StreamsAreNumbers DEF Typed, TypeOK
<1>1. CASE AppExits
  <2>1. /\ start' = NoStart /\ hosted' = NoStream /\ UNCHANGED <<generation, sessions>>
    BY <1>1 DEF AppExits, records
  <2> QED
    BY <1>0, <2>1, StartingEnds
<1>2. CASE ~AppExits
  <2>1. UNCHANGED <<generation, start, tasks, reports, sessions>>
    BY <1>2 DEF Network, SocketDrops, Login, Reconnect, ResumeTimesOut, ResumeFails, CallIsLost, ResumeAnswered,
       StreamGC, client, records
  <2>2. \/ hosted' = NoStream
        \/ hosted' = hosted /\ \A g \in handlers' : g \in handlers \/ g.kind # "stop"
    <3>1. \A n, x : /\ Call("end", NoStream, n, "count").kind # "stop"
                    /\ Call("begin", NoStream, n, "register").kind # "stop"
                    /\ Call("resume", x, n, "read").kind # "stop"
                    /\ Call("gc", NoStream, 0, "read").kind # "stop"
      BY DEF Call
    <3>2. CASE SocketDrops \/ Login \/ Reconnect \/ StreamGC
      BY <3>1, <3>2 DEF SocketDrops, LoseSocket, Login, Reconnect, StreamGC, client
    <3>3. CASE ResumeTimesOut \/ ResumeFails
      BY <3>3 DEF ResumeTimesOut, ResumeFails, EndHostedStream
    <3>4. CASE \E h \in handlers : CallIsLost(h) \/ ResumeAnswered(h)
      BY <3>4 DEF CallIsLost, ResumeAnswered, Ends, client
    <3> QED
      BY <1>2, <3>2, <3>3, <3>4 DEF Network
  <2> QED
    BY <1>0, <2>1, <2>2, StartingStays DEF Done
<1> QED
  BY <1>1, <1>2

LEMMA NextStarting ==
  ASSUME IInv, Typed, [Next]_vars, NEW s \in Streams, Fits(s), Starting(s)
  PROVE  Starting(s)'
<1>1. CASE UNCHANGED vars
  BY <1>1, StartingStays DEF vars, client, records, Done
<1> QED
  BY <1>1, UserStarting, TakeReportStarting, TaskStarting, NetworkStarting, HandleStarting DEF Next, Backend

(* The crew finds s, or is about to: its stream_live is on the way, or it is  *)
(* advertised, nobody ends it, and its session is stored or will be.         *)
Storing(h, s) == h.kind = "resume" /\ h.s = s /\ h.at = "store"
ToShow(s) == sessions[s] = "pending" /\ \E h \in handlers : Told(h, s)
Advertised(s) ==
  /\ meta = s /\ \A h \in handlers : ~Ending(h, s)
  /\ sessions[s] # "none" \/ \E h \in handlers : Storing(h, s)
Shown(s) == ToShow(s) \/ Advertised(s)

(* The resume the client waits for has restored s, or found it untouched.    *)
Restored(s) ==
  \E h \in handlers :
    Awaited(h) /\ h.s = s /\ h.at \in {"store", "deleteRecord", "removeEvent", "online", "ok"}

Expected(s) == hosted = s /\ s \notin torn \cup hidden /\ socket /\ (awaiting = 0 \/ Restored(s))
Found(s) == Expected(s) => Shown(s)

LEMMA ShownStays ==
  ASSUME NEW s \in Streams, Shown(s), UNCHANGED <<meta, sessions>>,
         \A h \in handlers : Told(h, s) \/ Storing(h, s) => h \in handlers',
         \A g \in handlers' : g \in handlers \/ g.got = NoStream
  PROVE  Shown(s)'
<1>1. ToShow(s) => ToShow(s)'
  BY DEF ToShow, Told
<1>2. Advertised(s) => Advertised(s)'
  BY StreamsAreNumbers DEF Advertised, Storing, Ending, IsEnder, IsCleanup
<1> QED
  BY <1>1, <1>2 DEF Shown

(* A handler that does not advertise s leaves its stream_live to come.       *)
LEMMA ToShowGoesOn ==
  ASSUME Typed, NEW s \in Streams, NEW h \in handlers, Handle(h), Fits(s), NoStop(s), hosted = s, ToShow(s)
  PROVE  Shown(s)'
<1>0. sessions \in [Streams -> {"none", "pending", "live"}] /\ h.kind \in Kinds
  BY WhereItIs DEF Typed, TypeOK
<1>1. PICK t \in handlers : Told(t, s)
  BY DEF ToShow
<1>2. Untouched(s)
  BY <1>1 DEF Fits, FreshFits
<1>3. ~Ending(h, s) /\ ~Uses(h, s) /\ ~(h.kind = "stop" /\ h.s = s)
  BY <1>2 DEF Untouched, Plain, NoStop
<1>4. ~(ClearPending(h) /\ h.s = s)
  <2>1. ClearPending(h) /\ h.s = s => h = t /\ h.at = "store"
    BY <1>1 DEF ClearPending, Told, Fits, LiveFits
  <2> QED
    BY <1>1, <2>1 DEF Told
<1>5. sessions'[s] = "pending"
  BY <1>3, <1>4, SessionsMove DEF ToShow
<1>6. CASE h # t
  <2>1. t \in handlers'
    BY <1>6, HandleKeeps DEF Keeps, Ends, Becomes
  <2> QED
    BY <1>1, <1>5, <2>1 DEF Shown, ToShow, Told
<1>7. CASE h = t /\ h.at = "load"
  <2>1. LoadForLive(h)
    BY <1>1, <1>7 DEF Handle, Told, StoreStreamSession, LoadForLive, AdvertiseStream, ClearPending, WriteOnline,
       RegisterSession, CountSession, WriteOffline, ReadMeta, LoadSession, DeleteMeta, DeleteSession, LoadPending,
       DeletePending, AppendSession, KeepForResume, ReadLive, LoadLive, ReadRecord, Restore, RestoreSession,
       DeleteRecord, RemoveEvent, IsCleanup, IsEnder
  <2>2. Goes(h, "advertise")
    BY <1>1, <1>7, <2>1 DEF LoadForLive, ToShow, Told
  <2>3. PICK g \in Handlers : Next1(h, g, "advertise")
    BY <2>2, GoesOn DEF Places
  <2>4. g \in handlers' /\ Told(g, s)
    BY <1>1, <1>7, <2>3 DEF Next1, Becomes, Told
  <2> QED
    BY <1>5, <2>4 DEF Shown, ToShow, Told
<1>8. CASE h = t /\ h.at = "advertise"
  <2>1. AdvertiseStream(h)
    BY <1>1, <1>8 DEF Handle, Told, StoreStreamSession, LoadForLive, AdvertiseStream, ClearPending, WriteOnline,
       RegisterSession, CountSession, WriteOffline, ReadMeta, LoadSession, DeleteMeta, DeleteSession, LoadPending,
       DeletePending, AppendSession, KeepForResume, ReadLive, LoadLive, ReadRecord, Restore, RestoreSession,
       DeleteRecord, RemoveEvent, IsCleanup, IsEnder
  <2>2. meta' = s /\ Goes(h, "online")
    BY <1>1, <1>8, <2>1 DEF AdvertiseStream, Told
  <2>3. PICK g \in Handlers : Next1(h, g, "online")
    BY <2>2, GoesOn DEF Places
  <2>4. g.kind = "live" /\ \A x \in handlers' : x \in handlers \/ x = g
    BY <1>1, <1>8, <2>3 DEF Next1, Becomes, Told
  <2>5. \A x \in handlers' : ~Ending(x, s)
    BY <1>2, <2>4 DEF Untouched, Plain, Ending, IsEnder, IsCleanup
  <2> QED
    BY <1>5, <2>2, <2>5 DEF Shown, Advertised, Ending, IsEnder, IsCleanup
<1> QED
  BY <1>1, <1>6, <1>7, <1>8 DEF Told

(* An advertised stream is not overwritten, ended or left without a session: *)
(* that would be torn or hidden, once its resume has looked at it.            *)
LEMMA AdvertisedGoesOn ==
  ASSUME Typed, NEW s \in Streams, NEW h \in handlers, Handle(h), NoStop(s), hosted = s, socket,
         awaiting = 0 \/ Restored(s), s \notin torn' \cup hidden', Advertised(s)
  PROVE  Shown(s)'
<1>0. /\ IsEnder(h) => h.got # s
      /\ h.s \in Streams \cup {NoStream} /\ meta = s /\ s # NoStream
  BY StreamsAreNumbers, WhereItIs DEF Advertised, Ending
<1>1. ~(h.kind = "stop" /\ h.s = s) /\ ~Ending(h, s)
  BY DEF NoStop, Advertised
<1>2. meta' = s
  <2> USE DEF client, records, online, bounds, history
  <2>1. CASE AdvertiseStream(h) \/ Restore(h)
    <3>1. meta' = h.s /\ torn' = Torn(h.s)
      BY <2>1 DEF AdvertiseStream, Restore
    <3> QED
      BY <1>0, <3>1 DEF Torn
  <2>2. CASE DeleteMeta(h)
    <3>1. torn' = Torn(h.got) /\ IsEnder(h)
      BY <2>2, WhereItIs DEF DeleteMeta
    <3> QED
      BY <1>0, <3>1 DEF Torn
  <2>3. CASE UNCHANGED meta
    BY <1>0, <2>3
  <2>4. CASE StoreStreamSession(h) \/ LoadForLive(h) \/ ClearPending(h) \/ WriteOnline(h) \/ RegisterSession(h)
            \/ CountSession(h) \/ WriteOffline(h) \/ ReadMeta(h) \/ LoadSession(h)
    BY <2>3, <2>4 DEF StoreStreamSession, LoadForLive, ClearPending, WriteOnline, RegisterSession, CountSession,
       WriteOffline, ReadMeta, LoadSession
  <2>5. CASE DeleteSession(h) \/ LoadPending(h) \/ DeletePending(h) \/ AppendSession(h) \/ KeepForResume(h)
            \/ ReadLive(h) \/ LoadLive(h) \/ ReadRecord(h) \/ RestoreSession(h) \/ DeleteRecord(h) \/ RemoveEvent(h)
    BY <2>3, <2>5 DEF DeleteSession, LoadPending, DeletePending, AppendSession, KeepForResume, ReadLive, LoadLive,
       ReadRecord, RestoreSession, DeleteRecord, RemoveEvent
  <2> QED
    BY <2>1, <2>2, <2>4, <2>5 DEF Handle
<1>3. ~ReadMeta(h)
  <2>1. SUFFICES ASSUME ReadMeta(h) PROVE FALSE
    OBVIOUS
  <2>2. (IsCleanup(h) /\ socket /\ HasLooked) \/ (h.kind = "stop" /\ meta # h.s)
    BY <1>0, <1>1, <2>1 DEF ReadMeta, IsEnder, HasLooked, Restored
  <2>3. s \in hidden'
    BY <1>0, <2>1, <2>2 DEF ReadMeta
  <2> QED
    BY <2>3
<1>4. \A g \in handlers' : ~Ending(g, s)
  <2>1. \A g \in handlers' : g \in handlers \/ (g.kind = h.kind /\ g.got = h.got)
    BY <1>3, HandleKeeps DEF Keeps, Ends, Becomes
  <2> QED
    BY <1>1, <2>1 DEF Advertised, Ending, IsEnder, IsCleanup
<1>5. sessions'[s] # "none" \/ \E g \in handlers' : Storing(g, s)
  <2>1. CASE sessions[s] # "none"
    BY <1>1, <2>1, SessionsMove DEF ClearPending, Typed, TypeOK
  <2>2. CASE \E g \in handlers : Storing(g, s)
    <3>1. PICK g \in handlers : Storing(g, s)
      BY <2>2
    <3>2. CASE g # h
      BY <3>1, <3>2, HandleKeeps DEF Keeps, Ends, Becomes
    <3>3. CASE g = h
      <4>1. RestoreSession(h)
        BY <3>1, <3>3 DEF Handle, Storing, StoreStreamSession, LoadForLive, AdvertiseStream, ClearPending, WriteOnline,
           RegisterSession, CountSession, WriteOffline, ReadMeta, LoadSession, DeleteMeta, DeleteSession, LoadPending,
           DeletePending, AppendSession, KeepForResume, ReadLive, LoadLive, ReadRecord, Restore, RestoreSession,
           DeleteRecord, RemoveEvent, IsCleanup, IsEnder
      <4>2. WellFormed(h) /\ sessions \in [Streams -> {"none", "pending", "live"}]
        BY WhereItIs DEF Typed, TypeOK
      <4> QED
        BY <3>1, <3>3, <4>1, <4>2 DEF RestoreSession, WellFormed, Storing
    <3> QED
      BY <3>2, <3>3, <3>1
  <2> QED
    BY <2>1, <2>2 DEF Advertised
<1> QED
  BY <1>2, <1>4, <1>5 DEF Shown, Advertised, Storing, Ending, IsEnder, IsCleanup

(* The resume of s that restores it, or finds it untouched: it is shown.     *)
LEMMA ResumeShows ==
  ASSUME Typed, NEW s \in Streams, NEW h \in handlers, Handle(h), Fits(s),
         s \notin torn' \cup hidden', ~Restored(s), Restored(s)'
  PROVE  Shown(s)'
<1> DEFINE RestoredAt == {"store", "deleteRecord", "removeEvent", "online", "ok"}
<1>1. PICK g \in handlers' : Awaited(g)' /\ g.s = s /\ g.at \in RestoredAt
  BY DEF Restored
<1>2. awaiting' = awaiting /\ s \notin torn
  BY HandleFrame
<1>3. g \notin handlers
  BY <1>1, <1>2 DEF Restored, Awaited
<1>4. g.kind = h.kind /\ g.s = h.s /\ g.n = h.n /\ \A x \in handlers' : x \in handlers \/ x = g
  BY <1>3, HandleKeeps DEF Keeps, Ends, Becomes
<1>5. h.kind = "resume" /\ h.s = s /\ h.at \notin RestoredAt /\ g.kind = "resume"
  BY <1>1, <1>2, <1>4 DEF Restored, Awaited
<1>6. /\ h.at \in PlacesOf("resume") /\ h \in Handlers /\ WellFormed(h)
  BY <1>5, WhereItIs
<1>7. h.at \in {"read", "loadLive", "readRecord", "restore", "refused"}
  BY <1>5, <1>6 DEF PlacesOf
<1>8. ReadLive(h) \/ LoadLive(h) \/ ReadRecord(h) \/ Restore(h)
  BY <1>5, <1>7 DEF Handle, StoreStreamSession, LoadForLive, AdvertiseStream, ClearPending, WriteOnline,
     RegisterSession, CountSession, WriteOffline, ReadMeta, LoadSession, DeleteMeta, DeleteSession, LoadPending,
     DeletePending, AppendSession, KeepForResume, ReadLive, LoadLive, ReadRecord, Restore, RestoreSession,
     DeleteRecord, RemoveEvent, IsCleanup, IsEnder
<1>9. ASSUME NEW at \in Places, Goes(h, at) PROVE g.at = at
  <2>1. PICK x \in Handlers : Next1(h, x, at)
    BY <1>9, GoesOn
  <2> QED
    BY <1>1, <1>3, <2>1 DEF Next1, Becomes
<1>10. ASSUME Ends(h) PROVE FALSE
  BY <1>1, <1>3, <1>10 DEF Ends
<1>11. {"loadLive", "readRecord", "ok", "refused", "store", "restore"} \subseteq Places
  BY DEF Places
<1>12. CASE ReadLive(h)
  <2>1. Goes(h, "loadLive") \/ Goes(h, "readRecord")
    BY <1>12 DEF ReadLive
  <2>2. g.at \in {"loadLive", "readRecord"}
    BY <2>1, <1>9, <1>11
  <2> QED
    BY <1>1, <2>2
<1>13. CASE LoadLive(h)
  <2>1. sessions[s] # "none" \/ Goes(h, "readRecord")
    BY <1>5, <1>13 DEF LoadLive
  <2>2. sessions[s] # "none"
    BY <1>1, <1>9, <1>11, <2>1
  <2>3. meta = s /\ \A x \in handlers : ~Ending(x, s)
    BY <1>5, <1>13 DEF LoadLive, Ending
  <2>4. sessions' = sessions /\ meta' = meta
    BY <1>13 DEF LoadLive, records
  <2> QED
    BY <1>4, <1>5, <2>2, <2>3, <2>4 DEF Shown, Advertised, Ending, IsEnder, IsCleanup
<1>14. CASE ReadRecord(h)
  <2>1. CASE Answers(h, "refused")
    <3>1. g.at = "refused"
      BY <2>1, <1>9, <1>10, <1>11 DEF Answers
    <3> QED
      BY <1>1, <3>1
  <2>2. CASE ~Answers(h, "refused")
    <3>1. g = [h EXCEPT !.at = "restore", !.rec = resume]
      BY <1>1, <1>3, <1>14, <2>2 DEF ReadRecord, Becomes
    <3>2. g.at = "restore"
      BY <1>6, <3>1 DEF Handlers
    <3> QED
      BY <1>1, <3>2
  <2> QED
    BY <2>1, <2>2
<1>15. CASE Restore(h)
  <2>1. meta' = s /\ Goes(h, "store") /\ h.at = "restore"
    BY <1>5, <1>15 DEF Restore
  <2>2. g.at = "store"
    BY <2>1, <1>9, <1>11
  <2>3. Uses(h, s)
    BY <1>5, <1>6, <2>1 DEF Uses, WellFormed
  <2>4. Over(s)
    BY <1>2, <2>1, <2>3 DEF Fits, Core, RestoreFits
  <2>5. g \in handlers' /\ Storing(g, s)
    BY <1>1, <1>5, <2>2 DEF Storing
  <2> QED
    BY <1>4, <1>5, <2>1, <2>4, <2>5 DEF Shown, Advertised, Storing, Over, Ending, IsEnder, IsCleanup
<1> QED
  BY <1>8, <1>12, <1>13, <1>14, <1>15

LEMMA HandleFound ==
  ASSUME Typed, NEW s \in Streams, NEW h \in handlers, Handle(h), Fits(s), NoStop(s), Found(s)
  PROVE  Found(s)'
<1> SUFFICES ASSUME Expected(s)' PROVE Shown(s)'
  BY DEF Found
<1>1. /\ hosted = s /\ socket /\ awaiting' = awaiting
      /\ s \notin torn' \cup hidden' /\ s \notin torn \cup hidden
  BY HandleFrame DEF Expected
<1>2. CASE awaiting = 0 \/ Restored(s)
  <2>1. Shown(s)
    BY <1>1, <1>2 DEF Found, Expected
  <2> QED
    BY <1>1, <1>2, <2>1, ToShowGoesOn, AdvertisedGoesOn DEF Shown
<1>3. CASE ~(awaiting = 0 \/ Restored(s))
  <2>1. Restored(s)'
    BY <1>1, <1>3 DEF Expected
  <2> QED
    BY <1>1, <1>3, <2>1, ResumeShows
<1> QED
  BY <1>2, <1>3

LEMMA CallsGetNothing ==
  \A kind, s, n, at : /\ Call(kind, s, n, at).got = NoStream /\ Call(kind, s, n, at).kind = kind
                      /\ Call(kind, s, n, at).s = s /\ Call(kind, s, n, at).n = n /\ Call(kind, s, n, at).at = at
  BY DEF Call

LEMMA TakeReportFound ==
  ASSUME IInv, Typed, Numbered, NEW s \in Streams, Starting(s), Found(s), TakeReport
  PROVE  Found(s)'
<1> DEFINE r == Head(reports)
<1> SUFFICES ASSUME Expected(s)' PROVE Shown(s)'
  BY DEF Found
<1>1. /\ reports # <<>> /\ UNCHANGED <<sessions, meta, socket, torn, hidden>> /\ awaiting = 0
      /\ DropReport(r) \/ FailHostStart(r) \/ TakeStep(r)
  BY DEF TakeReport, records, history
<1>2. r = reports[1] /\ 1 \in DOMAIN reports /\ r.s \in Streams
  <2>1. reports \in Seq(StepReports)
    BY DEF IInv, Types
  <2>2. r = reports[1] /\ 1 \in DOMAIN reports /\ r \in StepReports
    BY <1>1, <2>1
  <2> QED
    BY <2>2 DEF StepReports
<1>3. start.s # NoStream => hosted = NoStream
  BY DEF IInv, Placed
<1>4. hosted' = s /\ s # NoStream /\ s \notin torn \cup hidden /\ socket
  BY <1>1, StreamsAreNumbers DEF Expected
<1> HIDE DEF r
<1>5. CASE DropReport(r)
  <2>1. UNCHANGED <<hosted, handlers>>
    BY <1>5 DEF DropReport
  <2>2. Shown(s)
    BY <1>1, <1>4, <2>1 DEF Found, Expected
  <2> QED
    BY <1>1, <2>1, <2>2, ShownStays
<1>6. CASE FailHostStart(r)
  <2>1. start.s # NoStream /\ hosted' = hosted
    BY <1>2, <1>6, StreamsAreNumbers DEF FailHostStart
  <2> QED
    BY <1>3, <1>4, <2>1
<1>7. CASE TakeStep(r)
  <2> DEFINE c == Call("live", r.s, 0, "load")
  <2>0. signedIn
    BY <1>4 DEF Numbered
  <2>1. r.s = start.s /\ r.ok /\ (hosted' = hosted \/ (hosted' = r.s /\ handlers' = handlers \cup {c}))
    BY <1>7, <2>0 DEF TakeStep, Sends
  <2>2. hosted = NoStream /\ start.s = s /\ r.s = s /\ handlers' = handlers \cup {c}
    BY <1>2, <1>3, <1>4, <2>1, StreamsAreNumbers
  <2>3. sessions[s] = "pending"
    BY <1>2, <2>1, <2>2 DEF Starting, Answered, Done
  <2>4. Told(c, s)
    BY <2>2, CallsGetNothing DEF Told
  <2> HIDE DEF c
  <2> QED
    BY <1>1, <2>2, <2>3, <2>4 DEF Shown, ToShow, Told
<1> QED
  BY <1>1, <1>5, <1>6, <1>7

(* A resume that is sent has restored nothing yet, and it is the newest.      *)
LEMMA ReconnectFound ==
  ASSUME Typed, Numbered, NEW s \in Streams, Reconnect
  PROVE  Found(s)'
<1> DEFINE b == Call("begin", NoStream, drops, "register")
           c == Call("resume", hosted, drops, "read")
<1> SUFFICES ASSUME Expected(s)' PROVE FALSE
  BY DEF Found
<1>1. /\ ~socket /\ hosted' = hosted /\ hosted = s /\ s # NoStream
      /\ awaiting' = IF hosted # NoStream THEN drops ELSE 0
      /\ \A g \in handlers' : g \in handlers \/ g = b \/ g = c
  BY StreamsAreNumbers DEF Reconnect, Expected
<1>2. drops > 0 /\ drops \in Nat
  BY <1>1 DEF Numbered, Typed, TypeOK
<1>3. awaiting' = drops /\ Restored(s)'
  BY <1>1, <1>2 DEF Expected
<1>4. PICK g \in handlers' : Awaited(g)' /\ g.at \in {"store", "deleteRecord", "removeEvent", "online", "ok"}
  BY <1>3 DEF Restored
<1>5. g.kind = "resume" /\ g.n = drops
  BY <1>3, <1>4 DEF Awaited
<1>6. g # b /\ g # c
  BY <1>4, CallsGetNothing
<1> QED
  BY <1>1, <1>5, <1>6 DEF Numbered

(* The other steps keep what is shown, or end the hosting.                   *)
LEMMA FoundStays ==
  ASSUME NEW s \in Streams, Found(s), UNCHANGED <<meta, sessions, torn>>, hosted' = hosted,
         socket' => socket, hidden \subseteq hidden',
         Restored(s)' => Restored(s), awaiting' = awaiting,
         s \in hidden' \/ \A h \in handlers : Told(h, s) \/ Storing(h, s) => h \in handlers',
         \A g \in handlers' : g \in handlers \/ g.got = NoStream
  PROVE  Found(s)'
<1> SUFFICES ASSUME Expected(s)' PROVE Shown(s)'
  BY DEF Found
<1>1. Shown(s)
  BY DEF Found, Expected
<1> QED
  BY <1>1, ShownStays DEF Expected

LEMMA OthersFound ==
  ASSUME IInv, Typed, Numbered, NEW s \in Streams, Found(s),
         User \/ SocketDrops \/ AppExits \/ Login \/ ResumeTimesOut \/ ResumeFails \/ StreamGC
         \/ (\E h \in handlers : CallIsLost(h) \/ ResumeAnswered(h)) \/ (\E t \in Streams : TaskStep(t))
  PROVE  Found(s)'
<1>0. s # NoStream /\ ~(start # NoStart /\ hosted = s)
  BY StreamsAreNumbers DEF IInv, Placed, Typed, Shaped
<1>1. CASE StartStream \/ EndStream \/ CancelStart \/ AppExits \/ ResumeFails
  <2>1. hosted' # s
    BY <1>0, <1>1 DEF StartStream, EndStream, CancelStart, AppExits, ResumeFails, EndHostedStream
  <2> QED
    BY <2>1 DEF Found, Expected
<1>2. CASE SocketDrops \/ Logout
  <2>1. ~socket'
    BY <1>2 DEF SocketDrops, Logout, LoseSocket
  <2> QED
    BY <2>1 DEF Found, Expected
<1>3. CASE ResumeTimesOut \/ Login
  <2>1. hosted' = hosted /\ (hosted # NoStream => hosted \in hidden')
    BY <1>3 DEF ResumeTimesOut, Login
  <2> QED
    BY <1>0, <2>1 DEF Found, Expected
<1>4. CASE StreamGC
  <2> DEFINE c == Call("gc", NoStream, 0, "read")
  <2>1. /\ UNCHANGED <<meta, sessions, torn, hidden, hosted, socket, awaiting>>
        /\ handlers' = handlers \cup {c} /\ c.kind # "resume" /\ c.got = NoStream
    BY <1>4, CallsGetNothing DEF StreamGC, client, records, history
  <2> HIDE DEF c
  <2>2. Restored(s)' => Restored(s)
    BY <2>1 DEF Restored, Awaited
  <2> QED
    BY <2>1, <2>2, FoundStays
<1>5. ASSUME NEW h \in handlers, CallIsLost(h) PROVE Found(s)'
  <2>1. /\ UNCHANGED <<meta, sessions, torn, hosted, socket, awaiting>> /\ hidden \subseteq hidden'
        /\ h.kind = "live" => h.s \in hidden'
        /\ handlers' = handlers \ {h} /\ ~(h.at = "store")
    BY <1>5 DEF CallIsLost, client, records, Ends
  <2>2. Restored(s)' => Restored(s)
    BY <2>1 DEF Restored, Awaited
  <2>3. s \in hidden' \/ \A x \in handlers : Told(x, s) \/ Storing(x, s) => x \in handlers'
    BY <2>1 DEF Told, Storing
  <2> QED
    BY <2>1, <2>2, <2>3, FoundStays
<1>6. ASSUME NEW h \in handlers, ResumeAnswered(h) PROVE Found(s)'
  <2>1. /\ Awaited(h) /\ h.kind = "resume" /\ UNCHANGED <<meta, sessions, torn, hidden, socket>>
        /\ \/ hosted' = NoStream
           \/ hosted' = hosted /\ h.at = "ok" /\ handlers' = handlers \ {h}
    BY <1>6 DEF ResumeAnswered, Awaited, records, history
  <2> SUFFICES ASSUME Expected(s)' PROVE Shown(s)'
    BY DEF Found
  <2>2. hosted = s /\ h.at = "ok" /\ handlers' = handlers \ {h}
    BY <1>0, <2>1 DEF Expected
  <2>3. h.s = s
    BY <2>1, <2>2 DEF Numbered
  <2>4. Restored(s)
    BY <2>1, <2>2, <2>3 DEF Restored
  <2>5. Shown(s)
    BY <2>1, <2>2, <2>4 DEF Found, Expected
  <2> QED
    BY <2>1, <2>2, <2>5, ShownStays DEF Told, Storing
<1>7. ASSUME NEW t \in Streams, TaskStep(t) PROVE Found(s)'
  <2>1. /\ UNCHANGED <<meta, sessions, torn, hidden, hosted, socket, awaiting>>
        /\ handlers' = handlers \/ handlers' = handlers \ {Call("start", t, 0, "store")}
    BY <1>7 DEF TaskStep, RpcAnswered, RpcFails, StepEnds, records, history
  <2>2. Restored(s)' => Restored(s)
    BY <2>1 DEF Restored, Awaited
  <2>3. \A x \in handlers : Told(x, s) \/ Storing(x, s) => x \in handlers'
    BY <2>1, CallsGetNothing DEF Told, Storing
  <2> QED
    BY <2>1, <2>2, <2>3, FoundStays
<1> QED
  BY <1>1, <1>2, <1>3, <1>4, <1>5, <1>6, <1>7 DEF User

LEMMA NextFound ==
  ASSUME IInv, Typed, Numbered, [Next]_vars, NEW s \in Streams, Fits(s), Starting(s), Found(s)
  PROVE  Found(s)'
<1>1. CASE UNCHANGED vars
  <2>1. /\ UNCHANGED <<meta, sessions, torn, hidden, hosted, socket, awaiting, handlers>>
    BY <1>1 DEF vars, client, records, history
  <2> QED
    BY <2>1, FoundStays DEF Restored, Awaited
<1>2. CASE Reconnect
  BY <1>2, ReconnectFound
<1>3. CASE TakeReport
  BY <1>3, TakeReportFound
<1>4. CASE \E h \in handlers : Handle(h)
  BY <1>4, HandleFound DEF Starting
<1> QED
  BY <1>1, <1>2, <1>3, <1>4, OthersFound DEF Next, Network, Backend

LEMMA InitFound ==
  ASSUME Init
  PROVE  Numbered /\ \A s \in Streams : Starting(s) /\ Found(s)
<1>1. Numbered
  BY DEF Init, Numbered
<1>2. ASSUME NEW s \in Streams PROVE Starting(s) /\ Found(s)
  <2>1. sessions[s] = "none" /\ start.s # s /\ handlers = {} /\ hosted # s
    BY NoStartIsAStart, StreamsAreNumbers DEF Init
  <2> QED
    BY <2>1 DEF Starting, NotLive, Answered, NoStop, Found, Expected
<1> QED
  BY <1>1, <1>2

(* A host that is live and connected is found by its crew, unless its stream  *)
(* is torn, the client did not ask for it since the last reconnect, or a       *)
(* handler set out to remove it after the client last asked, for any number of *)
(* starts, lost sockets, lost RPCs and sign-outs: stream_live and the resume   *)
(* of streaming.go, finish_host_start_if_ready and                            *)
(* readvertise_stream_after_reconnect of the client.                          *)
THEOREM LiveHostIsFound == Spec => []LiveIsFound
<1> DEFINE Inv == Numbered /\ \A s \in Streams : Starting(s) /\ Found(s)
<1>1. Init => Inv
  BY InitFound
<1>2. IInv /\ Typed /\ (\A s \in Streams : Fits(s)) /\ Inv /\ [Next]_vars => Inv'
  BY NextNumbered, NextStarting, NextFound DEF Streams
<1>3. Typed /\ Inv => LiveIsFound
  <2> SUFFICES ASSUME Typed, Inv, Settled, socket, hosted \notin torn \cup hidden \cup {NoStream}
               PROVE  meta = hosted /\ sessions[hosted] # "none"
    BY DEF LiveIsFound
  <2>1. hosted \in Streams /\ awaiting = 0 /\ handlers = {}
    BY DEF Settled, Typed, TypeOK
  <2>2. Shown(hosted)
    BY <2>1 DEF Found, Expected
  <2> QED
    BY <2>1, <2>2 DEF Shown, ToShow, Advertised
<1> QED
  BY <1>1, <1>2, <1>3, IInvAlways, FitsAlways, PTL DEF Spec
=============================================================================
