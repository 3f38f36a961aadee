-------------------------- MODULE CrewLedgerProofs --------------------------
(* Theorems about CrewLedger for every set of goroutines and events, every   *)
(* number of attempts and failures and every rolling window, for a crew     *)
(* whose ledger object exists.                                             *)
EXTENDS CrewLedger, FiniteSetTheorems, WellFoundedInduction, TLAPS

USE CrewLedgerAssumption

-----------------------------------------------------------------------------
(* The inductive invariant                                                 *)

(* A goroutine that works on an append has announced it.                    *)
Working(s) ==
  /\ s.pc \in {"read", "write"} /\ s.op \in Ops /\ s.event \in Events
  /\ s.op = "append" => append[s.event] # "none"

Shape ==
  /\ version \in Nat \ {0} /\ now \in Nat
  /\ faults \in [read : Nat, write : Nat]
  /\ append \in [Events -> {"none", "running", "done", "failed"}]
  /\ DOMAIN stamp = Events /\ \A e \in Events : stamp[e] \in 0..now
  /\ DOMAIN writer = Writers /\ \A w \in Writers : writer[w] = Idle \/ Working(writer[w])

(* What is about to be written was computed from a version that was stored, *)
(* and as long as it still is, from the events that are stored.            *)
Current(s) ==
  /\ s.version \in 1..version
  /\ s.version = version => s.value = NewValue(s.op, s.event, stored)

WritesAreCurrent ==
  NoReadFailed => \A w \in Writers : writer[w].pc = "write" => Current(writer[w])

IInv == Shape /\ WritesAreCurrent

-----------------------------------------------------------------------------
LEMMA IdleDoesNothing == Idle.pc = "idle"
  BY DEF Idle

(* The operations on the object are the operations of the log.              *)
LEMMA SameRecent ==
  ASSUME NEW value, NEW time
  PROVE  Recent(value, time) = Log!Recent(value, time)
  BY DEF Recent, Log!Recent, Filtered, Log!Filtered

LEMMA SameWithout ==
  ASSUME NEW value, NEW e
  PROVE  Without(value, e) = Log!Without(value, e)
  BY DEF Without, Log!Without, Filtered, Log!Filtered

LEMMA SameWithPictures ==
  ASSUME NEW value, NEW e
  PROVE  WithPictures(value, e) = Log!WithPictures(value, e)
  BY DEF WithPictures, Log!WithPictures

(* Writing what was computed from the stored events is one operation.       *)
LEMMA WholeOperation ==
  ASSUME NEW op \in Ops, NEW e \in Events, stamp[e] \in 0..now,
         stored' = NewValue(op, e, stored), now' = now
  PROVE  Log!Change
<1>1. CASE op = "append"
  <2>1. stored' = Log!Recent(Append(stored, NewEvent(e)), now)
    BY <1>1, SameRecent DEF NewValue
  <2>2. Log!Added(e, stamp[e])
    BY <2>1 DEF NewEvent, Log!Added
  <2> QED
    BY <2>2 DEF Log!Change
<1>2. CASE op = "remove"
  <2>1. stored' = Log!Without(stored, e)
    BY <1>2, SameWithout DEF NewValue
  <2> QED
    BY <2>1 DEF Log!Removed, Log!Change
<1>3. CASE op = "illustrate"
  <2>1. stored' = Log!WithPictures(stored, e)
    BY <1>3, SameWithPictures DEF NewValue
  <2> QED
    BY <2>1 DEF Log!Illustrated, Log!Change
<1> QED
  BY <1>1, <1>2, <1>3 DEF Ops

-----------------------------------------------------------------------------
LEMMA InitInv == Init /\ ~StartsEmpty => IInv
<1> SUFFICES ASSUME Init, ~StartsEmpty PROVE IInv
  OBVIOUS
<1>1. Shape
  BY DEF Init, Shape
<1>2. WritesAreCurrent
  BY IdleDoesNothing DEF Init, WritesAreCurrent
<1> QED
  BY <1>1, <1>2 DEF IInv

(* An attempt to write is made of the version and the events that were read. *)
LEMMA ModifyStep ==
  ASSUME Shape, NEW w \in Writers, NEW value, NEW ver, writer[w].pc = "read",
         Modify(w, value, ver)
  PROVE  /\ DOMAIN writer' = Writers
         /\ \A u \in Writers \ {w} : writer'[u] = writer[u]
         /\ writer'[w] = Idle
            \/ /\ writer'[w].pc = "write"
               /\ writer'[w].op = writer[w].op /\ writer'[w].event = writer[w].event
               /\ writer'[w].version = ver
               /\ writer'[w].value = NewValue(writer[w].op, writer[w].event, value)
  BY DEF Modify, Shape

(* A write that ends, with the answer of the storage.                       *)
LEMMA FinishStep ==
  ASSUME Shape, NEW w \in Writers, NEW ok \in BOOLEAN, writer[w].pc = "write", Finish(w, ok)
  PROVE  /\ DOMAIN writer' = Writers
         /\ \A u \in Writers \ {w} : writer'[u] = writer[u]
         /\ writer'[w] = Idle
            \/ /\ writer'[w].pc = "read"
               /\ writer'[w].op = writer[w].op /\ writer'[w].event = writer[w].event
         /\ append' \in [Events -> {"none", "running", "done", "failed"}]
         /\ \A e \in Events : append[e] # "none" => append'[e] # "none"
<1>1. Working(writer[w])
  BY IdleDoesNothing DEF Shape
<1>2. Result(writer[w], ok) \in {"done", "failed", "retry"}
  BY DEF Result
<1> QED
  BY <1>1, <1>2 DEF Finish, Shape, Working

(* A step that leaves the object, its version and the clock alone keeps the  *)
(* pending writes of the other goroutines current.                         *)
LEMMA OthersStayCurrent ==
  ASSUME Shape, WritesAreCurrent, NoReadFailed,
         stored' = stored, version' = version, now' = now,
         \A e \in Events : append[e] # "none" => stamp'[e] = stamp[e],
         NEW u \in Writers, writer[u].pc = "write", writer'[u] = writer[u]
  PROVE  Current(writer[u])'
<1> DEFINE s == writer[u]
<1>1. Working(s) /\ Current(s)
  BY IdleDoesNothing DEF Shape, WritesAreCurrent
<1>2. s.op = "append" => stamp'[s.event] = stamp[s.event]
  BY <1>1 DEF Working
<1>3. NewValue(s.op, s.event, stored)' = NewValue(s.op, s.event, stored)
  BY <1>1, <1>2 DEF NewValue, NewEvent, Working, Ops
<1> QED
  BY <1>1, <1>3 DEF Current

LEMMA CallStep ==
  ASSUME IInv, NEW w \in Writers, NEW op \in Ops, NEW e \in Events, Call(w, op, e),
         append' \in [Events -> {"none", "running", "done", "failed"}],
         DOMAIN stamp' = Events, \A d \in Events : stamp'[d] \in 0..now,
         op = "append" => append'[e] # "none",
         \A d \in Events : append[d] # "none" => append'[d] # "none" /\ stamp'[d] = stamp[d]
  PROVE  IInv'
<1>1. DOMAIN writer' = Writers /\ \A u \in Writers \ {w} : writer'[u] = writer[u]
  BY DEF Call, IInv, Shape
<1>2. writer'[w].pc = "read" /\ Working(writer[w])'
  BY DEF Call, IInv, Shape, Working
<1>3. \A u \in Writers \ {w} : writer'[u] = Idle \/ Working(writer[u])'
  BY <1>1 DEF IInv, Shape, Working
<1>4. Shape'
  BY <1>1, <1>2, <1>3 DEF Call, IInv, Shape
<1>5. ASSUME NoReadFailed', NEW u \in Writers, writer'[u].pc = "write"
      PROVE  Current(writer[u])'
  <2>1. u # w /\ writer'[u] = writer[u]
    BY <1>1, <1>2, <1>5
  <2>2. NoReadFailed
    BY <1>5 DEF Call, NoReadFailed
  <2> QED
    BY <2>1, <2>2, <1>5, OthersStayCurrent DEF Call, IInv
<1> QED
  BY <1>4, <1>5 DEF IInv, WritesAreCurrent

(* A goroutine that read the object, or failed to.                          *)
LEMMA ReadStep ==
  ASSUME IInv, NEW w \in Writers, ReadLedger(w) \/ ReadFails(w)
  PROVE  IInv'
<1>1. PICK value, ver : Modify(w, value, ver) /\ (ReadLedger(w) => value = stored /\ ver = version)
  BY DEF ReadLedger, ReadFails
<1>2. writer[w].pc = "read" /\ UNCHANGED <<stored, version, now, append, stamp>>
  BY DEF ReadLedger, ReadFails
<1>3. /\ DOMAIN writer' = Writers
      /\ \A u \in Writers \ {w} : writer'[u] = writer[u]
      /\ writer'[w] = Idle
         \/ /\ writer'[w].pc = "write"
            /\ writer'[w].op = writer[w].op /\ writer'[w].event = writer[w].event
            /\ writer'[w].version = ver
            /\ writer'[w].value = NewValue(writer[w].op, writer[w].event, value)
  BY <1>1, <1>2, ModifyStep DEF IInv
<1>4. Working(writer[w])
  BY <1>2, IdleDoesNothing DEF IInv, Shape
<1>5. \A u \in Writers : writer'[u] = Idle \/ Working(writer[u])'
  BY <1>2, <1>3, <1>4 DEF IInv, Shape, Working
<1>6. faults' \in [read : Nat, write : Nat] /\ (ReadFails(w) => faults'.read # 0)
  BY DEF ReadLedger, ReadFails, IInv, Shape
<1>7. Shape'
  BY <1>2, <1>3, <1>5, <1>6 DEF IInv, Shape
<1>8. ASSUME NoReadFailed', NEW u \in Writers, writer'[u].pc = "write"
      PROVE  Current(writer[u])'
  <2>1. ReadLedger(w) /\ NoReadFailed
    BY <1>6, <1>8 DEF ReadLedger, NoReadFailed
  <2>2. CASE u = w
    <3> DEFINE op == writer[w].op  e == writer[w].event
    <3>1. writer'[w].version = version /\ writer'[w].op = op /\ writer'[w].event = e
          /\ writer'[w].value = NewValue(op, e, stored)
      BY <1>1, <1>3, <1>8, <2>1, <2>2, IdleDoesNothing
    <3>2. \A o, d : NewValue(o, d, stored)' = NewValue(o, d, stored)
      BY <1>2 DEF NewValue, NewEvent
    <3> QED
      BY <1>2, <2>2, <3>1, <3>2 DEF Current, IInv, Shape
  <2>3. CASE u # w
    BY <1>2, <1>3, <1>8, <2>1, <2>3, OthersStayCurrent DEF IInv
  <2> QED
    BY <2>2, <2>3
<1> QED
  BY <1>7, <1>8 DEF IInv, WritesAreCurrent

(* An accepted write makes every other pending write an old one.             *)
LEMMA WriteLedgerStep ==
  ASSUME IInv, NEW w \in Writers, WriteLedger(w)
  PROVE  IInv'
<1> DEFINE ok == Accepted(writer[w].version)
<1>1. /\ ok \in BOOLEAN /\ Finish(w, ok) /\ writer[w].pc = "write"
      /\ UNCHANGED <<now, stamp, asked, faults>>
      /\ (ok /\ version' = version + 1) \/ UNCHANGED <<stored, version>>
  BY DEF WriteLedger, Accepted
<1>2. /\ DOMAIN writer' = Writers
      /\ \A u \in Writers \ {w} : writer'[u] = writer[u]
      /\ writer'[w] = Idle
         \/ /\ writer'[w].pc = "read"
            /\ writer'[w].op = writer[w].op /\ writer'[w].event = writer[w].event
      /\ append' \in [Events -> {"none", "running", "done", "failed"}]
      /\ \A e \in Events : append[e] # "none" => append'[e] # "none"
  <2> HIDE DEF ok
  <2> QED
    BY <1>1, FinishStep DEF IInv
<1>3. Working(writer[w])
  BY <1>1, IdleDoesNothing DEF IInv, Shape
<1>4. \A u \in Writers : writer'[u] = Idle \/ Working(writer[u])'
  BY <1>2, <1>3 DEF IInv, Shape, Working
<1>5. version' \in Nat \ {0}
  BY <1>1 DEF IInv, Shape
<1>6. Shape'
  BY <1>1, <1>2, <1>4, <1>5 DEF IInv, Shape
<1>7. ASSUME NoReadFailed', NEW u \in Writers, writer'[u].pc = "write"
      PROVE  Current(writer[u])'
  <2>1. u # w /\ writer'[u] = writer[u] /\ NoReadFailed
    BY <1>1, <1>2, <1>7, IdleDoesNothing DEF NoReadFailed
  <2>2. CASE ok /\ version' = version + 1
    <3>1. Current(writer[u])
      BY <1>7, <2>1 DEF IInv, WritesAreCurrent
    <3> QED
      BY <2>1, <2>2, <3>1 DEF Current, IInv, Shape
  <2>3. CASE UNCHANGED <<stored, version>>
    BY <1>1, <1>7, <2>1, <2>3, OthersStayCurrent DEF IInv
  <2> QED
    BY <1>1, <2>2, <2>3
<1> QED
  BY <1>6, <1>7 DEF IInv, WritesAreCurrent

LEMMA WriteFailsStep ==
  ASSUME IInv, NEW w \in Writers, WriteFails(w)
  PROVE  IInv'
<1> faults \in [read : Nat, write : Nat] /\ faults' = [faults EXCEPT !.write = @ + 1]
  BY DEF WriteFails, IInv, Shape
<1> faults' \in [read : Nat, write : Nat] /\ faults'.read = faults.read
  OBVIOUS
<1>1. /\ Finish(w, FALSE) /\ writer[w].pc = "write"
      /\ UNCHANGED <<stored, version, now, stamp, asked>>
  BY DEF WriteFails
<1>2. /\ DOMAIN writer' = Writers
      /\ \A u \in Writers \ {w} : writer'[u] = writer[u]
      /\ writer'[w] = Idle
         \/ /\ writer'[w].pc = "read"
            /\ writer'[w].op = writer[w].op /\ writer'[w].event = writer[w].event
      /\ append' \in [Events -> {"none", "running", "done", "failed"}]
      /\ \A e \in Events : append[e] # "none" => append'[e] # "none"
  BY <1>1, FinishStep DEF IInv
<1>3. Working(writer[w])
  BY <1>1, IdleDoesNothing DEF IInv, Shape
<1>4. \A u \in Writers : writer'[u] = Idle \/ Working(writer[u])'
  BY <1>2, <1>3 DEF IInv, Shape, Working
<1>5. Shape'
  BY <1>1, <1>2, <1>4 DEF IInv, Shape
<1>6. ASSUME NoReadFailed', NEW u \in Writers, writer'[u].pc = "write"
      PROVE  Current(writer[u])'
  <2>1. u # w /\ writer'[u] = writer[u] /\ NoReadFailed
    BY <1>2, <1>6, IdleDoesNothing DEF NoReadFailed
  <2> QED
    BY <1>1, <1>6, <2>1, OthersStayCurrent DEF IInv
<1> QED
  BY <1>5, <1>6 DEF IInv, WritesAreCurrent

(* No write is under way when the clock moves.                              *)
LEMMA TickStep == IInv /\ Tick => IInv'
<1> SUFFICES ASSUME IInv, Tick PROVE IInv'
  OBVIOUS
<1>1. now' = now + 1 /\ UNCHANGED <<stored, version, writer, append, stamp, faults>>
  BY DEF Tick
<1>2. \A e \in Events : stamp[e] \in 0..(now + 1)
  BY DEF IInv, Shape
<1>3. Shape'
  BY <1>1, <1>2 DEF IInv, Shape, Working
<1>4. \A u \in Writers : writer'[u].pc # "write"
  BY <1>1 DEF Tick
<1> QED
  BY <1>3, <1>4 DEF IInv, WritesAreCurrent

LEMMA StepInv == IInv /\ [Next]_vars => IInv'
<1> SUFFICES ASSUME IInv, [Next]_vars PROVE IInv'
  OBVIOUS
<1>1. ASSUME NEW w \in Writers, NEW e \in Events, NEW at \in 0..now, AppendCrewEvent(w, e, at)
      PROVE  IInv'
  <2>1. /\ append' \in [Events -> {"none", "running", "done", "failed"}] /\ append'[e] # "none"
        /\ DOMAIN stamp' = Events /\ \A d \in Events : stamp'[d] \in 0..now
        /\ \A d \in Events : append[d] # "none" => append'[d] # "none" /\ stamp'[d] = stamp[d]
    BY <1>1 DEF AppendCrewEvent, IInv, Shape
  <2> QED
    BY <1>1, <2>1, CallStep DEF AppendCrewEvent, Ops
<1>2. ASSUME NEW w \in Writers, NEW e \in Events,
             RemoveCrewEvent(w, e) \/ UpdateLedgerEventSnapshotURLs(w, e)
      PROVE  IInv'
  <2>1. PICK op \in {"remove", "illustrate"} : Ask(w, op, e)
    BY <1>2 DEF RemoveCrewEvent, UpdateLedgerEventSnapshotURLs
  <2>2. Call(w, op, e) /\ UNCHANGED <<append, stamp>> /\ op \in Ops /\ op # "append"
    BY <2>1 DEF Ask, Ops
  <2> QED
    BY <2>2, CallStep DEF IInv, Shape
<1>3. CASE UNCHANGED vars
  <2>1. Shape'
    BY <1>3 DEF vars, IInv, Shape, Working
  <2>2. ASSUME NoReadFailed', NEW u \in Writers, writer'[u].pc = "write"
        PROVE  Current(writer[u])'
    BY <1>3, <2>2, OthersStayCurrent DEF vars, IInv, NoReadFailed
  <2> QED
    BY <2>1, <2>2 DEF IInv, WritesAreCurrent
<1> QED
  BY <1>1, <1>2, <1>3, ReadStep, WriteLedgerStep, WriteFailsStep, TickStep DEF Next

-----------------------------------------------------------------------------
(* Theorems                                                                *)

(* As long as no read fails every step of CrewLedger is an operation of the  *)
(* log, a tick of its clock or a stutter.                                  *)
LEMMA StepRefines ==
  ASSUME IInv, [Next]_vars, NoReadFailed
  PROVE  [Log!Change \/ Log!Tick]_<<stored, now>>
<1>1. ASSUME NEW w \in Writers, WriteLedger(w)
      PROVE  [Log!Change \/ Log!Tick]_<<stored, now>>
  <2> DEFINE s == writer[w]
  <2>1. CASE Accepted(s.version)
    <3>1. Working(s) /\ Current(s) /\ s.pc = "write"
      BY <1>1, IdleDoesNothing DEF IInv, Shape, WritesAreCurrent, WriteLedger
    <3>2. s.version = version
      BY <2>1, <3>1 DEF Accepted, Current, IInv, Shape
    <3>3. stored' = NewValue(s.op, s.event, stored) /\ now' = now
      BY <1>1, <2>1, <3>1, <3>2 DEF WriteLedger, Current
    <3>4. s.op \in Ops /\ s.event \in Events /\ stamp[s.event] \in 0..now
      BY <3>1 DEF Working, IInv, Shape
    <3> QED
      BY <3>3, <3>4, WholeOperation
  <2>2. CASE ~Accepted(s.version)
    BY <1>1, <2>2 DEF WriteLedger
  <2> QED
    BY <2>1, <2>2
<1>2. CASE Tick
  BY <1>2 DEF Tick, Log!Tick
<1>3. CASE UNCHANGED <<stored, now>>
  BY <1>3
<1> QED
  BY <1>1, <1>2, <1>3
  DEF Next, vars, AppendCrewEvent, RemoveCrewEvent, UpdateLedgerEventSnapshotURLs, Ask, Call,
      ReadLedger, ReadFails, WriteFails

(* The ledger of a crew is one log that whole operations change one after    *)
(* the other: the reads and writes of appends, removals and backfills       *)
(* (crew_events.go) interleave in any way, their writes are refused or fail *)
(* and are tried again, and none overwrites what another one wrote.  Two    *)
(* things it rests on: the ledger object exists, and no read fails.         *)
THEOREM LedgerIsALog == ~StartsEmpty /\ Spec => ImplementsEventLog
<1>1. Init /\ ~StartsEmpty => IInv
  BY InitInv
<1>2. IInv /\ [Next]_vars => IInv'
  BY StepInv
<1>3. Init => Log!Init
  BY DEF Init, Log!Init
<1>4. IInv /\ [Next]_vars => [NoReadFailed => Log!Change \/ Log!Tick]_<<stored, now>>
  BY StepRefines
<1> QED
  BY <1>1, <1>2, <1>3, <1>4, PTL DEF Spec, ImplementsEventLog

(* What a goroutine is about to write was computed from a version of the     *)
(* object that was really stored, and if that is still the stored one, from *)
(* the events that are stored.                                             *)
THEOREM WritesComeFromReads == ~StartsEmpty /\ Spec => []WritesAreCurrent
<1>1. Init /\ ~StartsEmpty => IInv
  BY InitInv
<1>2. IInv /\ [Next]_vars => IInv'
  BY StepInv
<1>3. IInv => WritesAreCurrent
  BY DEF IInv
<1> QED
  BY <1>1, <1>2, <1>3, PTL DEF Spec

-----------------------------------------------------------------------------
(* Numbers and loops                                                       *)

(* A set of numbers that is not empty has one whose predecessor it lacks.    *)
LEMMA Smallest ==
  ASSUME NEW T \in SUBSET Nat, T # {}
  PROVE  \E n \in T : n - 1 \notin T
<1> DEFINE below == {1..n : n \in T}
           R == StrictSubsetOrdering(Nat)
<1>1. IsWellFoundedOn(R, FiniteSubsetsOf(Nat))
  BY FS_StrictSubsetOrderingWellFounded
<1>2. below \subseteq FiniteSubsetsOf(Nat) /\ below # {}
  <2>1. \A n \in T : IsFiniteSet(1..n) /\ 1..n \subseteq Nat
    BY FS_Interval
  <2> QED
    BY <2>1 DEF FiniteSubsetsOf
<1>3. PICK least \in below : \A other \in below : <<other, least>> \notin R
  <2> HIDE DEF below, R
  <2> QED
    BY <1>1, <1>2, WFMin
<1>4. PICK n \in T : least = 1..n
  OBVIOUS
<1>5. ASSUME n - 1 \in T PROVE FALSE
  <2>1. 1..(n - 1) \in below /\ n \in Nat /\ n - 1 \in Nat
    BY <1>5
  <2>2. n \in 1..n /\ n \notin 1..(n - 1)
    BY <2>1
  <2>3. 1..(n - 1) \subseteq 1..n /\ 1..(n - 1) # 1..n /\ 1..n \subseteq Nat /\ 1..(n - 1) \subseteq Nat
    BY <2>1, <2>2
  <2>4. <<1..(n - 1), 1..n>> \in R
    BY <2>3 DEF StrictSubsetOrdering
  <2> QED
    BY <1>3, <1>4, <2>1, <2>4
<1> QED
  BY <1>5

(* Induction, with the set of the numbers that have the property.            *)
LEMMA SetInduction ==
  ASSUME NEW m \in Nat, NEW T, 0 \in T, \A n \in 0..(m - 1) : n \in T => n + 1 \in T
  PROVE  \A n \in 0..m : n \in T
<1> DEFINE F == {n \in 0..m : n \notin T}
<1>1. SUFFICES ASSUME F # {} PROVE FALSE
  OBVIOUS
<1>2. F \in SUBSET Nat
  OBVIOUS
<1>3. PICK n \in F : n - 1 \notin F
  <2> HIDE DEF F
  <2> QED
    BY <1>1, <1>2, Smallest
<1>4. n # 0 /\ n - 1 \in 0..(m - 1)
  OBVIOUS
<1>5. n - 1 \in T /\ n - 1 + 1 = n
  BY <1>3, <1>4
<1> QED
  BY <1>4, <1>5

(* g is what a loop of Filtered has copied after each of its n turns.        *)
Copied(g, seq, keep, n) ==
  g = [i \in 0..n |-> IF i = 0 THEN <<>> ELSE IF i \in keep THEN Append(g[i - 1], seq[i]) ELSE g[i - 1]]

LEMMA LoopRuns ==
  ASSUME NEW seq, NEW keep, NEW m \in Nat
  PROVE  \E g : Copied(g, seq, keep, m)
<1> DEFINE T == {n \in 0..m : \E g : Copied(g, seq, keep, n)}
<1>1. 0 \in T
  <2>1. Copied([i \in 0..0 |-> <<>>], seq, keep, 0)
    BY DEF Copied
  <2> QED
    BY <2>1
<1>2. ASSUME NEW n \in 0..(m - 1), n \in T PROVE n + 1 \in T
  <2>1. PICK g : Copied(g, seq, keep, n)
    BY <1>2
  <2> DEFINE h == [i \in 0..(n + 1) |->
                     IF i <= n THEN g[i] ELSE IF i \in keep THEN Append(g[n], seq[i]) ELSE g[n]]
  <2>2. ASSUME NEW i \in 0..(n + 1)
        PROVE  h[i] = IF i = 0 THEN <<>> ELSE IF i \in keep THEN Append(h[i - 1], seq[i]) ELSE h[i - 1]
    <3>1. \A j \in 0..n : g[j] = IF j = 0 THEN <<>> ELSE IF j \in keep THEN Append(g[j - 1], seq[j]) ELSE g[j - 1]
      BY <2>1 DEF Copied
    <3>2. CASE i = n + 1
      <4>1. h[i] = (IF i \in keep THEN Append(g[n], seq[i]) ELSE g[n]) /\ h[n] = g[n] /\ i - 1 = n /\ i # 0
        BY <3>2
      <4> HIDE DEF h
      <4> QED
        BY <4>1
    <3>3. CASE i \in 1..n
      <4>1. h[i] = g[i] /\ h[i - 1] = g[i - 1] /\ i # 0
        BY <3>3
      <4> HIDE DEF h
      <4> QED
        BY <3>1, <3>3, <4>1
    <3>4. CASE i = 0
      BY <3>1, <3>4
    <3> QED
      BY <3>2, <3>3, <3>4
  <2>3. Copied(h, seq, keep, n + 1)
    BY <2>2 DEF Copied
  <2> QED
    BY <2>3
<1>3. \A n \in 0..m : n \in T
  <2> HIDE DEF T
  <2> QED
    BY <1>1, <1>2, SetInduction
<1> QED
  BY <1>3

(* Filtered has the elements to keep, and each of them once.                 *)
Distinct(seq) == \A i, j \in DOMAIN seq : seq[i].id = seq[j].id => i = j

LEMMA FilteredKeeps ==
  ASSUME NEW S, NEW seq \in Seq(S), Distinct(seq), NEW keep
  PROVE  LET out == Filtered(seq, keep) IN
         /\ out \in Seq(S) /\ Distinct(out)
         /\ \A k \in DOMAIN out : \E i \in DOMAIN seq : i \in keep /\ out[k] = seq[i]
         /\ \A i \in DOMAIN seq : i \in keep => \E k \in DOMAIN out : out[k] = seq[i]
<1> DEFINE m == Len(seq)
           g == CHOOSE f : Copied(f, seq, keep, m)
           Good(n) ==
             /\ g[n] \in Seq(S) /\ Distinct(g[n])
             /\ \A k \in DOMAIN g[n] : \E i \in 1..n : i \in keep /\ g[n][k] = seq[i]
             /\ \A i \in 1..n : i \in keep => \E k \in DOMAIN g[n] : g[n][k] = seq[i]
           T == {n \in 0..m : Good(n)}
<1>1. m \in Nat /\ DOMAIN seq = 1..m
  OBVIOUS
<1>2. Copied(g, seq, keep, m)
  BY <1>1, LoopRuns, Zenon
<1>3. Filtered(seq, keep) = g[m]
  BY Zenon DEF Filtered, Copied
<1> HIDE DEF g
<1>4. \A n \in 0..m : g[n] = IF n = 0 THEN <<>> ELSE IF n \in keep THEN Append(g[n - 1], seq[n]) ELSE g[n - 1]
  BY <1>2 DEF Copied
<1>5. 0 \in T
  <2>1. g[0] = <<>>
    BY <1>1, <1>4
  <2>2. g[0] \in Seq(S) /\ (\A k : k \notin DOMAIN g[0]) /\ (\A i : i \notin 1..0) /\ 0 \in 0..m
    BY <1>1, <2>1
  <2>3. Distinct(g[0])
    BY <2>2 DEF Distinct
  <2> QED
    BY <2>2, <2>3
<1>6. ASSUME NEW n \in 0..(m - 1), n \in T PROVE n + 1 \in T
  <2> DEFINE a == g[n]  b == g[n + 1]
  <2>0. n \in Nat /\ n + 1 \in 1..m /\ seq[n + 1] \in S /\ Good(n)
    BY <1>1, <1>6
  <2>1. b = IF n + 1 \in keep THEN Append(a, seq[n + 1]) ELSE a
    BY <1>1, <1>4, <2>0
  <2>2. CASE n + 1 \notin keep
    BY <2>0, <2>1, <2>2
  <2>3. CASE n + 1 \in keep
    <3>1. /\ b \in Seq(S) /\ Len(b) = Len(a) + 1 /\ b[Len(a) + 1] = seq[n + 1]
          /\ \A k \in 1..Len(a) : b[k] = a[k]
          /\ DOMAIN a = 1..Len(a) /\ DOMAIN b = 1..(Len(a) + 1) /\ Len(a) \in Nat
      BY <2>0, <2>1, <2>3
    <3> HIDE DEF a, b
    <3>2. \A k \in DOMAIN a : \E i \in 1..n : i \in keep /\ a[k] = seq[i]
      BY <2>0 DEF a
    <3>3. \A i \in 1..n : i \in keep => \E k \in DOMAIN a : a[k] = seq[i]
      BY <2>0 DEF a
    <3>4. \A k \in DOMAIN b : k \in DOMAIN a \/ k = Len(a) + 1
      BY <3>1
    <3>5. \A k \in DOMAIN b : \E i \in 1..(n + 1) : i \in keep /\ b[k] = seq[i]
      <4>1. ASSUME NEW k \in DOMAIN a PROVE \E i \in 1..(n + 1) : i \in keep /\ b[k] = seq[i]
        <5>1. PICK i \in 1..n : i \in keep /\ a[k] = seq[i]
          BY <3>2
        <5>2. i \in 1..(n + 1) /\ b[k] = a[k]
          BY <2>0, <3>1
        <5> QED
          BY <5>1, <5>2
      <4>2. n + 1 \in 1..(n + 1) /\ n + 1 \in keep /\ b[Len(a) + 1] = seq[n + 1]
        BY <2>0, <2>3, <3>1
      <4> QED
        BY <3>4, <4>1, <4>2
    <3>6. \A i \in 1..(n + 1) : i \in keep => \E k \in DOMAIN b : b[k] = seq[i]
      <4>1. ASSUME NEW i \in 1..n, i \in keep PROVE \E k \in DOMAIN b : b[k] = seq[i]
        <5>1. PICK k \in DOMAIN a : a[k] = seq[i]
          BY <3>3, <4>1
        <5>2. k \in DOMAIN b /\ b[k] = a[k]
          BY <3>1
        <5> QED
          BY <5>1, <5>2
      <4>2. Len(a) + 1 \in DOMAIN b
        BY <3>1
      <4>3. \A i \in 1..(n + 1) : i \in 1..n \/ i = n + 1
        BY <2>0
      <4> QED
        BY <3>1, <4>1, <4>2, <4>3
    <3>7. \A k \in DOMAIN a : a[k].id # seq[n + 1].id
      <4> SUFFICES ASSUME NEW k \in DOMAIN a, a[k].id = seq[n + 1].id PROVE FALSE
        OBVIOUS
      <4>1. PICK i \in 1..n : a[k] = seq[i]
        BY <3>2
      <4>2. i \in DOMAIN seq /\ n + 1 \in DOMAIN seq /\ i # n + 1
        BY <1>1, <2>0
      <4> QED
        BY <4>1, <4>2 DEF Distinct
    <3>8. Distinct(a)
      BY <2>0 DEF a
    <3>9. Distinct(b)
      BY <3>1, <3>4, <3>7, <3>8 DEF Distinct
    <3> QED
      <4> n + 1 \in 0..m /\ Good(n + 1)
        BY <1>1, <2>0, <3>1, <3>5, <3>6, <3>9 DEF b
      <4> QED
        OBVIOUS
  <2> QED
    BY <2>2, <2>3
<1>7. \A n \in 0..m : n \in T
  <2> HIDE DEF T, m
  <2> QED
    BY <1>1, <1>5, <1>6, SetInduction
<1>8. Good(m)
  BY <1>1, <1>7
<1> QED
  BY <1>1, <1>3, <1>8
-----------------------------------------------------------------------------
(* What is in the ledger                                                   *)

Items == [id : Events, at : Nat, pictures : BOOLEAN]

(* What an operation makes of a ledger that has each event once.             *)
LEMMA NewValueFits ==
  ASSUME NEW op \in Ops, NEW e \in Events, NEW value \in Seq(Items), Distinct(value),
         stamp[e] \in Nat, now \in Nat, op = "append" => ~Has(value, e)
  PROVE  LET new == NewValue(op, e, value) IN
         /\ new \in Seq(Items) /\ Distinct(new)
         /\ \A k \in DOMAIN new :
              \/ \E i \in DOMAIN value : new[k].id = value[i].id /\ new[k].at = value[i].at /\ (op = "remove" => new[k].id # e)
              \/ op = "append" /\ new[k].id = e /\ new[k].at = stamp[e]
         /\ \A i \in DOMAIN value :
              /\ op = "append" => value[i].at >= now - Retention
              /\ op = "remove" => value[i].id # e
              => Has(new, value[i].id)
         /\ op = "append" /\ stamp[e] >= now - Retention => Has(new, e)
<1> DEFINE new == NewValue(op, e, value)
<1>1. CASE op = "append"
  <2> DEFINE item == NewEvent(e)
             all == Append(value, item)
             keep == {i \in DOMAIN all : all[i].at >= now - Retention}
  <2>1. item \in Items /\ item.id = e /\ item.at = stamp[e]
    BY DEF NewEvent, Items
  <2> HIDE DEF item
  <2>2. /\ all \in Seq(Items) /\ DOMAIN value = 1..Len(value) /\ DOMAIN all = 1..(Len(value) + 1) /\ Len(value) \in Nat
        /\ all[Len(value) + 1] = item /\ \A i \in DOMAIN value : i \in DOMAIN all /\ all[i] = value[i]
    BY <2>1
  <2> HIDE DEF all
  <2>3. \A i \in DOMAIN all : i \in DOMAIN value \/ i = Len(value) + 1
    BY <2>2
  <2>4. Distinct(all)
    BY <1>1, <2>1, <2>2, <2>3 DEF Distinct, Has
  <2>5. new = Filtered(all, keep)
    BY <1>1 DEF NewValue, Recent, all, item
  <2> HIDE DEF new
  <2>6. /\ new \in Seq(Items) /\ Distinct(new)
        /\ \A k \in DOMAIN new : \E i \in DOMAIN all : i \in keep /\ new[k] = all[i]
        /\ \A i \in DOMAIN all : i \in keep => \E k \in DOMAIN new : new[k] = all[i]
    <3> HIDE DEF keep
    <3>1. all \in Seq(Items)
      BY <2>2
    <3> QED
      BY <2>4, <2>5, <3>1, FilteredKeeps
  <2>7. ASSUME NEW k \in DOMAIN new
        PROVE  (\E i \in DOMAIN value : new[k] = value[i]) \/ (new[k].id = e /\ new[k].at = stamp[e])
    BY <2>1, <2>2, <2>3, <2>6
  <2>8. ASSUME NEW i \in DOMAIN value, value[i].at >= now - Retention
        PROVE  Has(new, value[i].id)
    BY <2>2, <2>6, <2>8 DEF Has
  <2>9. ASSUME stamp[e] >= now - Retention
        PROVE  Has(new, e)
    <3>1. Len(value) + 1 \in DOMAIN all /\ all[Len(value) + 1].at >= now - Retention
      BY <2>1, <2>2, <2>9
    <3>2. PICK k \in DOMAIN new : new[k] = all[Len(value) + 1]
      BY <2>6, <3>1
    <3> QED
      BY <2>1, <2>2, <3>2 DEF Has
  <2> QED
    BY <1>1, <2>6, <2>7, <2>8, <2>9 DEF new
<1>2. CASE op = "remove"
  <2> DEFINE keep == {i \in DOMAIN value : value[i].id # e}
  <2>1. new = Filtered(value, keep)
    BY <1>2 DEF NewValue, Without
  <2> HIDE DEF new
  <2>2. /\ new \in Seq(Items) /\ Distinct(new)
        /\ \A k \in DOMAIN new : \E i \in DOMAIN value : i \in keep /\ new[k] = value[i]
        /\ \A i \in DOMAIN value : i \in keep => \E k \in DOMAIN new : new[k] = value[i]
    <3> HIDE DEF keep
    <3> QED
      BY <2>1, FilteredKeeps
  <2>3. ASSUME NEW k \in DOMAIN new
        PROVE  \E i \in DOMAIN value : new[k].id = value[i].id /\ new[k].at = value[i].at /\ new[k].id # e
    BY <2>2
  <2>4. ASSUME NEW i \in DOMAIN value, value[i].id # e
        PROVE  Has(new, value[i].id)
    BY <2>2, <2>4 DEF Has
  <2> QED
    BY <1>2, <2>2, <2>3, <2>4 DEF new
<1>3. CASE op = "illustrate"
  <2>1. new = [i \in DOMAIN value |-> IF value[i].id = e THEN [value[i] EXCEPT !.pictures = TRUE] ELSE value[i]]
    BY <1>3 DEF NewValue, WithPictures
  <2> HIDE DEF new
  <2>2. \A i \in DOMAIN value : new[i] \in Items /\ new[i].id = value[i].id /\ new[i].at = value[i].at
    <3> SUFFICES ASSUME NEW i \in DOMAIN value
                 PROVE  new[i] \in Items /\ new[i].id = value[i].id /\ new[i].at = value[i].at
      OBVIOUS
    <3>1. value[i] \in Items
      OBVIOUS
    <3>2. new[i] = IF value[i].id = e THEN [value[i] EXCEPT !.pictures = TRUE] ELSE value[i]
      BY <2>1
    <3> QED
      BY <3>1, <3>2 DEF Items
  <2>3. DOMAIN new = DOMAIN value
    BY <2>1
  <2>4. new \in Seq(Items)
    <3>1. DOMAIN value = 1..Len(value) /\ Len(value) \in Nat
      OBVIOUS
    <3>2. new = [i \in 1..Len(value) |-> new[i]] /\ \A i \in 1..Len(value) : new[i] \in Items
      BY <2>1, <2>2, <3>1
    <3> HIDE DEF new
    <3> QED
      BY <3>1, <3>2
  <2> QED
    BY <1>3, <2>2, <2>3, <2>4 DEF new, Distinct, Has
<1> QED
  BY <1>1, <1>2, <1>3 DEF Ops

(* Who works on an event: its append, alone and once, then what was asked.   *)
Appends(w, e) == writer[w] # Idle /\ writer[w].op = "append" /\ writer[w].event = e

Assigned ==
  /\ \A w \in Writers, e \in Events : Appends(w, e) => append[e] = "running"
  /\ \A u, w \in Writers, e \in Events : Appends(u, e) /\ Appends(w, e) => u = w
  /\ \A w \in Writers : writer[w] # Idle /\ writer[w].op = "remove" =>
       append[writer[w].event] = "done" /\ <<"remove", writer[w].event>> \in asked
  /\ gone \subseteq {e \in Events : append[e] = "done"}

(* The ledger has each event once, none before its append is accepted or     *)
(* after it was taken back, and all that are to be there.                   *)
Filed(i) == stored[i].at = stamp[stored[i].id] /\ append[stored[i].id] = "done" /\ stored[i].id \notin gone
Due(e) == append[e] = "done" /\ <<"remove", e>> \notin asked /\ stamp[e] >= now - Retention

OnLedger ==
  /\ stored \in Seq(Items) /\ Distinct(stored)
  /\ \A i \in DOMAIN stored : Filed(i)
  /\ \A e \in Events : Due(e) => Has(stored, e)

LInv == IInv /\ Assigned /\ (NoReadFailed => OnLedger)

LEMMA ItemsHaveEvents ==
  ASSUME OnLedger, NEW i \in DOMAIN stored
  PROVE  stored[i].id \in Events /\ stored[i].at \in Nat
<1>1. stored[i] \in Items
  BY DEF OnLedger
<1> QED
  BY <1>1 DEF Items

LEMMA InitLedger == Init => Assigned /\ OnLedger
<1> SUFFICES ASSUME Init PROVE Assigned /\ OnLedger
  OBVIOUS
<1>1. \A w \in Writers : writer[w] = Idle
  BY DEF Init
<1>2. stored = <<>> /\ stored \in Seq(Items) /\ (\A i : i \notin DOMAIN stored) /\ gone = {} /\ \A e \in Events : append[e] = "none"
  BY DEF Init
<1> QED
  BY <1>1, <1>2 DEF Assigned, Appends, OnLedger, Distinct, Due

(* A step that leaves the stored events alone.                               *)
LEMMA LedgerStays ==
  ASSUME IInv, OnLedger, stored' = stored, now' \in {now, now + 1}, asked \subseteq asked',
         \A e \in Events : append'[e] = "done" <=> append[e] = "done",
         \A e \in Events : append[e] = "done" => stamp'[e] = stamp[e],
         \A e \in gone' : e \in gone \/ ~Has(stored, e)
  PROVE  OnLedger'
<1>1. ASSUME NEW i \in DOMAIN stored PROVE Filed(i)'
  <2>1. stored[i].id \in Events
    BY ItemsHaveEvents
  <2> QED
    BY <2>1 DEF OnLedger, Filed, Has
<1>2. ASSUME NEW e \in Events, Due(e)' PROVE Due(e)
  BY <1>2 DEF Due, IInv, Shape
<1> QED
  BY <1>1, <1>2 DEF OnLedger, Has, Distinct, Filed

LEMMA CallLedger ==
  ASSUME LInv, NEW w \in Writers, NEW op \in Ops, NEW e \in Events, Call(w, op, e),
         \/ /\ op = "append" /\ append[e] = "none" /\ append' = [append EXCEPT ![e] = "running"]
            /\ (\A d \in Events \ {e} : stamp'[d] = stamp[d]) /\ asked' = asked
         \/ /\ op # "append" /\ append[e] = "done" /\ asked' = asked \cup {<<op, e>>}
            /\ UNCHANGED <<append, stamp>>
  PROVE  Assigned' /\ (NoReadFailed' => OnLedger')
<1>1. /\ writer[w] = Idle /\ UNCHANGED <<stored, now, gone, faults>>
      /\ writer'[w] = [pc |-> "read", op |-> op, event |-> e, attempt |-> 1]
      /\ \A u \in Writers \ {w} : writer'[u] = writer[u]
  BY DEF Call, LInv, IInv, Shape
<1>2. writer'[w].op = op /\ writer'[w].event = e
  BY <1>1
<1>3. /\ \A d \in Events : append'[d] = IF op = "append" /\ d = e THEN "running" ELSE append[d]
  BY DEF LInv, IInv, Shape
<1>4. \A u \in Writers, d \in Events : Appends(u, d)' => Appends(u, d) \/ (u = w /\ d = e /\ op = "append")
  BY <1>1, <1>2 DEF Appends
<1>5. op = "append" => \A u \in Writers : ~Appends(u, e)
  BY DEF LInv, Assigned
<1>6. ASSUME NEW u \in Writers, writer'[u] # Idle, writer'[u].op = "remove"
      PROVE  append'[writer'[u].event] = "done" /\ <<"remove", writer'[u].event>> \in asked'
  <2>1. CASE u = w
    BY <1>2, <1>6, <2>1
  <2>2. CASE u # w
    <3>1. writer'[u] = writer[u] /\ append[writer[u].event] = "done" /\ <<"remove", writer[u].event>> \in asked
      BY <1>1, <1>6, <2>2 DEF LInv, Assigned
    <3>2. writer[u].event \in Events
      BY <1>1, <1>6, <2>2, <3>1 DEF LInv, IInv, Shape, Working
    <3> QED
      BY <1>3, <3>1, <3>2
  <2> QED
    BY <2>1, <2>2
<1>7. Assigned'
  BY <1>1, <1>3, <1>4, <1>5, <1>6 DEF LInv, Assigned
<1>8. NoReadFailed' => OnLedger'
  BY <1>1, <1>3, LedgerStays DEF LInv, NoReadFailed
<1> QED
  BY <1>7, <1>8

(* A removal that does not find its event: it is not there.                  *)
LEMMA ReadLedgerKeeps ==
  ASSUME LInv, NEW w \in Writers, ReadLedger(w) \/ ReadFails(w)
  PROVE  Assigned' /\ (NoReadFailed' => OnLedger')
<1> DEFINE s == writer[w]
<1>1. PICK value, ver : Modify(w, value, ver) /\ (ReadLedger(w) => value = stored)
  BY DEF ReadLedger, ReadFails
<1>2. s.pc = "read" /\ UNCHANGED <<stored, version, now, append, stamp, asked>>
  BY DEF ReadLedger, ReadFails
<1>3. Working(s) /\ s # Idle
  BY <1>2, IdleDoesNothing DEF LInv, IInv, Shape
<1>4. /\ \A u \in Writers \ {w} : writer'[u] = writer[u]
      /\ writer'[w] = Idle \/ (writer'[w].op = s.op /\ writer'[w].event = s.event)
  BY <1>1, <1>2, ModifyStep DEF LInv, IInv
<1>5. gone' = gone \/ (s.op = "remove" /\ gone' = gone \cup {s.event} /\ ~Has(value, s.event))
  BY <1>1 DEF Modify
<1>6. \A u \in Writers, e \in Events : Appends(u, e)' => Appends(u, e)
  BY <1>3, <1>4 DEF Appends
<1>7. ASSUME NEW u \in Writers, writer'[u] # Idle, writer'[u].op = "remove"
      PROVE  append[writer'[u].event] = "done" /\ <<"remove", writer'[u].event>> \in asked
  BY <1>3, <1>4, <1>7 DEF LInv, Assigned
<1>8. Assigned'
  <2>1. gone' \subseteq {e \in Events : append[e] = "done"}
    <3>1. gone \subseteq {e \in Events : append[e] = "done"}
      BY DEF LInv, Assigned
    <3>2. s.op = "remove" => s.event \in Events /\ append[s.event] = "done"
      BY <1>3 DEF LInv, Assigned, Working
    <3> QED
      BY <1>5, <3>1, <3>2
  <2> QED
    BY <1>2, <1>6, <1>7, <2>1 DEF LInv, Assigned
<1>9. ASSUME NoReadFailed' PROVE OnLedger'
  <2>1. faults \in [read : Nat, write : Nat]
    BY DEF LInv, IInv, Shape
  <2>2. ReadLedger(w) /\ NoReadFailed
    BY <1>9, <2>1 DEF ReadLedger, ReadFails, NoReadFailed
  <2>3. \A e \in gone' : e \in gone \/ ~Has(stored, e)
    BY <1>1, <1>5, <2>2
  <2> QED
    BY <1>2, <2>2, <2>3, LedgerStays DEF LInv
<1> QED
  BY <1>8, <1>9

(* How an attempt to write ends, with the answer of the storage.             *)
LEMMA FinishDetails ==
  ASSUME LInv, NEW w \in Writers, NEW ok \in BOOLEAN, writer[w].pc = "write", Finish(w, ok)
  PROVE  /\ \A u \in Writers, e \in Events : Appends(u, e)' => Appends(u, e)
         /\ \A u \in Writers : writer'[u] # Idle => writer[u] # Idle /\ writer'[u].op = writer[u].op /\ writer'[u].event = writer[u].event
         /\ \A e \in Events : append'[e] = append[e] \/
              (Appends(w, e) /\ ~Appends(w, e)' /\ append'[e] = IF ok THEN "done" ELSE "failed")
         /\ ok => \A e \in Events : Appends(w, e) => append'[e] = "done"
         /\ gone' = IF ok /\ writer[w].op = "remove" THEN gone \cup {writer[w].event} ELSE gone
<1> DEFINE s == writer[w]
           again == [pc |-> "read", op |-> s.op, event |-> s.event, attempt |-> s.attempt + 1]
           r == Result(s, ok)
<1>1. Working(s) /\ s # Idle
  BY IdleDoesNothing DEF LInv, IInv, Shape
<1>2. again.op = s.op /\ again.event = s.event /\ again.pc = "read"
  OBVIOUS
<1> HIDE DEF again
<1>3. /\ \A u \in Writers \ {w} : writer'[u] = writer[u]
      /\ writer'[w] = IF r = "retry" THEN again ELSE Idle
  BY DEF Finish, LInv, IInv, Shape, again
<1>4. r = IF ok THEN "done" ELSE IF s.attempt = Attempts THEN "failed" ELSE "retry"
  BY DEF Result
<1>5. \A e \in Events : append'[e] = IF s.op = "append" /\ r # "retry" /\ e = s.event THEN r ELSE append[e]
  BY <1>1 DEF Finish, LInv, IInv, Shape, Working
<1>6. gone' = IF s.op = "remove" /\ r = "done" THEN gone \cup {s.event} ELSE gone
  BY DEF Finish
<1> HIDE DEF r
<1>7. \A u \in Writers : writer'[u] # Idle => writer[u] # Idle /\ writer'[u].op = writer[u].op /\ writer'[u].event = writer[u].event
  BY <1>1, <1>2, <1>3
<1>8. \A u \in Writers, e \in Events : Appends(u, e)' => Appends(u, e)
  BY <1>7 DEF Appends
<1>9. r # "retry" => \A e \in Events : ~Appends(w, e)'
  BY <1>3 DEF Appends
<1>10. \A e \in Events : Appends(w, e) <=> s.op = "append" /\ e = s.event
  BY <1>1 DEF Appends
<1> QED
  BY <1>4, <1>5, <1>6, <1>7, <1>8, <1>9, <1>10

LEMMA FinishAssigned ==
  ASSUME LInv, NEW w \in Writers, NEW ok \in BOOLEAN, writer[w].pc = "write", Finish(w, ok), asked' = asked
  PROVE  Assigned'
<1> DEFINE s == writer[w]
<1>0. Working(s) /\ s # Idle
  BY IdleDoesNothing DEF LInv, IInv, Shape
<1>1. /\ \A u \in Writers, e \in Events : Appends(u, e)' => Appends(u, e)
      /\ \A u \in Writers : writer'[u] # Idle => writer[u] # Idle /\ writer'[u].op = writer[u].op /\ writer'[u].event = writer[u].event
      /\ \A e \in Events : append'[e] = append[e] \/
           (Appends(w, e) /\ ~Appends(w, e)' /\ append'[e] = IF ok THEN "done" ELSE "failed")
      /\ gone' = IF ok /\ s.op = "remove" THEN gone \cup {s.event} ELSE gone
  BY FinishDetails
<1>2. \A e \in Events : append[e] = "done" => append'[e] = "done"
  BY <1>1 DEF LInv, Assigned
<1>3. ASSUME NEW u \in Writers, NEW e \in Events, Appends(u, e)'
      PROVE  append'[e] = "running"
  <2>1. Appends(u, e) /\ append[e] = "running"
    BY <1>1, <1>3 DEF LInv, Assigned
  <2>2. Appends(w, e) => u = w
    BY <2>1 DEF LInv, Assigned
  <2> QED
    BY <1>1, <1>3, <2>1, <2>2
<1>4. ASSUME NEW u \in Writers, writer'[u] # Idle, writer'[u].op = "remove"
      PROVE  append'[writer'[u].event] = "done" /\ <<"remove", writer'[u].event>> \in asked'
  <2>1. writer[u] # Idle /\ writer[u].op = "remove" /\ writer'[u].event = writer[u].event /\ writer[u].event \in Events
    BY <1>1, <1>4 DEF LInv, IInv, Shape, Working
  <2> QED
    BY <1>2, <2>1 DEF LInv, Assigned
<1>5. gone' \subseteq {e \in Events : append'[e] = "done"}
  <2>1. gone \subseteq {e \in Events : append'[e] = "done"}
    BY <1>2 DEF LInv, Assigned
  <2>2. s.op = "remove" => s.event \in Events /\ append[s.event] = "done"
    BY <1>0 DEF LInv, Assigned, Working
  <2> QED
    BY <1>1, <1>2, <2>1, <2>2
<1> QED
  BY <1>1, <1>3, <1>4, <1>5 DEF LInv, Assigned

LEMMA WriteFailsKeeps ==
  ASSUME LInv, NEW w \in Writers, WriteFails(w)
  PROVE  Assigned' /\ (NoReadFailed' => OnLedger')
<1>1. /\ writer[w].pc = "write" /\ Finish(w, FALSE) /\ UNCHANGED <<stored, now, stamp, asked>>
      /\ faults' = [faults EXCEPT !.write = @ + 1]
  BY DEF WriteFails
<1>2. Assigned'
  BY <1>1, FinishAssigned
<1>3. /\ \A e \in Events : append'[e] = append[e] \/ (Appends(w, e) /\ append'[e] = "failed")
      /\ gone' = gone
  BY <1>1, FinishDetails
<1>4. \A e \in Events : append'[e] = "done" <=> append[e] = "done"
  BY <1>3 DEF LInv, Assigned
<1>5. faults'.read = faults.read
  BY <1>1 DEF LInv, IInv, Shape
<1>6. NoReadFailed' => OnLedger'
  BY <1>1, <1>3, <1>4, <1>5, LedgerStays DEF LInv, NoReadFailed
<1> QED
  BY <1>2, <1>6

(* An accepted write is its operation on the stored events.                  *)
LEMMA WriteLedgerKeeps ==
  ASSUME LInv, NEW w \in Writers, WriteLedger(w)
  PROVE  Assigned' /\ (NoReadFailed' => OnLedger')
<1> DEFINE s == writer[w]
           ok == Accepted(s.version)
           op == s.op
           e == s.event
<1>1. /\ s.pc = "write" /\ ok \in BOOLEAN /\ Finish(w, ok) /\ UNCHANGED <<now, stamp, asked, faults>>
      /\ IF ok THEN stored' = s.value /\ version' = version + 1 ELSE UNCHANGED <<stored, version>>
  BY DEF WriteLedger, Accepted
<1>2. Working(s) /\ s # Idle /\ op \in Ops /\ e \in Events
  BY <1>1, IdleDoesNothing DEF LInv, IInv, Shape, Working
<1>3. Assigned'
  <2> HIDE DEF ok
  <2> QED
    BY <1>1, FinishAssigned
<1>4. /\ \A d \in Events : append'[d] = append[d] \/
           (Appends(w, d) /\ append'[d] = IF ok THEN "done" ELSE "failed")
      /\ ok => \A d \in Events : Appends(w, d) => append'[d] = "done"
      /\ gone' = IF ok /\ op = "remove" THEN gone \cup {e} ELSE gone
  <2> HIDE DEF ok
  <2> QED
    BY <1>1, FinishDetails
<1>5. \A d \in Events : Appends(w, d) <=> op = "append" /\ d = e
  BY <1>2 DEF Appends
<1>6. CASE ~ok
  <2>1. \A d \in Events : append'[d] = "done" <=> append[d] = "done"
    BY <1>4, <1>6 DEF LInv, Assigned
  <2>2. NoReadFailed' => OnLedger'
    BY <1>1, <1>4, <1>6, <2>1, LedgerStays DEF LInv, NoReadFailed
  <2> QED
    BY <1>3, <2>2
<1>7. ASSUME ok, NoReadFailed' PROVE OnLedger'
  <2>1. NoReadFailed /\ OnLedger /\ Current(s)
    BY <1>1, <1>7 DEF NoReadFailed, LInv, IInv, WritesAreCurrent
  <2>2. s.version = version
    BY <1>7, <2>1 DEF Accepted, Current, LInv, IInv, Shape
  <2>3. stored' = NewValue(op, e, stored)
    BY <1>1, <1>7, <2>1, <2>2 DEF Current
  <2>4. stored \in Seq(Items) /\ Distinct(stored) /\ stamp[e] \in Nat /\ now \in Nat
    BY <1>2, <2>1 DEF OnLedger, LInv, IInv, Shape
  <2>5. op = "append" => append[e] = "running"
    BY <1>2, <1>5 DEF LInv, Assigned
  <2>6. op = "append" => ~Has(stored, e)
    BY <2>1, <2>5 DEF OnLedger, Filed, Has
  <2> HIDE DEF s, ok, op, e
  <2>7. /\ stored' \in Seq(Items) /\ Distinct(stored')
        /\ \A k \in DOMAIN stored' :
             \/ \E i \in DOMAIN stored : stored'[k].id = stored[i].id /\ stored'[k].at = stored[i].at /\ (op = "remove" => stored'[k].id # e)
             \/ op = "append" /\ stored'[k].id = e /\ stored'[k].at = stamp[e]
        /\ \A i \in DOMAIN stored :
             /\ op = "append" => stored[i].at >= now - Retention
             /\ op = "remove" => stored[i].id # e
             => Has(stored', stored[i].id)
        /\ op = "append" /\ stamp[e] >= now - Retention => Has(stored', e)
    BY <1>2, <2>3, <2>4, <2>6, NewValueFits
  <2>8. \A d \in Events : append'[d] = IF op = "append" /\ d = e THEN "done" ELSE append[d]
    BY <1>4, <1>5, <1>7
  <2>9. ASSUME NEW k \in DOMAIN stored' PROVE Filed(k)'
    <3>1. CASE \E i \in DOMAIN stored : stored'[k].id = stored[i].id /\ stored'[k].at = stored[i].at /\ (op = "remove" => stored'[k].id # e)
      <4>1. PICK i \in DOMAIN stored : stored'[k].id = stored[i].id /\ stored'[k].at = stored[i].at /\ (op = "remove" => stored'[k].id # e)
        BY <3>1
      <4>2. Filed(i) /\ stored[i].id \in Events
        BY <2>1, ItemsHaveEvents DEF OnLedger
      <4> QED
        BY <1>1, <1>4, <2>8, <4>1, <4>2 DEF Filed
    <3>2. CASE op = "append" /\ stored'[k].id = e /\ stored'[k].at = stamp[e]
      <4>1. e \notin gone
        BY <2>5, <3>2 DEF LInv, Assigned
      <4> QED
        BY <1>1, <1>2, <1>4, <2>8, <3>2, <4>1 DEF Filed
    <3> QED
      BY <2>7, <3>1, <3>2
  <2>10. ASSUME NEW d \in Events, Due(d)' PROVE Has(stored', d)
    <3>1. CASE op = "append" /\ d = e
      BY <1>1, <2>7, <2>10, <3>1 DEF Due
    <3>2. CASE ~(op = "append" /\ d = e)
      <4>1. Due(d)
        BY <1>1, <2>8, <2>10, <3>2 DEF Due
      <4>2. PICK i \in DOMAIN stored : stored[i].id = d
        BY <2>1, <4>1 DEF OnLedger, Has
      <4>3. stored[i].at = stamp[d]
        BY <2>1, <4>2 DEF OnLedger, Filed
      <4>4. stored[i].at >= now - Retention
        BY <4>1, <4>3 DEF Due
      <4>5. op = "remove" => d # e
        <5>1. op = "remove" => <<"remove", e>> \in asked
          BY <1>2 DEF LInv, Assigned, op, e, s
        <5> QED
          BY <4>1, <5>1 DEF Due
      <4> QED
        BY <2>7, <4>2, <4>4, <4>5
    <3> QED
      BY <3>1, <3>2
  <2> QED
    BY <2>7, <2>9, <2>10 DEF OnLedger, Distinct, Has
<1> QED
  BY <1>3, <1>6, <1>7

LEMMA NextLedger == LInv /\ [Next]_vars => LInv'
<1> SUFFICES ASSUME LInv, [Next]_vars PROVE Assigned' /\ (NoReadFailed' => OnLedger')
  BY StepInv DEF LInv
<1>1. ASSUME NEW w \in Writers, NEW e \in Events, NEW at \in 0..now, AppendCrewEvent(w, e, at)
      PROVE  Assigned' /\ (NoReadFailed' => OnLedger')
  <2>1. /\ Call(w, "append", e) /\ append[e] = "none" /\ append' = [append EXCEPT ![e] = "running"]
        /\ (\A d \in Events \ {e} : stamp'[d] = stamp[d]) /\ asked' = asked
    BY <1>1 DEF AppendCrewEvent, LInv, IInv, Shape
  <2> QED
    BY <2>1, CallLedger DEF Ops
<1>2. ASSUME NEW w \in Writers, NEW e \in Events,
             RemoveCrewEvent(w, e) \/ UpdateLedgerEventSnapshotURLs(w, e)
      PROVE  Assigned' /\ (NoReadFailed' => OnLedger')
  <2>1. PICK op \in {"remove", "illustrate"} : Ask(w, op, e)
    BY <1>2 DEF RemoveCrewEvent, UpdateLedgerEventSnapshotURLs
  <2>2. /\ Call(w, op, e) /\ append[e] = "done" /\ asked' = asked \cup {<<op, e>>}
        /\ UNCHANGED <<append, stamp>> /\ op \in Ops /\ op # "append"
    BY <2>1 DEF Ask, Ops
  <2> QED
    BY <2>2, CallLedger
<1>3. CASE Tick \/ UNCHANGED vars
  <2>1. /\ now' \in {now, now + 1} /\ UNCHANGED <<stored, writer, append, stamp, asked, gone, faults>>
    BY <1>3 DEF Tick, vars
  <2>2. Assigned'
    BY <2>1 DEF LInv, Assigned, Appends
  <2>3. NoReadFailed' => OnLedger'
    BY <2>1, LedgerStays DEF LInv, NoReadFailed
  <2> QED
    BY <2>2, <2>3
<1> QED
  BY <1>1, <1>2, <1>3, ReadLedgerKeeps, WriteLedgerKeeps, WriteFailsKeeps DEF Next

LEMMA LedgerAlways == ~StartsEmpty /\ Spec => []LInv
<1>1. Init /\ ~StartsEmpty => LInv
  BY InitInv, InitLedger DEF LInv
<1> QED
  BY <1>1, NextLedger, PTL DEF Spec

(* An event is in the ledger as often as it has positions there.             *)
LEMMA CopiesAreCounted ==
  ASSUME Distinct(stored), NEW e
  PROVE  Copies(e) = IF Has(stored, e) THEN 1 ELSE 0
<1> DEFINE P == {i \in DOMAIN stored : stored[i].id = e}
<1>1. CASE Has(stored, e)
  <2>1. PICK i \in DOMAIN stored : stored[i].id = e
    BY <1>1 DEF Has
  <2>2. P = {i}
    BY <2>1 DEF Distinct
  <2> QED
    BY <1>1, <2>2, FS_Singleton DEF Copies
<1>2. CASE ~Has(stored, e)
  <2>1. P = {}
    BY <1>2 DEF Has
  <2> QED
    BY <1>2, <2>1, FS_EmptySet DEF Copies
<1> QED
  BY <1>1, <1>2

(* An event whose append succeeded is in the ledger exactly once for as long *)
(* as the rolling window keeps it, unless a resume takes it back: whatever   *)
(* the reads, refused writes and retries of AppendCrewEvent,                *)
(* removeCrewEvent and UpdateLedgerEventSnapshotURLs interleave.             *)
THEOREM AckedEventsStay == ~StartsEmpty /\ Spec => []AckedIsKept
<1>1. LInv => AckedIsKept
  BY CopiesAreCounted DEF LInv, OnLedger, Due, AckedIsKept, Kept
<1> QED
  BY <1>1, LedgerAlways, PTL

(* An event that a resume took back (removeCrewEvent) does not come back with *)
(* the write of an operation that read the ledger before.                   *)
THEOREM TakenBackStaysGone == ~StartsEmpty /\ Spec => []GoneStaysGone
<1>1. ASSUME LInv PROVE GoneStaysGone
  <2>1. NoReadFailed => \A e \in gone : ~Has(stored, e) /\ Distinct(stored)
    BY <1>1 DEF LInv, OnLedger, Filed, Has
  <2> QED
    BY <2>1, CopiesAreCounted DEF GoneStaysGone
<1> QED
  BY <1>1, LedgerAlways, PTL
=============================================================================
