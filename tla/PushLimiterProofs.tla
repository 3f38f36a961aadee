-------------------------- MODULE PushLimiterProofs --------------------------
(* Theorems about PushLimiter for every set of users and crews, every       *)
(* window, every sweep threshold and every clock.                          *)
EXTENDS PushLimiter, FiniteSetTheorems, WellFoundedInduction, TLAPS

USE PushLimiterAssumption

(* The fields of an entry, of a fresh one, and of one that changed: what the *)
(* proofs below know of the records.                                       *)
LEMMA EntryFields ==
  ASSUME NEW e \in Entries
  PROVE  /\ e.lastSent \in Int /\ e.lastSent >= NeverSent
         /\ e.flushDue \in BOOLEAN
         /\ \A c \in Crews : e.held[c].count \in Nat /\ e.held[c].seq \in Nat
  BY DEF Entries, Times

LEMMA FreshFields ==
  /\ NeverSent \in Int /\ NeverSent \in Times /\ NeverSent = 0 - Window
  /\ Fresh \in Entries
  /\ Fresh.lastSent = NeverSent
  /\ Fresh.flushDue = FALSE
  /\ \A c \in Crews : Fresh.held[c].count = 0 /\ Fresh.held[c].seq = 0
  BY DEF Fresh, Entries, Times, NeverSent, Nothing

LEMMA TypedFields ==
  ASSUME TypeOK, NEW u \in Users
  PROVE  /\ entry[u] \in Entries
         /\ entry[u].lastSent \in Int /\ entry[u].flushDue \in BOOLEAN
         /\ \A c \in Crews : entry[u].held[c].count \in Nat /\ entry[u].held[c].seq \in Nat
         /\ sentAt[u] \in Int /\ waiting[u] \in Nat
         /\ newest[u] \in Crews /\ opened[u] \in Crews
         /\ now \in Nat /\ seq \in Nat
  BY EntryFields DEF TypeOK, Times

LEMMA PushedFields ==
  ASSUME NEW e \in Entries, now \in Nat
  PROVE  /\ Pushed(e) \in Entries
         /\ Pushed(e).lastSent = now
         /\ Pushed(e).flushDue = e.flushDue
         /\ Pushed(e).held = e.held
  BY DEF Pushed, Entries, Times, NeverSent

LEMMA EmptiedFields ==
  ASSUME NEW e \in Entries
  PROVE  /\ Emptied(e) \in Entries
         /\ Emptied(e).lastSent = e.lastSent
         /\ Emptied(e).flushDue = FALSE
         /\ \A c \in Crews : Emptied(e).held[c].count = 0 /\ Emptied(e).held[c].seq = 0
  BY DEF Emptied, Entries, Times, Nothing

LEMMA HoldFields ==
  ASSUME NEW e \in Entries, NEW c \in Crews, seq \in Nat
  PROVE  /\ Hold(e, c) \in Entries
         /\ Hold(e, c).lastSent = e.lastSent
         /\ Hold(e, c).flushDue = TRUE
         /\ Hold(e, c).held[c].count > 0
         /\ Hold(e, c).held[c].seq = seq + 1
         /\ \A d \in Crews \ {c} : Hold(e, c).held[d] = e.held[d]
<1> DEFINE h == [e.held EXCEPT ![c] = [count |-> e.held[c].count + 1, seq |-> seq + 1]]
<1>1. e.held \in [Crews -> [count : Nat, seq : Nat]] /\ e.lastSent \in Times /\ e.flushDue \in BOOLEAN
  BY DEF Entries
<1>2. h \in [Crews -> [count : Nat, seq : Nat]]
  BY <1>1
<1>3. Hold(e, c) = [e EXCEPT !.held = h, !.flushDue = TRUE]
  BY Zenon DEF Hold
<1>4. h[c].count > 0 /\ h[c].seq = seq + 1 /\ \A d \in Crews \ {c} : h[d] = e.held[d]
  BY <1>1
<1> HIDE DEF h
<1> QED
  BY <1>1, <1>2, <1>3, <1>4 DEF Entries

(* Nothing is held and no timer runs when the backend starts.              *)
LEMMA InitInv == Init => IInv
<1> SUFFICES ASSUME Init PROVE IInv
  OBVIOUS
<1>1. TypeOK
  BY FreshFields DEF Init, TypeOK
<1>2. ASSUME NEW u \in Users
      PROVE  Remembered(u) /\ Timed(u) /\ Ordered(u)
  BY FreshFields DEF Init, Remembered, Timed, TimersOf, Ordered
<1> QED
  BY <1>1, <1>2 DEF IInv

(* The sweep forgets only users whose window has passed and for whom nothing *)
(* is held, so what submit finds satisfies the invariant too.              *)
LEMMA SweepIsSafe ==
  ASSUME IInv
  PROVE  /\ AfterSweep \in [Users -> Entries]
         /\ \A u \in Swept : u \in Users /\ Idle(entry[u])
         /\ \A u \in Users : AfterSweep[u] = entry[u] \/ (u \in Swept /\ AfterSweep[u] = Fresh)
         /\ \A u \in Users : Idle(AfterSweep[u]) <=> Idle(entry[u])
<1>1. Swept \in SUBSET Users /\ \A u \in Swept : Idle(entry[u])
  BY DEF IInv, TypeOK, Swept
<1>2. Idle(Fresh)
  BY FreshFields DEF Idle, IInv, TypeOK
<1>3. entry \in [Users -> Entries] /\ Fresh \in Entries
  BY FreshFields DEF IInv, TypeOK
<1>4. AfterSweep \in [Users -> Entries]
  BY <1>3 DEF AfterSweep
<1>5. \A u \in Users : AfterSweep[u] = IF u \in Swept THEN Fresh ELSE entry[u]
  BY DEF AfterSweep
<1> QED
  BY <1>1, <1>2, <1>4, <1>5

(* A user that the sweep forgets was idle for a window.                     *)
LEMMA SweptUser ==
  ASSUME IInv, NEW v \in Swept
  PROVE  v \in Users /\ ~entry[v].flushDue /\ now - sentAt[v] >= Window /\ AfterSweep[v] = Fresh
<1>1. v \in Users /\ Idle(entry[v])
  BY SweepIsSafe
<1>2. now - sentAt[v] >= Window
  BY <1>1, TypedFields DEF Idle, IInv, Remembered
<1> QED
  BY <1>1, <1>2 DEF Idle, AfterSweep

(* A mention for one user leaves what the limiter knows of the others, or    *)
(* forgets an idle user.                                                   *)
LEMMA OtherUsers ==
  ASSUME IInv, NEW v \in Users,
         entry'[v] = AfterSweep[v],
         UNCHANGED <<now, sentAt[v], waiting[v], newest[v], opened[v]>>,
         v \in known' <=> v \in known \ Swept,
         TimersOf(v)' = TimersOf(v), seq' \in Nat, seq' >= seq
  PROVE  (Remembered(v) /\ Timed(v) /\ Ordered(v))'
<1>1. CASE v \notin Swept
  <2>1. entry'[v] = entry[v]
    BY <1>1 DEF AfterSweep
  <2>2. Remembered(v)'
    BY <2>1 DEF IInv, Remembered
  <2>3. Timed(v)'
    BY <1>1, <2>1 DEF IInv, Timed
  <2>4. Ordered(v)'
    BY <2>1, TypedFields DEF IInv, Ordered
  <2> QED
    BY <2>2, <2>3, <2>4
<1>2. CASE v \in Swept
  <2>1. entry'[v] = Fresh /\ ~entry[v].flushDue /\ now - sentAt[v] >= Window
    BY <1>2, SweptUser
  <2>2. Remembered(v)'
    BY <2>1, FreshFields DEF Remembered
  <2>3. Timed(v)'
    BY <2>1, FreshFields DEF IInv, Timed
  <2>4. Ordered(v)'
    BY <2>1, FreshFields DEF IInv, Ordered
  <2> QED
    BY <2>2, <2>3, <2>4
<1> QED
  BY <1>1, <1>2

(* A push that is sent at once: its user was idle for a window.            *)
LEMMA SubmitNowInv ==
  ASSUME IInv, NEW u \in Users, NEW c \in Crews, SubmitNow(u, c)
  PROVE  IInv' /\ now - sentAt[u] >= Window
<1> DEFINE e == AfterSweep[u]
<1>1. Idle(entry[u]) /\ e \in Entries /\ (e = entry[u] \/ e = Fresh)
  BY SweepIsSafe DEF SubmitNow
<1>2. now - sentAt[u] >= Window
  BY <1>1, TypedFields DEF Idle, IInv, Remembered
<1>3. /\ entry' = [AfterSweep EXCEPT ![u] = Pushed(e)]
      /\ AfterSweep \in [Users -> Entries]
      /\ now \in Nat
  BY SweepIsSafe DEF SubmitNow, IInv, TypeOK
<1>4. entry'[u] = Pushed(e) /\ entry' \in [Users -> Entries]
  BY <1>1, <1>3, PushedFields
<1>5. TypeOK'
  BY <1>4 DEF SubmitNow, Submitted, IInv, TypeOK, Times, NeverSent
<1>6. ASSUME NEW v \in Users
      PROVE  (Remembered(v) /\ Timed(v) /\ Ordered(v))'
  <2>1. CASE v = u
    <3>1. /\ entry'[u].lastSent = now
          /\ ~entry'[u].flushDue
          /\ \A d \in Crews : entry'[u].held[d].seq <= seq
      BY <1>1, <1>3, <1>4, PushedFields, FreshFields DEF Idle, IInv, Ordered, TypeOK
    <3>2. ~entry[u].flushDue
      BY <1>1 DEF Idle
    <3>3. sentAt'[u] = now /\ opened'[u] = c /\ newest'[u] = c /\ UNCHANGED <<now, seq, waiting, timers>>
      BY DEF SubmitNow, Submitted, IInv, TypeOK
    <3>4. Remembered(u)'
      BY <3>1, <3>3 DEF Remembered
    <3>5. Timed(u)'
      BY <3>1, <3>2, <3>3 DEF IInv, Timed, TimersOf
    <3>6. Ordered(u)'
      BY <3>1, <3>3 DEF Ordered
    <3> QED
      BY <2>1, <3>4, <3>5, <3>6
  <2>2. CASE v # u
    <3>1. entry'[v] = AfterSweep[v]
      BY <1>3, <2>2
    <3>2. /\ UNCHANGED <<now, sentAt[v], waiting[v], newest[v], opened[v]>>
          /\ v \in known' <=> v \in known \ Swept
      BY <2>2 DEF SubmitNow, Submitted, IInv, TypeOK
    <3>3. TimersOf(v)' = TimersOf(v) /\ seq' = seq /\ seq \in Nat
      BY DEF SubmitNow, TimersOf, IInv, TypeOK
    <3> QED
      BY <3>1, <3>2, <3>3, OtherUsers
  <2> QED
    BY <2>1, <2>2
<1> QED
  BY <1>2, <1>5, <1>6 DEF IInv

(* A mention that is held: a flush is due, or the last push is too recent.  *)
LEMMA SubmitHeldInv ==
  ASSUME IInv, NEW u \in Users, NEW c \in Crews, SubmitHeld(u, c)
  PROVE  IInv'
<1> DEFINE e == entry[u]
<1>1. ~Idle(e) /\ u \notin Swept /\ AfterSweep[u] = e
  BY SweepIsSafe DEF SubmitHeld, AfterSweep
<1>2. /\ e \in Entries /\ now \in Nat /\ seq \in Nat
      /\ e.lastSent \in Int /\ e.flushDue \in BOOLEAN /\ sentAt[u] \in Int /\ waiting[u] \in Nat
  BY TypedFields DEF IInv
<1>3. e.lastSent = sentAt[u] /\ (~e.flushDue => now - e.lastSent < Window)
  BY <1>1, <1>2, FreshFields DEF Idle, IInv, Remembered, Timed
<1>4. /\ entry' = [AfterSweep EXCEPT ![u] = Hold(e, c)]
      /\ timers' = timers \cup NewTimer(u, e)
      /\ AfterSweep \in [Users -> Entries]
  BY <1>1, SweepIsSafe DEF SubmitHeld
<1>5. entry' \in [Users -> Entries] /\ entry'[u] = Hold(e, c)
  BY <1>2, <1>4, HoldFields
<1>6. NewTimer(u, e) = IF e.flushDue THEN {} ELSE {[user |-> u, due |-> e.lastSent + Window]}
  <2>1. now + (Window - (now - e.lastSent)) = e.lastSent + Window
    BY <1>2
  <2> QED
    BY <2>1 DEF NewTimer
<1>7. e.lastSent + Window \in Nat
  BY <1>2, EntryFields, FreshFields
<1>8. NewTimer(u, e) \subseteq [user : Users, due : Nat]
  BY <1>6, <1>7
<1>9. TypeOK'
  BY <1>4, <1>5, <1>8 DEF SubmitHeld, Submitted, IInv, TypeOK
<1>10. ASSUME NEW v \in Users, v # u
       PROVE  (Remembered(v) /\ Timed(v) /\ Ordered(v))'
  <2>1. entry'[v] = AfterSweep[v]
    BY <1>4, <1>10
  <2>2. TimersOf(v)' = TimersOf(v)
    BY <1>4, <1>6, <1>10 DEF TimersOf
  <2>3. /\ UNCHANGED <<now, sentAt[v], waiting[v], newest[v], opened[v]>>
        /\ v \in known' <=> v \in known \ Swept
    BY <1>10 DEF SubmitHeld, Submitted, IInv, TypeOK
  <2>4. seq' \in Nat /\ seq' >= seq
    BY <1>2 DEF SubmitHeld
  <2> QED
    BY <2>1, <2>2, <2>3, <2>4, OtherUsers
<1>11. (Remembered(u) /\ Timed(u) /\ Ordered(u))'
  <2>1. /\ newest'[u] = c /\ waiting'[u] = waiting[u] + 1 /\ sentAt' = sentAt
        /\ now' = now /\ seq' = seq + 1 /\ u \in known'
    BY DEF SubmitHeld, Submitted, IInv, TypeOK
  <2>2. /\ entry'[u].lastSent = e.lastSent /\ entry'[u].flushDue = TRUE
        /\ entry'[u].held[c].count > 0 /\ entry'[u].held[c].seq = seq + 1
        /\ \A d \in Crews \ {c} : entry'[u].held[d] = e.held[d]
    <3>1. /\ Hold(e, c).lastSent = e.lastSent /\ Hold(e, c).flushDue = TRUE
          /\ Hold(e, c).held[c].count > 0 /\ Hold(e, c).held[c].seq = seq + 1
          /\ \A d \in Crews \ {c} : Hold(e, c).held[d] = e.held[d]
      BY <1>2, HoldFields
    <3> QED
      BY <1>5, <3>1
  <2>3. Remembered(u)'
    BY <1>3, <2>1, <2>2 DEF Remembered
  <2>4. Timed(u)'
    <3>1. TimersOf(u)' = TimersOf(u) \cup NewTimer(u, e)
      BY <1>4, <1>6 DEF TimersOf
    <3>2. \A t \in TimersOf(u)' : t.due = e.lastSent + Window
      BY <1>6, <3>1 DEF IInv, Timed
    <3>3. TimersOf(u)' # {}
      BY <1>6, <3>1 DEF IInv, Timed
    <3> QED
      BY <1>2, <1>3, <2>1, <2>2, <3>2, <3>3 DEF Timed
  <2>5. Ordered(u)'
    <3>1. \A d \in Crews : e.held[d].seq <= seq /\ e.held[d].seq \in Nat
      BY TypedFields DEF IInv, Ordered
    <3> QED
      BY <1>2, <2>1, <2>2, <3>1 DEF Ordered
  <2> QED
    BY <2>3, <2>4, <2>5
<1> QED
  BY <1>9, <1>10, <1>11 DEF IInv

(* The flush runs a window after the last push, and opens the newest crew.  *)
LEMMA FlushInv ==
  ASSUME IInv, NEW t \in timers, Flush(t)
  PROVE  IInv' /\ now - sentAt[t.user] >= Window
<1> DEFINE u == t.user
           e == entry[u]
<1>1. u \in Users /\ t.due \in Nat /\ t \in TimersOf(u)
  BY DEF IInv, TypeOK, TimersOf
<1>2. e.flushDue /\ t.due = e.lastSent + Window /\ e.lastSent = sentAt[u]
  BY <1>1 DEF IInv, Timed
<1>3. /\ e \in Entries /\ now \in Nat /\ seq \in Nat /\ sentAt[u] \in Int /\ newest[u] \in Crews
      /\ \A c \in Crews : e.held[c].seq \in Nat
  BY <1>1, TypedFields DEF IInv
<1>4. now - sentAt[u] >= Window
  BY <1>1, <1>2, <1>3 DEF Flush, Run
<1>5. TimersOf(u) = {t}
  <2> SUFFICES ASSUME NEW s \in TimersOf(u) PROVE s = t
    BY <1>1
  <2>1. s.due = t.due /\ s.user = t.user /\ {s, t} \subseteq [user : Users, due : Nat]
    BY <1>1, <1>2 DEF IInv, Timed, TimersOf, TypeOK
  <2> QED
    BY <2>1
<1>6. Target(e) = newest[u]
  <2>1. newest[u] \in HeldCrews(e)
    BY <1>1, <1>2, <1>3 DEF IInv, Ordered, HeldCrews
  <2>2. \A c \in HeldCrews(e) \ {newest[u]} : e.held[c].seq < e.held[newest[u]].seq
    BY <1>1, <1>2 DEF IInv, Ordered, HeldCrews
  <2> QED
    BY <1>3, <2>1, <2>2 DEF Target, HeldCrews
<1>7. /\ Pushed(Emptied(e)) \in Entries
      /\ Pushed(Emptied(e)).lastSent = now
      /\ Pushed(Emptied(e)).flushDue = FALSE
      /\ \A c \in Crews : Pushed(Emptied(e)).held[c].seq = 0
  <2>1. Emptied(e) \in Entries /\ Emptied(e).flushDue = FALSE
        /\ \A c \in Crews : Emptied(e).held[c].seq = 0
    BY <1>3, EmptiedFields
  <2> QED
    BY <1>3, <2>1, PushedFields
<1>8. /\ entry' = [entry EXCEPT ![u] = Pushed(Emptied(e))]
      /\ opened' = [opened EXCEPT ![u] = newest[u]]
      /\ sentAt' = [sentAt EXCEPT ![u] = now]
      /\ waiting' = [waiting EXCEPT ![u] = 0]
      /\ timers' = timers \ {t}
      /\ UNCHANGED <<now, known, seq, mentions, newest>>
  BY <1>6 DEF Flush, Run
<1>9. TypeOK'
  BY <1>1, <1>3, <1>7, <1>8 DEF IInv, TypeOK, Times, NeverSent
<1>10. ASSUME NEW v \in Users
      PROVE  (Remembered(v) /\ Timed(v) /\ Ordered(v))'
  <2>1. CASE v = u
    <3>1. TimersOf(u)' = {}
      BY <1>5, <1>8 DEF TimersOf
    <3>2. /\ entry'[u] = Pushed(Emptied(e)) /\ sentAt'[u] = now /\ waiting'[u] = 0
          /\ opened'[u] = newest[u]
      BY <1>1, <1>8 DEF IInv, TypeOK
    <3>3. Remembered(u)'
      BY <1>7, <1>8, <3>2 DEF Remembered
    <3>4. Timed(u)'
      BY <1>7, <3>1, <3>2 DEF Timed
    <3>5. Ordered(u)'
      BY <1>3, <1>7, <1>8, <3>2 DEF Ordered
    <3> QED
      BY <2>1, <3>3, <3>4, <3>5
  <2>2. CASE v # u
    <3>1. TimersOf(v)' = TimersOf(v)
      BY <1>8, <2>2 DEF TimersOf
    <3>2. UNCHANGED <<entry[v], sentAt[v], waiting[v], opened[v], newest[v]>>
      BY <1>8, <2>2 DEF IInv, TypeOK
    <3> QED
      BY <1>8, <3>1, <3>2 DEF IInv, Remembered, Timed, Ordered
  <2> QED
    BY <2>1, <2>2
<1> QED
  BY <1>4, <1>9, <1>10 DEF IInv

(* Every step keeps the invariant, and decides a push only a window after    *)
(* the last one for that user.                                             *)
LEMMA NextInv ==
  ASSUME IInv, [Next]_vars
  PROVE  IInv' /\ \A u \in Users : sentAt'[u] # sentAt[u] => sentAt'[u] - sentAt[u] >= Window
<1>1. ASSUME NEW u \in Users, NEW c \in Crews, SubmitNow(u, c)
      PROVE  IInv' /\ \A v \in Users : sentAt'[v] # sentAt[v] => sentAt'[v] - sentAt[v] >= Window
  BY <1>1, SubmitNowInv DEF SubmitNow, IInv, TypeOK
<1>2. ASSUME NEW u \in Users, NEW c \in Crews, SubmitHeld(u, c)
      PROVE  IInv' /\ sentAt' = sentAt
  BY <1>2, SubmitHeldInv DEF SubmitHeld
<1>3. ASSUME NEW t \in timers, Flush(t)
      PROVE  IInv' /\ \A v \in Users : sentAt'[v] # sentAt[v] => sentAt'[v] - sentAt[v] >= Window
  BY <1>3, FlushInv DEF Flush, IInv, TypeOK
<1>4. CASE Tick
  <2>1. TypeOK' /\ sentAt' = sentAt
    BY <1>4 DEF Tick, IInv, TypeOK
  <2>2. \A u \in Users : (Remembered(u) /\ Timed(u) /\ Ordered(u))'
    BY <1>4, TypedFields DEF Tick, IInv, Remembered, Timed, TimersOf, Ordered
  <2> QED
    BY <2>1, <2>2 DEF IInv
<1>5. CASE UNCHANGED vars
  BY <1>5 DEF vars, IInv, TypeOK, Remembered, Timed, TimersOf, Ordered
<1> QED
  BY <1>1, <1>2, <1>3, <1>4, <1>5 DEF Next

(* The limiter's bookkeeping is consistent whatever the order of mentions,   *)
(* late timers and sweeps.                                                 *)
THEOREM Invariance == Spec => []IInv
<1>1. Init => IInv
  BY InitInv
<1>2. IInv /\ [Next]_vars => IInv'
  BY NextInv
<1> QED
  BY <1>1, <1>2, PTL DEF Spec

(* Every variable of the limiter stays in its domain; a flush is never due   *)
(* before the clock started.                                               *)
THEOREM TypeCorrect == Spec => []TypeOK
<1>1. IInv => TypeOK
  BY DEF IInv
<1> QED
  BY <1>1, Invariance, PTL

(* A phone buzzes at most once per window, for every window and every map    *)
(* size at which the sweep forgets users.                                  *)
THEOREM PushesAreSpaced == Spec => OncePerWindow
<1>1. IInv /\ [Next]_vars =>
        [\A u \in Users : sentAt'[u] # sentAt[u] => sentAt'[u] - sentAt[u] >= Window]_vars
  BY NextInv
<1> QED
  BY <1>1, Invariance, PTL DEF Spec, OncePerWindow

(* Held mentions have exactly one flush timer, so none waits for ever and    *)
(* none is flushed twice.                                                  *)
THEOREM HeldAreTimed == Spec => []HeldHasOneTimer
<1>1. IInv => HeldHasOneTimer
  <2> SUFFICES ASSUME IInv, NEW u \in Users
               PROVE  IF waiting[u] > 0
                      THEN \E t \in timers : TimersOf(u) = {t} /\ t.due <= sentAt[u] + Window
                      ELSE TimersOf(u) = {}
    BY DEF HeldHasOneTimer
  <2>1. CASE waiting[u] > 0
    <3>1. entry[u].flushDue /\ TimersOf(u) # {} /\ entry[u].lastSent = sentAt[u]
      BY <2>1 DEF IInv, Timed
    <3>2. PICK t \in TimersOf(u) : TRUE
      BY <3>1
    <3>3. \A s \in TimersOf(u) : s = t
      <4> SUFFICES ASSUME NEW s \in TimersOf(u) PROVE s = t
        OBVIOUS
      <4>1. s.due = t.due /\ s.user = t.user /\ {s, t} \subseteq [user : Users, due : Nat]
        BY DEF IInv, Timed, TimersOf, TypeOK
      <4> QED
        BY <4>1
    <3>4. t \in timers /\ t.due = sentAt[u] + Window
      BY <3>1 DEF IInv, Timed, TimersOf
    <3> QED
      BY <2>1, <3>2, <3>3, <3>4 DEF IInv, TypeOK
  <2>2. CASE ~(waiting[u] > 0)
    BY <2>2 DEF IInv, Timed
  <2> QED
    BY <2>1, <2>2
<1> QED
  BY <1>1, Invariance, PTL

(* The tap on a push opens the crew of the newest mention it stands for.     *)
THEOREM TapOpensNewest == Spec => []NewestOpens
<1>1. IInv => NewestOpens
  BY DEF IInv, NewestOpens, Timed, Ordered, TypeOK
<1> QED
  BY <1>1, Invariance, PTL
-----------------------------------------------------------------------------
(* The number a coalesced push names                                       *)

(* Among subsets of a finite set, one has none of the others inside.         *)
LEMMA MinimalSet ==
  ASSUME NEW F, IsFiniteSet(F), NEW B \in SUBSET SUBSET F, B # {}
  PROVE  \E s \in B : \A r \in B : r \subseteq s => r = s
<1> DEFINE R == StrictSubsetOrdering(F)
<1>1. IsWellFoundedOn(R, FiniteSubsetsOf(F))
  BY FS_StrictSubsetOrderingWellFounded
<1>2. B \subseteq FiniteSubsetsOf(F)
  BY FS_Subset DEF FiniteSubsetsOf
<1>3. PICK s \in B : \A r \in B : <<r, s>> \notin R
  <2> HIDE DEF R
  <2> QED
    BY <1>1, <1>2, WFMin
<1> QED
  <2> SUFFICES ASSUME NEW r \in B, r \subseteq s, r # s PROVE FALSE
    OBVIOUS
  <2>1. <<r, s>> \in (SUBSET F) \X (SUBSET F)
    OBVIOUS
  <2>2. <<r, s>> \in R
    BY <2>1 DEF StrictSubsetOrdering
  <2> QED
    BY <1>3, <2>2

(* Total adds the counts of a set of crews, one chosen crew after the other. *)
First(s) == CHOOSE c \in s : TRUE
Rest(s) == s \ {First(s)}
SumOf(g, held, s) == IF s = {} THEN 0 ELSE held[First(s)].count + g[Rest(s)]
Sums(g, held, D) == g = [s \in D |-> SumOf(g, held, s)]
Added(held) == CHOOSE g : Sums(g, held, SUBSET Crews)

LEMMA SetsShrink ==
  ASSUME NEW s, s # {}
  PROVE  First(s) \in s /\ Rest(s) \subseteq s /\ Rest(s) # s
  BY DEF First, Rest

(* What holds for a set of crews once it holds for the rest of it.           *)
LEMMA SubsetInduction ==
  ASSUME NEW T, \A s \in SUBSET Crews : (s = {} \/ Rest(s) \in T) => s \in T
  PROVE  SUBSET Crews \subseteq T
<1> DEFINE B == (SUBSET Crews) \ T
<1>1. SUFFICES ASSUME B # {} PROVE FALSE
  OBVIOUS
<1>2. PICK s \in B : \A r \in B : r \subseteq s => r = s
  <2>1. B \in SUBSET SUBSET Crews
    OBVIOUS
  <2> HIDE DEF B
  <2> QED
    BY <1>1, <2>1, MinimalSet
<1>3. s # {}
  OBVIOUS
<1>4. Rest(s) \in SUBSET Crews /\ Rest(s) \notin B
  BY <1>2, <1>3, SetsShrink
<1> QED
  BY <1>3, <1>4

(* The addition comes to an end: Added is a function on the sets of crews.   *)
LEMMA AddedIs ==
  ASSUME NEW held
  PROVE  \A s \in SUBSET Crews : Added(held)[s] = SumOf(Added(held), held, s)
<1> DEFINE Closed(D) == \A s \in D : s # {} => Rest(s) \in D
           Left == {L \in SUBSET SUBSET Crews :
                      Closed((SUBSET Crews) \ L) /\ \E g : Sums(g, held, (SUBSET Crews) \ L)}
<1>1. SUBSET Crews \in Left
  <2>1. (SUBSET Crews) \ (SUBSET Crews) = {}
    OBVIOUS
  <2>2. Closed({}) /\ Sums([s \in {} |-> 0], held, {})
    BY DEF Sums
  <2> QED
    BY <2>1, <2>2
<1>2. PICK L \in Left : \A K \in Left : K \subseteq L => K = L
  <2>1. IsFiniteSet(SUBSET Crews)
    BY FS_SUBSET
  <2>2. Left \in SUBSET SUBSET SUBSET Crews /\ Left # {}
    BY <1>1
  <2> HIDE DEF Left
  <2> QED
    BY <2>1, <2>2, MinimalSet
<1> DEFINE D == (SUBSET Crews) \ L
<1>3. Closed(D) /\ L \in SUBSET SUBSET Crews
  OBVIOUS
<1>4. PICK g : Sums(g, held, D)
  OBVIOUS
<1>5. ASSUME L # {} PROVE FALSE
  <2>1. PICK s \in L : \A r \in L : r \subseteq s => r = s
    BY <1>3, <1>5, MinimalSet
  <2>2. s # {} => Rest(s) \in D
    BY <1>3, <2>1, SetsShrink
  <2> DEFINE E == D \cup {s}
             h == [r \in E |-> IF r \in D THEN g[r] ELSE SumOf(g, held, r)]
  <2>3. E = (SUBSET Crews) \ (L \ {s}) /\ s \notin D
    BY <1>3, <2>1
  <2>4. Closed(E)
    BY <1>3, <2>2
  <2>5. ASSUME NEW r \in E PROVE h[r] = SumOf(h, held, r)
    <3>1. r # {} => Rest(r) \in D
      BY <1>3, <2>2
    <3>2. r # {} => h[Rest(r)] = g[Rest(r)]
      BY <3>1
    <3>3. h[r] = SumOf(g, held, r)
      BY <1>4 DEF Sums
    <3> HIDE DEF h
    <3> QED
      BY <3>2, <3>3 DEF SumOf
  <2>6. Sums(h, held, E)
    BY <2>5 DEF Sums
  <2>7. L \ {s} \in Left
    BY <1>3, <2>3, <2>4, <2>6
  <2> QED
    BY <1>2, <2>1, <2>7
<1>6. \E f : Sums(f, held, SUBSET Crews)
  BY <1>4, <1>5
<1>7. Sums(Added(held), held, SUBSET Crews)
  BY <1>6 DEF Added
<1> QED
  BY <1>7 DEF Sums

LEMMA TotalIs ==
  ASSUME NEW e, DOMAIN e.held = Crews
  PROVE  Total(e) = Added(e.held)[Crews]
  BY Zenon DEF Total, FoldFunction, FoldFunctionOnSet, MapThenFoldSet, Added, Sums, SumOf, First, Rest

(* What is held is empty, or grows by the mention that is added.             *)
LEMMA NothingAdds ==
  ASSUME NEW e, DOMAIN e.held = Crews, \A c \in Crews : e.held[c].count = 0
  PROVE  Total(e) = 0
<1> DEFINE g == Added(e.held)
           T == {s \in SUBSET Crews : g[s] = 0}
<1>1. ASSUME NEW s \in SUBSET Crews, s = {} \/ Rest(s) \in T
      PROVE  s \in T
  <2>1. g[s] = SumOf(g, e.held, s)
    BY AddedIs
  <2>2. s # {} => First(s) \in Crews
    BY SetsShrink
  <2> HIDE DEF g
  <2> QED
    BY <1>1, <2>1, <2>2 DEF SumOf
<1>2. SUBSET Crews \subseteq T
  <2> HIDE DEF T
  <2> QED
    BY <1>1, SubsetInduction
<1> QED
  BY <1>2, TotalIs

LEMMA HoldAdds ==
  ASSUME NEW e \in Entries, NEW c \in Crews, seq \in Nat
  PROVE  Total(Hold(e, c)) = Total(e) + 1
<1> DEFINE held == e.held
           more == Hold(e, c).held
           g == Added(held)
           h == Added(more)
           T == {s \in SUBSET Crews : g[s] \in Nat /\ h[s] = g[s] + IF c \in s THEN 1 ELSE 0}
<1>1. DOMAIN held = Crews /\ \A d \in Crews : held[d].count \in Nat
  BY DEF Entries
<1>2. DOMAIN more = Crews /\ more[c].count = held[c].count + 1 /\ \A d \in Crews \ {c} : more[d] = held[d]
  <2>1. Hold(e, c) \in Entries /\ \A d \in Crews \ {c} : more[d] = held[d]
    BY HoldFields
  <2>2. more = [held EXCEPT ![c] = [count |-> held[c].count + 1, seq |-> seq + 1]]
    BY DEF Hold, Entries
  <2> HIDE DEF more
  <2>3. DOMAIN more = Crews /\ more[c].count = held[c].count + 1
    BY <1>1, <2>2
  <2> QED
    BY <2>1, <2>3 DEF more
<1>3. ASSUME NEW s \in SUBSET Crews, s = {} \/ Rest(s) \in T
      PROVE  s \in T
  <2>1. g[s] = SumOf(g, held, s) /\ h[s] = SumOf(h, more, s)
    BY AddedIs
  <2> HIDE DEF g, h, held, more
  <2>2. CASE s = {}
    BY <2>1, <2>2 DEF SumOf
  <2>3. CASE s # {}
    <3> DEFINE d == First(s)
               r == Rest(s)
    <3>1. d \in Crews /\ d \in s /\ r = s \ {d}
      BY <2>3, SetsShrink DEF Rest
    <3>2. g[s] = held[d].count + g[r] /\ h[s] = more[d].count + h[r]
      BY <2>1, <2>3 DEF SumOf
    <3>3. g[r] \in Nat /\ h[r] = g[r] + IF c \in r THEN 1 ELSE 0
      BY <1>3, <2>3
    <3> HIDE DEF d, r
    <3>4. CASE d = c
      BY <1>1, <1>2, <3>1, <3>2, <3>3, <3>4
    <3>5. CASE d # c
      <4>1. more[d].count = held[d].count /\ held[d].count \in Nat /\ (c \in r <=> c \in s)
        BY <1>1, <1>2, <3>1, <3>5
      <4> QED
        BY <3>2, <3>3, <4>1
    <3> QED
      BY <3>4, <3>5
  <2> QED
    BY <2>2, <2>3
<1>4. SUBSET Crews \subseteq T
  <2> HIDE DEF T
  <2> QED
    BY <1>3, SubsetInduction
<1>5. h[Crews] = g[Crews] + 1
  BY <1>4
<1> QED
  BY <1>1, <1>2, <1>5, TotalIs

(* The total depends on what is held only.                                  *)
LEMMA SameHeldSameTotal ==
  ASSUME NEW d \in Entries, NEW e \in Entries, d.held = e.held
  PROVE  Total(d) = Total(e)
<1>1. DOMAIN d.held = Crews
  BY DEF Entries
<1> QED
  BY <1>1, TotalIs

(* What submit finds for a user after the sweep has the same total.          *)
LEMMA SweepDropsNothing ==
  ASSUME IInv, HeldIsWaiting, NEW u \in Users
  PROVE  AfterSweep[u] \in Entries /\ Total(AfterSweep[u]) = waiting[u]
<1>1. CASE u \in Swept
  <2>1. AfterSweep[u] = Fresh /\ ~entry[u].flushDue
    BY <1>1, SweptUser
  <2>2. waiting[u] = 0
    BY <2>1, TypedFields DEF IInv, Timed
  <2>3. DOMAIN Fresh.held = Crews
    BY FreshFields DEF Entries
  <2> QED
    BY <2>1, <2>2, <2>3, FreshFields, NothingAdds
<1>2. CASE u \notin Swept
  BY <1>2, SweepIsSafe DEF HeldIsWaiting
<1> QED
  BY <1>1, <1>2

LEMMA HeldStays ==
  ASSUME IInv, HeldIsWaiting, [Next]_vars
  PROVE  HeldIsWaiting'
<1>0. entry \in [Users -> Entries] /\ waiting \in [Users -> Nat] /\ now \in Nat /\ seq \in Nat
  BY DEF IInv, TypeOK
<1>a. AfterSweep \in [Users -> Entries] /\ \A v \in Users : Total(AfterSweep[v]) = waiting[v]
  BY SweepIsSafe, SweepDropsNothing
<1>1. ASSUME NEW u \in Users, NEW c \in Crews, SubmitNow(u, c)
      PROVE  HeldIsWaiting'
  <2> DEFINE e == AfterSweep[u]
  <2>1. entry' = [AfterSweep EXCEPT ![u] = Pushed(e)] /\ waiting' = waiting
    BY <1>1 DEF SubmitNow
  <2>2. Total(Pushed(e)) = Total(e)
    BY <1>0, <1>a, PushedFields, SameHeldSameTotal
  <2> HIDE DEF e
  <2> QED
    BY <1>a, <2>1, <2>2 DEF HeldIsWaiting, e
<1>2. ASSUME NEW u \in Users, NEW c \in Crews, SubmitHeld(u, c)
      PROVE  HeldIsWaiting'
  <2> DEFINE e == AfterSweep[u]
  <2>1. entry' = [AfterSweep EXCEPT ![u] = Hold(e, c)] /\ waiting' = [waiting EXCEPT ![u] = @ + 1]
    BY <1>2 DEF SubmitHeld
  <2>2. Total(Hold(e, c)) = Total(e) + 1
    BY <1>0, <1>a, HoldAdds
  <2> HIDE DEF e
  <2> QED
    BY <1>0, <1>a, <2>1, <2>2 DEF HeldIsWaiting, e
<1>3. ASSUME NEW t \in timers, Flush(t)
      PROVE  HeldIsWaiting'
  <2> DEFINE u == t.user
             e == Pushed(Emptied(entry[u]))
  <2>1. entry' = [entry EXCEPT ![u] = e] /\ waiting' = [waiting EXCEPT ![u] = 0] /\ u \in Users
    BY <1>3 DEF Flush, Run, IInv, TypeOK
  <2>2. Total(e) = 0
    <3>1. entry[u] \in Entries
      BY <1>0, <2>1
    <3>2. Emptied(entry[u]) \in Entries /\ \A c \in Crews : Emptied(entry[u]).held[c].count = 0
      BY <3>1, EmptiedFields
    <3>3. e.held = Emptied(entry[u]).held
      BY <1>0, <3>2, PushedFields
    <3>4. DOMAIN e.held = Crews
      BY <3>2, <3>3 DEF Entries
    <3> HIDE DEF e
    <3> QED
      BY <3>2, <3>3, <3>4, NothingAdds
  <2> HIDE DEF e
  <2> QED
    BY <1>0, <2>1, <2>2 DEF HeldIsWaiting
<1>4. CASE Tick \/ UNCHANGED vars
  <2>1. entry' = entry /\ waiting' = waiting
    BY <1>4 DEF Tick, vars
  <2> QED
    BY <2>1 DEF HeldIsWaiting
<1> QED
  BY <1>1, <1>2, <1>3, <1>4 DEF Next

(* No mention is lost or counted twice by a hold, a flush or a sweep: the     *)
(* number coalesceHeld names is the number of the mentions that wait.       *)
THEOREM NoMentionIsLost == Spec => []HeldIsWaiting
<1>1. Init => HeldIsWaiting
  <2> SUFFICES ASSUME Init, NEW u \in Users PROVE Total(entry[u]) = waiting[u]
    BY DEF HeldIsWaiting
  <2>1. entry[u] = Fresh /\ waiting[u] = 0
    BY DEF Init
  <2>2. DOMAIN Fresh.held = Crews
    BY FreshFields DEF Entries
  <2> QED
    BY <2>1, <2>2, FreshFields, NothingAdds
<1>2. IInv /\ HeldIsWaiting /\ [Next]_vars => HeldIsWaiting'
  BY HeldStays
<1> QED
  BY <1>1, <1>2, Invariance, PTL DEF Spec
=============================================================================
