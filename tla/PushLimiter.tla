----------------------------- MODULE PushLimiter -----------------------------
(***************************************************************************)
(* The rate limit and coalescing of mention pushes, push_coalesce.go.      *)
(*                                                                         *)
(* submit and flush each run in one critical section of pushLimiter.mu, so *)
(* each is one action per outcome; the send that follows the unlock touches *)
(* no state of the limiter and is recorded in the history variables.  A    *)
(* timer is a time.AfterFunc: it runs at its due time or later, on its own *)
(* goroutine, and is never cancelled.                                      *)
(***************************************************************************)
EXTENDS Integers, FiniteSets, Functions

CONSTANTS
  Users,       \* users a mention is for
  Crews,       \* crews the mentions come from
  Window,      \* pushWindow, in ticks
  SweepAt,     \* pushLimiterSweepAt
  MaxTime,     \* bound: no mention is submitted after this tick
  MaxMentions  \* bound: mentions submitted in a behaviour

ASSUME PushLimiterAssumption ==
  /\ IsFiniteSet(Crews)
  /\ Window \in Nat \ {0}
  /\ SweepAt \in Nat
  /\ MaxTime \in Nat
  /\ MaxMentions \in Nat

VARIABLES
  now,        \* l.now()
  known,      \* the keys of l.users
  entry,      \* l.users; a user without a key has the entry submit would make
  seq,        \* l.seq
  timers,     \* the AfterFunc timers that have not run yet
  mentions,   \* history, bounded: mentions submitted so far
  sentAt,     \* history: when a push for the user was last decided
  waiting,    \* history: mentions of a user that no push has covered yet
  newest,     \* history: crew of the mention submitted last for a user
  opened      \* history: the crew the last push for the user opens

vars == <<now, known, entry, seq, timers, mentions, sentAt, waiting, newest, opened>>

(* The zero time.Time: longer ago than any window. *)
NeverSent == -Window
Nothing == [c \in Crews |-> [count |-> 0, seq |-> 0]]
Fresh == [lastSent |-> NeverSent, held |-> Nothing, flushDue |-> FALSE]

Times == {n \in Int : n >= NeverSent}
Entries == [lastSent : Times, held : [Crews -> [count : Nat, seq : Nat]], flushDue : BOOLEAN]

TypeOK ==
  /\ now \in Nat
  /\ known \subseteq Users
  /\ entry \in [Users -> Entries]
  /\ seq \in Nat
  /\ timers \subseteq [user : Users, due : Nat]
  /\ mentions \in Nat
  /\ sentAt \in [Users -> Times]
  /\ waiting \in [Users -> Nat]
  /\ newest \in [Users -> Crews]
  /\ opened \in [Users -> Crews]

Init ==
  /\ now = 0
  /\ known = {}
  /\ entry = [u \in Users |-> Fresh]
  /\ seq = 0
  /\ timers = {}
  /\ mentions = 0
  /\ sentAt = [u \in Users |-> NeverSent]
  /\ waiting = [u \in Users |-> 0]
  /\ newest \in [Users -> Crews]
  /\ opened = newest

-----------------------------------------------------------------------------
(* submit                                                                  *)

(* No push inside the window, and none about to replace held mentions.     *)
Idle(e) == ~e.flushDue /\ now - e.lastSent >= Window

(* Mutant: every user whose window has passed is forgotten.                *)
SweptHeld ==
  IF Cardinality(known) < SweepAt THEN {} ELSE {u \in known : now - entry[u].lastSent >= Window}

(* sweepLocked: the users that are forgotten once the map has grown.       *)
Swept == IF Cardinality(known) < SweepAt THEN {} ELSE {u \in known : Idle(entry[u])}

(* What submit finds for a user after the sweep.                           *)
AfterSweep == [u \in Users |-> IF u \in Swept THEN Fresh ELSE entry[u]]

Submitted(u, c) ==
  /\ mentions < MaxMentions
  /\ now <= MaxTime
  /\ mentions' = mentions + 1
  /\ known' = (known \ Swept) \cup {u}
  /\ newest' = [newest EXCEPT ![u] = c]

(* A push goes out: the user's window starts again. *)
Pushed(e) == [e EXCEPT !.lastSent = now]

SubmitNow(u, c) ==
  /\ Idle(AfterSweep[u])
  /\ Submitted(u, c)
  /\ entry' = [AfterSweep EXCEPT ![u] = Pushed(AfterSweep[u])]
  /\ sentAt' = [sentAt EXCEPT ![u] = now]
  /\ opened' = [opened EXCEPT ![u] = c]
  /\ UNCHANGED <<now, seq, timers, waiting>>

(* Mutant: a crew keeps the seq of its first held mention.                 *)
HoldFirstSeq(e, c) ==
  [e EXCEPT !.held[c].seq = IF e.held[c].count = 0 THEN seq + 1 ELSE @,
            !.held[c].count = @ + 1,
            !.flushDue = TRUE]

(* The newest mention of a crew replaces its alert and its place.          *)
Hold(e, c) ==
  [e EXCEPT !.held = [e.held EXCEPT ![c] = [count |-> e.held[c].count + 1, seq |-> seq + 1]],
            !.flushDue = TRUE]

(* Mutant: every held mention starts a timer of its own.                    *)
TimerPerMention(u, e) == {[user |-> u, due |-> now + Window]}

(* The first held mention starts the flush timer, for the end of the window. *)
NewTimer(u, e) ==
  IF e.flushDue THEN {} ELSE {[user |-> u, due |-> now + (Window - (now - e.lastSent))]}

SubmitHeld(u, c) ==
  LET e == AfterSweep[u] IN
  /\ ~Idle(e)
  /\ Submitted(u, c)
  /\ seq' = seq + 1
  /\ entry' = [AfterSweep EXCEPT ![u] = Hold(e, c)]
  /\ timers' = timers \cup NewTimer(u, e)
  /\ waiting' = [waiting EXCEPT ![u] = @ + 1]
  /\ UNCHANGED <<now, sentAt, opened>>

-----------------------------------------------------------------------------
(* flush                                                                   *)

HeldCrews(e) == {c \in Crews : e.held[c].count > 0}

(* coalesceHeld: one push for all that is held.  It opens the crew of the    *)
(* newest mention and names the number of mentions.                        *)
Target(e) == CHOOSE c \in HeldCrews(e) : \A d \in HeldCrews(e) : e.held[c].seq >= e.held[d].seq
Total(e) == FoldFunction(LAMBDA h, n : h.count + n, 0, e.held)

Run(t) ==
  /\ t \in timers
  /\ now >= t.due
  /\ timers' = timers \ {t}

Emptied(e) == [e EXCEPT !.held = Nothing, !.flushDue = FALSE]

(* Mutant: the push that replaces held mentions opens no new window.       *)
FlushKeepsLastSent(t) ==
  LET u == t.user  e == entry[u] IN
  /\ Run(t)
  /\ u \in known /\ e.flushDue /\ HeldCrews(e) # {}
  /\ entry' = [entry EXCEPT ![u] = Emptied(e)]
  /\ sentAt' = [sentAt EXCEPT ![u] = now]
  /\ waiting' = [waiting EXCEPT ![u] = 0]
  /\ opened' = [opened EXCEPT ![u] = Target(e)]
  /\ UNCHANGED <<now, known, seq, mentions, newest>>

(* flush.  Its early returns (no entry, no flush due, nothing held) are never *)
(* taken: HeldHasOneTimer.                                                 *)
Flush(t) ==
  LET u == t.user  e == entry[u] IN
  /\ Run(t)
  /\ u \in known /\ e.flushDue /\ HeldCrews(e) # {}
  /\ entry' = [entry EXCEPT ![u] = Pushed(Emptied(e))]
  /\ sentAt' = [sentAt EXCEPT ![u] = now]
  /\ waiting' = [waiting EXCEPT ![u] = 0]
  /\ opened' = [opened EXCEPT ![u] = Target(e)]
  /\ UNCHANGED <<now, known, seq, mentions, newest>>

(* The clock; it stops when nothing more can happen by itself.             *)
Tick ==
  /\ now < MaxTime \/ timers # {}
  /\ now < MaxTime + Window
  /\ now' = now + 1
  /\ UNCHANGED <<known, entry, seq, timers, mentions, sentAt, waiting, newest, opened>>

Next ==
  \/ \E u \in Users, c \in Crews : SubmitNow(u, c) \/ SubmitHeld(u, c)
  \/ \E t \in timers : Flush(t)
  \/ Tick

Spec == Init /\ [][Next]_vars

(* Time passes, and the runtime runs every timer that is due.              *)
FairSpec == Spec /\ WF_vars(Tick) /\ WF_vars(\E t \in timers : Flush(t))

-----------------------------------------------------------------------------
(* Properties                                                              *)

(* "A busy crew therefore buzzes a phone at most once per window": two pushes *)
(* for a user are decided at least a window apart, whether submit or flush  *)
(* decides them and whether the sweep forgot the user in between.          *)
OncePerWindow ==
  [][\A u \in Users : sentAt'[u] # sentAt[u] => sentAt'[u] - sentAt[u] >= Window]_vars

(* No mention is lost or counted twice: what no push has covered yet is held, *)
(* and the number the next push names is the number of the mentions it     *)
(* stands for (the sweep, the flush and a new hold drop or repeat none).   *)
HeldIsWaiting == \A u \in Users : Total(entry[u]) = waiting[u]

(* A user with held mentions has exactly one timer, due within the window;  *)
(* a user without has none, so no flush finds nothing to send.             *)
TimersOf(u) == {t \in timers : t.user = u}
HeldHasOneTimer ==
  \A u \in Users :
    IF waiting[u] > 0
    THEN \E t \in timers : TimersOf(u) = {t} /\ t.due <= sentAt[u] + Window
    ELSE TimersOf(u) = {}

(* When nothing is held for a user, the last push opens the crew of the      *)
(* newest mention, over all the crews a coalesced push stands for.         *)
NewestOpens == \A u \in Users : waiting[u] = 0 => opened[u] = newest[u]

(* Every held mention is pushed in the end (the flush timer always comes).   *)
HeldIsPushed == \A u \in Users : waiting[u] > 0 ~> waiting[u] = 0

-----------------------------------------------------------------------------
(* The inductive invariant behind the theorems of PushLimiterProofs        *)

(* The entry remembers the last push, unless it was forgotten a window ago. *)
Remembered(u) ==
  entry[u].lastSent = sentAt[u] \/ (entry[u].lastSent = NeverSent /\ now - sentAt[u] >= Window)

(* What is held has a timer for the end of the window of the last push.     *)
Timed(u) ==
  /\ \A t \in TimersOf(u) : entry[u].flushDue /\ t.due = entry[u].lastSent + Window
  /\ entry[u].flushDue => u \in known /\ entry[u].lastSent = sentAt[u] /\ TimersOf(u) # {}
  /\ entry[u].flushDue <=> waiting[u] > 0

(* The newest mention is held with the greatest seq, or was pushed.         *)
Ordered(u) ==
  /\ \A c \in Crews : entry[u].held[c].seq <= seq
  /\ entry[u].flushDue =>
       /\ entry[u].held[newest[u]].count > 0
       /\ \A c \in Crews \ {newest[u]} :
            entry[u].held[c].count > 0 => entry[u].held[c].seq < entry[u].held[newest[u]].seq
  /\ ~entry[u].flushDue => opened[u] = newest[u]

IInv == TypeOK /\ \A u \in Users : Remembered(u) /\ Timed(u) /\ Ordered(u)
=============================================================================
