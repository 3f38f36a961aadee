------------------------------ MODULE EventLog ------------------------------
(* What a crew's event ledger promises: one log, changed by whole operations *)
(* one after the other.  An operation appends an event (and may drop events *)
(* that are older than the rolling window), removes one, or adds the        *)
(* pictures of a stream to one.                                            *)
EXTENDS Filtering

CONSTANTS Events, Retention

VARIABLES
  log,   \* the events, oldest first
  clock  \* the time

Init == log = <<>> /\ clock \in Nat

Recent(seq, time) == Filtered(seq, {i \in DOMAIN seq : seq[i].at >= time - Retention})
Without(seq, e) == Filtered(seq, {i \in DOMAIN seq : seq[i].id # e})
WithPictures(seq, e) ==
  [i \in DOMAIN seq |-> IF seq[i].id = e THEN [seq[i] EXCEPT !.pictures = TRUE] ELSE seq[i]]

Added(e, at) == log' = Recent(Append(log, [id |-> e, at |-> at, pictures |-> FALSE]), clock)
Removed(e) == log' = Without(log, e)
Illustrated(e) == log' = WithPictures(log, e)

Change ==
  /\ \E e \in Events :
       \/ \E at \in 0..clock : Added(e, at)
       \/ Removed(e)
       \/ Illustrated(e)
  /\ clock' = clock

Tick == clock' = clock + 1 /\ log' = log

Spec == Init /\ [][Change \/ Tick]_<<log, clock>>
=============================================================================
