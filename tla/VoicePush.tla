------------------------------ MODULE VoicePush ------------------------------
(***************************************************************************)
(* How the voice roster of one crew reaches a client that has the crew open: *)
(* PushVoiceUpdate with its per-crew sequence number, the coalescing of     *)
(* speaking and mute changes (push.go), and the client's stale filter       *)
(* (mello-core nakama/client.rs).                                          *)
(*                                                                         *)
(* The roster of a channel is the number of changes it had.  A push reads   *)
(* the channels one lock at a time, takes its number, and is sent; each is  *)
(* an action, so pushes of different goroutines interleave.                *)
(***************************************************************************)
EXTENDS Integers, Sequences

CONSTANTS
  Pushers,      \* goroutines that join, leave, speak or mute
  Loop,         \* the goroutine of StartVoiceCoalesceLoop
  NumChannels,  \* channels of the crew, in the order of its channel list
  Window,       \* the ordering window of the client (1000 in the code)
  MaxChanges,   \* bound: changes of the roster
  MaxRestarts   \* bound: restarts of the server

ASSUME VoicePushAssumption ==
  /\ Loop \notin Pushers
  /\ NumChannels \in Nat \ {0}
  /\ Window \in Nat \ {0}
  /\ MaxChanges \in Nat /\ MaxRestarts \in Nat

Goroutines == Pushers \cup {Loop}
CrewChannels == 1..NumChannels

VARIABLES
  roster,    \* voiceRooms: channel -> version of its member list
  dirty,     \* voiceDirty holds the crew
  goroutine, \* what each goroutine is doing
  seq,       \* voiceUpdateSeq of the crew
  wire,      \* notifications sent to the client and not handled yet
  link,      \* client: "up", "down" or "resync" (set_active_crew called)
  tracker,   \* client: TRACKER, the highest sequence number it took
  shown,     \* client: the roster it shows
  answer,    \* the crew state set_active_crew answers
  sent,      \* history: newest version of a channel that any push carried
  newest,    \* history: the roster in the push with the highest number
  changes, restarts  \* bounded: changes, server restarts

pushVars == <<roster, dirty, goroutine, seq, wire, link, tracker, shown, answer, sent, newest,
              changes, restarts>>
clientVars == <<link, tracker, shown, answer>>

Rosters == [CrewChannels -> Nat]
Nobody == [c \in CrewChannels |-> 0]
Idle == [pc |-> "idle"]
Reading(next, read) == [pc |-> "read", next |-> next, read |-> read]

PushTypeOK ==
  /\ roster \in Rosters /\ shown \in Rosters /\ answer \in Rosters
  /\ sent \in Rosters /\ newest \in Rosters
  /\ dirty \in BOOLEAN
  /\ goroutine \in [Goroutines ->
       {Idle, [pc |-> "mark"]}
       \cup [pc : {"read"}, next : 1..(NumChannels + 1), read : Rosters]
       \cup [pc : {"send"}, read : Rosters, seq : Nat]]
  /\ seq \in Nat /\ tracker \in Nat
  /\ wire \in Seq([read : Rosters, seq : Nat])
  /\ link \in {"up", "down", "resync"}
  /\ changes \in 0..MaxChanges /\ restarts \in 0..MaxRestarts

PushInit ==
  /\ roster = Nobody /\ shown = Nobody /\ answer = Nobody /\ sent = Nobody /\ newest = Nobody
  /\ dirty = FALSE
  /\ goroutine = [g \in Goroutines |-> Idle]
  /\ seq = 0 /\ tracker = 0 /\ wire = <<>>
  /\ link = "up"
  /\ changes = 0 /\ restarts = 0

-----------------------------------------------------------------------------
(* The server                                                              *)

Calm == link = "up" /\ wire = <<>> /\ \A g \in Goroutines : goroutine[g] = Idle

Become(g, state) == goroutine' = [goroutine EXCEPT ![g] = state]

ChangeRoster(c) ==
  /\ changes < MaxChanges
  /\ changes' = changes + 1
  /\ roster' = [roster EXCEPT ![c] = @ + 1]

(* A join or a leave: the room changes and PushVoiceUpdate follows.         *)
JoinOrLeave(g, c) ==
  /\ goroutine[g] = Idle
  /\ ChangeRoster(c)
  /\ Become(g, Reading(1, Nobody))
  /\ UNCHANGED <<dirty, seq, wire, clientVars, sent, newest, restarts>>

(* VoiceSpeakingRPC, VoiceMuteStateRPC: the member changes, then the crew is *)
(* marked.                                                                 *)
SpeakOrMute(g, c) ==
  /\ goroutine[g] = Idle
  /\ ChangeRoster(c)
  /\ Become(g, [pc |-> "mark"])
  /\ UNCHANGED <<dirty, seq, wire, clientVars, sent, newest, restarts>>

MarkVoiceDirty(g) ==
  /\ goroutine[g].pc = "mark"
  /\ dirty' = TRUE
  /\ Become(g, Idle)
  /\ UNCHANGED <<roster, seq, wire, clientVars, sent, newest, changes, restarts>>

(* The loop's tick takes the marks before it pushes.                       *)
FlushDirty ==
  /\ goroutine[Loop] = Idle /\ dirty
  /\ dirty' = FALSE
  /\ Become(Loop, Reading(1, Nobody))
  /\ UNCHANGED <<roster, seq, wire, clientVars, sent, newest, changes, restarts>>

(* PushVoiceUpdate: GetVoiceChannelSnapshot of each channel in turn.       *)
ReadChannel(g) ==
  LET s == goroutine[g] IN
  /\ s.pc = "read" /\ s.next <= NumChannels
  /\ Become(g, Reading(s.next + 1, [s.read EXCEPT ![s.next] = roster[s.next]]))
  /\ UNCHANGED <<roster, dirty, seq, wire, clientVars, sent, newest, changes, restarts>>

(* nextVoiceSeq.                                                           *)
NextVoiceSeq == seq + 1

NumberPush(g) ==
  LET s == goroutine[g] IN
  /\ s.pc = "read" /\ s.next > NumChannels
  /\ seq' = NextVoiceSeq
  /\ newest' = s.read
  /\ Become(g, [pc |-> "send", read |-> s.read, seq |-> seq'])
  /\ UNCHANGED <<roster, dirty, wire, clientVars, sent, changes, restarts>>

(* Mutant: the marks made during a push are dropped with the ones it served. *)
SendAndClear(g) ==
  LET s == goroutine[g] IN
  /\ s.pc = "send"
  /\ wire' = IF link = "down" THEN wire ELSE Append(wire, [read |-> s.read, seq |-> s.seq])
  /\ sent' = [c \in CrewChannels |-> IF s.read[c] > sent[c] THEN s.read[c] ELSE sent[c]]
  /\ dirty' = FALSE
  /\ Become(g, Idle)
  /\ UNCHANGED <<roster, seq, clientVars, newest, changes, restarts>>

(* The notification to the active subscribers.                             *)
Send(g) ==
  LET s == goroutine[g] IN
  /\ s.pc = "send"
  /\ wire' = IF link = "down" THEN wire ELSE Append(wire, [read |-> s.read, seq |-> s.seq])
  /\ sent' = [c \in CrewChannels |-> IF s.read[c] > sent[c] THEN s.read[c] ELSE sent[c]]
  /\ Become(g, Idle)
  /\ UNCHANGED <<roster, dirty, seq, clientVars, newest, changes, restarts>>

(* A restart empties the rooms and every map; the client loses its socket.  *)
Restart ==
  /\ restarts < MaxRestarts
  /\ restarts' = restarts + 1
  /\ roster' = [c \in CrewChannels |-> roster[c] + 1]
  /\ dirty' = FALSE /\ seq' = 0 /\ wire' = <<>>
  /\ goroutine' = [g \in Goroutines |-> Idle]
  /\ link' = "down"
  /\ UNCHANGED <<tracker, shown, answer, sent, newest, changes>>

-----------------------------------------------------------------------------
(* The client                                                              *)

(* Mutant: every update is shown.                                          *)
NeverStale(n) == FALSE

(* voice_update_is_stale, for the numbers the server sends (never 0).       *)
Stale(n) == n <= tracker /\ tracker - n < Window

HandleVoiceUpdate ==
  /\ wire # <<>>
  /\ wire' = Tail(wire)
  /\ IF Stale(Head(wire).seq)
     THEN UNCHANGED <<tracker, shown>>
     ELSE tracker' = Head(wire).seq /\ shown' = Head(wire).read
  /\ UNCHANGED <<roster, dirty, goroutine, seq, link, answer, sent, newest, changes, restarts>>

(* resync_after_reconnect: set_active_crew subscribes and reads the state.  *)
SetActiveCrew ==
  /\ link = "down"
  /\ link' = "resync"
  /\ answer' = roster
  /\ UNCHANGED <<roster, dirty, goroutine, seq, wire, tracker, shown, sent, newest, changes, restarts>>

CrewStateLoaded ==
  /\ link = "resync"
  /\ link' = "up"
  /\ shown' = answer
  /\ UNCHANGED <<roster, dirty, goroutine, seq, wire, tracker, answer, sent, newest, changes, restarts>>

Push(g) == ReadChannel(g) \/ NumberPush(g) \/ Send(g) \/ MarkVoiceDirty(g)

PushNext ==
  \/ \E g \in Pushers, c \in CrewChannels : JoinOrLeave(g, c) \/ SpeakOrMute(g, c)
  \/ \E g \in Goroutines : Push(g)
  \/ FlushDirty
  \/ Restart
  \/ HandleVoiceUpdate \/ SetActiveCrew \/ CrewStateLoaded

PushSpec == PushInit /\ [][PushNext]_pushVars

(* Goroutines run, the ticker ticks, the socket delivers.                  *)
FairPushSpec ==
  /\ PushSpec /\ WF_pushVars(FlushDirty) /\ WF_pushVars(HandleVoiceUpdate)
  /\ \A g \in Goroutines : WF_pushVars(Push(g))

-----------------------------------------------------------------------------
(* Properties                                                              *)

Settled == Calm /\ ~dirty

(* However the sends of concurrent pushes are reordered, the client ends up  *)
(* with the push of the highest number, as nextVoiceSeq's filter promises.  *)
NewestSeqShown == Settled /\ restarts = 0 => shown = newest

(* Every change of a member, pushed at once or marked for the loop, is        *)
(* carried by some push that follows it: no mark is lost in a flush.       *)
ChangeIsPushed ==
  \A c \in CrewChannels : \A v \in 1..MaxChanges : roster[c] >= v ~> sent[c] >= v \/ restarts > 0

(* Refuted: the numbers keep a stale roster from replacing a newer one.  A   *)
(* push that read first may take the higher number.                        *)
SettledShowsRoster == Settled /\ restarts = 0 => shown = roster
=============================================================================
