-------------------------- MODULE VoiceClientProofs --------------------------
(* Theorems about the voice state a client shows, for any goroutines,        *)
(* channels, window and bounds (VoicePush), and about its call, for any      *)
(* crews, channels, delays and time limits (VoiceCall).                     *)
EXTENDS VoiceCall, VoicePush, SequenceTheorems, TLAPS

USE VoicePushAssumption

-----------------------------------------------------------------------------
(* Voice pushes: types                                                     *)

Updates == [read : Rosters, seq : Nat]
Reads == [pc : {"read"}, next : 1..(NumChannels + 1), read : Rosters]
Sends == [pc : {"send"}, read : Rosters, seq : Nat]
States == {Idle, [pc |-> "mark"]} \cup Reads \cup Sends

LEMMA PcNamesState ==
  ASSUME NEW s \in States
  PROVE  (s.pc = "read" <=> s \in Reads) /\ (s.pc = "send" <=> s \in Sends)
  BY DEF States, Idle, Reads, Sends

LEMMA NobodyIsRoster == Nobody \in Rosters
  BY DEF Nobody, Rosters

LEMMA StatesAreTyped ==
  Idle \in States /\ [pc |-> "mark"] \in States /\ Reading(1, Nobody) \in States
  BY NobodyIsRoster DEF States, Reads, Reading

PushTypes ==
  /\ roster \in Rosters /\ shown \in Rosters /\ answer \in Rosters
  /\ sent \in Rosters /\ newest \in Rosters /\ dirty \in BOOLEAN
  /\ goroutine \in [Goroutines -> States] /\ seq \in Nat /\ tracker \in Nat
  /\ wire \in Seq(Updates) /\ link \in {"up", "down", "resync"}
  /\ changes \in 0..MaxChanges /\ restarts \in 0..MaxRestarts

LEMMA InitPushTypes == PushInit => PushTypes
<1> SUFFICES ASSUME PushInit PROVE PushTypes
  OBVIOUS
<1>1. goroutine \in [Goroutines -> States]
  BY StatesAreTyped DEF PushInit
<1>2. wire \in Seq(Updates) /\ changes \in 0..MaxChanges /\ restarts \in 0..MaxRestarts
  BY DEF PushInit
<1> QED
  BY <1>1, <1>2, NobodyIsRoster DEF PushInit, PushTypes

LEMMA BecomeTypes ==
  ASSUME PushTypes, NEW g \in Goroutines, NEW s \in States, Become(g, s)
  PROVE  /\ goroutine' \in [Goroutines -> States] /\ goroutine'[g] = s
         /\ \A h \in Goroutines \ {g} : goroutine'[h] = goroutine[h]
  BY DEF PushTypes, Become

LEMMA RosterUpdated ==
  ASSUME NEW r \in Rosters, NEW c \in CrewChannels, NEW n \in Nat
  PROVE  [r EXCEPT ![c] = n] \in Rosters
  BY DEF Rosters

(* The message a goroutine sends is appended, unless the client is away.      *)
LEMMA SendTypes ==
  ASSUME PushTypes, NEW g \in Goroutines, Send(g)
  PROVE  /\ goroutine[g] \in Sends /\ [read |-> goroutine[g].read, seq |-> goroutine[g].seq] \in Updates
         /\ wire \in Seq(Updates) /\ wire' \in Seq(Updates)
<1>1. goroutine[g] \in States /\ wire \in Seq(Updates)
  BY DEF PushTypes
<1>2. goroutine[g] \in Sends
  BY <1>1, PcNamesState DEF Send
<1>3. [read |-> goroutine[g].read, seq |-> goroutine[g].seq] \in Updates
  BY <1>2 DEF Sends, Updates
<1>4. wire' \in Seq(Updates)
  BY <1>1, <1>3, AppendProperties DEF Send
<1> QED
  BY <1>1, <1>2, <1>3, <1>4

(* Every step keeps the types.                                              *)
LEMMA StepPushTypes == PushTypes /\ [PushNext]_pushVars => PushTypes'
<1> SUFFICES ASSUME PushTypes, [PushNext]_pushVars PROVE PushTypes'
  OBVIOUS
<1>1. goroutine \in [Goroutines -> States] /\ wire \in Seq(Updates)
  BY DEF PushTypes
<1> USE StatesAreTyped DEF PushTypes, clientVars
<1>2. CASE \E g \in Pushers, c \in CrewChannels : JoinOrLeave(g, c) \/ SpeakOrMute(g, c)
  <2>1. PICK g \in Pushers, c \in CrewChannels : JoinOrLeave(g, c) \/ SpeakOrMute(g, c)
    BY <1>2
  <2>2. g \in Goroutines
    BY DEF Goroutines
  <2>3. roster' \in Rosters /\ changes' \in 0..MaxChanges
    <3>1. roster' = [roster EXCEPT ![c] = @ + 1] /\ changes < MaxChanges /\ changes' = changes + 1
      BY <2>1 DEF JoinOrLeave, SpeakOrMute, ChangeRoster
    <3>2. roster' \in Rosters
      BY <3>1 DEF Rosters
    <3>3. changes' \in 0..MaxChanges
      BY <3>1
    <3> QED
      BY <3>2, <3>3
  <2>4. goroutine' \in [Goroutines -> States]
    BY <2>1, <2>2, BecomeTypes DEF JoinOrLeave, SpeakOrMute
  <2> QED
    BY <1>1, <2>1, <2>3, <2>4 DEF JoinOrLeave, SpeakOrMute
<1>3. ASSUME NEW g \in Goroutines, ReadChannel(g) PROVE PushTypes'
  <2>1. goroutine[g] \in Reads
    BY <1>1, <1>3, PcNamesState DEF ReadChannel
  <2>2. PICK s : s = Reading(goroutine[g].next + 1,
                    [goroutine[g].read EXCEPT ![goroutine[g].next] = roster[goroutine[g].next]])
    OBVIOUS
  <2>3. s \in States
    <3>1. goroutine[g].next \in CrewChannels /\ goroutine[g].read \in Rosters
      BY <1>3, <2>1 DEF ReadChannel, Reads, CrewChannels
    <3>2. roster[goroutine[g].next] \in Nat
      BY <3>1 DEF Rosters
    <3>3. [goroutine[g].read EXCEPT ![goroutine[g].next] = roster[goroutine[g].next]] \in Rosters
      BY <3>1, <3>2, RosterUpdated
    <3> QED
      BY <2>2, <3>1, <3>3 DEF Reading, States, Reads, CrewChannels
  <2>4. goroutine' \in [Goroutines -> States]
    BY <1>3, <2>2, <2>3, BecomeTypes DEF ReadChannel
  <2> QED
    BY <1>1, <1>3, <2>4 DEF ReadChannel
<1>4. ASSUME NEW g \in Goroutines, NumberPush(g) PROVE PushTypes'
  <2>1. goroutine[g] \in Reads
    BY <1>1, <1>4, PcNamesState DEF NumberPush
  <2>2. [pc |-> "send", read |-> goroutine[g].read, seq |-> seq + 1] \in States
    BY <2>1 DEF Reads, States, Sends
  <2>3. goroutine' \in [Goroutines -> States] /\ seq' \in Nat /\ newest' \in Rosters
    BY <1>4, <2>1, <2>2, BecomeTypes DEF NumberPush, NextVoiceSeq, Reads
  <2> QED
    BY <1>1, <1>4, <2>3 DEF NumberPush
<1>5. ASSUME NEW g \in Goroutines, Send(g) PROVE PushTypes'
  <2>1. goroutine[g].read \in Rosters
    BY <1>5, SendTypes DEF Sends
  <2>2. sent' \in Rosters
    BY <1>5, <2>1 DEF Send, Rosters
  <2>3. goroutine' \in [Goroutines -> States]
    BY <1>5, BecomeTypes DEF Send
  <2> QED
    BY <1>5, <2>2, <2>3, SendTypes DEF Send
<1>6. ASSUME NEW g \in Goroutines, MarkVoiceDirty(g) PROVE PushTypes'
  <2>1. goroutine' \in [Goroutines -> States]
    BY <1>6, BecomeTypes DEF MarkVoiceDirty
  <2> QED
    BY <1>1, <1>6, <2>1 DEF MarkVoiceDirty
<1>7. CASE FlushDirty
  <2>1. goroutine' \in [Goroutines -> States]
    BY <1>7, BecomeTypes DEF FlushDirty, Goroutines
  <2> QED
    BY <1>1, <1>7, <2>1 DEF FlushDirty
<1>8. CASE Restart
  <2>1. roster' \in Rosters /\ wire' \in Seq(Updates)
    BY <1>8 DEF Restart, Rosters
  <2>2. goroutine' \in [Goroutines -> States]
    BY <1>8 DEF Restart
  <2>3. restarts' \in 0..MaxRestarts /\ link' \in {"up", "down", "resync"} /\ seq' \in Nat
    BY <1>8 DEF Restart
  <2>4. /\ shown' \in Rosters /\ answer' \in Rosters /\ sent' \in Rosters /\ newest' \in Rosters
        /\ dirty' \in BOOLEAN /\ tracker' \in Nat /\ changes' \in 0..MaxChanges
    BY <1>8 DEF Restart
  <2> QED
    BY <2>1, <2>2, <2>3, <2>4
<1>9. CASE HandleVoiceUpdate
  <2>1. Head(wire) \in Updates /\ Tail(wire) \in Seq(Updates)
    BY <1>1, <1>9, HeadTailProperties DEF HandleVoiceUpdate
  <2>2. tracker' \in Nat /\ shown' \in Rosters
    BY <1>9, <2>1 DEF HandleVoiceUpdate, Updates
  <2> QED
    BY <1>1, <1>9, <2>1, <2>2 DEF HandleVoiceUpdate
<1>10. CASE SetActiveCrew
  BY <1>1, <1>10 DEF SetActiveCrew
<1>11. CASE CrewStateLoaded
  BY <1>1, <1>11 DEF CrewStateLoaded
<1>12. CASE UNCHANGED pushVars
  BY <1>1, <1>12 DEF pushVars
<1> QED
  BY <1>2, <1>3, <1>4, <1>5, <1>6, <1>7, <1>8, <1>9, <1>10, <1>11, <1>12 DEF PushNext, Push

-----------------------------------------------------------------------------
(* The numbers                                                             *)

(* A push that took its number and was not handled yet.                      *)
Sending(g, n) == goroutine[g].pc = "send" /\ goroutine[g].seq = n
Waiting(i, n) == wire[i].seq = n
Pending(n) == (\E g \in Goroutines : Sending(g, n)) \/ (\E i \in DOMAIN wire : Waiting(i, n))

(* No push arrives a window of numbers late: the client takes such a number   *)
(* for one of a server that was restarted.                                 *)
InWindow == \A n \in Nat : Pending(n) => tracker - n < Window

(* Every number was drawn, and the highest one carries the newest reading.    *)
Drawn ==
  /\ \A g \in Goroutines : goroutine[g].pc = "send" =>
       goroutine[g].seq \in 1..seq /\ (goroutine[g].seq = seq => goroutine[g].read = newest)
  /\ \A i \in DOMAIN wire :
       wire[i].seq \in 1..seq /\ (wire[i].seq = seq => wire[i].read = newest)

(* The highest number was taken and is shown, or is still to come.           *)
Arrives == tracker <= seq /\ IF tracker = seq THEN shown = newest ELSE Pending(seq)

Numbered == link = "up" /\ Drawn /\ Arrives

PushInv == PushTypes /\ (restarts = 0 => Numbered)

(* A goroutine that is not sending before or after changes no number.         *)
LEMMA QuietStep ==
  ASSUME PushTypes, Numbered, NEW g \in Goroutines, UNCHANGED <<seq, wire, link, tracker, shown, newest>>,
         goroutine[g].pc # "send", goroutine'[g].pc # "send",
         \A h \in Goroutines \ {g} : goroutine'[h] = goroutine[h]
  PROVE  Numbered'
<1>1. \A n \in Nat : Pending(n)' <=> Pending(n)
  BY DEF Pending, Sending, Waiting
<1>2. Drawn'
  BY DEF Numbered, Drawn
<1>3. Arrives'
  BY <1>1 DEF Numbered, Arrives, PushTypes
<1> QED
  BY <1>2, <1>3 DEF Numbered

LEMMA NumberPushStep ==
  ASSUME PushTypes, Numbered, NEW g \in Goroutines, NumberPush(g)
  PROVE  Numbered'
<1>1. /\ goroutine[g].pc = "read" /\ seq' = seq + 1 /\ newest' = goroutine[g].read
      /\ UNCHANGED <<wire, link, tracker, shown>>
  BY DEF NumberPush, NextVoiceSeq, clientVars
<1>2. /\ goroutine'[g] = [pc |-> "send", read |-> newest', seq |-> seq']
      /\ \A h \in Goroutines \ {g} : goroutine'[h] = goroutine[h]
  BY <1>1 DEF NumberPush, Become, PushTypes
<1>3. Sending(g, seq)'
  BY <1>2 DEF Sending
<1>4. Drawn'
  <2>1. ASSUME NEW h \in Goroutines, goroutine'[h].pc = "send"
        PROVE  goroutine'[h].seq \in 1..seq' /\ (goroutine'[h].seq = seq' => goroutine'[h].read = newest')
    <3>1. CASE h = g
      BY <1>1, <1>2, <3>1 DEF PushTypes
    <3>2. CASE h # g
      BY <1>1, <1>2, <2>1, <3>2 DEF PushTypes, Numbered, Drawn
    <3> QED
      BY <3>1, <3>2
  <2>2. ASSUME NEW i \in DOMAIN wire'
        PROVE  wire'[i].seq \in 1..seq' /\ (wire'[i].seq = seq' => wire'[i].read = newest')
    BY <1>1 DEF PushTypes, Numbered, Drawn
  <2> QED
    BY <2>1, <2>2 DEF Drawn
<1>5. Arrives'
  BY <1>1, <1>3 DEF Numbered, Arrives, Pending, PushTypes
<1> QED
  BY <1>1, <1>4, <1>5 DEF Numbered

LEMMA SendStep ==
  ASSUME PushTypes, Numbered, NEW g \in Goroutines, Send(g)
  PROVE  Numbered'
<1>1. /\ goroutine[g].pc = "send" /\ UNCHANGED <<seq, link, tracker, shown, newest>>
      /\ wire' = Append(wire, [read |-> goroutine[g].read, seq |-> goroutine[g].seq])
  BY DEF Send, Numbered, clientVars
<1>2. goroutine'[g] = Idle /\ \A h \in Goroutines \ {g} : goroutine'[h] = goroutine[h]
  BY DEF Send, Become, PushTypes
<1>3. /\ [read |-> goroutine[g].read, seq |-> goroutine[g].seq] \in Updates
      /\ wire \in Seq(Updates) /\ wire' \in Seq(Updates)
  BY SendTypes
<1>4. /\ Len(wire') = Len(wire) + 1 /\ Len(wire) \in Nat
      /\ \A i \in 1..Len(wire) : wire'[i] = wire[i]
      /\ wire'[Len(wire) + 1].seq = goroutine[g].seq /\ wire'[Len(wire) + 1].read = goroutine[g].read
      /\ DOMAIN wire = 1..Len(wire) /\ DOMAIN wire' = 1..(Len(wire) + 1)
  BY <1>1, <1>3, AppendProperties
<1>5. Drawn'
  <2>1. \A h \in Goroutines : goroutine'[h].pc = "send" => h # g
    BY <1>2 DEF Idle
  <2>2. ASSUME NEW i \in 1..(Len(wire) + 1)
        PROVE  wire'[i].seq \in 1..seq /\ (wire'[i].seq = seq => wire'[i].read = newest)
    <3>1. CASE i = Len(wire) + 1
      BY <1>1, <1>4, <3>1 DEF Numbered, Drawn
    <3>2. CASE i \in 1..Len(wire)
      BY <1>4, <3>2 DEF Numbered, Drawn
    <3> QED
      BY <1>4, <3>1, <3>2
  <2> QED
    BY <1>1, <1>2, <1>4, <2>1, <2>2 DEF Numbered, Drawn
<1>6. Pending(seq) => Pending(seq)'
  <2>1. ASSUME NEW h \in Goroutines, Sending(h, seq) PROVE Pending(seq)'
    <3>1. CASE h = g
      <4>1. PICK k : k = Len(wire) + 1
        OBVIOUS
      <4>2. k \in DOMAIN wire' /\ wire'[k].seq = seq'
        BY <1>1, <1>4, <2>1, <3>1, <4>1 DEF Sending
      <4> QED
        BY <1>1, <4>2 DEF Pending, Waiting
    <3>2. CASE h # g
      BY <1>1, <1>2, <2>1, <3>2 DEF Sending, Pending
    <3> QED
      BY <3>1, <3>2
  <2>2. ASSUME NEW i \in DOMAIN wire, Waiting(i, seq) PROVE Pending(seq)'
    BY <1>1, <1>4, <2>2 DEF Waiting, Pending
  <2> QED
    BY <2>1, <2>2 DEF Pending
<1>7. Arrives'
  BY <1>1, <1>6 DEF Numbered, Arrives
<1> QED
  BY <1>1, <1>5, <1>7 DEF Numbered

(* The filter passes the higher numbers, and only them.                      *)
LEMMA HandleVoiceUpdateStep ==
  ASSUME PushTypes, Numbered, InWindow, HandleVoiceUpdate
  PROVE  Numbered'
<1>1. /\ wire # <<>> /\ wire' = Tail(wire) /\ wire \in Seq(Updates)
      /\ UNCHANGED <<goroutine, seq, link, newest>>
  BY DEF HandleVoiceUpdate, PushTypes
<1>2. /\ Head(wire) = wire[1] /\ 1 \in DOMAIN wire /\ wire' \in Seq(Updates)
      /\ Len(wire) \in Nat \ {0} /\ DOMAIN wire = 1..Len(wire) /\ DOMAIN wire' = 1..(Len(wire) - 1)
      /\ \A i \in 1..(Len(wire) - 1) : wire'[i] = wire[i + 1]
  BY <1>1, HeadTailProperties
<1>3. PICK m \in Updates : m = wire[1]
  BY <1>1, <1>2
<1>4. m.seq \in 1..seq /\ (m.seq = seq => m.read = newest) /\ seq \in Nat /\ tracker \in Nat
  BY <1>2, <1>3 DEF Numbered, Drawn, PushTypes
<1>5. IF m.seq <= tracker THEN tracker' = tracker /\ shown' = shown ELSE tracker' = m.seq /\ shown' = m.read
  <2>1. Pending(m.seq)
    BY <1>2, <1>3 DEF Pending, Waiting
  <2>2. Stale(m.seq) <=> m.seq <= tracker
    BY <1>4, <2>1 DEF Stale, InWindow
  <2> QED
    BY <1>2, <1>3, <2>2 DEF HandleVoiceUpdate
<1>6. Drawn'
  BY <1>1, <1>2 DEF Numbered, Drawn
<1>7. m.seq # seq /\ Pending(seq) => Pending(seq)'
  <2>1. ASSUME m.seq # seq, NEW i \in DOMAIN wire, Waiting(i, seq) PROVE Pending(seq)'
    <3>1. i # 1 /\ i - 1 \in DOMAIN wire' /\ wire'[i - 1].seq = seq
      BY <1>2, <1>3, <2>1 DEF Waiting
    <3> QED
      BY <1>1, <3>1 DEF Pending, Waiting
  <2> QED
    BY <1>1, <2>1 DEF Pending, Sending
<1>8. Arrives'
  BY <1>1, <1>4, <1>5, <1>7 DEF Numbered, Arrives
<1> QED
  BY <1>1, <1>6, <1>8 DEF Numbered

LEMMA InitPush == PushInit => PushInv
<1> SUFFICES ASSUME PushInit PROVE PushTypes /\ Numbered
  BY DEF PushInv
<1>1. \A g \in Goroutines : goroutine[g].pc # "send"
  BY DEF PushInit, Idle
<1>2. Drawn /\ Arrives /\ link = "up"
  BY <1>1 DEF PushInit, Drawn, Arrives
<1> QED
  BY <1>2, InitPushTypes DEF Numbered

LEMMA StepPush == PushInv /\ InWindow /\ [PushNext]_pushVars => PushInv'
<1> SUFFICES ASSUME PushTypes, restarts = 0 => Numbered, InWindow, [PushNext]_pushVars, restarts' = 0
             PROVE  Numbered'
  BY StepPushTypes DEF PushInv
<1> USE DEF clientVars
<1>1. Numbered
  <2>1. restarts' = restarts \/ restarts' = restarts + 1
    BY DEF pushVars, PushNext, JoinOrLeave, SpeakOrMute, Push, ReadChannel, NumberPush, Send, MarkVoiceDirty,
       FlushDirty, Restart, HandleVoiceUpdate, SetActiveCrew, CrewStateLoaded
  <2> QED
    BY <2>1 DEF PushTypes
<1>2. ASSUME NEW g \in Pushers, NEW c \in CrewChannels, JoinOrLeave(g, c) \/ SpeakOrMute(g, c)
      PROVE  Numbered'
  <2>1. g \in Goroutines /\ goroutine[g].pc # "send"
    BY <1>2 DEF Goroutines, JoinOrLeave, SpeakOrMute, Idle
  <2>2. goroutine'[g].pc # "send" /\ \A h \in Goroutines \ {g} : goroutine'[h] = goroutine[h]
    BY <1>2, <2>1 DEF JoinOrLeave, SpeakOrMute, Become, Reading, PushTypes
  <2> QED
    BY <1>1, <1>2, <2>1, <2>2, QuietStep DEF JoinOrLeave, SpeakOrMute
<1>3. ASSUME NEW g \in Goroutines, ReadChannel(g) \/ MarkVoiceDirty(g) PROVE Numbered'
  <2>1. goroutine[g].pc # "send"
    BY <1>3 DEF ReadChannel, MarkVoiceDirty
  <2>2. goroutine'[g].pc # "send" /\ \A h \in Goroutines \ {g} : goroutine'[h] = goroutine[h]
    BY <1>3 DEF ReadChannel, MarkVoiceDirty, Become, Reading, Idle, PushTypes
  <2> QED
    BY <1>1, <1>3, <2>1, <2>2, QuietStep DEF ReadChannel, MarkVoiceDirty
<1>4. CASE FlushDirty
  <2>1. Loop \in Goroutines /\ goroutine[Loop].pc # "send"
    BY <1>4 DEF Goroutines, FlushDirty, Idle
  <2>2. goroutine'[Loop].pc # "send" /\ \A h \in Goroutines \ {Loop} : goroutine'[h] = goroutine[h]
    BY <1>4, <2>1 DEF FlushDirty, Become, Reading, PushTypes
  <2> QED
    BY <1>1, <1>4, <2>1, <2>2, QuietStep DEF FlushDirty
<1>5. ~Restart
  BY DEF Restart, PushTypes
<1>6. ~SetActiveCrew /\ ~CrewStateLoaded
  BY <1>1 DEF SetActiveCrew, CrewStateLoaded, Numbered
<1>7. CASE UNCHANGED pushVars
  BY <1>1, <1>7 DEF pushVars, Numbered, Drawn, Arrives, Pending, Sending, Waiting
<1> QED
  BY <1>1, <1>2, <1>3, <1>4, <1>5, <1>6, <1>7, NumberPushStep, SendStep, HandleVoiceUpdateStep
  DEF PushNext, Push

-----------------------------------------------------------------------------
(* The theorems                                                            *)

(* Whatever order concurrent pushes are sent in, the client's filter          *)
(* (nakama/client.rs, voice_update_is_stale) leaves it with the push of the   *)
(* highest number, unless one arrives a window of numbers late or the server  *)
(* restarts.                                                               *)
THEOREM NewestIsShown == PushSpec /\ []InWindow => []NewestSeqShown
<1>1. PushInv => NewestSeqShown
  <2> SUFFICES ASSUME PushInv, Settled, restarts = 0 PROVE shown = newest
    BY DEF NewestSeqShown
  <2>1. wire = <<>> /\ \A g \in Goroutines : goroutine[g].pc # "send"
    BY DEF Settled, Calm, Idle
  <2>2. ~Pending(seq)
    BY <2>1 DEF Pending, Sending
  <2> QED
    BY <2>2 DEF PushInv, Numbered, Arrives
<1> QED
  BY InitPush, StepPush, <1>1, PTL DEF PushSpec

-----------------------------------------------------------------------------
(* The call of a client                                                    *)

USE VoiceCallAssumption

LEMMA LimitsAreTimes ==
  /\ FirstDelay \in Nat \ {0} /\ SecondDelay \in Nat \ {0} /\ MaxGap \in Nat \ {0}
  /\ GiveUpAfter \in Nat \ {0} /\ TokenLife \in Nat \ {0}
  /\ ConnectLimit \in Nat \ {0} /\ SessionLimit \in Nat \ {0}
  /\ Longest \in Nat /\ 0 \in 0..Longest
  BY DEF Longest

(* Every delay is a positive time up to the longest gap.                    *)
LEMMA DelayIsShort ==
  ASSUME NEW n \in Nat
  PROVE  Delay(n) \in 1..MaxGap
  BY LimitsAreTimes DEF Delay

LEMMA CrewOfChannel ==
  ASSUME NEW ch \in Channels
  PROVE  CrewOf(ch) \in Crews
  BY DEF Channels, CrewOf

(* No call, no attempt and no seat when the client starts.                  *)
LEMMA InitInv == Init => IInv
  BY LimitsAreTimes
  DEF Init, IInv, TypeOK, LeftStaysLeft, OneChannel, ForLast, InCall, Seated, RetryIsDown, Timing

(* What is known of an attempt that waits and of a join that runs.           *)
LEMMA RetryFields ==
  ASSUME TypeOK, retry # None
  PROVE  /\ retry \in Attempts
         /\ retry.chan \in Channels /\ retry.wait \in 0..MaxGap /\ retry.attempt \in 0..2
         /\ since \in Nat
  BY LimitsAreTimes DEF TypeOK, Attempts

LEMMA PendingFields ==
  ASSUME TypeOK, pending # None
  PROVE  /\ pending \in Joins
         /\ pending.crew \in Crews /\ pending.chan \in Channels
         /\ pending.step \in {"connect", "join"} /\ pending.reconnect \in BOOLEAN
         /\ pending.left \in 0..(ConnectLimit + SessionLimit) /\ pending.left \in Nat
  BY LimitsAreTimes DEF TypeOK, Joins

(* The next attempt of a drop: the same channel, after a wait.               *)
LEMMA NextRetryFields ==
  ASSUME TypeOK, retry # None
  PROVE  /\ NextRetry \in Attempts
         /\ NextRetry # None
         /\ NextRetry.chan = retry.chan
         /\ NextRetry.wait \in 1..MaxGap
<1>1. Delay(retry.attempt + 1) \in 1..MaxGap
  BY RetryFields, DelayIsShort
<1>2. (IF retry.attempt < 2 THEN retry.attempt + 1 ELSE 2) \in 0..2
  BY RetryFields
<1>3. NextRetry \in Attempts /\ NextRetry.chan = retry.chan /\ NextRetry.wait \in 1..MaxGap
  BY <1>1, <1>2, RetryFields, LimitsAreTimes DEF NextRetry, Attempts
<1>4. NextRetry # None
  BY <1>3, RetryFields DEF None
<1> QED
  BY <1>3, <1>4

(* A join that starts is a join of the given call.                          *)
LEMMA StartedJoin ==
  ASSUME NEW crew \in Crews, NEW ch \in Channels, NEW reconnect \in BOOLEAN,
         StartMedia(crew, ch, reconnect)
  PROVE  /\ pending' \in Joins /\ pending' # None /\ pending'.chan = ch
         /\ pending'.left = ConnectLimit /\ pending'.step = "connect"
         /\ media' = None
<1>1. ConnectLimit \in 0..(ConnectLimit + SessionLimit)
  BY LimitsAreTimes
<1>2. pending' \in Joins /\ pending'.chan = ch
         /\ pending'.left = ConnectLimit /\ pending'.step = "connect" /\ media' = None
  BY <1>1 DEF StartMedia, Joins
<1>3. None.chan = NoChannel
  BY DEF None
<1> QED
  BY <1>2, <1>3

(* The answer of a voice_join is typed, whether it came or not.             *)
LEMMA GrantTyped ==
  ASSUME NEW crew \in Crews, NEW ch \in Channels, Granted(crew, ch)
  PROVE  /\ grant' \in Grants /\ grant'.chan = ch /\ last' = ch /\ seat' = ch
         /\ unclaimed' = FALSE
  BY LimitsAreTimes DEF Granted, Grants

(* An attempt of the scheduler, with the kept token or with a new one.       *)
LEMMA AttemptTyped == TypeOK /\ Attempt => TypeOK'
<1> SUFFICES ASSUME TypeOK, Attempt PROVE TypeOK'
  OBVIOUS
<1>1. retry # None /\ retry.chan \in Channels /\ retry' \in Attempts
  BY RetryFields, NextRetryFields DEF Attempt, Due
<1>2. since' \in 0..Longest
  BY LimitsAreTimes DEF Attempt, TypeOK
<1>3. CASE Fresh /\ StartMedia(grant.crew, grant.chan, TRUE)
             /\ UNCHANGED <<last, grant, seat, unclaimed>>
  <2>1. grant.crew \in Crews /\ grant.chan \in Channels
    BY <1>3 DEF Fresh, TypeOK, Grants
  <2>2. pending' \in Joins /\ media' = None
    BY <1>3, <2>1, StartedJoin
  <2> QED
    BY <1>1, <1>2, <1>3, <2>2 DEF Attempt, account, TypeOK
<1>4. CASE UNCHANGED <<last, grant, pending, media, seat, unclaimed>>
  BY <1>1, <1>2, <1>4 DEF Attempt, account, TypeOK
<1>5. CASE VoiceJoinFails(retry.chan) /\ UNCHANGED <<last, grant, pending, media>>
  BY <1>1, <1>2, <1>5 DEF Attempt, VoiceJoinFails, account, TypeOK
<1>6. CASE active # NoCrew /\ Granted(active, retry.chan) /\ StartMedia(active, retry.chan, TRUE)
  <2>1. active \in Crews
    BY <1>6 DEF TypeOK
  <2>2. /\ grant' \in Grants /\ last' \in Channels /\ seat' \in Channels
        /\ unclaimed' \in BOOLEAN /\ pending' \in Joins /\ media' = None
    BY <1>1, <1>6, <2>1, GrantTyped, StartedJoin
  <2> QED
    BY <1>1, <1>2, <2>2 DEF Attempt, account, TypeOK
<1> QED
  BY <1>3, <1>4, <1>5, <1>6 DEF Attempt

(* What a reconnect of the socket does to the call, with or without media.    *)
LEMMA ResyncTyped ==
  ASSUME TypeOK, NEW m, Resync(m)
  PROVE  /\ last' \in Channels \cup {NoChannel} /\ seat' \in Channels \cup {NoChannel}
         /\ grant' \in Grants \cup {None} /\ unclaimed' \in BOOLEAN
<1>1. CASE UNCHANGED <<last, grant, seat>> /\ unclaimed' = (unclaimed \/ pending # None)
  BY <1>1 DEF TypeOK
<1>2. CASE UNCHANGED <<last, grant, seat, unclaimed>>
  BY <1>2 DEF TypeOK
<1>3. CASE VoiceJoinFails(last) /\ UNCHANGED <<last, grant>>
  BY <1>3 DEF VoiceJoinFails, TypeOK
<1>4. CASE active # NoCrew /\ last # NoChannel /\ Granted(active, last)
  <2>1. active \in Crews /\ last \in Channels
    BY <1>4 DEF TypeOK
  <2> QED
    BY <1>4, <2>1, GrantTyped
<1> QED
  BY <1>1, <1>2, <1>3, <1>4 DEF Resync

(* The types are kept by every action.                                      *)
LEMMA TypeStep == TypeOK /\ [Next]_vars => TypeOK'
<1> SUFFICES ASSUME TypeOK, [Next]_vars PROVE TypeOK'
  OBVIOUS
<1>1. ASSUME NEW ch \in Channels, JoinVoice(ch) PROVE TypeOK'
  <2>1. CASE VoiceJoinFails(ch) /\ UNCHANGED <<last, grant, retry, pending, media, wish>>
    BY <1>1, <2>1 DEF JoinVoice, VoiceJoinFails, account, TypeOK
  <2>2. CASE Granted(active, ch) /\ StartMedia(active, ch, FALSE)
                /\ retry' = RetryAfterJoin(FALSE) /\ wish' = "in"
    <3>1. active \in Crews
      BY <1>1, CrewOfChannel DEF JoinVoice
    <3>2. grant' \in Grants /\ last' \in Channels /\ seat' \in Channels /\ unclaimed' \in BOOLEAN
          /\ pending' \in Joins /\ media' = None
      BY <2>2, <3>1, GrantTyped, StartedJoin
    <3> QED
      BY <1>1, <2>2, <3>2 DEF JoinVoice, RetryAfterJoin, account, TypeOK
  <2> QED
    BY <1>1, <2>1, <2>2 DEF JoinVoice
<1>2. CASE LeaveVoice
  BY <1>2 DEF LeaveVoice, StopMedia, Forget, LeaveSeat, account, TypeOK
<1>3. CASE Logout
  BY <1>3 DEF Logout, StopMedia, Forget, LeaveSeat, TypeOK
<1>4. CASE Login
  BY <1>4 DEF Login, timers, TypeOK
<1>5. CASE LeaveCrew
  BY <1>5 DEF LeaveCrew, StopMedia, LeaveSeat, Switched, timers, TypeOK
<1>6. ASSUME NEW k \in Crews, SelectCrew(k) PROVE TypeOK'
  BY <1>6 DEF SelectCrew, StopMedia, Switched, timers, TypeOK
<1>7. CASE SfuConnected
  <2>1. SessionLimit \in 0..(ConnectLimit + SessionLimit)
    BY LimitsAreTimes
  <2>2. pending \in Joins /\ pending' = [pending EXCEPT !.step = "join", !.left = SessionLimit]
    BY <1>7, PendingFields DEF SfuConnected
  <2>3. pending' \in Joins
    BY <2>1, <2>2 DEF Joins
  <2> QED
    BY <1>7, <2>3 DEF SfuConnected, account, timers, TypeOK
<1>8. CASE SfuReady
  BY <1>8, PendingFields DEF SfuReady, account, TypeOK, Calls
<1>9. CASE SfuFails \/ MediaDies
  BY <1>9 DEF SfuFails, MediaDies, account, timers, TypeOK
<1>10. CASE Schedule
  <2>1. retry' \in Attempts
    BY <1>10, DelayIsShort, LimitsAreTimes DEF Schedule, Down, Attempts, TypeOK
  <2> QED
    BY <1>10, <2>1, LimitsAreTimes DEF Schedule, account, TypeOK
<1>11. CASE GiveUp
  BY <1>11 DEF GiveUp, Forget, account, TypeOK
<1>12. CASE Attempt
  BY <1>12, AttemptTyped
<1>13. CASE Clock
  <2>1. retry' \in Attempts \cup {None}
    BY <1>13, RetryFields, LimitsAreTimes DEF Clock, Later, Attempts
  <2>2. grant' \in Grants \cup {None}
    BY <1>13, LimitsAreTimes DEF Clock, Older, TypeOK, Grants
  <2>3. pending' \in Joins \cup {None}
    BY <1>13, PendingFields, LimitsAreTimes DEF Clock, Later, Joins
  <2>4. since' \in 0..Longest
    BY <1>13, LimitsAreTimes DEF Clock, Older, TypeOK
  <2> QED
    BY <1>13, <2>1, <2>2, <2>3, <2>4 DEF Clock, account, TypeOK
<1>14. CASE SocketDrops \/ SeatIsLost
  BY <1>14 DEF SocketDrops, SeatIsLost, account, timers, TypeOK
<1>15. CASE SocketReturns \/ Wake
  BY <1>15, ResyncTyped DEF SocketReturns, Wake, TypeOK
<1>16. CASE UNCHANGED vars
  BY <1>16 DEF vars, TypeOK
<1> QED
  BY <1>1, <1>2, <1>3, <1>4, <1>5, <1>6, <1>7, <1>8, <1>9, <1>10, <1>11, <1>12, <1>13, <1>14,
     <1>15, <1>16 DEF Next, UserJoins, VoiceTick

(***************************************************************************)
(* The inductive invariant                                                 *)
(***************************************************************************)
OneCall == LeftStaysLeft /\ OneChannel /\ RetryIsDown

(* Whatever is in flight belongs to the channel the client remembers, and     *)
(* nothing is in flight after the user left: a join's outcome is for the     *)
(* join that runs, and every command that forgets the channel ends it.        *)
LEMMA CallStep == IInv /\ [Next]_vars => OneCall'
<1> SUFFICES ASSUME IInv, [Next]_vars PROVE OneCall'
  OBVIOUS
<1>0. TypeOK /\ OneCall
  BY DEF IInv, OneCall
<1> USE DEF OneCall, LeftStaysLeft, OneChannel, RetryIsDown, ForLast
<1>1. ASSUME NEW ch \in Channels, JoinVoice(ch) PROVE OneCall'
  <2>1. CASE VoiceJoinFails(ch) /\ UNCHANGED <<last, grant, retry, pending, media, wish>>
    BY <1>0, <2>1
  <2>2. CASE Granted(active, ch) /\ StartMedia(active, ch, FALSE)
                /\ retry' = RetryAfterJoin(FALSE) /\ wish' = "in"
    BY <2>2 DEF Granted, StartMedia, RetryAfterJoin
  <2> QED
    BY <1>1, <2>1, <2>2 DEF JoinVoice
<1>2. CASE LeaveVoice \/ Logout
  BY <1>2 DEF LeaveVoice, Logout, StopMedia, Forget
<1>3. CASE Login
  BY <1>0, <1>3 DEF Login, timers
<1>4. CASE LeaveCrew
  BY <1>0, <1>4 DEF LeaveCrew, StopMedia, Switched, timers
<1>5. ASSUME NEW k \in Crews, SelectCrew(k) PROVE OneCall'
  BY <1>0, <1>5 DEF SelectCrew, StopMedia, Switched, timers
<1>6. CASE SfuConnected
  <2>1. pending # None /\ pending \in Joins
    BY <1>0, <1>6, PendingFields DEF SfuConnected
  <2>2. pending'.chan = pending.chan
    BY <1>6, <2>1 DEF SfuConnected, Joins
  <2> QED
    BY <1>0, <1>6, <2>1, <2>2 DEF SfuConnected, timers
<1>7. CASE SfuReady
  BY <1>0, <1>7 DEF SfuReady
<1>8. CASE SfuFails \/ MediaDies
  BY <1>0, <1>8 DEF SfuFails, MediaDies, timers
<1>9. CASE Schedule
  BY <1>0, <1>9 DEF Schedule, Down
<1>10. CASE GiveUp
  BY <1>0, <1>10, RetryFields DEF GiveUp, Due, Forget
<1>11. CASE Attempt
  <2>1. /\ retry # None /\ retry.chan = last /\ retry' # None /\ retry'.chan = last
        /\ media = None /\ wish # "left" /\ wish' = wish
    BY <1>0, <1>11, RetryFields, NextRetryFields DEF Attempt, Due
  <2>2. CASE Fresh /\ StartMedia(grant.crew, grant.chan, TRUE)
               /\ UNCHANGED <<last, grant, seat, unclaimed>>
    BY <1>0, <2>1, <2>2 DEF Fresh, StartMedia
  <2>3. CASE UNCHANGED <<last, grant, pending, media>>
    BY <1>0, <2>1, <2>3
  <2>4. CASE Granted(active, retry.chan) /\ StartMedia(active, retry.chan, TRUE)
    BY <2>1, <2>4 DEF Granted, StartMedia
  <2> QED
    BY <1>11, <2>2, <2>3, <2>4 DEF Attempt, VoiceJoinFails
<1>12. CASE Clock
  <2>1. /\ retry # None => retry'.chan = retry.chan
        /\ retry = None => retry' = None
    BY <1>0, <1>12, RetryFields DEF Clock, Attempts, Later
  <2>2. /\ grant # None => grant'.chan = grant.chan
        /\ grant = None => grant' = None
    BY <1>0, <1>12 DEF Clock, TypeOK, Grants
  <2>3. /\ pending # None => pending'.chan = pending.chan
        /\ pending = None => pending' = None
    BY <1>0, <1>12, PendingFields DEF Clock, Joins
  <2> QED
    BY <1>0, <1>12, <2>1, <2>2, <2>3 DEF Clock
<1>13. CASE SocketDrops \/ SeatIsLost
  BY <1>0, <1>13 DEF SocketDrops, SeatIsLost, timers
<1>14. CASE SocketReturns \/ Wake
  <2>1. PICK m : Resync(m) \/ UNCHANGED <<last, grant>>
    BY <1>14 DEF SocketReturns, Wake
  <2>2. last' = last /\ (grant' = grant \/ (grant' # None => grant'.chan = last))
    BY <2>1 DEF Resync, VoiceJoinFails, Granted
  <2> QED
    BY <1>0, <1>14, <2>2 DEF SocketReturns, Wake
<1>15. CASE UNCHANGED vars
  BY <1>0, <1>15 DEF vars
<1> QED
  BY <1>1, <1>2, <1>3, <1>4, <1>5, <1>6, <1>7, <1>8, <1>9, <1>10, <1>11, <1>12, <1>13, <1>14,
     <1>15 DEF Next, UserJoins, VoiceTick

(* A reconnect of the socket claims the seat of a call, or notes that it did   *)
(* not.                                                                    *)
LEMMA ResyncClaims ==
  ASSUME TypeOK, NEW m, Resync(m), active \in Crews, last # NoChannel,
         m = None \/ Reasserts(m)
  PROVE  last' = last /\ (unclaimed' \/ seat' = last)
<1>1. active # NoCrew
  OBVIOUS
<1>2. ~Reasserts(m) => pending # None
  BY DEF Reasserts
<1> QED
  BY <1>1, <1>2 DEF Resync, VoiceJoinFails, Granted, TypeOK

(* The user of a wished call is signed in and holds the remembered channel's  *)
(* seat, unless a voice_join failed or was left out.                        *)
LEMMA SeatStep == IInv /\ [Next]_vars => InCall' /\ Seated'
<1> SUFFICES ASSUME IInv, [Next]_vars PROVE InCall' /\ Seated'
  OBVIOUS
<1>0. TypeOK /\ InCall /\ Seated /\ OneChannel
  BY DEF IInv
<1> USE DEF InCall, Seated
<1>1. ASSUME NEW ch \in Channels, JoinVoice(ch) PROVE InCall' /\ Seated'
  <2>1. CASE VoiceJoinFails(ch) /\ UNCHANGED <<last, grant, retry, pending, media, wish>>
    BY <1>0, <1>1, <2>1 DEF JoinVoice, VoiceJoinFails, account
  <2>2. CASE Granted(active, ch) /\ wish' = "in"
    BY <1>1, <2>2, CrewOfChannel DEF JoinVoice, Granted, account
  <2> QED
    BY <1>1, <2>1, <2>2 DEF JoinVoice
<1>2. CASE LeaveVoice \/ Logout \/ GiveUp
  BY <1>2 DEF LeaveVoice, Logout, GiveUp
<1>3. CASE Login
  BY <1>0, <1>3 DEF Login
<1>4. CASE LeaveCrew
  BY <1>4 DEF LeaveCrew, Switched
<1>5. ASSUME NEW k \in Crews, SelectCrew(k) PROVE InCall' /\ Seated'
  BY <1>5 DEF SelectCrew, Switched
<1>6. CASE SfuConnected \/ SfuFails \/ MediaDies \/ Schedule \/ Clock
  BY <1>0, <1>6 DEF SfuConnected, SfuFails, MediaDies, Schedule, Clock, account
<1>7. CASE SfuReady
  BY <1>0, <1>7 DEF SfuReady, account
<1>8. CASE Attempt
  <2>1. retry.chan \in Channels /\ UNCHANGED account /\ wish' = wish
    BY <1>0, <1>8, RetryFields DEF Attempt, Due
  <2>2. CASE UNCHANGED <<last, seat, unclaimed>>
    BY <1>0, <2>1, <2>2 DEF account
  <2>3. CASE VoiceJoinFails(retry.chan) /\ last' = last
    BY <1>0, <2>1, <2>3 DEF VoiceJoinFails, account
  <2>4. CASE Granted(active, retry.chan)
    BY <1>0, <2>1, <2>4 DEF Granted, account
  <2> QED
    BY <1>8, <2>2, <2>3, <2>4 DEF Attempt
<1>9. CASE SocketDrops \/ SeatIsLost
  BY <1>0, <1>9 DEF SocketDrops, SeatIsLost, account
<1>10. CASE SocketReturns
  <2>1. wish = "in" => last' = last /\ (unclaimed' \/ seat' = last)
    BY <1>0, <1>10, ResyncClaims DEF SocketReturns, Reasserts
  <2> QED
    BY <1>0, <1>10, <2>1 DEF SocketReturns
<1>11. CASE Wake
  <2>1. CASE socket' = FALSE /\ last' = last
    BY <1>0, <1>11, <2>1 DEF Wake
  <2>2. CASE Resync(None)
    <3>1. wish = "in" => last' = last /\ (unclaimed' \/ seat' = last)
      BY <1>0, <2>2, ResyncClaims
    <3> QED
      BY <1>0, <1>11, <3>1 DEF Wake
  <2> QED
    BY <1>11, <2>1, <2>2 DEF Wake
<1>12. CASE UNCHANGED vars
  BY <1>0, <1>12 DEF vars
<1> QED
  BY <1>1, <1>2, <1>3, <1>4, <1>5, <1>6, <1>7, <1>8, <1>9, <1>10, <1>11, <1>12
  DEF Next, UserJoins, VoiceTick

(* A tick of the clock: what passed is what is no longer left.               *)
LEMMA ClockTimes == TypeOK /\ Timing /\ Clock /\ retry' # None => Timing'
<1> SUFFICES ASSUME TypeOK, Timing, Clock, retry' # None PROVE Timing'
  OBVIOUS
<1>1. /\ retry # None /\ retry \in Attempts /\ retry.wait \in Nat /\ since \in Nat
      /\ retry' = [retry EXCEPT !.wait = Later(@)]
  BY RetryFields, LimitsAreTimes DEF Clock
<1>2. retry'.wait = Later(retry.wait)
  BY <1>1 DEF Attempts
<1>3. pending # None =>
        /\ pending \in Joins /\ pending.left \in Nat /\ pending.left > 0
        /\ pending' = [pending EXCEPT !.left = Later(@)]
  BY PendingFields, LimitsAreTimes DEF Clock, Urgent
<1>4. pending # None => pending'.left = Later(pending.left) /\ pending'.step = pending.step
  BY <1>3 DEF Joins
<1>5. pending = None => pending' = None /\ retry.wait > 0
  BY <1>1 DEF Clock, Urgent, Due
<1>6. since < Longest /\ since' = since + 1
  BY <1>1, LimitsAreTimes DEF Timing, Clock, Older
<1>7. StepsLeft \in Nat \/ pending = None
  BY <1>3, LimitsAreTimes DEF StepsLeft
<1>8. pending # None => StepsLeft > 0 /\ StepsLeft' = StepsLeft - 1
  BY <1>3, <1>4, LimitsAreTimes DEF StepsLeft, Later
<1>9. since' < Longest
  BY <1>1, <1>3, <1>5, <1>6, <1>7, <1>8, LimitsAreTimes DEF Timing, Longest
<1>10. retry'.wait > 0 => since' + retry'.wait < GiveUpAfter + MaxGap
  BY <1>1, <1>2, <1>6 DEF Timing, Later
<1>11. pending' # None => since' + StepsLeft' < GiveUpAfter + ConnectLimit + SessionLimit
  BY <1>1, <1>5, <1>6, <1>7, <1>8, LimitsAreTimes DEF Timing
<1> QED
  BY <1>9, <1>10, <1>11 DEF Timing

(* Time passes only while an attempt waits or a network step runs, and then    *)
(* it uses up what was left of them.                                       *)
LEMMA TimingStep == IInv /\ [Next]_vars => Timing'
<1> SUFFICES ASSUME IInv, [Next]_vars, retry' # None PROVE Timing'
  BY DEF Timing
<1>0. TypeOK /\ Timing /\ since \in Nat
  BY LimitsAreTimes DEF IInv, TypeOK
<1>1. CASE UNCHANGED <<retry, since>> /\ (pending' = None \/ pending' = pending)
  BY <1>0, <1>1 DEF Timing, StepsLeft
<1>2. ASSUME NEW ch \in Channels, JoinVoice(ch) PROVE Timing'
  BY <1>1, <1>2 DEF JoinVoice, RetryAfterJoin
<1>3. CASE LeaveVoice \/ Logout \/ GiveUp \/ SfuReady
  BY <1>3 DEF LeaveVoice, Logout, GiveUp, SfuReady, Forget
<1>4. CASE Login \/ LeaveCrew \/ SfuFails \/ MediaDies \/ SocketDrops \/ SeatIsLost
  BY <1>1, <1>4
  DEF Login, LeaveCrew, SfuFails, MediaDies, SocketDrops, SeatIsLost, StopMedia, timers
<1>5. ASSUME NEW k \in Crews, SelectCrew(k) PROVE Timing'
  BY <1>1, <1>5 DEF SelectCrew, StopMedia, timers
<1>6. CASE SfuConnected
  <2>1. pending # None /\ pending \in Joins /\ pending.step = "connect" /\ pending.left \in Nat
    BY <1>0, <1>6, PendingFields DEF SfuConnected
  <2>2. pending'.step = "join" /\ pending'.left = SessionLimit
    BY <1>6, <2>1 DEF SfuConnected, Joins
  <2>3. since + (pending.left + SessionLimit) < GiveUpAfter + ConnectLimit + SessionLimit
    BY <1>0, <1>6, <2>1 DEF Timing, StepsLeft, SfuConnected, timers
  <2>4. since + SessionLimit < GiveUpAfter + ConnectLimit + SessionLimit
    BY <1>0, <2>1, <2>3, LimitsAreTimes
  <2> QED
    BY <1>0, <1>6, <2>2, <2>4, LimitsAreTimes DEF Timing, StepsLeft, SfuConnected, timers
<1>7. CASE Schedule
  <2>1. Delay(0) \in 1..MaxGap
    BY DelayIsShort
  <2> QED
    BY <1>7, <2>1, LimitsAreTimes DEF Schedule, Timing, StepsLeft, Longest
<1>8. CASE Attempt
  <2>1. /\ retry # None /\ since < GiveUpAfter /\ since' = since
        /\ retry'.wait \in 1..MaxGap
    BY <1>0, <1>8, NextRetryFields, LimitsAreTimes DEF Attempt, Due, LimitReached, StartsDrop
  <2>2. pending' = None \/ (pending'.left = ConnectLimit /\ pending'.step = "connect")
    BY <1>8 DEF Attempt, Due, StartMedia
  <2> QED
    BY <1>0, <2>1, <2>2, LimitsAreTimes DEF Timing, StepsLeft, Longest
<1>9. CASE Clock
  BY <1>0, <1>9, ClockTimes
<1>10. CASE SocketReturns \/ Wake
  BY <1>1, <1>10 DEF SocketReturns, Wake
<1>11. CASE UNCHANGED vars
  BY <1>1, <1>11 DEF vars
<1> QED
  BY <1>2, <1>3, <1>4, <1>5, <1>6, <1>7, <1>8, <1>9, <1>10, <1>11 DEF Next, UserJoins, VoiceTick

(* The invariant is inductive.                                             *)
LEMMA InvStep == IInv /\ [Next]_vars => IInv'
  BY TypeStep, CallStep, SeatStep, TimingStep DEF IInv, OneCall

LEMMA SpecInv == Spec => []IInv
  BY InitInv, InvStep, PTL DEF Spec

-----------------------------------------------------------------------------
(* The theorems                                                            *)

(* The client's voice state is typed: the clock and every wait stay bounded.  *)
THEOREM VoiceTypes == Spec => []TypeOK
<1>1. IInv => TypeOK
  BY DEF IInv
<1> QED
  BY <1>1, SpecInv, PTL

(* A user who left, logged out or was given up on stays out of the call        *)
(* (handle_leave_voice, handle_logout, voice_tick), whatever was in flight.   *)
THEOREM LeavingIsFinal == Spec => []LeftStaysLeft
<1>1. IInv => LeftStaysLeft
  BY DEF IInv
<1> QED
  BY <1>1, SpecInv, PTL

(* Media, join, attempt and kept token are for one channel                   *)
(* (start_voice_media, store_voice_join_grant, reconnect_voice).             *)
THEOREM CallHasOneChannel == Spec => []OneChannel
<1>1. IInv => OneChannel
  BY DEF IInv
<1> QED
  BY <1>1, SpecInv, PTL

(* The attempts of a drop end within the limit and the time of the last one    *)
(* (voice_tick).                                                           *)
THEOREM ReconnectIsBounded == Spec => []AttemptsEnd
<1>1. IInv => AttemptsEnd
  BY DEF IInv, RetryIsDown, Timing, AttemptsEnd
<1> QED
  BY <1>1, SpecInv, PTL

(* A user in their call is seated there (reassert_voice_after_reconnect,     *)
(* reconnect_voice).                                                       *)
THEOREM TalkersAreSeated == Spec => []TalkingIsSeated
<1>1. IInv => TalkingIsSeated
  BY DEF IInv, Seated, OneChannel, ForLast, TalkingIsSeated
<1> QED
  BY <1>1, SpecInv, PTL
=============================================================================
