------------------------------ MODULE VoiceCall ------------------------------
(***************************************************************************)
(* The client's voice call: the commands that join and leave it, the SFU     *)
(* join whose network steps run off the command loop (sfu_voice_join.rs),   *)
(* the reconnect scheduler of the 20 ms voice tick (client/voice.rs) and    *)
(* the re-assert after the realtime socket came back (connection.rs).       *)
(*                                                                         *)
(* A handler of the loop is one action: the loop waits for its RPCs.  The    *)
(* clock counts in units shorter than every delay; all timers count down    *)
(* or saturate, so the clock itself is not bounded.  The voice map of the   *)
(* backend is this user's seat in it.                                       *)
(***************************************************************************)
EXTENDS Integers

CONSTANTS
  Crews, ChannelsPerCrew,
  FirstDelay, SecondDelay, MaxGap,  \* sfu_reconnect_delay
  GiveUpAfter,                      \* SFU_RECONNECT_GIVE_UP_AFTER
  TokenLife,                        \* SFU_VOICE_TOKEN_LIFETIME without the margin
  ConnectLimit, SessionLimit        \* the time limits of the two network steps

Channels == Crews \X (1..ChannelsPerCrew)
CrewOf(ch) == ch[1]
NoCrew == "no crew"
NoChannel == <<>>
None == [chan |-> NoChannel]

ASSUME VoiceCallAssumption ==
  /\ NoCrew \notin Crews /\ NoChannel \notin Channels
  /\ ChannelsPerCrew \in Nat \ {0}
  /\ {FirstDelay, SecondDelay, MaxGap, GiveUpAfter, TokenLife, ConnectLimit, SessionLimit}
       \subseteq Nat \ {0}
  /\ FirstDelay <= MaxGap /\ SecondDelay <= MaxGap

VARIABLES
  signed,    \* a user is signed in
  active,    \* active_crew_id
  socket,    \* the realtime socket is up
  last,      \* last_voice_channel
  grant,     \* voice_join_grant, with its age
  retry,     \* sfu_voice_reconnect: the next attempt
  since,     \* the time since sfu_voice_dropped_at
  pending,   \* sfu_voice_joins: the network step that runs, with its time left
  media,     \* the SFU session that is up
  seat,      \* backend: the channel the user sits in
  wish,      \* history: what the user asked for last: "in", "left" or "switched" crew
  unclaimed  \* history: the last voice_join failed, or a reconnect left it out for a join that ran

vars == <<signed, active, socket, last, grant, retry, since, pending, media, seat, wish, unclaimed>>
account == <<signed, active, socket>>
timers == <<grant, retry, since>>

Longest == GiveUpAfter + MaxGap + ConnectLimit + SessionLimit  \* bound of the clock

Grants == [crew : Crews, chan : Channels, age : 0..TokenLife]
Attempts == [chan : Channels, wait : 0..MaxGap, attempt : 0..2]
Joins == [crew : Crews, chan : Channels, step : {"connect", "join"},
          left : 0..(ConnectLimit + SessionLimit), reconnect : BOOLEAN]
Calls == [crew : Crews, chan : Channels]

TypeOK ==
  /\ signed \in BOOLEAN /\ socket \in BOOLEAN /\ active \in Crews \cup {NoCrew}
  /\ last \in Channels \cup {NoChannel} /\ seat \in Channels \cup {NoChannel}
  /\ grant \in Grants \cup {None} /\ retry \in Attempts \cup {None}
  /\ since \in 0..Longest
  /\ pending \in Joins \cup {None} /\ media \in Calls \cup {None}
  /\ wish \in {"in", "left", "switched"} /\ unclaimed \in BOOLEAN

Init ==
  /\ signed = FALSE /\ active = NoCrew /\ socket = FALSE
  /\ last = NoChannel /\ grant = None /\ retry = None /\ since = 0
  /\ pending = None /\ media = None
  /\ seat = NoChannel /\ wish = "left" /\ unclaimed = FALSE

-----------------------------------------------------------------------------
(* Starting the media                                                      *)

Delay(attempt) ==
  CASE attempt = 0 -> FirstDelay
    [] attempt = 1 -> SecondDelay
    [] OTHER -> MaxGap

(* start_voice_media: the old session and the running join end first.        *)
StartMedia(crew, ch, reconnect) ==
  /\ media' = None
  /\ pending' = [crew |-> crew, chan |-> ch, step |-> "connect",
                 left |-> ConnectLimit, reconnect |-> reconnect]

(* Mutant: leaving does not cancel the join that runs.                     *)
StopSession == media' = None /\ UNCHANGED pending

(* sfu_leave_if_connected and VoiceManager::leave_voice.                    *)
StopMedia == pending' = None /\ media' = None

(* The backend seats the user, whatever became of the answer.               *)
VoiceJoinFails(ch) ==
  /\ seat' \in {seat, ch}
  /\ unclaimed' = TRUE

(* store_voice_join_grant *)
Granted(crew, ch) ==
  /\ seat' = ch /\ unclaimed' = FALSE
  /\ last' = ch
  /\ grant' = [crew |-> crew, chan |-> ch, age |-> 0]

(* Mutant: an explicit join leaves the scheduled attempt in place.          *)
KeepRetry(reconnect) == retry

(* An explicit join replaces the scheduled attempt.                        *)
RetryAfterJoin(reconnect) == IF reconnect THEN retry ELSE None

-----------------------------------------------------------------------------
(* Commands                                                                *)

(* handle_join_voice *)
JoinVoice(ch) ==
  /\ signed /\ active = CrewOf(ch)
  /\ \/ VoiceJoinFails(ch) /\ UNCHANGED <<last, grant, retry, pending, media, wish>>
     \/ /\ Granted(active, ch)
        /\ retry' = RetryAfterJoin(FALSE)
        /\ StartMedia(active, ch, FALSE)
        /\ wish' = "in"
  /\ UNCHANGED <<account, since>>

Forget == last' = NoChannel /\ retry' = None /\ grant' = None
LeaveSeat == seat' \in {seat, NoChannel}

(* handle_leave_voice; the voice_leave RPC may fail.                        *)
LeaveVoice ==
  /\ signed
  /\ StopMedia /\ Forget
  /\ IF active = NoCrew THEN UNCHANGED seat ELSE LeaveSeat
  /\ wish' = "left"
  /\ UNCHANGED <<account, since, unclaimed>>

(* handle_logout *)
Logout ==
  /\ signed
  /\ StopMedia /\ Forget
  /\ IF active = NoCrew THEN UNCHANGED seat ELSE LeaveSeat
  /\ signed' = FALSE /\ active' = NoCrew /\ socket' = FALSE
  /\ wish' = "left"
  /\ UNCHANGED <<since, unclaimed>>

Login ==
  /\ ~signed
  /\ signed' = TRUE /\ socket' \in BOOLEAN
  /\ UNCHANGED <<active, last, timers, pending, media, seat, wish, unclaimed>>

Switched == IF wish = "in" THEN "switched" ELSE wish

(* handle_select_crew: the media stops, and nothing else of the call.        *)
SelectCrew(k) ==
  /\ signed
  /\ StopMedia
  /\ active' = k
  /\ wish' = Switched
  /\ UNCHANGED <<signed, socket, last, timers, seat, unclaimed>>

(* handle_leave_crew: the same, with voice_leave; a channel_leave that a dead *)
(* socket does not send keeps the active crew.                             *)
LeaveCrew ==
  /\ signed /\ active # NoCrew
  /\ StopMedia /\ LeaveSeat
  /\ active' = NoCrew \/ (~socket /\ active' = active)
  /\ wish' = Switched
  /\ UNCHANGED <<signed, socket, last, timers, unclaimed>>

-----------------------------------------------------------------------------
(* The SFU join                                                            *)

(* on_sfu_voice_join_step, connected: the next step runs off the loop.       *)
SfuConnected ==
  /\ pending # None /\ pending.step = "connect"
  /\ pending' = [pending EXCEPT !.step = "join", !.left = SessionLimit]
  /\ UNCHANGED <<account, last, timers, media, seat, wish, unclaimed>>

(* ... ready: join_voice_sfu and on_voice_media_started.                    *)
SfuReady ==
  /\ pending # None /\ pending.step = "join"
  /\ pending' = None
  /\ media' = [crew |-> pending.crew, chan |-> pending.chan]
  /\ retry' = None
  /\ UNCHANGED <<account, last, grant, since, seat, wish, unclaimed>>

(* A step fails or takes too long, no peer is made, or the capture does not   *)
(* start: voice stays disconnected and the scheduler goes on.               *)
SfuFails ==
  /\ pending # None
  /\ pending' = None
  /\ UNCHANGED <<account, last, timers, media, seat, wish, unclaimed>>

(* mark_disconnected: an SFU event, a stall or the liveness check.          *)
MediaDies ==
  /\ media # None
  /\ media' = None
  /\ UNCHANGED <<account, last, timers, pending, seat, wish, unclaimed>>

-----------------------------------------------------------------------------
(* The voice tick                                                          *)

Down == last # NoChannel /\ media = None
Due == retry # None /\ pending = None /\ retry.wait = 0

(* Mutant: every attempt counts as a new drop.                             *)
RestartsDrop == TRUE

(* sfu_voice_dropped_at is set with the first attempt only.                 *)
StartsDrop == retry = None

(* Mutant: the limit is compared with the time of the attempt.              *)
AttemptIsLate == retry.wait >= GiveUpAfter

(* SFU_RECONNECT_GIVE_UP_AFTER, counted from the drop.                      *)
LimitReached == since >= GiveUpAfter

Schedule ==
  /\ Down /\ pending = None /\ retry = None
  /\ since' = 0
  /\ retry' = [chan |-> last, wait |-> Delay(0), attempt |-> 0]
  /\ UNCHANGED <<account, last, grant, pending, media, seat, wish, unclaimed>>

GiveUp ==
  /\ Due /\ LimitReached
  /\ Forget
  /\ wish' = "left"
  /\ UNCHANGED <<account, since, pending, media, seat, unclaimed>>

Fresh == grant # None /\ grant.chan = retry.chan /\ grant.age < TokenLife
NextRetry == [chan |-> retry.chan, wait |-> Delay(retry.attempt + 1),
              attempt |-> IF retry.attempt < 2 THEN retry.attempt + 1 ELSE 2]

(* reconnect_voice: with the kept token, or with a new voice_join in the      *)
(* active crew.                                                            *)
Attempt ==
  /\ Due /\ ~LimitReached
  /\ retry' = NextRetry
  /\ since' = IF StartsDrop THEN 0 ELSE since
  /\ \/ /\ Fresh
        /\ StartMedia(grant.crew, grant.chan, TRUE)
        /\ UNCHANGED <<last, grant, seat, unclaimed>>
     \/ /\ ~Fresh /\ active = NoCrew
        /\ UNCHANGED <<last, grant, pending, media, seat, unclaimed>>
     \/ /\ ~Fresh /\ active # NoCrew
        /\ \/ VoiceJoinFails(retry.chan) /\ UNCHANGED <<last, grant, pending, media>>
           \/ Granted(active, retry.chan) /\ StartMedia(active, retry.chan, TRUE)
  /\ UNCHANGED <<account, wish>>

VoiceTick == Schedule \/ GiveUp \/ Attempt

(* Time does not pass what the next voice tick, or a time limit, has to do.   *)
Urgent == (Down /\ pending = None /\ retry = None) \/ Due \/ (pending # None /\ pending.left = 0)
Later(n) == IF n = 0 THEN 0 ELSE n - 1
Older(n, cap) == IF n = cap THEN cap ELSE n + 1

Clock ==
  /\ ~Urgent
  /\ since' = Older(since, Longest)
  /\ retry' = IF retry = None THEN None ELSE [retry EXCEPT !.wait = Later(@)]
  /\ grant' = IF grant = None THEN None ELSE [grant EXCEPT !.age = Older(@, TokenLife)]
  /\ pending' = IF pending = None THEN None ELSE [pending EXCEPT !.left = Later(@)]
  /\ UNCHANGED <<account, last, media, seat, wish, unclaimed>>

-----------------------------------------------------------------------------
(* The realtime socket                                                     *)

SocketDrops ==
  /\ socket
  /\ socket' = FALSE
  /\ UNCHANGED <<signed, active, last, timers, pending, media, seat, wish, unclaimed>>

(* The backend ends the lost session and takes the user out of voice.        *)
SeatIsLost ==
  /\ ~socket /\ seat # NoChannel
  /\ seat' = NoChannel
  /\ UNCHANGED <<account, last, timers, pending, media, wish, unclaimed>>

(* Mutant: only a call that is down is re-asserted.                        *)
OnlyDown(m) == m = None /\ pending = None

(* reassert_voice_after_reconnect: not while a join runs.                   *)
Reasserts(m) == m # None \/ pending = None

(* resync_after_reconnect, with m the media that is up.                     *)
Resync(m) ==
  \/ (active = NoCrew \/ last = NoChannel) /\ UNCHANGED <<last, grant, seat, unclaimed>>
  \/ /\ active # NoCrew /\ last # NoChannel
     /\ \/ /\ ~Reasserts(m) /\ UNCHANGED <<last, grant, seat>>
           /\ unclaimed' = (unclaimed \/ pending # None)
        \/ Reasserts(m) /\ VoiceJoinFails(last) /\ UNCHANGED <<last, grant>>
        \/ Reasserts(m) /\ Granted(active, last)

(* connection_tick: an attempt that succeeds.                              *)
SocketReturns ==
  /\ signed /\ ~socket
  /\ socket' = TRUE
  /\ Resync(media)
  /\ UNCHANGED <<signed, active, retry, since, pending, media, wish>>

(* connection_tick after a sleep: socket and media are given up, and the      *)
(* first attempt follows at once.                                          *)
Wake ==
  /\ signed
  /\ media' = None
  /\ \/ socket' = FALSE /\ UNCHANGED <<last, grant, seat, unclaimed>>
     \/ socket' = TRUE /\ Resync(None)
  /\ UNCHANGED <<signed, active, retry, since, pending, wish>>

-----------------------------------------------------------------------------
UserJoins == \E ch \in Channels : JoinVoice(ch)

Next ==
  \/ UserJoins \/ LeaveVoice \/ Logout \/ Login \/ LeaveCrew
  \/ \E k \in Crews : SelectCrew(k)
  \/ SfuConnected \/ SfuReady \/ SfuFails \/ MediaDies
  \/ VoiceTick \/ Clock
  \/ SocketDrops \/ SeatIsLost \/ SocketReturns \/ Wake

Spec == Init /\ [][Next]_vars

(* The loop runs its ticks, a network step ends by its time limit, and time   *)
(* passes.                                                                 *)
FairSpec ==
  /\ Spec
  /\ WF_vars(VoiceTick) /\ WF_vars(Clock)
  /\ WF_vars(SfuConnected \/ SfuReady \/ SfuFails)

-----------------------------------------------------------------------------
(* Properties                                                              *)

(* After leaving, logging out or giving up no join runs, no attempt waits and *)
(* no media is up until the user joins again, whatever was in flight.       *)
LeftStaysLeft ==
  wish = "left" => media = None /\ pending = None /\ retry = None /\ last = NoChannel

(* The media, the join that runs, the attempt that waits and the kept token   *)
(* are all for the channel the client remembers.                           *)
ForLast(part) == part = None \/ part.chan = last
OneChannel == ForLast(media) /\ ForLast(pending) /\ ForLast(retry) /\ ForLast(grant)

(* An attempt waits only while voice is down, and the attempts of one drop     *)
(* end in time: the last one starts before the limit and has its own limits. *)
AttemptsEnd == retry # None => media = None /\ since < Longest

(* A user who is in the call they asked for sits in that channel on the       *)
(* backend while the socket is up, unless the voice_join that should have    *)
(* put them there failed or was left out.                                  *)
TalkingIsSeated ==
  media # None /\ socket /\ wish = "in" /\ ~unclaimed => seat = media.chan

(* What is left of the attempts of a drop: the wait for the next one, and the *)
(* limits of the one that runs.                                            *)
StepsLeft == pending.left + (IF pending.step = "connect" THEN SessionLimit ELSE 0)
Timing ==
  retry # None =>
    /\ since < Longest
    /\ retry.wait > 0 => since + retry.wait < GiveUpAfter + MaxGap
    /\ pending # None => since + StepsLeft < GiveUpAfter + ConnectLimit + SessionLimit

(* The strengthening: a wished call has a crew and a channel, and its seat is  *)
(* the remembered channel's already before the media is up.                *)
InCall == wish = "in" => signed /\ active \in Crews /\ last # NoChannel
Seated == socket /\ wish = "in" /\ ~unclaimed => seat = last
RetryIsDown == retry # None => media = None

IInv ==
  /\ TypeOK /\ LeftStaysLeft /\ OneChannel
  /\ InCall /\ Seated /\ RetryIsDown /\ Timing

(* A call that dropped comes back or ends, unless the user keeps joining.     *)
DropEnds == (<>[][~UserJoins]_vars) => (Down ~> ~Down)

(* Refuted: "Voice now starts only when the user asks for it" (client/crew.rs). *)
MicOnlyOnRequest == media # None => wish = "in"
=============================================================================
