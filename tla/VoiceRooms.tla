----------------------------- MODULE VoiceRooms -----------------------------
(***************************************************************************)
(* The in-memory voice roster of the backend, voice_state.go: the rooms    *)
(* (members, SFU region), the user -> channel and channel -> crew reverse  *)
(* maps, the ledger's open voice sessions, the guest sessions of           *)
(* guest_sessions.go, and the presence the handlers write.                 *)
(*                                                                         *)
(* Every map has a mutex of its own and no handler holds one across two    *)
(* maps (but for the removal of an empty room), so a handler is a sequence *)
(* of critical sections that interleave with those of every other handler. *)
(* A process p \in Procs is one RPC call or one background goroutine; pc[p]*)
(* names the critical section it enters next.  voiceLeaveInternal is a     *)
(* subroutine: a caller sets ret[p] and goes to "unmap".                   *)
(*                                                                         *)
(* A room is present in voiceRooms exactly when it has a member: a room is *)
(* created in the critical section that adds its first member and deleted  *)
(* in the one that removes its last.  So rooms[ch] = {} is "no room".      *)
(***************************************************************************)
EXTENDS Naturals, FiniteSets

CONSTANTS
  Users,        \* every user id that calls the backend
  Guests,       \* those of them that are browser guests (device accounts)
  Channels,     \* voice channel ids
  Crews,        \* crew ids
  Regions,      \* the configured SFU regions
  Procs,        \* concurrent handlers
  MaxMembers,   \* MaxVoiceChannelMembers
  MaxGuests,    \* MaxGuestsPerVoiceChannel
  NoUser, NoChannel, NoRegion, NoCrew,
  Calls         \* the RPCs this instance exercises, a subset of CallNames

CallNames == {"join", "guestJoin", "leave", "crewExit", "crewEnter", "evict"}

ASSUME VoiceRoomsAssumption ==
  /\ Guests \subseteq Users
  /\ NoUser \notin Users \cup Channels
  /\ NoChannel \notin Channels \cup {NoUser}
  /\ NoRegion \notin Regions
  /\ NoCrew \notin Crews
  /\ MaxMembers \in Nat \ {0}
  /\ MaxGuests \in Nat \ {0}
  /\ Calls \subseteq CallNames

(* At any moment only so many RPCs and goroutines run.                      *)
ASSUME HandlersAssumption == IsFiniteSet(Procs)

VARIABLES
  rooms,          \* voiceRooms: channel -> its members
  region,         \* VoiceRoom.SFURegion
  userChannel,    \* voiceUserChannel
  channelCrew,    \* voiceChannelCrew: channel -> crew, or NoCrew
  session,        \* voiceSessions: channel -> participants, {} when none is open
  guestSession,   \* guestSessions: guest -> the channel of its session
  status,         \* UserPresence.Status
  activity,       \* the channel of UserPresence.Activity in_voice, or NoChannel
  crewMembers,    \* the Nakama group of a crew
  pc, user, chan, \* what a process runs next, for which user, into which channel
  crew,           \* a join: the crew the caller names; a crew exit: the crew it leaves
  from, ret,      \* voiceLeaveInternal: the channel it leaves, where it returns
  last,           \* lastMemberLeft
  todo,           \* VoiceEvictChannel: the members still to evict
  token,          \* history: region of the SFU token a user holds
  mixed,          \* history: occupied rooms whose crew entry another crew's joiner replaced
  raced           \* history: users two processes have worked on at once

maps   == <<rooms, region, userChannel, channelCrew, session, guestSession>>
stored == <<status, activity, crewMembers>>
locals == <<chan, crew, from, last, todo>>
vars == <<maps, stored, locals, pc, user, ret, token, mixed, raced>>

Labels == {"idle", "guestCap", "capacity", "rejoin", "upsertRoom", "upsertCrew",
           "seat", "setMap", "setCrew", "ledger", "joinPresence", "issue", "remember",
           "unmap", "orphan", "remove", "stats", "close", "leavePresence",
           "exitMap", "exitCrew", "evictNext", "forget", "failed", "finish"}

TypeOK ==
  /\ rooms \in [Channels -> SUBSET Users]
  /\ region \in [Channels -> Regions \cup {NoRegion}]
  /\ userChannel \in [Users -> Channels \cup {NoChannel}]
  /\ channelCrew \in [Channels -> Crews \cup {NoCrew}]
  /\ session \in [Channels -> SUBSET (Users \ Guests)]
  /\ guestSession \in [Users -> Channels \cup {NoChannel}]
  /\ status \in [Users -> {"offline", "online"}]
  /\ activity \in [Users -> Channels \cup {NoChannel}]
  /\ crewMembers \in [Crews -> SUBSET (Users \ Guests)]
  /\ pc \in [Procs -> Labels]
  /\ user \in [Procs -> Users \cup {NoUser}]
  /\ chan \in [Procs -> Channels \cup {NoChannel}]
  /\ crew \in [Procs -> Crews \cup {NoCrew}]
  /\ from \in [Procs -> Channels \cup {NoChannel}]
  /\ ret \in [Procs -> Labels]
  /\ last \in [Procs -> BOOLEAN]
  /\ todo \in [Procs -> SUBSET Users]
  /\ token \in [Users -> Regions \cup {NoRegion}]
  /\ mixed \subseteq Channels
  /\ raced \subseteq Users

Init ==
  /\ rooms = [ch \in Channels |-> {}]
  /\ region = [ch \in Channels |-> NoRegion]
  /\ userChannel = [u \in Users |-> NoChannel]
  /\ channelCrew = [ch \in Channels |-> NoCrew]
  /\ session = [ch \in Channels |-> {}]
  /\ guestSession = [u \in Users |-> NoChannel]
  /\ status = [u \in Users |-> "offline"]
  /\ activity = [u \in Users |-> NoChannel]
  /\ crewMembers = [c \in Crews |-> Users \ Guests]
  /\ pc = [p \in Procs |-> "idle"]
  /\ user = [p \in Procs |-> NoUser]
  /\ chan = [p \in Procs |-> NoChannel]
  /\ crew = [p \in Procs |-> NoCrew]
  /\ from = [p \in Procs |-> NoChannel]
  /\ ret = [p \in Procs |-> "finish"]
  /\ last = [p \in Procs |-> FALSE]
  /\ todo = [p \in Procs |-> {}]
  /\ token = [u \in Users |-> NoRegion]
  /\ mixed = {}
  /\ raced = {}

-----------------------------------------------------------------------------
(* Control                                                                 *)

Goto(p, label) == pc' = [pc EXCEPT ![p] = label]

(* Process p starts to work for user u; u is raced when another one does.  *)
Claim(p, u) ==
  /\ user' = [user EXCEPT ![p] = u]
  /\ raced' = IF \E q \in Procs \ {p} : user[q] = u THEN raced \cup {u} ELSE raced

At(p, label) == pc[p] = label

(* A step inside a handler leaves its caller's user and return label alone. *)
Step(p, here, next) ==
  /\ At(p, here)
  /\ Goto(p, next)
  /\ UNCHANGED <<user, ret, raced>>

CallLeave(p, back) ==
  /\ Goto(p, "unmap")
  /\ ret' = [ret EXCEPT ![p] = back]

-----------------------------------------------------------------------------
(* The RPCs: where a handler begins                                        *)

(* VoiceJoinRPC up to joinVoiceRoom.  The caller is a member of the crew it  *)
(* names; resolveVoiceChannel returns the channel it asks for even when the *)
(* crew's channel list does not hold it, so any channel goes with any crew. *)
VoiceJoinRPC(p, u, ch, c) ==
  /\ "join" \in Calls
  /\ At(p, "idle")
  /\ u \in crewMembers[c]
  /\ Claim(p, u)
  /\ chan' = [chan EXCEPT ![p] = ch]
  /\ crew' = [crew EXCEPT ![p] = c]
  /\ Goto(p, "capacity")
  /\ UNCHANGED <<maps, stored, from, last, todo, ret, token, mixed>>

(* GuestVoiceJoinRPC up to its count of the guests: no membership needed,   *)
(* the crew is the invite's.                                               *)
GuestVoiceJoinRPC(p, u, ch, c) ==
  /\ "guestJoin" \in Calls
  /\ At(p, "idle")
  /\ u \in Guests
  /\ Claim(p, u)
  /\ chan' = [chan EXCEPT ![p] = ch]
  /\ crew' = [crew EXCEPT ![p] = c]
  /\ Goto(p, "guestCap")
  /\ UNCHANGED <<maps, stored, from, last, todo, ret, token, mixed>>

(* VoiceLeaveRPC, and GuestVoiceLeaveRPC, which also forgets the session.  *)
VoiceLeaveRPC(p, u) ==
  /\ "leave" \in Calls
  /\ At(p, "idle")
  /\ Claim(p, u)
  /\ CallLeave(p, IF u \in Guests THEN "forget" ELSE "finish")
  /\ UNCHANGED <<maps, stored, locals, token, mixed>>

(* KickCrewMemberRPC and AfterLeaveCrew: the group loses the member first. *)
CrewExit(p, u, c) ==
  /\ "crewExit" \in Calls
  /\ At(p, "idle")
  /\ u \in crewMembers[c]
  /\ Claim(p, u)
  /\ crewMembers' = [crewMembers EXCEPT ![c] = @ \ {u}]
  /\ crew' = [crew EXCEPT ![p] = c]
  /\ Goto(p, "exitMap")
  /\ UNCHANGED <<maps, status, activity, chan, from, last, todo, ret, token, mixed>>

(* Nakama adds a member to the group (an accepted invite); no voice code runs. *)
CrewEnter(u, c) ==
  /\ "crewEnter" \in Calls
  /\ u \in Users \ (Guests \cup crewMembers[c])
  /\ crewMembers' = [crewMembers EXCEPT ![c] = @ \cup {u}]
  /\ UNCHANGED <<maps, status, activity, locals, pc, user, ret, token, mixed, raced>>

(* VoiceEvictChannel, called when the channel is deleted: a snapshot of the *)
(* members under the read lock, then one voiceLeaveInternal for each.      *)
VoiceEvictChannel(p, ch) ==
  /\ "evict" \in Calls
  /\ At(p, "idle")
  /\ rooms[ch] # {}
  /\ todo' = [todo EXCEPT ![p] = rooms[ch]]
  /\ Goto(p, "evictNext")
  /\ UNCHANGED <<maps, stored, chan, crew, from, last, user, ret, token, mixed, raced>>

EvictNext(p) ==
  /\ At(p, "evictNext")
  /\ \E u \in todo[p] :
       /\ Claim(p, u)
       /\ todo' = [todo EXCEPT ![p] = @ \ {u}]
  /\ CallLeave(p, IF Cardinality(todo[p]) = 1 THEN "finish" ELSE "evictNext")
  /\ UNCHANGED <<maps, stored, chan, crew, from, last, token, mixed>>

-----------------------------------------------------------------------------
(* joinVoiceRoom                                                           *)

(* GuestVoiceJoinRPC: countGuestsInChannel, the caller not counted.        *)
GuestCap(p) ==
  LET others == (rooms[chan[p]] \cap Guests) \ {user[p]} IN
  /\ Step(p, "guestCap", IF Cardinality(others) >= MaxGuests THEN "finish" ELSE "capacity")
  /\ UNCHANGED <<maps, stored, locals, token, mixed>>

(* Mutant: one seat more than the cap.                                      *)
IsFullOffByOne(ch, u) == u \notin rooms[ch] /\ Cardinality(rooms[ch]) > MaxMembers

IsFull(ch, u) == u \notin rooms[ch] /\ rooms[ch] # {} /\ Cardinality(rooms[ch]) >= MaxMembers

CheckCapacity(p) ==
  /\ Step(p, "capacity", IF IsFull(chan[p], user[p]) THEN "finish" ELSE "rejoin")
  /\ UNCHANGED <<maps, stored, locals, token, mixed>>

(* Mutant: a switch seats the user without leaving the prior room.          *)
SwitchWithoutLeave(p) ==
  /\ At(p, "rejoin")
  /\ Goto(p, IF userChannel[user[p]] = chan[p] THEN "upsertRoom" ELSE "seat")
  /\ UNCHANGED <<maps, stored, locals, user, ret, token, mixed, raced>>

(* sameChannelRejoin is read on its own; a switch leaves the old room first. *)
SameChannelRejoin(p) ==
  /\ At(p, "rejoin")
  /\ \/ /\ userChannel[user[p]] = chan[p]
        /\ Goto(p, "upsertRoom")
        /\ UNCHANGED ret
     \/ /\ userChannel[user[p]] # chan[p]
        /\ CallLeave(p, "seat")
  /\ UNCHANGED <<maps, stored, locals, user, token, mixed, raced>>

(* A member is put in its room; a new room starts without a region.        *)
AddMember(p) == rooms' = [rooms EXCEPT ![chan[p]] = @ \cup {user[p]}]

UpsertVoiceMember(p) ==
  /\ Step(p, "upsertRoom", "upsertCrew")
  /\ AddMember(p)
  /\ UNCHANGED <<region, userChannel, channelCrew, session, guestSession, stored, locals, token, mixed>>

(* The entry of the room becomes the crew the caller named.  The history     *)
(* notes a room that others sit in and that had the entry of another crew. *)
NameCrew(p) ==
  LET ch == chan[p] IN
  /\ channelCrew' = [channelCrew EXCEPT ![ch] = crew[p]]
  /\ mixed' = IF channelCrew[ch] \notin {NoCrew, crew[p]} /\ rooms[ch] \ {user[p]} # {}
              THEN mixed \cup {ch} ELSE mixed

UpsertCrew(p) ==
  /\ Step(p, "upsertCrew", "joinPresence")
  /\ NameCrew(p)
  /\ UNCHANGED <<rooms, region, userChannel, session, guestSession, stored, locals, token>>

Seat(p) ==
  /\ Step(p, "seat", "setMap")
  /\ AddMember(p)
  /\ UNCHANGED <<region, userChannel, channelCrew, session, guestSession, stored, locals, token, mixed>>

SetUserChannel(p) ==
  /\ Step(p, "setMap", "setCrew")
  /\ userChannel' = [userChannel EXCEPT ![user[p]] = chan[p]]
  /\ UNCHANGED <<rooms, region, channelCrew, session, guestSession, stored, locals, token, mixed>>

SetChannelCrew(p) ==
  /\ Step(p, "setCrew", "ledger")
  /\ NameCrew(p)
  /\ UNCHANGED <<rooms, region, userChannel, session, guestSession, stored, locals, token>>

(* recordLedgerSession: voiceSessionOnJoin for everybody but a guest.      *)
RecordLedgerSession(p) ==
  LET who == {user[p]} \ Guests IN
  /\ Step(p, "ledger", "joinPresence")
  /\ session' = [session EXCEPT ![chan[p]] = @ \cup who]
  /\ UNCHANGED <<rooms, region, userChannel, channelCrew, guestSession, stored, locals, token, mixed>>

JoinPresence(p) ==
  /\ Step(p, "joinPresence", "issue")
  /\ status' = [status EXCEPT ![user[p]] = "online"]
  /\ activity' = [activity EXCEPT ![user[p]] = chan[p]]
  /\ UNCHANGED <<maps, crewMembers, locals, token, mixed>>

(* Mutant: every caller gets its own preference.                            *)
CallersRegion(ch, preferred) == preferred

(* voiceRoomSFURegion: the room's region, else the caller's choice, which   *)
(* an existing room keeps.  The choice is already a configured region, the *)
(* one selectSFURegion falls back to included.                             *)
RoomRegion(ch, preferred) == IF region[ch] # NoRegion THEN region[ch] ELSE preferred

KeepRegion(ch, r) ==
  region' = IF rooms[ch] # {} THEN [region EXCEPT ![ch] = r] ELSE region

(* Mutant: a failed signature returns the error and keeps the seat.         *)
IssueTokenNoUndo(p) ==
  /\ At(p, "issue")
  /\ Goto(p, "failed")
  /\ UNCHANGED <<maps, stored, locals, user, ret, token, mixed, raced>>

(* issueVoiceSFUToken; when signing fails the RPC undoes the seat.         *)
IssueToken(p) ==
  /\ At(p, "issue")
  /\ \E preferred \in Regions :
       LET r == RoomRegion(chan[p], preferred) IN
       /\ KeepRegion(chan[p], r)
       /\ \/ /\ token' = [token EXCEPT ![user[p]] = r]
             /\ Goto(p, IF user[p] \in Guests THEN "remember" ELSE "finish")
             /\ UNCHANGED ret
          \/ /\ CallLeave(p, "failed")
             /\ UNCHANGED token
  /\ UNCHANGED <<rooms, userChannel, channelCrew, session, guestSession, stored, locals,
                 user, mixed, raced>>

RememberGuestSession(p) ==
  /\ Step(p, "remember", "finish")
  /\ guestSession' = [guestSession EXCEPT ![user[p]] = chan[p]]
  /\ UNCHANGED <<rooms, region, userChannel, channelCrew, session, stored, locals, token, mixed>>

-----------------------------------------------------------------------------
(* voiceLeaveInternal                                                      *)

Unmap(p) ==
  LET ch == userChannel[user[p]] IN
  /\ Step(p, "unmap", IF ch = NoChannel THEN "orphan" ELSE "remove")
  /\ userChannel' = [userChannel EXCEPT ![user[p]] = NoChannel]
  /\ from' = [from EXCEPT ![p] = ch]
  /\ UNCHANGED <<rooms, region, channelCrew, session, guestSession, stored,
                 chan, crew, last, todo, token, mixed>>

(* orphanVoiceChannel walks a Go map, so any room that holds the user is it. *)
OrphanFound(p) ==
  /\ Step(p, "orphan", "remove")
  /\ \E ch \in Channels :
       /\ user[p] \in rooms[ch]
       /\ from' = [from EXCEPT ![p] = ch]
  /\ UNCHANGED <<maps, stored, chan, crew, last, todo, token, mixed>>

NotInVoice(p) ==
  /\ Step(p, "orphan", ret[p])
  /\ \A ch \in Channels : user[p] \notin rooms[ch]
  /\ UNCHANGED <<maps, stored, locals, token, mixed>>

(* Mutant: the crew entry goes with every member, not with the room.        *)
RemoveMemberAndCrew(p) ==
  LET ch == from[p]
      rest == rooms[ch] \ {user[p]}
      empties == rooms[ch] # {} /\ rest = {}
  IN
  /\ Step(p, "remove", "stats")
  /\ rooms' = [rooms EXCEPT ![ch] = rest]
  /\ region' = IF empties THEN [region EXCEPT ![ch] = NoRegion] ELSE region
  /\ channelCrew' = [channelCrew EXCEPT ![ch] = NoCrew]
  /\ mixed' = IF empties THEN mixed \ {ch} ELSE mixed
  /\ last' = [last EXCEPT ![p] = empties]
  /\ UNCHANGED <<userChannel, session, guestSession, stored, chan, crew, from, todo, token>>

(* The member goes; with the last one the room, its region and crew entry. *)
RemoveMember(p) ==
  LET ch == from[p]
      rest == rooms[ch] \ {user[p]}
      empties == rooms[ch] # {} /\ rest = {}
  IN
  /\ Step(p, "remove", "stats")
  /\ rooms' = [rooms EXCEPT ![ch] = rest]
  /\ region' = IF empties THEN [region EXCEPT ![ch] = NoRegion] ELSE region
  /\ channelCrew' = IF empties THEN [channelCrew EXCEPT ![ch] = NoCrew] ELSE channelCrew
  /\ mixed' = IF empties THEN mixed \ {ch} ELSE mixed
  /\ last' = [last EXCEPT ![p] = empties]
  /\ UNCHANGED <<userChannel, session, guestSession, stored, chan, crew, from, todo, token>>

(* voiceSessionParticipantCount(channelID) >= 2 decides whether the member's *)
(* minutes go to recordVoiceActivity (a store this module does not keep).  *)
HadCrewSession(p) == Cardinality(session[from[p]]) >= 2

ReadStats(p) ==
  /\ Step(p, "stats", IF last[p] THEN "close" ELSE "leavePresence")
  /\ UNCHANGED <<maps, stored, locals, token, mixed>>

(* Mutant: the session is closed only when it makes an event.               *)
CloseOnlyMeetings(p) ==
  /\ Step(p, "close", "leavePresence")
  /\ session' = IF HadCrewSession(p) THEN [session EXCEPT ![from[p]] = {}] ELSE session
  /\ UNCHANGED <<rooms, region, userChannel, channelCrew, guestSession, stored, locals, token, mixed>>

(* voiceSessionOnLastLeave: the session goes, with an event when it had two. *)
CloseSession(p) ==
  /\ Step(p, "close", "leavePresence")
  /\ session' = [session EXCEPT ![from[p]] = {}]
  /\ UNCHANGED <<rooms, region, userChannel, channelCrew, guestSession, stored, locals, token, mixed>>

(* Mutant: the leave keeps the in_voice activity.                           *)
LeavePresenceKept(p) ==
  /\ Step(p, "leavePresence", ret[p])
  /\ status' = [status EXCEPT ![user[p]] = "online"]
  /\ UNCHANGED <<maps, activity, crewMembers, locals, token, mixed>>

(* The callers of this module never ask to skip the presence write.  The    *)
(* subroutine's locals end here, a handler's at its return.                *)
LeavePresence(p) ==
  /\ Step(p, "leavePresence", ret[p])
  /\ status' = [status EXCEPT ![user[p]] = "online"]
  /\ activity' = [activity EXCEPT ![user[p]] = NoChannel]
  /\ from' = [from EXCEPT ![p] = NoChannel]
  /\ last' = [last EXCEPT ![p] = FALSE]
  /\ UNCHANGED <<maps, crewMembers, chan, crew, todo, token, mixed>>

-----------------------------------------------------------------------------
(* cleanupVoiceOnCrewExit, GuestVoiceLeaveRPC's tail, and the return       *)

ReadMapOnExit(p) ==
  LET ch == userChannel[user[p]] IN
  /\ Step(p, "exitMap", IF ch = NoChannel THEN "finish" ELSE "exitCrew")
  /\ chan' = [chan EXCEPT ![p] = ch]
  /\ UNCHANGED <<maps, stored, crew, from, last, todo, token, mixed>>

(* Mutant: a user who is no longer a member is not looked for.              *)
ExitOfMembersOnly(p) ==
  /\ At(p, "exitCrew")
  /\ IF channelCrew[chan[p]] = crew[p] /\ user[p] \in crewMembers[crew[p]]
     THEN CallLeave(p, "finish")
     ELSE Goto(p, "finish") /\ UNCHANGED ret
  /\ UNCHANGED <<maps, stored, locals, user, token, mixed, raced>>

(* Only a channel of the crew that is left is left: its entry must name it. *)
ReadCrewOnExit(p) ==
  /\ At(p, "exitCrew")
  /\ IF channelCrew[chan[p]] = crew[p]
     THEN CallLeave(p, "finish")
     ELSE Goto(p, "finish") /\ UNCHANGED ret
  /\ UNCHANGED <<maps, stored, locals, user, token, mixed, raced>>

(* Mutant: the sessions of the whole channel are forgotten.                 *)
ForgetChannelSessions(p) ==
  /\ Step(p, "forget", "finish")
  /\ guestSession' = [u \in Users |-> IF guestSession[u] = guestSession[user[p]]
                                     THEN NoChannel ELSE guestSession[u]]
  /\ UNCHANGED <<rooms, region, userChannel, channelCrew, session, stored, locals, token, mixed>>

ForgetGuestSession(p) ==
  /\ Step(p, "forget", "finish")
  /\ guestSession' = [guestSession EXCEPT ![user[p]] = NoChannel]
  /\ UNCHANGED <<rooms, region, userChannel, channelCrew, session, stored, locals, token, mixed>>

(* The RPC answers: "failed" is the SFU_UNAVAILABLE answer of a join.      *)
Return(p) ==
  /\ pc[p] \in {"finish", "failed"}
  /\ Goto(p, "idle")
  /\ user' = [user EXCEPT ![p] = NoUser]
  /\ chan' = [chan EXCEPT ![p] = NoChannel]
  /\ crew' = [crew EXCEPT ![p] = NoCrew]
  /\ ret' = [ret EXCEPT ![p] = "finish"]
  /\ UNCHANGED <<maps, stored, from, last, todo, token, mixed, raced>>

-----------------------------------------------------------------------------

Begin(p) ==
  \/ \E u \in Users, ch \in Channels, c \in Crews :
       VoiceJoinRPC(p, u, ch, c) \/ GuestVoiceJoinRPC(p, u, ch, c)
  \/ \E u \in Users : VoiceLeaveRPC(p, u)
  \/ \E u \in Users, c \in Crews : CrewExit(p, u, c)
  \/ \E ch \in Channels : VoiceEvictChannel(p, ch)

Join(p) ==
  \/ GuestCap(p) \/ CheckCapacity(p) \/ SameChannelRejoin(p)
  \/ UpsertVoiceMember(p) \/ UpsertCrew(p)
  \/ Seat(p) \/ SetUserChannel(p) \/ SetChannelCrew(p) \/ RecordLedgerSession(p)
  \/ JoinPresence(p) \/ IssueToken(p) \/ RememberGuestSession(p)

Leave(p) ==
  \/ Unmap(p) \/ OrphanFound(p) \/ NotInVoice(p) \/ RemoveMember(p)
  \/ ReadStats(p) \/ CloseSession(p) \/ LeavePresence(p)

Exit(p) ==
  \/ EvictNext(p) \/ ReadMapOnExit(p) \/ ReadCrewOnExit(p)
  \/ ForgetGuestSession(p) \/ Return(p)

Next ==
  \/ \E p \in Procs : Begin(p) \/ Join(p) \/ Leave(p) \/ Exit(p)
  \/ \E u \in Users, c \in Crews : CrewEnter(u, c)

Spec == Init /\ [][Next]_vars

-----------------------------------------------------------------------------
(* Properties                                                              *)

(* No handler is at work for u, and no two ever were at the same time.     *)
Quiet(u) == \A p \in Procs : user[p] # u
Settled(u) == u \notin raced /\ Quiet(u)

RoomsOf(u) == {ch \in Channels : u \in rooms[ch]}
MappedTo(u) == {userChannel[u]} \ {NoChannel}

(* As long as the calls for one user do not overlap, the reverse map names  *)
(* exactly the one room that holds the user, whatever the calls for other  *)
(* users interleave with (voice_state.go keeps the two maps under two      *)
(* mutexes and never updates them together).                               *)
SeatAgrees == \A u \in Users : Settled(u) => RoomsOf(u) = MappedTo(u)

(* The stored presence says in_voice in the user's channel, and nowhere     *)
(* else: the join writes it after the seat and the leave after the removal. *)
PresenceAgrees == \A u \in Users : Settled(u) => activity[u] = userChannel[u]

(* An occupied room can be traced to its crew (pushes and crew exits need   *)
(* the entry), or the handler that seats somebody is about to set it; even  *)
(* for raced users.                                                        *)
AboutToSetCrew(p, ch) == chan[p] = ch /\ pc[p] \in {"upsertCrew", "setMap", "setCrew"}
OccupiedRoomHasCrew ==
  \A ch \in Channels :
    rooms[ch] # {} => channelCrew[ch] # NoCrew \/ \E p \in Procs : AboutToSetCrew(p, ch)

(* The capacity test and the seat are two critical sections, so the room can *)
(* outgrow the cap, but only by the joins that passed the test together.   *)
CapacityBounded ==
  \A ch \in Channels : Cardinality(rooms[ch]) < MaxMembers + Cardinality(Procs)

(* Two members of a room hold tokens for the same SFU ("every member of a   *)
(* voice session must reach the same SFU instance").                       *)
SameSFU ==
  \A u, v \in Users : \A ch \in Channels :
    (Settled(u) /\ Settled(v) /\ {u, v} \subseteq rooms[ch]) => token[u] = token[v]

(* A seated guest has a guest session for its channel: otherwise the TTL    *)
(* would never expire it.                                                  *)
SeatedGuestExpires ==
  \A u \in Guests : \A ch \in Channels :
    (Settled(u) /\ u \in rooms[ch]) => guestSession[u] = ch

(* A join that could not get a token leaves no member behind.              *)
FailedJoinSeatsNobody ==
  \A p \in Procs : (pc[p] = "failed" /\ user[p] \notin raced) => RoomsOf(user[p]) = {}

(* An open ledger session belongs to an occupied room, unless the leave that *)
(* emptied the room is about to close it: no session runs on in an empty   *)
(* channel.                                                                *)
AboutToClose(p, ch) == from[p] = ch /\ last[p] /\ pc[p] \in {"stats", "close"}
OpenSessionIsOccupied ==
  raced = {} =>
    \A ch \in Channels :
      session[ch] # {} => rooms[ch] # {} \/ \E p \in Procs : AboutToClose(p, ch)

(* A kick or a leave of a crew takes the user out of the crew's rooms         *)
(* ("prevents voice ghosts"): who sits in a room is a guest or a member of  *)
(* the crew that the room's entry names, whichever crew that is.  Exempt is *)
(* a room in mixed: the join of a member of another crew replaced the entry *)
(* while others sat there, and a crew exit no longer finds those.          *)
NoSeatOutsideCrew ==
  \A u \in Users \ Guests : \A ch \in Channels :
    (Settled(u) /\ u \in rooms[ch] /\ ch \notin mixed) =>
      \E c \in Crews : channelCrew[ch] = c /\ u \in crewMembers[c]

(* The rooms implement VoiceRoster: the seat of an unraced user is the one   *)
(* room it sits in, and no critical section moves two users.               *)
SeatIn(r, u) ==
  IF \A ch \in Channels : u \notin r[ch] THEN NoChannel
  ELSE CHOOSE ch \in Channels : u \in r[ch]
RosterSeat == [u \in Users |-> IF u \in raced THEN NoUser ELSE SeatIn(rooms, u)]
Roster == INSTANCE VoiceRoster WITH seat <- RosterSeat, Lost <- NoUser
ImplementsRoster == Roster!Spec

-----------------------------------------------------------------------------
(* The inductive invariant behind the theorems of VoiceRoomsProofs         *)

JoinLabels == {"guestCap", "capacity", "rejoin", "upsertRoom", "upsertCrew", "seat", "setMap",
               "setCrew", "ledger", "joinPresence", "issue", "remember"}
LeaveLabels == {"unmap", "orphan", "remove", "stats", "close", "leavePresence"}
ReturnLabels == {"seat", "failed", "forget", "evictNext", "finish"}

(* A handler has the user and the channels its next section works on.      *)
HasLocals(p) ==
  /\ pc[p] = "idle" => user[p] = NoUser
  /\ pc[p] \notin {"idle", "evictNext"} => user[p] \in Users
  /\ pc[p] \in JoinLabels \cup {"exitCrew"} => chan[p] \in Channels
  /\ pc[p] \in JoinLabels \cup {"exitMap", "exitCrew"} => crew[p] \in Crews
  /\ pc[p] \in LeaveLabels /\ ret[p] = "seat" => chan[p] \in Channels /\ crew[p] \in Crews
  /\ pc[p] \in LeaveLabels \ {"unmap", "orphan"} => from[p] \in Channels
  /\ ret[p] \in ReturnLabels
  /\ pc[p] = "remember" => user[p] \in Guests

SitsExactly(u, c) == \A ch \in Channels : u \in rooms[ch] <=> ch = c

(* What is recorded of a user who sits in its channel and runs no handler. *)
Recorded(u) ==
  \A ch \in Channels : userChannel[u] = ch =>
     token[u] = region[ch] /\ region[ch] # NoRegion /\ (u \in Guests => guestSession[u] = ch)

AtRest(u) ==
  /\ SitsExactly(u, userChannel[u])
  /\ activity[u] = userChannel[u]
  /\ Recorded(u)

Unmapped == {"orphan", "remove", "stats", "close", "leavePresence", "seat", "setMap", "failed", "forget"}
Mapped == {"upsertRoom", "upsertCrew", "setCrew", "ledger", "joinPresence", "issue", "remember"}

(* The room that holds the user while a handler is at work on it.          *)
HeldRoom(p) ==
  IF pc[p] = "remove" THEN from[p]
  ELSE IF pc[p] = "setMap" THEN chan[p]
  ELSE userChannel[user[p]]

Underway(p) ==
  LET u == user[p] IN
  /\ SitsExactly(u, HeldRoom(p))
  /\ pc[p] \in Unmapped => userChannel[u] = NoChannel
  /\ pc[p] \in Mapped => userChannel[u] = chan[p]
  /\ pc[p] \in {"guestCap", "capacity", "rejoin", "unmap", "orphan", "issue", "remember", "failed",
               "forget", "finish", "evictNext", "exitMap", "exitCrew"} => activity[u] = userChannel[u]
  /\ pc[p] \in {"guestCap", "capacity", "rejoin", "forget", "failed", "finish", "evictNext",
               "exitMap", "exitCrew"} => Recorded(u)
  /\ pc[p] = "remember" => token[u] = region[chan[p]] /\ region[chan[p]] # NoRegion

UserInv(u) ==
  /\ \A p, q \in Procs : user[p] = u /\ user[q] = u => p = q
  /\ Quiet(u) => AtRest(u)
  /\ \A p \in Procs : user[p] = u => Underway(p)

IInv ==
  /\ TypeOK
  /\ \A p \in Procs : HasLocals(p)
  /\ \A u \in Users \ raced : UserInv(u)
  /\ OccupiedRoomHasCrew

-----------------------------------------------------------------------------
(* Refuted by two overlapping joins of one user: the room, the seat and the  *)
(* map are three sections (specs/13-VOICE-CHANNELS.md, "one channel at a    *)
(* time globally").                                                        *)
OneChannelAtATime == \A u \in Users : Quiet(u) => Cardinality(RoomsOf(u)) <= 1
=============================================================================
