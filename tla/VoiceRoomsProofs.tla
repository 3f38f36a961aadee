-------------------------- MODULE VoiceRoomsProofs --------------------------
(* Theorems about VoiceRooms for every set of users, channels and handlers. *)
EXTENDS VoiceRooms, FiniteSetTheorems, TLAPS

USE VoiceRoomsAssumption
USE DEF Labels, JoinLabels, LeaveLabels, ReturnLabels,
        Step, Claim, CallLeave, Goto, At, maps, stored, locals

-----------------------------------------------------------------------------
(* Type correctness, with the locals every label of a handler relies on    *)

Typed == TypeOK /\ \A p \in Procs : HasLocals(p)

(* Every map, label and local of a handler starts in its domain.           *)
LEMMA InitTyped == Init => Typed
  BY DEF Init, Typed, TypeOK, HasLocals

(* Each entry point, critical section and return keeps every variable in its *)
(* domain (the *Type lemmas) and leaves every handler with the user and the *)
(* channels that its next section reads (the *Locals lemmas).              *)
LEMMA BeginType ==
  ASSUME Typed, NEW p \in Procs, Begin(p)
  PROVE  TypeOK'
<1>0. TypeOK /\ HasLocals(p)
  BY DEF Typed
<1>1. CASE \E w \in Users, ch \in Channels, c \in Crews : VoiceJoinRPC(p, w, ch, c)
  BY <1>0, <1>1 DEF TypeOK, HasLocals, VoiceJoinRPC
<1>2. CASE \E w \in Users, ch \in Channels, c \in Crews : GuestVoiceJoinRPC(p, w, ch, c)
  BY <1>0, <1>2 DEF TypeOK, HasLocals, GuestVoiceJoinRPC
<1>3. CASE \E w \in Users : VoiceLeaveRPC(p, w)
  BY <1>0, <1>3 DEF TypeOK, HasLocals, VoiceLeaveRPC
<1>4. CASE \E w \in Users, c \in Crews : CrewExit(p, w, c)
  BY <1>0, <1>4 DEF TypeOK, HasLocals, CrewExit
<1>5. CASE \E ch \in Channels : VoiceEvictChannel(p, ch)
  BY <1>0, <1>5 DEF TypeOK, HasLocals, VoiceEvictChannel
<1> QED
  BY <1>1, <1>2, <1>3, <1>4, <1>5 DEF Begin

LEMMA BeginLocals ==
  ASSUME Typed, NEW p \in Procs, Begin(p)
  PROVE  \A q \in Procs : HasLocals(q)'
<1>1. CASE \E w \in Users, ch \in Channels, c \in Crews : VoiceJoinRPC(p, w, ch, c)
  BY <1>1 DEF Typed, TypeOK, HasLocals, VoiceJoinRPC
<1>2. CASE \E w \in Users, ch \in Channels, c \in Crews : GuestVoiceJoinRPC(p, w, ch, c)
  BY <1>2 DEF Typed, TypeOK, HasLocals, GuestVoiceJoinRPC
<1>3. CASE \E w \in Users : VoiceLeaveRPC(p, w)
  BY <1>3 DEF Typed, TypeOK, HasLocals, VoiceLeaveRPC
<1>4. CASE \E w \in Users, c \in Crews : CrewExit(p, w, c)
  BY <1>4 DEF Typed, TypeOK, HasLocals, CrewExit
<1>5. CASE \E ch \in Channels : VoiceEvictChannel(p, ch)
  BY <1>5 DEF Typed, TypeOK, HasLocals, VoiceEvictChannel
<1> QED
  BY <1>1, <1>2, <1>3, <1>4, <1>5 DEF Begin

LEMMA JoinType ==
  ASSUME Typed, NEW p \in Procs, Join(p)
  PROVE  TypeOK'
<1>0. TypeOK /\ HasLocals(p)
  BY DEF Typed
<1>1. CASE GuestCap(p)
  BY <1>0, <1>1 DEF TypeOK, HasLocals, GuestCap
<1>2. CASE CheckCapacity(p)
  BY <1>0, <1>2 DEF TypeOK, HasLocals, CheckCapacity
<1>3. CASE SameChannelRejoin(p)
  BY <1>0, <1>3 DEF TypeOK, HasLocals, SameChannelRejoin
<1>4. CASE UpsertVoiceMember(p)
  BY <1>0, <1>4 DEF TypeOK, HasLocals, UpsertVoiceMember, AddMember
<1>5. CASE UpsertCrew(p)
  BY <1>0, <1>5 DEF TypeOK, HasLocals, UpsertCrew, NameCrew
<1>6. CASE Seat(p)
  BY <1>0, <1>6 DEF TypeOK, HasLocals, Seat, AddMember
<1>7. CASE SetUserChannel(p)
  BY <1>0, <1>7 DEF TypeOK, HasLocals, SetUserChannel
<1>8. CASE SetChannelCrew(p)
  BY <1>0, <1>8 DEF TypeOK, HasLocals, SetChannelCrew, NameCrew
<1>9. CASE RecordLedgerSession(p)
  BY <1>0, <1>9 DEF TypeOK, HasLocals, RecordLedgerSession
<1>10. CASE JoinPresence(p)
  BY <1>0, <1>10 DEF TypeOK, HasLocals, JoinPresence
<1>11. CASE IssueToken(p)
  <2>1. PICK preferred \in Regions : KeepRegion(chan[p], RoomRegion(chan[p], preferred))
    BY <1>11 DEF IssueToken
  <2>2. \A r \in Regions : RoomRegion(chan[p], r) \in Regions
    BY <1>0, <1>11 DEF TypeOK, HasLocals, IssueToken, RoomRegion
  <2>3. region' \in [Channels -> Regions \cup {NoRegion}]
    BY <1>0, <2>1, <2>2 DEF TypeOK, KeepRegion
  <2>4. token' \in [Users -> Regions \cup {NoRegion}]
    BY <1>0, <1>11, <2>2 DEF TypeOK, IssueToken
  <2>5. /\ pc' \in [Procs -> Labels] /\ ret' \in [Procs -> Labels]
        /\ UNCHANGED <<rooms, userChannel, channelCrew, session, guestSession, stored, locals,
                       user, mixed, raced>>
    BY <1>0, <1>11 DEF TypeOK, IssueToken
  <2> QED
    BY <1>0, <2>3, <2>4, <2>5 DEF TypeOK
<1>12. CASE RememberGuestSession(p)
  BY <1>0, <1>12 DEF TypeOK, HasLocals, RememberGuestSession
<1> QED
  BY <1>1, <1>2, <1>3, <1>4, <1>5, <1>6, <1>7, <1>8, <1>9, <1>10, <1>11, <1>12 DEF Join

LEMMA JoinLocals ==
  ASSUME Typed, NEW p \in Procs, Join(p)
  PROVE  \A q \in Procs : HasLocals(q)'
<1>1. CASE GuestCap(p)
  BY <1>1 DEF Typed, TypeOK, HasLocals, GuestCap
<1>2. CASE CheckCapacity(p)
  BY <1>2 DEF Typed, TypeOK, HasLocals, CheckCapacity
<1>3. CASE SameChannelRejoin(p)
  BY <1>3 DEF Typed, TypeOK, HasLocals, SameChannelRejoin
<1>4. CASE UpsertVoiceMember(p)
  BY <1>4 DEF Typed, TypeOK, HasLocals, UpsertVoiceMember, AddMember
<1>5. CASE UpsertCrew(p)
  BY <1>5 DEF Typed, TypeOK, HasLocals, UpsertCrew, NameCrew
<1>6. CASE Seat(p)
  BY <1>6 DEF Typed, TypeOK, HasLocals, Seat, AddMember
<1>7. CASE SetUserChannel(p)
  BY <1>7 DEF Typed, TypeOK, HasLocals, SetUserChannel
<1>8. CASE SetChannelCrew(p)
  BY <1>8 DEF Typed, TypeOK, HasLocals, SetChannelCrew, NameCrew
<1>9. CASE RecordLedgerSession(p)
  BY <1>9 DEF Typed, TypeOK, HasLocals, RecordLedgerSession
<1>10. CASE JoinPresence(p)
  BY <1>10 DEF Typed, TypeOK, HasLocals, JoinPresence
<1>11. CASE IssueToken(p)
  BY <1>11 DEF Typed, TypeOK, HasLocals, IssueToken, KeepRegion, RoomRegion
<1>12. CASE RememberGuestSession(p)
  BY <1>12 DEF Typed, TypeOK, HasLocals, RememberGuestSession
<1> QED
  BY <1>1, <1>2, <1>3, <1>4, <1>5, <1>6, <1>7, <1>8, <1>9, <1>10, <1>11, <1>12 DEF Join

LEMMA LeaveType ==
  ASSUME Typed, NEW p \in Procs, Leave(p)
  PROVE  TypeOK'
<1>0. TypeOK /\ HasLocals(p)
  BY DEF Typed
<1>1. CASE Unmap(p)
  BY <1>0, <1>1 DEF TypeOK, HasLocals, Unmap
<1>2. CASE OrphanFound(p)
  BY <1>0, <1>2 DEF TypeOK, HasLocals, OrphanFound
<1>3. CASE NotInVoice(p)
  BY <1>0, <1>3 DEF TypeOK, HasLocals, NotInVoice
<1>4. CASE RemoveMember(p)
  BY <1>0, <1>4 DEF TypeOK, HasLocals, RemoveMember
<1>5. CASE ReadStats(p)
  BY <1>0, <1>5 DEF TypeOK, HasLocals, ReadStats
<1>6. CASE CloseSession(p)
  BY <1>0, <1>6 DEF TypeOK, HasLocals, CloseSession
<1>7. CASE LeavePresence(p)
  BY <1>0, <1>7 DEF TypeOK, HasLocals, LeavePresence
<1> QED
  BY <1>1, <1>2, <1>3, <1>4, <1>5, <1>6, <1>7 DEF Leave

LEMMA LeaveLocals ==
  ASSUME Typed, NEW p \in Procs, Leave(p)
  PROVE  \A q \in Procs : HasLocals(q)'
<1>1. CASE Unmap(p)
  BY <1>1 DEF Typed, TypeOK, HasLocals, Unmap
<1>2. CASE OrphanFound(p)
  BY <1>2 DEF Typed, TypeOK, HasLocals, OrphanFound
<1>3. CASE NotInVoice(p)
  BY <1>3 DEF Typed, TypeOK, HasLocals, NotInVoice
<1>4. CASE RemoveMember(p)
  BY <1>4 DEF Typed, TypeOK, HasLocals, RemoveMember
<1>5. CASE ReadStats(p)
  BY <1>5 DEF Typed, TypeOK, HasLocals, ReadStats
<1>6. CASE CloseSession(p)
  BY <1>6 DEF Typed, TypeOK, HasLocals, CloseSession
<1>7. CASE LeavePresence(p)
  BY <1>7 DEF Typed, TypeOK, HasLocals, LeavePresence
<1> QED
  BY <1>1, <1>2, <1>3, <1>4, <1>5, <1>6, <1>7 DEF Leave

LEMMA ExitType ==
  ASSUME Typed, NEW p \in Procs, Exit(p)
  PROVE  TypeOK'
<1>0. TypeOK /\ HasLocals(p)
  BY DEF Typed
<1>1. CASE EvictNext(p)
  BY <1>0, <1>1 DEF TypeOK, HasLocals, EvictNext
<1>2. CASE ReadMapOnExit(p)
  BY <1>0, <1>2 DEF TypeOK, HasLocals, ReadMapOnExit
<1>3. CASE ReadCrewOnExit(p)
  <2>1. pc' \in [Procs -> Labels]
    <3>1. PICK l \in {"unmap", "finish"} : pc' = [pc EXCEPT ![p] = l]
      BY <1>3 DEF ReadCrewOnExit
    <3>2. pc \in [Procs -> Labels] /\ l \in Labels
      BY <1>0 DEF TypeOK
    <3> QED
      BY <3>1, <3>2
  <2>2. ret' \in [Procs -> Labels]
    BY <1>0, <1>3 DEF TypeOK, ReadCrewOnExit
  <2>3. UNCHANGED <<maps, stored, locals, user, token, mixed, raced>>
    BY <1>3 DEF ReadCrewOnExit
  <2> QED
    BY <1>0, <2>1, <2>2, <2>3 DEF TypeOK
<1>4. CASE ForgetGuestSession(p)
  BY <1>0, <1>4 DEF TypeOK, HasLocals, ForgetGuestSession
<1>5. CASE Return(p)
  BY <1>0, <1>5 DEF TypeOK, HasLocals, Return
<1> QED
  BY <1>1, <1>2, <1>3, <1>4, <1>5 DEF Exit

LEMMA ExitLocals ==
  ASSUME Typed, NEW p \in Procs, Exit(p)
  PROVE  \A q \in Procs : HasLocals(q)'
<1>1. CASE EvictNext(p)
  BY <1>1 DEF Typed, TypeOK, HasLocals, EvictNext
<1>2. CASE ReadMapOnExit(p)
  BY <1>2 DEF Typed, TypeOK, HasLocals, ReadMapOnExit
<1>3. CASE ReadCrewOnExit(p)
  BY <1>3 DEF Typed, TypeOK, HasLocals, ReadCrewOnExit
<1>4. CASE ForgetGuestSession(p)
  BY <1>4 DEF Typed, TypeOK, HasLocals, ForgetGuestSession
<1>5. CASE Return(p)
  BY <1>5 DEF Typed, TypeOK, HasLocals, Return
<1> QED
  BY <1>1, <1>2, <1>3, <1>4, <1>5 DEF Exit

LEMMA NextTyped ==
  ASSUME Typed, [Next]_vars
  PROVE  Typed'
<1>1. ASSUME NEW p \in Procs, Begin(p) \/ Join(p) \/ Leave(p) \/ Exit(p)
      PROVE  Typed'
  BY <1>1, BeginType, JoinType, LeaveType, ExitType,
     BeginLocals, JoinLocals, LeaveLocals, ExitLocals DEF Typed
<1>2. ASSUME NEW u \in Users, NEW c \in Crews, CrewEnter(u, c)
      PROVE  Typed'
  BY <1>2 DEF Typed, TypeOK, HasLocals, CrewEnter
<1>3. CASE UNCHANGED vars
  BY <1>3 DEF Typed, TypeOK, HasLocals, vars
<1> QED
  BY <1>1, <1>2, <1>3 DEF Next

(* Every variable stays in its domain, whatever handlers run together.      *)
THEOREM TypeCorrect == Spec => []TypeOK
<1>1. Init => Typed
  BY InitTyped
<1>2. Typed /\ [Next]_vars => Typed'
  BY NextTyped
<1>3. Typed => TypeOK
  BY DEF Typed
<1> QED
  BY <1>1, <1>2, <1>3, PTL DEF Spec

-----------------------------------------------------------------------------
(* An occupied room has a crew                                             *)

(* A step outside the sections about the entry, which moves nobody.         *)
LEMMA EntryKept ==
  ASSUME OccupiedRoomHasCrew, NEW p \in Procs, UNCHANGED <<rooms, channelCrew>>,
         pc[p] \notin {"upsertCrew", "setMap", "setCrew"},
         \A q \in Procs \ {p} : pc'[q] = pc[q] /\ chan'[q] = chan[q]
  PROVE  OccupiedRoomHasCrew'
<1>1. \A q \in Procs, ch \in Channels : AboutToSetCrew(q, ch) => AboutToSetCrew(q, ch)'
  BY DEF AboutToSetCrew
<1> QED
  BY <1>1 DEF OccupiedRoomHasCrew

(* An occupied room keeps a crew entry, or a handler about to write it: the  *)
(* section that seats a member announces the entry, and only the section   *)
(* that empties a room deletes it.                                         *)
LEMMA BeginCrew ==
  ASSUME Typed, OccupiedRoomHasCrew, NEW p \in Procs, Begin(p)
  PROVE  OccupiedRoomHasCrew'
<1>0. TypeOK /\ HasLocals(p)
  BY DEF Typed
<1>1. CASE \E w \in Users, ch \in Channels, c \in Crews : VoiceJoinRPC(p, w, ch, c)
  <2>1. UNCHANGED <<rooms, channelCrew>> /\ pc[p] = "idle"
        /\ \A q \in Procs \ {p} : pc'[q] = pc[q] /\ chan'[q] = chan[q]
    BY <1>0, <1>1 DEF TypeOK, VoiceJoinRPC
  <2> QED
    BY <2>1, EntryKept
<1>2. CASE \E w \in Users, ch \in Channels, c \in Crews : GuestVoiceJoinRPC(p, w, ch, c)
  <2>1. UNCHANGED <<rooms, channelCrew>> /\ pc[p] = "idle"
        /\ \A q \in Procs \ {p} : pc'[q] = pc[q] /\ chan'[q] = chan[q]
    BY <1>0, <1>2 DEF TypeOK, GuestVoiceJoinRPC
  <2> QED
    BY <2>1, EntryKept
<1>3. CASE \E w \in Users : VoiceLeaveRPC(p, w)
  <2>1. UNCHANGED <<rooms, channelCrew>> /\ pc[p] = "idle"
        /\ \A q \in Procs \ {p} : pc'[q] = pc[q] /\ chan'[q] = chan[q]
    BY <1>0, <1>3 DEF TypeOK, VoiceLeaveRPC
  <2> QED
    BY <2>1, EntryKept
<1>4. CASE \E w \in Users, c \in Crews : CrewExit(p, w, c)
  <2>1. UNCHANGED <<rooms, channelCrew>> /\ pc[p] = "idle"
        /\ \A q \in Procs \ {p} : pc'[q] = pc[q] /\ chan'[q] = chan[q]
    BY <1>0, <1>4 DEF TypeOK, CrewExit
  <2> QED
    BY <2>1, EntryKept
<1>5. CASE \E ch \in Channels : VoiceEvictChannel(p, ch)
  <2>1. UNCHANGED <<rooms, channelCrew>> /\ pc[p] = "idle"
        /\ \A q \in Procs \ {p} : pc'[q] = pc[q] /\ chan'[q] = chan[q]
    BY <1>0, <1>5 DEF TypeOK, VoiceEvictChannel
  <2> QED
    BY <2>1, EntryKept
<1> QED
  BY <1>1, <1>2, <1>3, <1>4, <1>5 DEF Begin

LEMMA JoinCrew ==
  ASSUME Typed, OccupiedRoomHasCrew, NEW p \in Procs, Join(p)
  PROVE  OccupiedRoomHasCrew'
<1>0. TypeOK /\ HasLocals(p)
  BY DEF Typed
<1>1. CASE GuestCap(p)
  BY <1>0, <1>1 DEF TypeOK, HasLocals, OccupiedRoomHasCrew, AboutToSetCrew, GuestCap
<1>2. CASE CheckCapacity(p)
  BY <1>0, <1>2 DEF TypeOK, HasLocals, OccupiedRoomHasCrew, AboutToSetCrew, CheckCapacity
<1>3. CASE SameChannelRejoin(p)
  <2>1. UNCHANGED <<rooms, channelCrew>> /\ pc[p] = "rejoin"
        /\ \A q \in Procs \ {p} : pc'[q] = pc[q] /\ chan'[q] = chan[q]
    BY <1>0, <1>3 DEF TypeOK, SameChannelRejoin
  <2> QED
    BY <2>1, EntryKept
<1>4. CASE UpsertVoiceMember(p)
  BY <1>0, <1>4 DEF TypeOK, HasLocals, OccupiedRoomHasCrew, AboutToSetCrew, UpsertVoiceMember, AddMember
<1>5. CASE UpsertCrew(p)
  BY <1>0, <1>5 DEF TypeOK, HasLocals, OccupiedRoomHasCrew, AboutToSetCrew, UpsertCrew, NameCrew
<1>6. CASE Seat(p)
  BY <1>0, <1>6 DEF TypeOK, HasLocals, OccupiedRoomHasCrew, AboutToSetCrew, Seat, AddMember
<1>7. CASE SetUserChannel(p)
  BY <1>0, <1>7 DEF TypeOK, HasLocals, OccupiedRoomHasCrew, AboutToSetCrew, SetUserChannel
<1>8. CASE SetChannelCrew(p)
  BY <1>0, <1>8 DEF TypeOK, HasLocals, OccupiedRoomHasCrew, AboutToSetCrew, SetChannelCrew, NameCrew
<1>9. CASE RecordLedgerSession(p)
  BY <1>0, <1>9 DEF TypeOK, HasLocals, OccupiedRoomHasCrew, AboutToSetCrew, RecordLedgerSession
<1>10. CASE JoinPresence(p)
  BY <1>0, <1>10 DEF TypeOK, HasLocals, OccupiedRoomHasCrew, AboutToSetCrew, JoinPresence
<1>11. CASE IssueToken(p)
  <2>1. UNCHANGED <<rooms, channelCrew, chan>> /\ pc[p] = "issue" /\ \A q \in Procs \ {p} : pc'[q] = pc[q]
    BY <1>0, <1>11 DEF TypeOK, IssueToken
  <2> QED
    BY <2>1 DEF OccupiedRoomHasCrew, AboutToSetCrew
<1>12. CASE RememberGuestSession(p)
  BY <1>0, <1>12 DEF TypeOK, HasLocals, OccupiedRoomHasCrew, AboutToSetCrew, RememberGuestSession
<1> QED
  BY <1>1, <1>2, <1>3, <1>4, <1>5, <1>6, <1>7, <1>8, <1>9, <1>10, <1>11, <1>12 DEF Join

LEMMA LeaveCrew ==
  ASSUME Typed, OccupiedRoomHasCrew, NEW p \in Procs, Leave(p)
  PROVE  OccupiedRoomHasCrew'
<1>0. TypeOK /\ HasLocals(p)
  BY DEF Typed
<1>1. CASE Unmap(p)
  BY <1>0, <1>1 DEF TypeOK, HasLocals, OccupiedRoomHasCrew, AboutToSetCrew, Unmap
<1>2. CASE OrphanFound(p)
  BY <1>0, <1>2 DEF TypeOK, HasLocals, OccupiedRoomHasCrew, AboutToSetCrew, OrphanFound
<1>3. CASE NotInVoice(p)
  BY <1>0, <1>3 DEF TypeOK, HasLocals, OccupiedRoomHasCrew, AboutToSetCrew, NotInVoice
<1>4. CASE RemoveMember(p)
  <2> SUFFICES ASSUME NEW ch \in Channels, rooms'[ch] # {}
               PROVE  channelCrew'[ch] # NoCrew \/ \E q \in Procs : AboutToSetCrew(q, ch)'
    BY DEF OccupiedRoomHasCrew
  <2>1. rooms[ch] # {}
    BY <1>0, <1>4 DEF TypeOK, RemoveMember
  <2>2. channelCrew'[ch] = channelCrew[ch]
    BY <1>0, <1>4 DEF TypeOK, HasLocals, RemoveMember
  <2>3. \A q \in Procs : AboutToSetCrew(q, ch) => AboutToSetCrew(q, ch)'
    BY <1>0, <1>4 DEF TypeOK, AboutToSetCrew, RemoveMember
  <2> QED
    BY <2>1, <2>2, <2>3 DEF OccupiedRoomHasCrew
<1>5. CASE ReadStats(p)
  BY <1>0, <1>5 DEF TypeOK, HasLocals, OccupiedRoomHasCrew, AboutToSetCrew, ReadStats
<1>6. CASE CloseSession(p)
  BY <1>0, <1>6 DEF TypeOK, HasLocals, OccupiedRoomHasCrew, AboutToSetCrew, CloseSession
<1>7. CASE LeavePresence(p)
  BY <1>0, <1>7 DEF TypeOK, HasLocals, OccupiedRoomHasCrew, AboutToSetCrew, LeavePresence
<1> QED
  BY <1>1, <1>2, <1>3, <1>4, <1>5, <1>6, <1>7 DEF Leave

LEMMA ExitCrew ==
  ASSUME Typed, OccupiedRoomHasCrew, NEW p \in Procs, Exit(p)
  PROVE  OccupiedRoomHasCrew'
<1>0. TypeOK /\ HasLocals(p)
  BY DEF Typed
<1>1. CASE EvictNext(p)
  BY <1>0, <1>1 DEF TypeOK, HasLocals, OccupiedRoomHasCrew, AboutToSetCrew, EvictNext
<1>2. CASE ReadMapOnExit(p)
  BY <1>0, <1>2 DEF TypeOK, HasLocals, OccupiedRoomHasCrew, AboutToSetCrew, ReadMapOnExit
<1>3. CASE ReadCrewOnExit(p)
  <2>1. UNCHANGED <<rooms, channelCrew, chan>> /\ pc[p] = "exitCrew" /\ \A q \in Procs \ {p} : pc'[q] = pc[q]
    BY <1>0, <1>3 DEF TypeOK, ReadCrewOnExit
  <2> QED
    BY <2>1 DEF OccupiedRoomHasCrew, AboutToSetCrew
<1>4. CASE ForgetGuestSession(p)
  BY <1>0, <1>4 DEF TypeOK, HasLocals, OccupiedRoomHasCrew, AboutToSetCrew, ForgetGuestSession
<1>5. CASE Return(p)
  BY <1>0, <1>5 DEF TypeOK, HasLocals, OccupiedRoomHasCrew, AboutToSetCrew, Return
<1> QED
  BY <1>1, <1>2, <1>3, <1>4, <1>5 DEF Exit

-----------------------------------------------------------------------------
(* The seat of a user whose handlers do not overlap                        *)

(* A step of p for somebody else: all that UserInv(u) reads is kept.       *)
Spared(p, u) ==
  /\ user[p] # u /\ user'[p] # u
  /\ \A q \in Procs \ {p} : pc'[q] = pc[q] /\ user'[q] = user[q] /\ chan'[q] = chan[q] /\ from'[q] = from[q]
  /\ userChannel'[u] = userChannel[u]
  /\ activity'[u] = activity[u]
  /\ token'[u] = token[u]
  /\ guestSession'[u] = guestSession[u]
  /\ \A ch \in Channels : u \in rooms'[ch] <=> u \in rooms[ch]
  /\ \A ch \in Channels : u \in rooms[ch] /\ region[ch] # NoRegion => region'[ch] = region[ch]

(* What a step that spares u does not disturb.                             *)
LEMMA SparedKeepsUserInv ==
  ASSUME Typed, NEW p \in Procs, NEW u \in Users, UserInv(u), Spared(p, u)
  PROVE  UserInv(u)'
<1> USE DEF Typed, TypeOK, HasLocals, Spared
<1>1. \A q \in Procs : user'[q] = u => q # p /\ user[q] = u
  OBVIOUS
<1>2. Recorded(u) /\ SitsExactly(u, userChannel[u]) => Recorded(u)'
  BY DEF Recorded, SitsExactly
<1>3. \A q \in Procs : user'[q] = u => Underway(q)'
  <2> SUFFICES ASSUME NEW q \in Procs, user'[q] = u
               PROVE  Underway(q)'
    OBVIOUS
  <2>1. Underway(q)
    BY <1>1 DEF UserInv
  <2>2. SitsExactly(u, HeldRoom(q))'
    BY <2>1, <1>1 DEF Underway, HeldRoom, SitsExactly
  <2> QED
    BY <2>1, <2>2, <1>1, <1>2 DEF Underway, HeldRoom, SitsExactly, Unmapped, Mapped
<1>4. Quiet(u)' => AtRest(u)'
  BY <1>1, <1>2 DEF UserInv, Quiet, AtRest, SitsExactly
<1> QED
  BY <1>1, <1>3, <1>4 DEF UserInv

(* A step of p spares every unraced user p does not work for.              *)
LEMMA BeginSpares ==
  ASSUME Typed, NEW p \in Procs, NEW u \in Users, user[p] # u, user'[p] # u, Begin(p)
  PROVE  Spared(p, u)
<1>1. CASE \E w \in Users, ch \in Channels, c \in Crews : VoiceJoinRPC(p, w, ch, c)
  BY <1>1 DEF Typed, TypeOK, HasLocals, Spared, VoiceJoinRPC
<1>2. CASE \E w \in Users, ch \in Channels, c \in Crews : GuestVoiceJoinRPC(p, w, ch, c)
  BY <1>2 DEF Typed, TypeOK, HasLocals, Spared, GuestVoiceJoinRPC
<1>3. CASE \E w \in Users : VoiceLeaveRPC(p, w)
  BY <1>3 DEF Typed, TypeOK, HasLocals, Spared, VoiceLeaveRPC
<1>4. CASE \E w \in Users, c \in Crews : CrewExit(p, w, c)
  BY <1>4 DEF Typed, TypeOK, HasLocals, Spared, CrewExit
<1>5. CASE \E ch \in Channels : VoiceEvictChannel(p, ch)
  BY <1>5 DEF Typed, TypeOK, HasLocals, Spared, VoiceEvictChannel
<1> QED
  BY <1>1, <1>2, <1>3, <1>4, <1>5 DEF Begin

LEMMA JoinSpares ==
  ASSUME Typed, NEW p \in Procs, NEW u \in Users, user[p] # u, user'[p] # u, Join(p)
  PROVE  Spared(p, u)
<1>1. CASE GuestCap(p)
  BY <1>1 DEF Typed, TypeOK, HasLocals, Spared, GuestCap
<1>2. CASE CheckCapacity(p)
  BY <1>2 DEF Typed, TypeOK, HasLocals, Spared, CheckCapacity
<1>3. CASE SameChannelRejoin(p)
  BY <1>3 DEF Typed, TypeOK, HasLocals, Spared, SameChannelRejoin
<1>4. CASE UpsertVoiceMember(p)
  BY <1>4 DEF Typed, TypeOK, HasLocals, Spared, UpsertVoiceMember, AddMember
<1>5. CASE UpsertCrew(p)
  BY <1>5 DEF Typed, TypeOK, HasLocals, Spared, UpsertCrew
<1>6. CASE Seat(p)
  BY <1>6 DEF Typed, TypeOK, HasLocals, Spared, Seat, AddMember
<1>7. CASE SetUserChannel(p)
  BY <1>7 DEF Typed, TypeOK, HasLocals, Spared, SetUserChannel
<1>8. CASE SetChannelCrew(p)
  BY <1>8 DEF Typed, TypeOK, HasLocals, Spared, SetChannelCrew
<1>9. CASE RecordLedgerSession(p)
  BY <1>9 DEF Typed, TypeOK, HasLocals, Spared, RecordLedgerSession
<1>10. CASE JoinPresence(p)
  BY <1>10 DEF Typed, TypeOK, HasLocals, Spared, JoinPresence
<1>11. CASE IssueToken(p)
  BY <1>11 DEF Typed, TypeOK, HasLocals, Spared, IssueToken, KeepRegion, RoomRegion
<1>12. CASE RememberGuestSession(p)
  BY <1>12 DEF Typed, TypeOK, HasLocals, Spared, RememberGuestSession
<1> QED
  BY <1>1, <1>2, <1>3, <1>4, <1>5, <1>6, <1>7, <1>8, <1>9, <1>10, <1>11, <1>12 DEF Join

LEMMA LeaveSpares ==
  ASSUME Typed, NEW p \in Procs, NEW u \in Users, user[p] # u, user'[p] # u, Leave(p)
  PROVE  Spared(p, u)
<1>1. CASE Unmap(p)
  BY <1>1 DEF Typed, TypeOK, HasLocals, Spared, Unmap
<1>2. CASE OrphanFound(p)
  BY <1>2 DEF Typed, TypeOK, HasLocals, Spared, OrphanFound
<1>3. CASE NotInVoice(p)
  BY <1>3 DEF Typed, TypeOK, HasLocals, Spared, NotInVoice
<1>4. CASE RemoveMember(p)
  BY <1>4 DEF Typed, TypeOK, HasLocals, Spared, RemoveMember
<1>5. CASE ReadStats(p)
  BY <1>5 DEF Typed, TypeOK, HasLocals, Spared, ReadStats
<1>6. CASE CloseSession(p)
  BY <1>6 DEF Typed, TypeOK, HasLocals, Spared, CloseSession
<1>7. CASE LeavePresence(p)
  BY <1>7 DEF Typed, TypeOK, HasLocals, Spared, LeavePresence
<1> QED
  BY <1>1, <1>2, <1>3, <1>4, <1>5, <1>6, <1>7 DEF Leave

LEMMA ExitSpares ==
  ASSUME Typed, NEW p \in Procs, NEW u \in Users, user[p] # u, user'[p] # u, Exit(p)
  PROVE  Spared(p, u)
<1>1. CASE EvictNext(p)
  BY <1>1 DEF Typed, TypeOK, HasLocals, Spared, EvictNext
<1>2. CASE ReadMapOnExit(p)
  BY <1>2 DEF Typed, TypeOK, HasLocals, Spared, ReadMapOnExit
<1>3. CASE ReadCrewOnExit(p)
  BY <1>3 DEF Typed, TypeOK, HasLocals, Spared, ReadCrewOnExit
<1>4. CASE ForgetGuestSession(p)
  BY <1>4 DEF Typed, TypeOK, HasLocals, Spared, ForgetGuestSession
<1>5. CASE Return(p)
  BY <1>5 DEF Typed, TypeOK, HasLocals, Spared, Return
<1> QED
  BY <1>1, <1>2, <1>3, <1>4, <1>5 DEF Exit

(* A step of p keeps the invariant of the user p works for.                *)
LEMMA BeginActor ==
  ASSUME Typed, NEW p \in Procs, NEW u \in Users, u = user[p] \/ u = user'[p],
         u \notin raced', UserInv(u), Begin(p)
  PROVE  UserInv(u)'
<1>1. CASE \E w \in Users, ch \in Channels, c \in Crews : VoiceJoinRPC(p, w, ch, c)
  BY <1>1 DEF Typed, TypeOK, HasLocals, UserInv, Quiet, AtRest, Recorded, SitsExactly, Underway, HeldRoom, Mapped, Unmapped, VoiceJoinRPC
<1>2. CASE \E w \in Users, ch \in Channels, c \in Crews : GuestVoiceJoinRPC(p, w, ch, c)
  BY <1>2 DEF Typed, TypeOK, HasLocals, UserInv, Quiet, AtRest, Recorded, SitsExactly, Underway, HeldRoom, Mapped, Unmapped, GuestVoiceJoinRPC
<1>3. CASE \E w \in Users : VoiceLeaveRPC(p, w)
  BY <1>3 DEF Typed, TypeOK, HasLocals, UserInv, Quiet, AtRest, Recorded, SitsExactly, Underway, HeldRoom, Mapped, Unmapped, VoiceLeaveRPC
<1>4. CASE \E w \in Users, c \in Crews : CrewExit(p, w, c)
  BY <1>4 DEF Typed, TypeOK, HasLocals, UserInv, Quiet, AtRest, Recorded, SitsExactly, Underway, HeldRoom, Mapped, Unmapped, CrewExit
<1>5. CASE \E ch \in Channels : VoiceEvictChannel(p, ch)
  BY <1>5 DEF Typed, TypeOK, HasLocals, UserInv, Quiet, AtRest, Recorded, SitsExactly, Underway, HeldRoom, Mapped, Unmapped, VoiceEvictChannel
<1> QED
  BY <1>1, <1>2, <1>3, <1>4, <1>5 DEF Begin

LEMMA JoinActor ==
  ASSUME Typed, NEW p \in Procs, NEW u \in Users, u = user[p] \/ u = user'[p],
         u \notin raced', UserInv(u), Join(p)
  PROVE  UserInv(u)'
<1>1. CASE GuestCap(p)
  BY <1>1 DEF Typed, TypeOK, HasLocals, UserInv, Quiet, AtRest, Recorded, SitsExactly, Underway, HeldRoom, Mapped, Unmapped, GuestCap
<1>2. CASE CheckCapacity(p)
  BY <1>2 DEF Typed, TypeOK, HasLocals, UserInv, Quiet, AtRest, Recorded, SitsExactly, Underway, HeldRoom, Mapped, Unmapped, CheckCapacity
<1>3. CASE SameChannelRejoin(p)
  BY <1>3 DEF Typed, TypeOK, HasLocals, UserInv, Quiet, AtRest, Recorded, SitsExactly, Underway, HeldRoom, Mapped, Unmapped, SameChannelRejoin
<1>4. CASE UpsertVoiceMember(p)
  BY <1>4 DEF Typed, TypeOK, HasLocals, UserInv, Quiet, AtRest, Recorded, SitsExactly, Underway, HeldRoom, Mapped, Unmapped, UpsertVoiceMember, AddMember
<1>5. CASE UpsertCrew(p)
  BY <1>5 DEF Typed, TypeOK, HasLocals, UserInv, Quiet, AtRest, Recorded, SitsExactly, Underway, HeldRoom, Mapped, Unmapped, UpsertCrew
<1>6. CASE Seat(p)
  BY <1>6 DEF Typed, TypeOK, HasLocals, UserInv, Quiet, AtRest, Recorded, SitsExactly, Underway, HeldRoom, Mapped, Unmapped, Seat, AddMember
<1>7. CASE SetUserChannel(p)
  BY <1>7 DEF Typed, TypeOK, HasLocals, UserInv, Quiet, AtRest, Recorded, SitsExactly, Underway, HeldRoom, Mapped, Unmapped, SetUserChannel
<1>8. CASE SetChannelCrew(p)
  BY <1>8 DEF Typed, TypeOK, HasLocals, UserInv, Quiet, AtRest, Recorded, SitsExactly, Underway, HeldRoom, Mapped, Unmapped, SetChannelCrew
<1>9. CASE RecordLedgerSession(p)
  BY <1>9 DEF Typed, TypeOK, HasLocals, UserInv, Quiet, AtRest, Recorded, SitsExactly, Underway, HeldRoom, Mapped, Unmapped, RecordLedgerSession
<1>10. CASE JoinPresence(p)
  BY <1>10 DEF Typed, TypeOK, HasLocals, UserInv, Quiet, AtRest, Recorded, SitsExactly, Underway, HeldRoom, Mapped, Unmapped, JoinPresence
<1>11. CASE IssueToken(p)
  BY <1>11 DEF Typed, TypeOK, HasLocals, UserInv, Quiet, AtRest, Recorded, SitsExactly, Underway, HeldRoom, Mapped, Unmapped, IssueToken, KeepRegion, RoomRegion
<1>12. CASE RememberGuestSession(p)
  BY <1>12 DEF Typed, TypeOK, HasLocals, UserInv, Quiet, AtRest, Recorded, SitsExactly, Underway, HeldRoom, Mapped, Unmapped, RememberGuestSession
<1> QED
  BY <1>1, <1>2, <1>3, <1>4, <1>5, <1>6, <1>7, <1>8, <1>9, <1>10, <1>11, <1>12 DEF Join

LEMMA LeaveActor ==
  ASSUME Typed, NEW p \in Procs, NEW u \in Users, u = user[p] \/ u = user'[p],
         u \notin raced', UserInv(u), Leave(p)
  PROVE  UserInv(u)'
<1>1. CASE Unmap(p)
  BY <1>1 DEF Typed, TypeOK, HasLocals, UserInv, Quiet, AtRest, Recorded, SitsExactly, Underway, HeldRoom, Mapped, Unmapped, Unmap
<1>2. CASE OrphanFound(p)
  BY <1>2 DEF Typed, TypeOK, HasLocals, UserInv, Quiet, AtRest, Recorded, SitsExactly, Underway, HeldRoom, Mapped, Unmapped, OrphanFound
<1>3. CASE NotInVoice(p)
  BY <1>3 DEF Typed, TypeOK, HasLocals, UserInv, Quiet, AtRest, Recorded, SitsExactly, Underway, HeldRoom, Mapped, Unmapped, NotInVoice
<1>4. CASE RemoveMember(p)
  BY <1>4 DEF Typed, TypeOK, HasLocals, UserInv, Quiet, AtRest, Recorded, SitsExactly, Underway, HeldRoom, Mapped, Unmapped, RemoveMember
<1>5. CASE ReadStats(p)
  BY <1>5 DEF Typed, TypeOK, HasLocals, UserInv, Quiet, AtRest, Recorded, SitsExactly, Underway, HeldRoom, Mapped, Unmapped, ReadStats
<1>6. CASE CloseSession(p)
  BY <1>6 DEF Typed, TypeOK, HasLocals, UserInv, Quiet, AtRest, Recorded, SitsExactly, Underway, HeldRoom, Mapped, Unmapped, CloseSession
<1>7. CASE LeavePresence(p)
  BY <1>7 DEF Typed, TypeOK, HasLocals, UserInv, Quiet, AtRest, Recorded, SitsExactly, Underway, HeldRoom, Mapped, Unmapped, LeavePresence
<1> QED
  BY <1>1, <1>2, <1>3, <1>4, <1>5, <1>6, <1>7 DEF Leave

LEMMA ExitActor ==
  ASSUME Typed, NEW p \in Procs, NEW u \in Users, u = user[p] \/ u = user'[p],
         u \notin raced', UserInv(u), Exit(p)
  PROVE  UserInv(u)'
<1>1. CASE EvictNext(p)
  BY <1>1 DEF Typed, TypeOK, HasLocals, UserInv, Quiet, AtRest, Recorded, SitsExactly, Underway, HeldRoom, Mapped, Unmapped, EvictNext
<1>2. CASE ReadMapOnExit(p)
  BY <1>2 DEF Typed, TypeOK, HasLocals, UserInv, Quiet, AtRest, Recorded, SitsExactly, Underway, HeldRoom, Mapped, Unmapped, ReadMapOnExit
<1>3. CASE ReadCrewOnExit(p)
  BY <1>3 DEF Typed, TypeOK, HasLocals, UserInv, Quiet, AtRest, Recorded, SitsExactly, Underway, HeldRoom, Mapped, Unmapped, ReadCrewOnExit
<1>4. CASE ForgetGuestSession(p)
  BY <1>4 DEF Typed, TypeOK, HasLocals, UserInv, Quiet, AtRest, Recorded, SitsExactly, Underway, HeldRoom, Mapped, Unmapped, ForgetGuestSession
<1>5. CASE Return(p)
  BY <1>5 DEF Typed, TypeOK, HasLocals, UserInv, Quiet, AtRest, Recorded, SitsExactly, Underway, HeldRoom, Mapped, Unmapped, Return
<1> QED
  BY <1>1, <1>2, <1>3, <1>4, <1>5 DEF Exit

(* Nobody is seated at the start, so the inductive invariant holds.        *)
LEMMA InitInv == Init => IInv
<1> SUFFICES ASSUME Init PROVE IInv
  OBVIOUS
<1>1. Typed
  BY InitTyped
<1>2. \A u \in Users : UserInv(u)
  BY DEF Init, UserInv, Quiet, AtRest, Recorded, SitsExactly
<1>3. OccupiedRoomHasCrew
  BY DEF Init, OccupiedRoomHasCrew
<1> QED
  BY <1>1, <1>2, <1>3 DEF Typed, IInv

(* A step of one handler moves its own user along Underway and spares every *)
(* other user that is not raced.                                           *)
LEMMA NextInv ==
  ASSUME IInv, [Next]_vars
  PROVE  IInv'
<1>1. Typed /\ Typed'
  BY NextTyped DEF Typed, IInv
<1>2. OccupiedRoomHasCrew'
  <2>1. ASSUME NEW p \in Procs, Begin(p) \/ Join(p) \/ Leave(p) \/ Exit(p)
        PROVE  OccupiedRoomHasCrew'
    BY <1>1, <2>1, BeginCrew, JoinCrew, LeaveCrew, ExitCrew DEF IInv
  <2>2. ASSUME NEW u \in Users, NEW c \in Crews, CrewEnter(u, c)
        PROVE  OccupiedRoomHasCrew'
    BY <2>2 DEF IInv, OccupiedRoomHasCrew, AboutToSetCrew, CrewEnter
  <2>3. CASE UNCHANGED vars
    BY <2>3 DEF IInv, OccupiedRoomHasCrew, AboutToSetCrew, vars
  <2> QED
    BY <2>1, <2>2, <2>3 DEF Next
<1>3. ASSUME NEW u \in Users, u \notin raced'
      PROVE  UserInv(u)'
  <2>1. ASSUME NEW p \in Procs, Begin(p) \/ Join(p) \/ Leave(p) \/ Exit(p)
        PROVE  UserInv(u)'
    <3>1. u \notin raced
      BY <1>3, <2>1 DEF Begin, Join, Leave, Exit, VoiceJoinRPC, GuestVoiceJoinRPC, VoiceLeaveRPC,
        CrewExit, VoiceEvictChannel, GuestCap, CheckCapacity, SameChannelRejoin, UpsertVoiceMember,
        UpsertCrew, Seat, SetUserChannel, SetChannelCrew, RecordLedgerSession, JoinPresence, IssueToken,
        RememberGuestSession, Unmap, OrphanFound, NotInVoice, RemoveMember, ReadStats, CloseSession,
        LeavePresence, EvictNext, ReadMapOnExit, ReadCrewOnExit, ForgetGuestSession, Return
    <3>2. UserInv(u)
      BY <3>1 DEF IInv
    <3>3. CASE u = user[p] \/ u = user'[p]
      BY <1>1, <1>3, <2>1, <3>2, <3>3, BeginActor, JoinActor, LeaveActor, ExitActor
    <3>4. CASE user[p] # u /\ user'[p] # u
      BY <1>1, <2>1, <3>2, <3>4, BeginSpares, JoinSpares, LeaveSpares, ExitSpares, SparedKeepsUserInv
    <3> QED
      BY <3>3, <3>4
  <2>2. ASSUME NEW v \in Users, NEW c \in Crews, CrewEnter(v, c)
        PROVE  UserInv(u)'
    BY <1>3, <2>2 DEF IInv, CrewEnter, UserInv, Quiet, AtRest, Recorded, SitsExactly, Underway, HeldRoom
  <2>3. CASE UNCHANGED vars
    BY <1>3, <2>3 DEF vars, IInv, UserInv, Quiet, AtRest, Recorded, SitsExactly, Underway, HeldRoom
  <2> QED
    BY <2>1, <2>2, <2>3 DEF Next
<1> QED
  BY <1>1, <1>2, <1>3 DEF Typed, IInv

(* The inductive invariant: between any two critical sections of any handlers *)
(* an unraced user sits exactly in the room its handler's label names.     *)
THEOREM Invariance == Spec => []IInv
<1>1. Init => IInv
  BY InitInv
<1>2. IInv /\ [Next]_vars => IInv'
  BY NextInv
<1> QED
  BY <1>1, <1>2, PTL DEF Spec

(* An occupied room always has a crew entry or a handler about to set it,    *)
(* however the handlers interleave.                                        *)
THEOREM RoomsHaveCrews == Spec => []OccupiedRoomHasCrew
<1>1. IInv => OccupiedRoomHasCrew
  BY DEF IInv
<1> QED
  BY <1>1, Invariance, PTL

(* A settled user is at rest: its room, map, presence, token and guest       *)
(* session agree.                                                          *)
LEMMA RestingUsers ==
  ASSUME IInv, NEW u \in Users, Settled(u)
  PROVE  AtRest(u)
  BY DEF IInv, Settled, UserInv

(* The reverse map and the rooms agree on every user whose handlers never    *)
(* overlapped.                                                             *)
THEOREM SeatsAgree == Spec => []SeatAgrees
<1>1. ASSUME IInv PROVE SeatAgrees
  <2> SUFFICES ASSUME NEW u \in Users, Settled(u)
               PROVE  RoomsOf(u) = MappedTo(u)
    BY DEF SeatAgrees
  <2>1. AtRest(u) /\ userChannel[u] \in Channels \cup {NoChannel}
    BY <1>1, RestingUsers DEF IInv, TypeOK
  <2> QED
    BY <2>1 DEF AtRest, SitsExactly, RoomsOf, MappedTo
<1> QED
  BY <1>1, Invariance, PTL

(* So does the stored presence.                                            *)
THEOREM PresencesAgree == Spec => []PresenceAgrees
<1>1. ASSUME IInv PROVE PresenceAgrees
  BY <1>1, RestingUsers DEF PresenceAgrees, AtRest
<1> QED
  BY <1>1, Invariance, PTL

(* Two settled members of a room were sent to the same SFU region.         *)
THEOREM SameRegion == Spec => []SameSFU
<1>1. ASSUME IInv PROVE SameSFU
  <2> SUFFICES ASSUME NEW u \in Users, NEW ch \in Channels, Settled(u), u \in rooms[ch]
               PROVE  token[u] = region[ch]
    BY DEF SameSFU
  <2>1. AtRest(u)
    BY <1>1, RestingUsers
  <2> QED
    BY <2>1 DEF AtRest, SitsExactly, Recorded
<1> QED
  BY <1>1, Invariance, PTL

(* A settled guest who sits in a channel has a session the TTL can end.    *)
THEOREM GuestsExpire == Spec => []SeatedGuestExpires
<1>1. ASSUME IInv PROVE SeatedGuestExpires
  <2> SUFFICES ASSUME NEW u \in Guests, NEW ch \in Channels, Settled(u), u \in rooms[ch]
               PROVE  guestSession[u] = ch
    BY DEF SeatedGuestExpires
  <2>1. AtRest(u)
    BY <1>1, RestingUsers
  <2> QED
    BY <2>1 DEF AtRest, SitsExactly, Recorded
<1> QED
  BY <1>1, Invariance, PTL

(* The join that could not get a token has undone its seat.                *)
THEOREM FailedJoinUndone == Spec => []FailedJoinSeatsNobody
<1>1. ASSUME IInv PROVE FailedJoinSeatsNobody
  <2> SUFFICES ASSUME NEW p \in Procs, pc[p] = "failed", user[p] \notin raced
               PROVE  RoomsOf(user[p]) = {}
    BY DEF FailedJoinSeatsNobody
  <2>1. user[p] \in Users /\ Underway(p)
    BY <1>1 DEF IInv, HasLocals, UserInv
  <2> QED
    BY <2>1 DEF Underway, Unmapped, HeldRoom, SitsExactly, RoomsOf
<1> QED
  BY <1>1, Invariance, PTL

-----------------------------------------------------------------------------
(* No ledger session runs on in an empty channel                           *)

(* The session of a channel only grows by a member who sits in it, and the   *)
(* leave that empties a room is about to close the room's session.         *)
LEMMA NextSession ==
  ASSUME IInv, OpenSessionIsOccupied, [Next]_vars
  PROVE  OpenSessionIsOccupied'
<1> USE DEF IInv, TypeOK, HasLocals
<1> SUFFICES ASSUME raced' = {}, NEW ch \in Channels, session'[ch] # {}
             PROVE  rooms'[ch] # {} \/ \E q \in Procs : AboutToClose(q, ch)'
  BY DEF OpenSessionIsOccupied
<1>1. ASSUME NEW p \in Procs, Begin(p)
      PROVE  rooms'[ch] # {} \/ \E q \in Procs : AboutToClose(q, ch)'
  <2>1. rooms' = rooms /\ session' = session /\ from' = from /\ last' = last /\ raced = {}
    BY <1>1 DEF Begin, VoiceJoinRPC, GuestVoiceJoinRPC, VoiceLeaveRPC, CrewExit, VoiceEvictChannel
  <2>2. \A q \in Procs : pc[q] # "idle" => pc'[q] = pc[q]
    BY <1>1 DEF Begin, VoiceJoinRPC, GuestVoiceJoinRPC, VoiceLeaveRPC, CrewExit, VoiceEvictChannel
  <2>3. \A q \in Procs : AboutToClose(q, ch) => AboutToClose(q, ch)'
    BY <2>1, <2>2 DEF AboutToClose
  <2> QED
    BY <2>1, <2>3 DEF OpenSessionIsOccupied
<1>2. ASSUME NEW p \in Procs, Join(p)
      PROVE  rooms'[ch] # {} \/ \E q \in Procs : AboutToClose(q, ch)'
  <2>1. /\ raced = {} /\ from' = from /\ last' = last
        /\ pc[p] \notin {"stats", "close"}
        /\ \A q \in Procs \ {p} : pc'[q] = pc[q]
    BY <1>2 DEF Join, GuestCap, CheckCapacity, SameChannelRejoin, UpsertVoiceMember, UpsertCrew, Seat,
      SetUserChannel, SetChannelCrew, RecordLedgerSession, JoinPresence, IssueToken, RememberGuestSession
  <2>2. rooms[ch] # {} => rooms'[ch] # {}
    <3>1. rooms' = rooms \/ AddMember(p)
      BY <1>2 DEF Join, GuestCap, CheckCapacity, SameChannelRejoin, UpsertVoiceMember, UpsertCrew, Seat,
        SetUserChannel, SetChannelCrew, RecordLedgerSession, JoinPresence, IssueToken,
        RememberGuestSession
    <3> QED
      BY <3>1 DEF AddMember
  <2>3. CASE session' = session
    BY <2>1, <2>2, <2>3 DEF OpenSessionIsOccupied, AboutToClose
  <2>4. CASE RecordLedgerSession(p)
    <3>1. CASE ch = chan[p]
      <4>1. Underway(p)
        BY <2>1, <2>4 DEF UserInv, RecordLedgerSession
      <4>2. user[p] \in rooms[ch]
        BY <2>4, <3>1, <4>1 DEF RecordLedgerSession, Underway, Mapped, HeldRoom, SitsExactly
      <4> QED
        BY <2>2, <4>2
    <3>2. CASE ch # chan[p]
      BY <2>1, <2>2, <2>4, <3>2 DEF RecordLedgerSession, OpenSessionIsOccupied, AboutToClose
    <3> QED
      BY <3>1, <3>2
  <2>5. session' = session \/ RecordLedgerSession(p)
    BY <1>2 DEF Join, GuestCap, CheckCapacity, SameChannelRejoin, UpsertVoiceMember, UpsertCrew, Seat,
      SetUserChannel, SetChannelCrew, JoinPresence, IssueToken, RememberGuestSession
  <2> QED
    BY <2>3, <2>4, <2>5
<1>3. ASSUME NEW p \in Procs, Leave(p)
      PROVE  rooms'[ch] # {} \/ \E q \in Procs : AboutToClose(q, ch)'
  <2>1. raced = {} /\ (rooms[ch] # {} \/ \E q \in Procs : AboutToClose(q, ch) \/ session[ch] = {})
    BY <1>3 DEF Leave, Unmap, OrphanFound, NotInVoice, RemoveMember, ReadStats, CloseSession,
      LeavePresence, OpenSessionIsOccupied
  <2>2. CASE Unmap(p) \/ OrphanFound(p) \/ NotInVoice(p)
    BY <2>1, <2>2 DEF Unmap, OrphanFound, NotInVoice, AboutToClose
  <2>3. CASE RemoveMember(p)
    <3>1. CASE rooms[ch] # {} /\ rooms'[ch] = {}
      BY <2>3, <3>1 DEF RemoveMember, AboutToClose
    <3>2. CASE rooms[ch] = {}
      <4>1. PICK q \in Procs : AboutToClose(q, ch)
        BY <2>1, <2>3, <3>2 DEF RemoveMember
      <4> QED
        BY <2>3, <4>1 DEF RemoveMember, AboutToClose
    <3> QED
      BY <3>1, <3>2
  <2>4. CASE ReadStats(p)
    BY <2>1, <2>4 DEF ReadStats, AboutToClose
  <2>5. CASE CloseSession(p)
    <3>1. ch # from[p]
      BY <2>5 DEF CloseSession
    <3> QED
      BY <2>1, <2>5, <3>1 DEF CloseSession, AboutToClose
  <2>6. CASE LeavePresence(p)
    BY <2>1, <2>6 DEF LeavePresence, AboutToClose
  <2> QED
    BY <1>3, <2>2, <2>3, <2>4, <2>5, <2>6 DEF Leave
<1>4. ASSUME NEW p \in Procs, Exit(p)
      PROVE  rooms'[ch] # {} \/ \E q \in Procs : AboutToClose(q, ch)'
  <2>1. /\ rooms' = rooms /\ session' = session /\ from' = from /\ last' = last /\ raced = {}
        /\ pc[p] \notin {"stats", "close"}
        /\ \A q \in Procs \ {p} : pc'[q] = pc[q]
    BY <1>4 DEF Exit, EvictNext, ReadMapOnExit, ReadCrewOnExit, ForgetGuestSession, Return
  <2> QED
    BY <2>1 DEF OpenSessionIsOccupied, AboutToClose
<1>5. ASSUME NEW u \in Users, NEW c \in Crews, CrewEnter(u, c)
      PROVE  rooms'[ch] # {} \/ \E q \in Procs : AboutToClose(q, ch)'
  BY <1>5 DEF CrewEnter, OpenSessionIsOccupied, AboutToClose
<1>6. CASE UNCHANGED vars
  BY <1>6 DEF vars, OpenSessionIsOccupied, AboutToClose
<1> QED
  BY <1>1, <1>2, <1>3, <1>4, <1>5, <1>6 DEF Next

(* While no two handlers work for one user, an open voice session belongs to *)
(* an occupied room or is about to be closed.                              *)
THEOREM SessionsAreOccupied == Spec => []OpenSessionIsOccupied
<1>1. Init => OpenSessionIsOccupied
  BY DEF Init, OpenSessionIsOccupied
<1>2. IInv /\ OpenSessionIsOccupied /\ [Next]_vars => OpenSessionIsOccupied'
  BY NextSession
<1> QED
  BY <1>1, <1>2, Invariance, PTL DEF Spec

-----------------------------------------------------------------------------
(* The rooms implement the abstract roster                                 *)

LEMMA SeatInOne ==
  ASSUME NEW r, NEW u, NEW c \in Channels \cup {NoChannel},
         \A ch \in Channels : u \in r[ch] <=> ch = c
  PROVE  SeatIn(r, u) = c
<1>1. CASE c = NoChannel
  BY <1>1 DEF SeatIn
<1>2. CASE c \in Channels
  <2>1. \A ch \in Channels : u \in r[ch] => ch = c
    OBVIOUS
  <2>2. u \in r[c]
    BY <1>2
  <2> QED
    BY <1>2, <2>1, <2>2 DEF SeatIn
<1> QED
  BY <1>1, <1>2

(* An unraced user has one seat or none, at rest or not.                   *)
LEMMA UnracedSeat ==
  ASSUME IInv, NEW u \in Users \ raced
  PROVE  \E c \in Channels \cup {NoChannel} : SitsExactly(u, c)
<1>1. CASE Quiet(u)
  BY <1>1 DEF IInv, TypeOK, UserInv, AtRest
<1>2. CASE ~Quiet(u)
  <2>1. PICK p \in Procs : user[p] = u
    BY <1>2 DEF Quiet
  <2>2. Underway(p)
    BY <2>1 DEF IInv, UserInv
  <2>3. HeldRoom(p) \in Channels \cup {NoChannel}
    BY <2>1 DEF IInv, TypeOK, HasLocals, HeldRoom
  <2> QED
    BY <2>1, <2>2, <2>3 DEF Underway
<1> QED
  BY <1>1, <1>2

(* When only w's membership changes, only w's seat does.                   *)
LEMMA OneMoves ==
  ASSUME IInv, NEW w \in Users, raced' = raced,
         \A u \in Users \ {w} : \A ch \in Channels : u \in rooms'[ch] <=> u \in rooms[ch]
  PROVE  \A u \in Users \ {w} : RosterSeat'[u] = RosterSeat[u]
<1> SUFFICES ASSUME NEW u \in Users \ {w}
             PROVE  RosterSeat'[u] = RosterSeat[u]
  OBVIOUS
<1>1. CASE u \in raced
  BY <1>1 DEF RosterSeat
<1>2. CASE u \notin raced
  <2>1. PICK c \in Channels \cup {NoChannel} : SitsExactly(u, c)
    BY <1>2, UnracedSeat
  <2>2. SeatIn(rooms, u) = c
    BY <2>1, SeatInOne DEF SitsExactly
  <2>3. SeatIn(rooms', u) = c
    BY <2>1, SeatInOne DEF SitsExactly
  <2> QED
    BY <1>2, <2>2, <2>3 DEF RosterSeat
<1> QED
  BY <1>1, <1>2

LEMMA SeatUpdate ==
  ASSUME NEW w \in Users, NEW c, RosterSeat'[w] = c,
         \A u \in Users \ {w} : RosterSeat'[u] = RosterSeat[u]
  PROVE  RosterSeat' = [RosterSeat EXCEPT ![w] = c]
<1> DEFINE old == RosterSeat
           new == RosterSeat'
<1>1. old = [u \in Users |-> old[u]] /\ new = [u \in Users |-> new[u]]
  BY DEF RosterSeat
<1> HIDE DEF old, new
<1>2. new[w] = c /\ \A u \in Users \ {w} : new[u] = old[u]
  BY DEF old, new
<1>3. new = [old EXCEPT ![w] = c]
  BY <1>1, <1>2
<1> QED
  BY <1>3 DEF old, new

LEMMA NextRoster ==
  ASSUME IInv, [Next]_vars
  PROVE  [Roster!Next]_RosterSeat
<1> USE DEF IInv, TypeOK, HasLocals
<1>1. CASE rooms' = rooms /\ raced' = raced
  BY <1>1 DEF RosterSeat
<1>2. ASSUME NEW u \in Users, rooms' = rooms, raced' = raced \cup {u}
      PROVE  Roster!Lose(u)
  BY <1>2 DEF RosterSeat, Roster!Lose
<1>3. ASSUME NEW p \in Procs, UpsertVoiceMember(p)
      PROVE  UNCHANGED RosterSeat
  <2>1. CASE user[p] \in raced
    <3>1. \A u \in Users \ {user[p]} : RosterSeat'[u] = RosterSeat[u]
      BY <1>3, OneMoves DEF UpsertVoiceMember, AddMember
    <3> QED
      BY <1>3, <2>1, <3>1 DEF RosterSeat, UpsertVoiceMember
  <2>2. CASE user[p] \notin raced
    <3>1. Underway(p)
      BY <1>3, <2>2 DEF UserInv, UpsertVoiceMember
    <3>2. user[p] \in rooms[chan[p]]
      BY <1>3, <3>1 DEF UpsertVoiceMember, Underway, HeldRoom, Mapped, SitsExactly
    <3>3. rooms' = rooms
      BY <1>3, <3>2 DEF UpsertVoiceMember, AddMember
    <3> QED
      BY <1>3, <3>3 DEF UpsertVoiceMember, RosterSeat
  <2> QED
    BY <2>1, <2>2
<1>4. ASSUME NEW p \in Procs, Seat(p)
      PROVE  [Roster!Next]_RosterSeat
  <2>1. \A u \in Users \ {user[p]} : RosterSeat'[u] = RosterSeat[u]
    BY <1>4, OneMoves DEF Seat, AddMember
  <2>2. CASE user[p] \in raced
    BY <1>4, <2>1, <2>2 DEF RosterSeat, Seat
  <2>3. CASE user[p] \notin raced
    <3>1. Underway(p) /\ chan[p] \in Channels /\ user[p] \in Users
      BY <1>4, <2>3 DEF UserInv, Seat
    <3>2. RosterSeat[user[p]] = NoChannel
      BY <1>4, <2>3, <3>1, SeatInOne DEF Seat, Underway, HeldRoom, Unmapped, SitsExactly, RosterSeat
    <3>3. \A ch \in Channels : user[p] \in rooms'[ch] <=> ch = chan[p]
      BY <1>4, <3>1 DEF Seat, AddMember, Underway, HeldRoom, Unmapped, SitsExactly
    <3>4. RosterSeat'[user[p]] = chan[p]
      BY <1>4, <2>3, <3>1, <3>3, SeatInOne DEF Seat, RosterSeat
    <3>5. Roster!Enter(user[p], chan[p])
      BY <2>1, <3>1, <3>2, <3>4, SeatUpdate DEF Roster!Enter
    <3> QED
      BY <3>1, <3>5 DEF Roster!Next
  <2> QED
    BY <2>2, <2>3
<1>5. ASSUME NEW p \in Procs, RemoveMember(p)
      PROVE  [Roster!Next]_RosterSeat
  <2>1. \A u \in Users \ {user[p]} : RosterSeat'[u] = RosterSeat[u]
    BY <1>5, OneMoves DEF RemoveMember
  <2>2. CASE user[p] \in raced
    <3>1. user[p] \in Users /\ raced' = raced
      BY <1>5 DEF RemoveMember
    <3>2. RosterSeat'[user[p]] = RosterSeat[user[p]]
      BY <2>2, <3>1 DEF RosterSeat
    <3>3. \A u \in Users : RosterSeat'[u] = RosterSeat[u]
      BY <2>1, <3>2
    <3> QED
      BY <3>3 DEF RosterSeat
  <2>3. CASE user[p] \notin raced
    <3>1. Underway(p) /\ from[p] \in Channels /\ user[p] \in Users
      BY <1>5, <2>3 DEF UserInv, RemoveMember
    <3>2. RosterSeat[user[p]] = from[p]
      BY <1>5, <2>3, <3>1, SeatInOne DEF RemoveMember, Underway, HeldRoom, SitsExactly, RosterSeat
    <3>3. \A ch \in Channels : user[p] \in rooms'[ch] <=> ch = NoChannel
      BY <1>5, <3>1 DEF RemoveMember, Underway, HeldRoom, SitsExactly
    <3>4. SeatIn(rooms', user[p]) = NoChannel
      BY <3>3, SeatInOne
    <3>5. RosterSeat'[user[p]] = NoChannel
      BY <1>5, <2>3, <3>1, <3>4 DEF RemoveMember, RosterSeat
    <3>6. Roster!Quit(user[p])
      BY <2>1, <3>1, <3>2, <3>5, SeatUpdate DEF Roster!Quit
    <3> QED
      BY <3>1, <3>6 DEF Roster!Next
  <2> QED
    BY <2>2, <2>3
<1>6. ASSUME NEW p \in Procs, Begin(p)
      PROVE  [Roster!Next]_RosterSeat
  <2>1. rooms' = rooms /\ (raced' = raced \/ \E u \in Users : raced' = raced \cup {u})
    BY <1>6 DEF Begin, VoiceJoinRPC, GuestVoiceJoinRPC, VoiceLeaveRPC, CrewExit, VoiceEvictChannel
  <2> QED
    BY <1>1, <1>2, <2>1 DEF Roster!Next
<1>7. ASSUME NEW p \in Procs, Join(p)
      PROVE  [Roster!Next]_RosterSeat
  <2>1. (rooms' = rooms /\ raced' = raced) \/ UpsertVoiceMember(p) \/ Seat(p)
    BY <1>7 DEF Join, GuestCap, CheckCapacity, SameChannelRejoin, UpsertCrew, SetUserChannel, SetChannelCrew,
      RecordLedgerSession, JoinPresence, IssueToken, RememberGuestSession
  <2> QED
    BY <1>1, <1>3, <1>4, <2>1
<1>8. ASSUME NEW p \in Procs, Leave(p)
      PROVE  [Roster!Next]_RosterSeat
  <2>1. (rooms' = rooms /\ raced' = raced) \/ RemoveMember(p)
    BY <1>8 DEF Leave, Unmap, OrphanFound, NotInVoice, ReadStats, CloseSession, LeavePresence
  <2> QED
    BY <1>1, <1>5, <2>1
<1>9. ASSUME NEW p \in Procs, Exit(p)
      PROVE  [Roster!Next]_RosterSeat
  <2>1. rooms' = rooms /\ (raced' = raced \/ \E u \in Users : raced' = raced \cup {u})
    BY <1>9 DEF Exit, EvictNext, ReadMapOnExit, ReadCrewOnExit, ForgetGuestSession, Return
  <2> QED
    BY <1>1, <1>2, <2>1 DEF Roster!Next
<1>10. ASSUME NEW u \in Users, NEW c \in Crews, CrewEnter(u, c)
       PROVE  rooms' = rooms /\ raced' = raced
  BY <1>10 DEF CrewEnter
<1>11. CASE UNCHANGED vars
  BY <1>1, <1>11 DEF vars
<1> QED
  BY <1>1, <1>6, <1>7, <1>8, <1>9, <1>10, <1>11 DEF Next

(* Every behaviour of the rooms is a behaviour of the roster the crew is     *)
(* promised, for every number of users, channels and concurrent handlers.  *)
THEOREM RoomsImplementRoster == Spec => ImplementsRoster
<1>1. Init => Roster!Init
  <2> SUFFICES ASSUME Init PROVE Roster!Init
    OBVIOUS
  <2>1. \A u \in Users : SeatIn(rooms, u) = NoChannel
    BY DEF Init, SeatIn
  <2> QED
    BY <2>1 DEF Init, Roster!Init, RosterSeat
<1>2. IInv /\ [Next]_vars => [Roster!Next]_RosterSeat
  BY NextRoster
<1> QED
  BY <1>1, <1>2, Invariance, PTL DEF Spec, ImplementsRoster, Roster!Spec

-----------------------------------------------------------------------------
(* Nobody sits outside the crew                                            *)

(* A handler that may still seat its user or name the room's crew knows the   *)
(* user to be a member of that crew.                                         *)
Admits(p) ==
  \/ pc[p] \in {"capacity", "rejoin", "upsertRoom", "upsertCrew", "seat", "setMap", "setCrew"}
  \/ pc[p] \in LeaveLabels /\ ret[p] = "seat"

(* A handler that is sure to take its user out of ch.                        *)
Removes(p, ch) ==
  \/ pc[p] \in {"unmap", "orphan", "remove"}
  \/ pc[p] = "exitMap" /\ crew[p] = channelCrew[ch]
  \/ pc[p] = "exitCrew" /\ crew[p] = channelCrew[ch] /\ chan[p] = ch

Belongs(u, ch) == \E c \in Crews : channelCrew[ch] = c /\ u \in crewMembers[c]

(* Who sits in a room is a member of the crew the room is entered for, or its *)
(* handler is about to take it out or to enter the crew it was admitted for. *)
(* Only guests are counted by the guest cap.                                 *)
SitsIn(u, ch) ==
  \/ ch \in mixed
  \/ Belongs(u, ch)
  \/ \E p \in Procs : user[p] = u /\ (Removes(p, ch) \/ AboutToSetCrew(p, ch))

Sits(u) ==
  /\ \A p \in Procs : user[p] = u => pc[p] # "guestCap"
  /\ \A p \in Procs : user[p] = u /\ Admits(p) => u \in crewMembers[crew[p]]
  /\ \A ch \in Channels : u \in rooms[ch] => SitsIn(u, ch)

Members == \A u \in (Users \ Guests) \ raced : Sits(u)

(* A step of p for somebody else: all that Sits(u) reads is kept, but for the *)
(* entry of u's room, which it may fill in, or replace for a mixed room.      *)
Kept(p, u) ==
  /\ user[p] # u /\ user'[p] # u
  /\ \A q \in Procs \ {p} : /\ pc'[q] = pc[q] /\ user'[q] = user[q] /\ chan'[q] = chan[q]
                            /\ crew'[q] = crew[q] /\ ret'[q] = ret[q]
  /\ \A ch \in Channels : u \in rooms'[ch] <=> u \in rooms[ch]
  /\ \A ch \in Channels : u \in rooms[ch] =>
       /\ ch \in mixed => ch \in mixed'
       /\ channelCrew'[ch] = channelCrew[ch] \/ channelCrew[ch] = NoCrew \/ ch \in mixed'
  /\ \A c \in Crews : u \in crewMembers[c] => u \in crewMembers'[c]

LEMMA KeptSits ==
  ASSUME Typed, Typed', NEW p \in Procs, NEW u \in Users \ Guests, Sits(u), Kept(p, u)
  PROVE  Sits(u)'
<1>1. \A q \in Procs : user'[q] = u <=> q # p /\ user[q] = u
  BY DEF Kept
<1>2. \A q \in Procs : user'[q] = u => (Admits(q)' <=> Admits(q)) /\ crew'[q] = crew[q]
  BY <1>1 DEF Kept, Admits
<1>3. ASSUME NEW q \in Procs, user'[q] = u, Admits(q)'
      PROVE  u \in crewMembers'[crew'[q]]
  <2>1. Admits(q) /\ user[q] = u /\ u \in crewMembers[crew[q]]
    BY <1>1, <1>2, <1>3 DEF Sits
  <2>2. crew[q] \in Crews
    BY <2>1 DEF Typed, HasLocals, Admits
  <2> QED
    BY <1>2, <1>3, <2>1, <2>2 DEF Kept
<1>4. ASSUME NEW ch \in Channels, u \in rooms'[ch]
      PROVE  SitsIn(u, ch)'
  <2>1. u \in rooms[ch] /\ SitsIn(u, ch)
    BY <1>4 DEF Kept, Sits
  <2>2. CASE ch \in mixed \/ ch \in mixed'
    BY <2>1, <2>2 DEF Kept, SitsIn
  <2>3. CASE channelCrew'[ch] = channelCrew[ch]
    <3>1. Belongs(u, ch) => Belongs(u, ch)'
      BY <2>3 DEF Kept, Belongs
    <3>2. \A q \in Procs : user[q] = u =>
            (Removes(q, ch) => Removes(q, ch)') /\ (AboutToSetCrew(q, ch) => AboutToSetCrew(q, ch)')
      BY <1>1, <2>3 DEF Kept, Removes, AboutToSetCrew
    <3>3. \A q \in Procs : user[q] = u => user'[q] = u
      BY <1>1 DEF Kept
    <3> QED
      BY <2>1, <2>2, <3>1, <3>2, <3>3 DEF SitsIn
  <2>4. CASE channelCrew[ch] = NoCrew
    <3>1. ~Belongs(u, ch)
      BY <2>4 DEF Belongs
    <3>2. \A q \in Procs : user[q] = u =>
            (Removes(q, ch) => Removes(q, ch)') /\ (AboutToSetCrew(q, ch) => AboutToSetCrew(q, ch)')
      BY <1>1, <2>4 DEF Kept, Removes, AboutToSetCrew, Typed, HasLocals
    <3>3. \A q \in Procs : user[q] = u => user'[q] = u
      BY <1>1 DEF Kept
    <3> QED
      BY <2>1, <2>2, <3>1, <3>2, <3>3 DEF SitsIn
  <2> QED
    BY <2>1, <2>2, <2>3, <2>4 DEF Kept
<1>5. \A q \in Procs : user'[q] = u => pc'[q] # "guestCap"
  BY <1>1 DEF Sits, Kept
<1> QED
  BY <1>3, <1>4, <1>5 DEF Sits

LEMMA StepKeeps ==
  ASSUME Typed, NEW p \in Procs, NEW u \in Users, user[p] # u, user'[p] # u,
         Begin(p) \/ Join(p) \/ Leave(p) \/ Exit(p)
  PROVE  Kept(p, u)
<1>1. /\ \A q \in Procs \ {p} : pc'[q] = pc[q] /\ user'[q] = user[q] /\ chan'[q] = chan[q]
      /\ \A ch \in Channels : u \in rooms'[ch] <=> u \in rooms[ch]
  BY BeginSpares, JoinSpares, LeaveSpares, ExitSpares DEF Spared
<1> USE DEF Typed, TypeOK
<1>2. CASE Begin(p)
  <2>1. CASE \E w \in Users, c \in Crews : CrewExit(p, w, c)
    <3>1. PICK w \in Users, c \in Crews : CrewExit(p, w, c)
      BY <2>1
    <3>2. w = user'[p] /\ w # u
      BY <3>1 DEF CrewExit
    <3> QED
      BY <1>1, <3>1, <3>2 DEF Kept, CrewExit
  <2>2. CASE ~ \E w \in Users, c \in Crews : CrewExit(p, w, c)
    BY <1>1, <1>2, <2>2 DEF Kept, Begin, VoiceJoinRPC, GuestVoiceJoinRPC, VoiceLeaveRPC, VoiceEvictChannel
  <2> QED
    BY <2>1, <2>2
<1>3. CASE Join(p)
  <2>1. CASE UpsertCrew(p) \/ SetChannelCrew(p)
    <3>1. NameCrew(p) /\ UNCHANGED <<rooms, crewMembers, crew, ret, user>>
      BY <2>1 DEF UpsertCrew, SetChannelCrew
    <3>2. \A ch \in Channels : u \in rooms[ch] =>
            /\ ch \in mixed => ch \in mixed'
            /\ channelCrew'[ch] = channelCrew[ch] \/ channelCrew[ch] = NoCrew \/ ch \in mixed'
      BY <3>1 DEF NameCrew
    <3> QED
      BY <1>1, <3>1, <3>2 DEF Kept
  <2>2. CASE ~(UpsertCrew(p) \/ SetChannelCrew(p))
    BY <1>1, <1>3, <2>2 DEF Kept, Join, GuestCap, CheckCapacity, SameChannelRejoin, UpsertVoiceMember, Seat,
      SetUserChannel, RecordLedgerSession, JoinPresence, IssueToken, RememberGuestSession
  <2> QED
    BY <2>1, <2>2
<1>4. CASE Leave(p)
  <2>1. CASE RemoveMember(p)
    BY <1>1, <2>1 DEF Kept, RemoveMember
  <2>2. CASE ~RemoveMember(p)
    BY <1>1, <1>4, <2>2 DEF Kept, Leave, Unmap, OrphanFound, NotInVoice, ReadStats, CloseSession, LeavePresence
  <2> QED
    BY <2>1, <2>2
<1>5. CASE Exit(p)
  BY <1>1, <1>5 DEF Kept, Exit, EvictNext, ReadMapOnExit, ReadCrewOnExit, ForgetGuestSession, Return
<1> QED
  BY <1>2, <1>3, <1>4, <1>5

(* A step of u's own handler that moves nobody and forgets nothing it knew.  *)
LEMMA SameSits ==
  ASSUME NEW p \in Procs, NEW u \in Users \ Guests, user[p] = u, Sits(u),
         \A q \in Procs \ {p} : user'[q] # u,
         UNCHANGED <<rooms, channelCrew, crewMembers, chan, crew, mixed>>,
         pc'[p] # "guestCap", Admits(p)' => Admits(p),
         \A ch \in Channels : ~Removes(p, ch) /\ ~AboutToSetCrew(p, ch),
         \A q \in Procs \ {p} : user[q] # u
  PROVE  Sits(u)'
<1>1. \A q \in Procs : user'[q] = u /\ Admits(q)' => q = p /\ Admits(p)
  OBVIOUS
<1>2. \A ch \in Channels : u \in rooms'[ch] => ch \in mixed' \/ Belongs(u, ch)'
  BY DEF Sits, SitsIn, Belongs
<1> QED
  BY <1>1, <1>2 DEF Sits, SitsIn

LEMMA BeginSits ==
  ASSUME Typed, NEW p \in Procs, NEW u \in Users \ Guests, user[p] = u \/ user'[p] = u,
         \A q \in Procs \ {p} : user[q] # u /\ user'[q] # u, UserInv(u), Sits(u), Begin(p)
  PROVE  Sits(u)'
<1> USE DEF Typed, TypeOK, HasLocals, Sits, SitsIn, Belongs, Admits, Removes, AboutToSetCrew, LeaveLabels
<1>1. CASE \E w \in Users, ch \in Channels, c \in Crews : VoiceJoinRPC(p, w, ch, c)
  BY <1>1 DEF VoiceJoinRPC
<1>2. CASE \E w \in Users, ch \in Channels, c \in Crews : GuestVoiceJoinRPC(p, w, ch, c)
  BY <1>2 DEF GuestVoiceJoinRPC
<1>3. CASE \E w \in Users : VoiceLeaveRPC(p, w)
  BY <1>3 DEF VoiceLeaveRPC
<1>4. CASE \E w \in Users, c \in Crews : CrewExit(p, w, c)
  BY <1>4 DEF CrewExit
<1>5. CASE \E ch \in Channels : VoiceEvictChannel(p, ch)
  BY <1>5 DEF VoiceEvictChannel
<1> QED
  BY <1>1, <1>2, <1>3, <1>4, <1>5 DEF Begin

LEMMA JoinSits ==
  ASSUME Typed, NEW p \in Procs, NEW u \in Users \ Guests, user[p] = u \/ user'[p] = u,
         \A q \in Procs \ {p} : user[q] # u /\ user'[q] # u, UserInv(u), Sits(u), Join(p)
  PROVE  Sits(u)'
<1> USE DEF Typed, TypeOK, HasLocals, Sits, SitsIn, Belongs, Admits, Removes, AboutToSetCrew, LeaveLabels
<1>1. CASE GuestCap(p)
  BY <1>1 DEF GuestCap, UserInv, Underway
<1>2. CASE CheckCapacity(p)
  BY <1>2 DEF CheckCapacity
<1>3. CASE SameChannelRejoin(p)
  <2>1. user[p] = u /\ UNCHANGED <<rooms, channelCrew, crewMembers, chan, crew, mixed>> /\ user' = user
    BY <1>3 DEF SameChannelRejoin
  <2>2. /\ pc'[p] # "guestCap" /\ Admits(p)
        /\ \A ch \in Channels : ~Removes(p, ch) /\ ~AboutToSetCrew(p, ch)
    BY <1>3, <2>1 DEF SameChannelRejoin
  <2> QED
    BY <2>1, <2>2, SameSits
<1>4. CASE UpsertVoiceMember(p)
  BY <1>4 DEF UpsertVoiceMember, AddMember
<1>5. CASE UpsertCrew(p)
  BY <1>5 DEF UpsertCrew, NameCrew
<1>6. CASE Seat(p)
  BY <1>6 DEF Seat, AddMember
<1>7. CASE SetUserChannel(p)
  <2>1. user[p] = u /\ UNCHANGED <<rooms, channelCrew, crewMembers, chan, crew, user, mixed>>
    BY <1>7 DEF SetUserChannel
  <2>2. /\ pc'[p] = "setCrew" /\ Admits(p) /\ \A ch \in Channels : ~Removes(p, ch)
        /\ \A ch \in Channels : AboutToSetCrew(p, ch) => AboutToSetCrew(p, ch)'
    BY <1>7, <2>1 DEF SetUserChannel
  <2> QED
    BY <2>1, <2>2
<1>8. CASE SetChannelCrew(p)
  BY <1>8 DEF SetChannelCrew, NameCrew
<1>9. CASE RecordLedgerSession(p)
  <2>1. user[p] = u /\ UNCHANGED <<rooms, channelCrew, crewMembers, chan, crew, mixed>> /\ user' = user
    BY <1>9 DEF RecordLedgerSession
  <2>2. /\ pc'[p] # "guestCap" /\ ~Admits(p)'
        /\ \A ch \in Channels : ~Removes(p, ch) /\ ~AboutToSetCrew(p, ch)
    BY <1>9, <2>1 DEF RecordLedgerSession
  <2> QED
    BY <2>1, <2>2, SameSits
<1>10. CASE JoinPresence(p)
  <2>1. user[p] = u /\ UNCHANGED <<rooms, channelCrew, crewMembers, chan, crew, mixed>> /\ user' = user
    BY <1>10 DEF JoinPresence
  <2>2. /\ pc'[p] # "guestCap" /\ (Admits(p)' => Admits(p))
        /\ \A ch \in Channels : ~Removes(p, ch) /\ ~AboutToSetCrew(p, ch)
    BY <1>10, <2>1 DEF JoinPresence
  <2> QED
    BY <2>1, <2>2, SameSits
<1>11. CASE IssueToken(p)
  <2>1. user[p] = u /\ UNCHANGED <<rooms, channelCrew, crewMembers, chan, crew, mixed>> /\ user' = user
    BY <1>11 DEF IssueToken
  <2>2. /\ pc'[p] # "guestCap" /\ (Admits(p)' => Admits(p))
        /\ \A ch \in Channels : ~Removes(p, ch) /\ ~AboutToSetCrew(p, ch)
    BY <1>11, <2>1 DEF IssueToken
  <2> QED
    BY <2>1, <2>2, SameSits
<1>12. CASE RememberGuestSession(p)
  BY <1>12 DEF RememberGuestSession
<1> QED
  BY <1>1, <1>2, <1>3, <1>4, <1>5, <1>6, <1>7, <1>8, <1>9, <1>10, <1>11, <1>12 DEF Join

LEMMA LeaveSits ==
  ASSUME Typed, NEW p \in Procs, NEW u \in Users \ Guests, user[p] = u \/ user'[p] = u,
         \A q \in Procs \ {p} : user[q] # u /\ user'[q] # u, UserInv(u), Sits(u), Leave(p)
  PROVE  Sits(u)'
<1> USE DEF Typed, TypeOK, HasLocals, Sits, SitsIn, Belongs, Admits, Removes, AboutToSetCrew, LeaveLabels
<1>1. CASE Unmap(p)
  BY <1>1 DEF Unmap
<1>2. CASE OrphanFound(p)
  BY <1>2 DEF OrphanFound
<1>3. CASE NotInVoice(p)
  BY <1>3 DEF NotInVoice
<1>4. CASE RemoveMember(p)
  BY <1>4 DEF RemoveMember, UserInv, Underway, HeldRoom, SitsExactly
<1>5. CASE ReadStats(p)
  <2>1. user[p] = u /\ UNCHANGED <<rooms, channelCrew, crewMembers, chan, crew, mixed>> /\ user' = user /\ ret' = ret
    BY <1>5 DEF ReadStats
  <2>2. /\ pc'[p] # "guestCap" /\ (Admits(p)' => Admits(p))
        /\ \A ch \in Channels : ~Removes(p, ch) /\ ~AboutToSetCrew(p, ch)
    BY <1>5, <2>1 DEF ReadStats
  <2> QED
    BY <2>1, <2>2, SameSits
<1>6. CASE CloseSession(p)
  <2>1. user[p] = u /\ UNCHANGED <<rooms, channelCrew, crewMembers, chan, crew, mixed>> /\ user' = user /\ ret' = ret
    BY <1>6 DEF CloseSession
  <2>2. /\ pc'[p] # "guestCap" /\ (Admits(p)' => Admits(p))
        /\ \A ch \in Channels : ~Removes(p, ch) /\ ~AboutToSetCrew(p, ch)
    BY <1>6, <2>1 DEF CloseSession
  <2> QED
    BY <2>1, <2>2, SameSits
<1>7. CASE LeavePresence(p)
  <2>1. user[p] = u /\ UNCHANGED <<rooms, channelCrew, crewMembers, chan, crew, mixed>> /\ user' = user /\ ret' = ret
    BY <1>7 DEF LeavePresence
  <2>2. /\ pc'[p] # "guestCap" /\ (Admits(p)' => Admits(p))
        /\ \A ch \in Channels : ~Removes(p, ch) /\ ~AboutToSetCrew(p, ch)
    BY <1>7, <2>1 DEF LeavePresence
  <2> QED
    BY <2>1, <2>2, SameSits
<1> QED
  BY <1>1, <1>2, <1>3, <1>4, <1>5, <1>6, <1>7 DEF Leave

LEMMA ExitSits ==
  ASSUME Typed, NEW p \in Procs, NEW u \in Users \ Guests, user[p] = u \/ user'[p] = u,
         \A q \in Procs \ {p} : user[q] # u /\ user'[q] # u, UserInv(u), Sits(u), Exit(p)
  PROVE  Sits(u)'
<1> USE DEF Typed, TypeOK, HasLocals, Sits, SitsIn, Belongs, Admits, Removes, AboutToSetCrew, LeaveLabels
<1>1. CASE EvictNext(p)
  BY <1>1 DEF EvictNext
<1>2. CASE ReadMapOnExit(p)
  <2>1. user[p] = u /\ pc[p] = "exitMap" /\ user' = user /\ ~Admits(p)' /\ pc'[p] # "guestCap"
    BY <1>2 DEF ReadMapOnExit
  <2>2. SitsExactly(u, userChannel[u])
    BY <2>1 DEF UserInv, Underway, HeldRoom
  <2>3. ASSUME NEW ch \in Channels, u \in rooms'[ch]
        PROVE  SitsIn(u, ch)'
    <3>1. u \in rooms[ch] /\ SitsIn(u, ch) /\ userChannel[u] = ch
      BY <1>2, <2>2, <2>3 DEF ReadMapOnExit, SitsExactly
    <3>2. Removes(p, ch) => Removes(p, ch)'
      BY <1>2, <2>1, <3>1 DEF ReadMapOnExit
    <3> QED
      BY <1>2, <2>1, <3>1, <3>2 DEF ReadMapOnExit
  <2> QED
    BY <2>1, <2>3
<1>3. CASE ReadCrewOnExit(p)
  BY <1>3 DEF ReadCrewOnExit
<1>4. CASE ForgetGuestSession(p)
  <2>1. user[p] = u /\ UNCHANGED <<rooms, channelCrew, crewMembers, chan, crew, mixed>> /\ user' = user /\ ret' = ret
    BY <1>4 DEF ForgetGuestSession
  <2>2. /\ pc'[p] # "guestCap" /\ (Admits(p)' => Admits(p))
        /\ \A ch \in Channels : ~Removes(p, ch) /\ ~AboutToSetCrew(p, ch)
    BY <1>4, <2>1 DEF ForgetGuestSession
  <2> QED
    BY <2>1, <2>2, SameSits
<1>5. CASE Return(p)
  <2>1. user[p] = u /\ UNCHANGED <<rooms, channelCrew, crewMembers, mixed>> /\ \A q \in Procs : user'[q] # u
    BY <1>5 DEF Return
  <2>2. \A ch \in Channels : ~Removes(p, ch) /\ ~AboutToSetCrew(p, ch)
    BY <1>5 DEF Return
  <2>3. \A ch \in Channels : u \in rooms[ch] => ch \in mixed \/ Belongs(u, ch)
    BY <2>1, <2>2
  <2> QED
    BY <2>1, <2>3
<1> QED
  BY <1>1, <1>2, <1>3, <1>4, <1>5 DEF Exit

LEMMA NextMembers ==
  ASSUME IInv, Members, [Next]_vars
  PROVE  Members'
<1>1. Typed /\ Typed' /\ IInv'
  BY NextTyped, NextInv DEF Typed, IInv
<1> SUFFICES ASSUME NEW u \in Users \ Guests, u \notin raced'
             PROVE  Sits(u)'
  BY DEF Members
<1>2. ASSUME NEW p \in Procs, Begin(p) \/ Join(p) \/ Leave(p) \/ Exit(p)
      PROVE  Sits(u)'
  <2>1. u \notin raced /\ \A q \in Procs \ {p} : user'[q] = user[q]
    BY <1>1, <1>2 DEF Begin, Join, Leave, Exit, VoiceJoinRPC, GuestVoiceJoinRPC, VoiceLeaveRPC,
      CrewExit, VoiceEvictChannel, GuestCap, CheckCapacity, SameChannelRejoin, UpsertVoiceMember,
      UpsertCrew, Seat, SetUserChannel, SetChannelCrew, RecordLedgerSession, JoinPresence, IssueToken,
      RememberGuestSession, Unmap, OrphanFound, NotInVoice, RemoveMember, ReadStats, CloseSession,
      LeavePresence, EvictNext, ReadMapOnExit, ReadCrewOnExit, ForgetGuestSession, Return, Typed, TypeOK
  <2>2. UserInv(u) /\ UserInv(u)' /\ Sits(u)
    BY <1>1, <2>1 DEF IInv, Members
  <2>3. CASE user[p] = u \/ user'[p] = u
    <3>1. \A q \in Procs \ {p} : user[q] # u /\ user'[q] # u
      BY <2>1, <2>2, <2>3 DEF UserInv
    <3> QED
      BY <1>1, <1>2, <2>2, <2>3, <3>1, BeginSits, JoinSits, LeaveSits, ExitSits
  <2>4. CASE user[p] # u /\ user'[p] # u
    BY <1>1, <1>2, <2>2, <2>4, StepKeeps, KeptSits
  <2> QED
    BY <2>3, <2>4
<1>3. ASSUME NEW v \in Users, NEW c \in Crews, CrewEnter(v, c)
      PROVE  Sits(u)'
  <2>1. Sits(u)
    BY <1>3 DEF Members, CrewEnter
  <2>2. \A d \in Crews : u \in crewMembers[d] => u \in crewMembers'[d]
    BY <1>1, <1>3 DEF CrewEnter, Typed, TypeOK
  <2>3. \A q \in Procs : Admits(q) => crew[q] \in Crews
    BY <1>1 DEF Typed, HasLocals, Admits
  <2> QED
    BY <1>3, <2>1, <2>2, <2>3 DEF CrewEnter, Sits, SitsIn, Belongs, Admits, Removes, AboutToSetCrew
<1>4. CASE UNCHANGED vars
  BY <1>4 DEF vars, Members, Sits, SitsIn, Belongs, Admits, Removes, AboutToSetCrew
<1> QED
  BY <1>2, <1>3, <1>4 DEF Next

(* A user who is kicked or leaves a crew is taken out of the crew's rooms,    *)
(* whichever crew each caller names with whichever channel: who sits in a    *)
(* room after its last handler returned is a guest or a member of the crew   *)
(* the room is entered for, if no two handlers ever worked for it at once and *)
(* the entry was not replaced by another crew's while others sat there.      *)
THEOREM NobodySitsOutside == Spec => []NoSeatOutsideCrew
<1>1. Init => Members
  BY DEF Init, Members, Sits, Admits
<1>2. IInv /\ Members /\ [Next]_vars => Members'
  BY NextMembers
<1>3. Members => NoSeatOutsideCrew
  BY DEF Members, Sits, SitsIn, Belongs, NoSeatOutsideCrew, Settled, Quiet
<1> QED
  BY <1>1, <1>2, <1>3, Invariance, PTL DEF Spec

-----------------------------------------------------------------------------
(* The capacity of a room                                                  *)

(* A handler that passed the capacity test of ch and has not taken its seat, *)
(* or takes back a seat it has: the leave of a switch lies on its way.      *)
Seating(p, ch) ==
  /\ chan[p] = ch
  /\ pc[p] \in {"rejoin", "upsertRoom", "seat"} \/ (pc[p] \in LeaveLabels /\ ret[p] = "seat")

Seated(ch) == {user[p] : p \in {q \in Procs : Seating(q, ch)}}

(* The members of the room, with those who passed its test.                  *)
Taken(ch) == rooms[ch] \cup Seated(ch)

(* The test counts the members only, so as many may pass at once as there are *)
(* handlers; but nobody is let in over the cap after they took their seats.  *)
Bounded(ch) == IsFiniteSet(Taken(ch)) /\ Cardinality(Taken(ch)) < MaxMembers + Cardinality(Procs)

CapacityInv == \A ch \in Channels : Bounded(ch)

(* A step that lets nobody in: a member it adds had passed the test.         *)
LetsNobodyIn(p, ch) ==
  /\ \A q \in Procs \ {p} : Seating(q, ch)' => Seating(q, ch) /\ user'[q] = user[q]
  /\ Seating(p, ch)' => Seating(p, ch) /\ user'[p] = user[p]
  /\ \A u \in rooms'[ch] \ rooms[ch] : u = user[p] /\ Seating(p, ch)

LEMMA NobodyIn ==
  ASSUME NEW p \in Procs, NEW ch \in Channels, LetsNobodyIn(p, ch)
  PROVE  Taken(ch)' \subseteq Taken(ch)
<1>1. \A q \in Procs : Seating(q, ch)' => Seating(q, ch) /\ user'[q] = user[q]
  BY DEF LetsNobodyIn
<1>2. Seated(ch)' \subseteq Seated(ch)
  BY <1>1 DEF Seated
<1>3. \A u \in rooms'[ch] \ rooms[ch] : u \in Seated(ch)
  BY DEF LetsNobodyIn, Seated
<1> QED
  BY <1>2, <1>3 DEF Taken

(* What is left of a bounded set is bounded.                                 *)
LEMMA BoundKept ==
  ASSUME NEW ch \in Channels, Bounded(ch), Taken(ch)' \subseteq Taken(ch)
  PROVE  Bounded(ch)'
<1>1. IsFiniteSet(Taken(ch)') /\ Cardinality(Taken(ch)') <= Cardinality(Taken(ch))
  BY FS_Subset DEF Bounded
<1>2. Cardinality(Taken(ch)') \in Nat /\ Cardinality(Taken(ch)) \in Nat /\ Cardinality(Procs) \in Nat
  BY <1>1, HandlersAssumption, FS_CardinalityType DEF Bounded
<1> QED
  BY <1>1, <1>2 DEF Bounded

LEMMA BeginLetsIn ==
  ASSUME Typed, NEW p \in Procs, NEW ch \in Channels, Begin(p)
  PROVE  LetsNobodyIn(p, ch)
<1>0. TypeOK /\ HasLocals(p)
  BY DEF Typed
<1>1. CASE \E w \in Users, c \in Channels, d \in Crews : VoiceJoinRPC(p, w, c, d)
  BY <1>0, <1>1 DEF TypeOK, LetsNobodyIn, Seating, VoiceJoinRPC
<1>2. CASE \E w \in Users, c \in Channels, d \in Crews : GuestVoiceJoinRPC(p, w, c, d)
  BY <1>0, <1>2 DEF TypeOK, LetsNobodyIn, Seating, GuestVoiceJoinRPC
<1>3. CASE \E w \in Users : VoiceLeaveRPC(p, w)
  BY <1>0, <1>3 DEF TypeOK, LetsNobodyIn, Seating, VoiceLeaveRPC
<1>4. CASE \E w \in Users, c \in Crews : CrewExit(p, w, c)
  BY <1>0, <1>4 DEF TypeOK, LetsNobodyIn, Seating, CrewExit
<1>5. CASE \E c \in Channels : VoiceEvictChannel(p, c)
  BY <1>0, <1>5 DEF TypeOK, LetsNobodyIn, Seating, VoiceEvictChannel
<1> QED
  BY <1>1, <1>2, <1>3, <1>4, <1>5 DEF Begin

LEMMA JoinLetsIn ==
  ASSUME Typed, NEW p \in Procs, NEW ch \in Channels, Join(p), ~CheckCapacity(p)
  PROVE  LetsNobodyIn(p, ch)
<1>0. TypeOK /\ HasLocals(p)
  BY DEF Typed
<1>1. CASE GuestCap(p)
  BY <1>0, <1>1 DEF TypeOK, LetsNobodyIn, Seating, GuestCap
<1>2. CASE SameChannelRejoin(p)
  BY <1>0, <1>2 DEF TypeOK, LetsNobodyIn, Seating, SameChannelRejoin
<1>3. CASE UpsertVoiceMember(p)
  BY <1>0, <1>3 DEF TypeOK, LetsNobodyIn, Seating, HasLocals, AddMember, UpsertVoiceMember
<1>4. CASE UpsertCrew(p)
  BY <1>0, <1>4 DEF TypeOK, LetsNobodyIn, Seating, UpsertCrew
<1>5. CASE Seat(p)
  BY <1>0, <1>5 DEF TypeOK, LetsNobodyIn, Seating, HasLocals, AddMember, Seat
<1>6. CASE SetUserChannel(p)
  BY <1>0, <1>6 DEF TypeOK, LetsNobodyIn, Seating, SetUserChannel
<1>7. CASE SetChannelCrew(p)
  BY <1>0, <1>7 DEF TypeOK, LetsNobodyIn, Seating, SetChannelCrew
<1>8. CASE RecordLedgerSession(p)
  BY <1>0, <1>8 DEF TypeOK, LetsNobodyIn, Seating, RecordLedgerSession
<1>9. CASE JoinPresence(p)
  BY <1>0, <1>9 DEF TypeOK, LetsNobodyIn, Seating, JoinPresence
<1>10. CASE IssueToken(p)
  BY <1>0, <1>10 DEF TypeOK, LetsNobodyIn, Seating, IssueToken
<1>11. CASE RememberGuestSession(p)
  BY <1>0, <1>11 DEF TypeOK, LetsNobodyIn, Seating, RememberGuestSession
<1> QED
  BY <1>1, <1>2, <1>3, <1>4, <1>5, <1>6, <1>7, <1>8, <1>9, <1>10, <1>11 DEF Join

LEMMA LeaveLetsIn ==
  ASSUME Typed, NEW p \in Procs, NEW ch \in Channels, Leave(p)
  PROVE  LetsNobodyIn(p, ch)
<1>0. TypeOK /\ HasLocals(p)
  BY DEF Typed
<1>1. CASE Unmap(p)
  BY <1>0, <1>1 DEF TypeOK, LetsNobodyIn, Seating, Unmap
<1>2. CASE OrphanFound(p)
  BY <1>0, <1>2 DEF TypeOK, LetsNobodyIn, Seating, OrphanFound
<1>3. CASE NotInVoice(p)
  BY <1>0, <1>3 DEF TypeOK, LetsNobodyIn, Seating, HasLocals, NotInVoice
<1>4. CASE RemoveMember(p)
  BY <1>0, <1>4 DEF TypeOK, LetsNobodyIn, Seating, HasLocals, RemoveMember
<1>5. CASE ReadStats(p)
  BY <1>0, <1>5 DEF TypeOK, LetsNobodyIn, Seating, ReadStats
<1>6. CASE CloseSession(p)
  BY <1>0, <1>6 DEF TypeOK, LetsNobodyIn, Seating, CloseSession
<1>7. CASE LeavePresence(p)
  BY <1>0, <1>7 DEF TypeOK, LetsNobodyIn, Seating, HasLocals, LeavePresence
<1> QED
  BY <1>1, <1>2, <1>3, <1>4, <1>5, <1>6, <1>7 DEF Leave

LEMMA ExitLetsIn ==
  ASSUME Typed, NEW p \in Procs, NEW ch \in Channels, Exit(p)
  PROVE  LetsNobodyIn(p, ch)
<1>0. TypeOK /\ HasLocals(p)
  BY DEF Typed
<1>1. CASE EvictNext(p)
  BY <1>0, <1>1 DEF TypeOK, LetsNobodyIn, Seating, EvictNext
<1>2. CASE ReadMapOnExit(p)
  BY <1>0, <1>2 DEF TypeOK, LetsNobodyIn, Seating, ReadMapOnExit
<1>3. CASE ReadCrewOnExit(p)
  BY <1>0, <1>3 DEF TypeOK, LetsNobodyIn, Seating, ReadCrewOnExit
<1>4. CASE ForgetGuestSession(p)
  BY <1>0, <1>4 DEF TypeOK, LetsNobodyIn, Seating, ForgetGuestSession
<1>5. CASE Return(p)
  BY <1>0, <1>5 DEF TypeOK, LetsNobodyIn, Seating, Return
<1> QED
  BY <1>1, <1>2, <1>3, <1>4, <1>5 DEF Exit

(* The test itself: a room that has a free seat has no more in it, and with  *)
(* all handlers at its door it stays under the bound.                       *)
LEMMA TestLetsIn ==
  ASSUME Typed, NEW p \in Procs, NEW ch \in Channels, CheckCapacity(p), Bounded(ch)
  PROVE  Bounded(ch)'
<1>0. TypeOK /\ HasLocals(p)
  BY DEF Typed
<1>1. /\ pc[p] = "capacity" /\ UNCHANGED <<rooms, chan, user, ret>>
      /\ pc' = [pc EXCEPT ![p] = IF IsFull(chan[p], user[p]) THEN "finish" ELSE "rejoin"]
  BY DEF CheckCapacity
<1>2. \A q \in Procs \ {p} : Seating(q, ch)' <=> Seating(q, ch)
  BY <1>0, <1>1 DEF TypeOK, Seating
<1>3. CASE ~Seating(p, ch)' \/ user[p] \in rooms[ch]
  <2>1. Taken(ch)' \subseteq Taken(ch)
    BY <1>1, <1>2, <1>3 DEF Taken, Seated
  <2> QED
    BY <2>1, BoundKept
<1>4. CASE Seating(p, ch)' /\ user[p] \notin rooms[ch]
  <2> DEFINE busy == {user[q] : q \in Procs}
  <2>1. chan[p] = ch /\ ~IsFull(ch, user[p])
    BY <1>0, <1>1, <1>4 DEF TypeOK, Seating
  <2>2. rooms[ch] = {} \/ ~(Cardinality(rooms[ch]) >= MaxMembers)
    BY <1>4, <2>1 DEF IsFull
  <2>3. IsFiniteSet(rooms[ch]) /\ Cardinality(rooms[ch]) \in Nat
    BY FS_Subset, FS_CardinalityType DEF Bounded, Taken
  <2>4. Cardinality(rooms[ch]) < MaxMembers
    BY <2>2, <2>3, FS_EmptySet
  <2>5. user \in Surjection(Procs, busy)
    BY <1>0 DEF TypeOK, Surjection
  <2>6. IsFiniteSet(busy) /\ Cardinality(busy) <= Cardinality(Procs)
    BY <2>5, HandlersAssumption, FS_Surjection
  <2> HIDE DEF busy
  <2>7. Cardinality(busy) \in Nat /\ Cardinality(Procs) \in Nat
    BY <2>6, HandlersAssumption, FS_CardinalityType
  <2> DEFINE most == rooms[ch] \cup busy
  <2>8. IsFiniteSet(most) /\ Cardinality(most) = Cardinality(rooms[ch]) + Cardinality(busy) - Cardinality(rooms[ch] \cap busy)
    BY <2>3, <2>6, FS_Union
  <2>9. Cardinality(rooms[ch] \cap busy) \in Nat
    BY <2>3, FS_Subset, FS_CardinalityType
  <2>10. Taken(ch)' \subseteq most
    BY <1>1 DEF Taken, Seated, busy
  <2> HIDE DEF most
  <2>11. IsFiniteSet(Taken(ch)') /\ Cardinality(Taken(ch)') <= Cardinality(most)
    BY <2>8, <2>10, FS_Subset
  <2>12. Cardinality(Taken(ch)') \in Nat /\ Cardinality(most) \in Nat
    BY <2>8, <2>11, FS_CardinalityType
  <2>13. Cardinality(most) < MaxMembers + Cardinality(Procs)
    BY <2>3, <2>4, <2>6, <2>7, <2>8, <2>9, <2>12
  <2>14. Cardinality(Taken(ch)') < MaxMembers + Cardinality(Procs)
    BY <2>7, <2>11, <2>12, <2>13
  <2> QED
    BY <2>11, <2>14 DEF Bounded
<1> QED
  BY <1>3, <1>4

LEMMA NextCapacity ==
  ASSUME Typed, CapacityInv, [Next]_vars
  PROVE  CapacityInv'
<1> SUFFICES ASSUME NEW ch \in Channels
             PROVE  Bounded(ch)'
  BY DEF CapacityInv
<1>1. Bounded(ch)
  BY DEF CapacityInv
<1>2. ASSUME NEW p \in Procs, Begin(p) \/ Join(p) \/ Leave(p) \/ Exit(p)
      PROVE  Bounded(ch)'
  <2>1. CASE CheckCapacity(p)
    BY <1>1, <2>1, TestLetsIn
  <2>2. CASE ~CheckCapacity(p)
    <3>1. LetsNobodyIn(p, ch)
      BY <1>2, <2>2, BeginLetsIn, JoinLetsIn, LeaveLetsIn, ExitLetsIn
    <3> QED
      BY <1>1, <3>1, NobodyIn, BoundKept
  <2> QED
    BY <2>1, <2>2
<1>3. ASSUME NEW v \in Users, NEW c \in Crews, CrewEnter(v, c)
      PROVE  Bounded(ch)'
  <2>1. Taken(ch)' = Taken(ch)
    BY <1>3 DEF CrewEnter, Taken, Seated, Seating
  <2> QED
    BY <1>1, <2>1, BoundKept
<1>4. CASE UNCHANGED vars
  <2>1. Taken(ch)' = Taken(ch)
    BY <1>4 DEF vars, Taken, Seated, Seating
  <2> QED
    BY <1>1, <2>1, BoundKept
<1> QED
  BY <1>2, <1>3, <1>4 DEF Next

(* However many joins race for a room (the capacity test and the seat hold    *)
(* the room's mutex in turn, not together), it never holds more than the cap *)
(* and the other joins that passed the test together, for every cap and      *)
(* every number of handlers.                                               *)
THEOREM CapacityIsBounded == Spec => []CapacityBounded
<1>1. Init => CapacityInv
  <2> SUFFICES ASSUME Init, NEW ch \in Channels PROVE Bounded(ch)
    BY DEF CapacityInv
  <2>1. Taken(ch) = {}
    BY DEF Init, Taken, Seated, Seating
  <2>2. Cardinality(Procs) \in Nat
    BY HandlersAssumption, FS_CardinalityType
  <2> QED
    BY <2>1, <2>2, FS_EmptySet DEF Bounded
<1>2. Typed /\ CapacityInv /\ [Next]_vars => CapacityInv'
  BY NextCapacity
<1>3. CapacityInv => CapacityBounded
  <2> SUFFICES ASSUME CapacityInv, NEW ch \in Channels
               PROVE  Cardinality(rooms[ch]) < MaxMembers + Cardinality(Procs)
    BY DEF CapacityBounded
  <2>1. IsFiniteSet(Taken(ch)) /\ Cardinality(Taken(ch)) < MaxMembers + Cardinality(Procs)
    BY DEF CapacityInv, Bounded
  <2>2. IsFiniteSet(rooms[ch]) /\ Cardinality(rooms[ch]) <= Cardinality(Taken(ch))
    BY <2>1, FS_Subset DEF Taken
  <2>3. Cardinality(rooms[ch]) \in Nat /\ Cardinality(Taken(ch)) \in Nat /\ Cardinality(Procs) \in Nat
    BY <2>1, <2>2, HandlersAssumption, FS_CardinalityType
  <2> QED
    BY <2>1, <2>2, <2>3
<1>4. Init => Typed
  BY InitTyped
<1>5. Typed /\ [Next]_vars => Typed'
  BY NextTyped
<1> QED
  BY <1>1, <1>2, <1>3, <1>4, <1>5, PTL DEF Spec
=============================================================================
