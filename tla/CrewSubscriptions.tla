-------------------------- MODULE CrewSubscriptions --------------------------
(***************************************************************************)
(* Who gets a crew's pushes: the subscriptions and their reverse index of   *)
(* push.go, the session count of presence.go that decides when they are    *)
(* dropped, and the client that subscribes (mello-core crew.rs,             *)
(* connection.rs).                                                         *)
(*                                                                         *)
(* A handler (an RPC or the session-end hook of one user) runs one critical *)
(* section per action.  SubscribeSidebarRPC changes the index crew by crew  *)
(* while it holds subscriptionsMu; nobody who reads the index without that  *)
(* lock decides anything from it here, so the section is one action.       *)
(***************************************************************************)
EXTENDS Integers, FiniteSets

CONSTANTS
  Users, Crews,
  NoCrew,      \* the empty ActiveCrew
  Handlers,    \* server goroutines
  MaxDrops,    \* bound: sockets a user loses
  MaxSelects,  \* bound: crews a user selects
  GivesUp      \* whether the connection of a call may fail while the server runs it

ASSUME CrewSubscriptionsAssumption ==
  /\ NoCrew \notin Crews
  /\ MaxDrops \in Nat /\ MaxSelects \in Nat
  /\ GivesUp \in BOOLEAN

VARIABLES
  cur,       \* subscriptions: the object a user maps to, 0 for none
  obj,       \* the UserSubscription objects a user had, one per creation
  made,      \* how many objects were made for a user
  index,     \* crewSubscribers: crew -> users
  sessions,  \* sessionCounts: sockets the server believes are open
  handler,   \* the goroutines
  link,      \* client: "out", "up" or "down"
  dead,      \* sockets that are lost and whose end the server has not seen
  open,      \* client: the crew that is open
  wants,     \* client: the call it makes next
  drops, selects, \* bounded: sockets lost, crews selected
  missed,    \* history: users whose open crew the server was not told, or another after it
  raced      \* history: users of whom two handlers ran at once

vars == <<cur, obj, made, index, sessions, handler, link, dead, open, wants, drops, selects, missed, raced>>
server == <<cur, obj, made, index, sessions>>
client == <<link, dead, open, wants, drops, selects, missed>>

Gens == 1..(MaxDrops + 1)
Empty == [active |-> NoCrew, sidebar |-> {}]
Idle == [pc |-> "idle"]

TypeOK ==
  /\ cur \in [Users -> 0..(MaxDrops + 1)]
  /\ obj \in [Users -> [Gens -> [active : Crews \cup {NoCrew}, sidebar : SUBSET Crews]]]
  /\ made \in [Users -> 0..(MaxDrops + 1)]
  /\ index \in [Crews -> SUBSET Users]
  /\ sessions \in [Users -> Nat]
  /\ handler \in [Handlers ->
       {Idle}
       \cup [pc : {"activate", "add"}, user : Users, gen : Gens, crew : Crews]
       \cup [pc : {"sidebar"}, user : Users, gen : Gens]
       \cup [pc : {"cleanup"}, user : Users]
       \cup [pc : {"unindex"}, user : Users, crews : SUBSET Crews]]
  /\ link \in [Users -> {"out", "up", "down"}]
  /\ dead \in [Users -> Nat]
  /\ open \in [Users -> Crews \cup {NoCrew}]
  /\ wants \in [Users -> {"nothing", "sidebar", "active"}]
  /\ drops \in [Users -> 0..MaxDrops] /\ selects \in [Users -> 0..MaxSelects]
  /\ missed \subseteq Users /\ raced \subseteq Users

Init ==
  /\ cur = [u \in Users |-> 0] /\ made = [u \in Users |-> 0]
  /\ obj = [u \in Users |-> [g \in Gens |-> Empty]]
  /\ index = [c \in Crews |-> {}]
  /\ sessions = [u \in Users |-> 0] /\ dead = [u \in Users |-> 0]
  /\ handler = [h \in Handlers |-> Idle]
  /\ link = [u \in Users |-> "out"]
  /\ open = [u \in Users |-> NoCrew] /\ wants = [u \in Users |-> "nothing"]
  /\ drops = [u \in Users |-> 0] /\ selects = [u \in Users |-> 0]
  /\ missed = {} /\ raced = {}

-----------------------------------------------------------------------------
(* Handlers                                                                *)

Busy(u) == {h \in Handlers : handler[h] # Idle /\ handler[h].user = u}

Start(h, state) ==
  /\ handler[h] = Idle
  /\ handler' = [handler EXCEPT ![h] = state]
  /\ raced' = IF Busy(state.user) = {} THEN raced ELSE raced \cup {state.user}

Continue(h, state) == handler' = [handler EXCEPT ![h] = state] /\ UNCHANGED raced

(* getOrCreateSubscription: the generation of the object it returns.       *)
Generation(u) == IF cur[u] = 0 THEN made[u] + 1 ELSE cur[u]

GetOrCreateSubscription(u) ==
  /\ cur' = [cur EXCEPT ![u] = Generation(u)]
  /\ made' = [made EXCEPT ![u] = IF cur[u] = 0 THEN @ + 1 ELSE @]
  /\ obj' = IF cur[u] = 0 THEN [obj EXCEPT ![u][Generation(u)] = Empty] ELSE obj

Unindexed(u, crews) == [c \in Crews |-> IF c \in crews THEN index[c] \ {u} ELSE index[c]]
Indexed(ix, u, crews) == [c \in Crews |-> IF c \in crews THEN ix[c] \cup {u} ELSE ix[c]]

(* SetActiveCrewRPC, in three sections: find the object, move the active    *)
(* crew (the old one leaves the index), put the new one into the index.    *)
SetActiveCrewRPC(h, u, c) ==
  /\ Start(h, [pc |-> "activate", user |-> u, gen |-> Generation(u), crew |-> c])
  /\ GetOrCreateSubscription(u)
  /\ UNCHANGED <<index, sessions>>

MoveActiveCrew(h) ==
  LET s == handler[h]  old == obj[s.user][s.gen].active IN
  /\ s.pc = "activate"
  /\ index' = Unindexed(s.user, {old} \ {s.crew})
  /\ obj' = [obj EXCEPT ![s.user][s.gen].active = s.crew]
  /\ Continue(h, [s EXCEPT !.pc = "add"])
  /\ UNCHANGED <<cur, made, sessions, client>>

AddCrewSubscriber(h) ==
  LET s == handler[h] IN
  /\ s.pc = "add"
  /\ index' = Indexed(index, s.user, {s.crew})
  /\ Continue(h, Idle)
  /\ UNCHANGED <<cur, obj, made, sessions, client>>

(* SubscribeSidebarRPC, called with all the crews of the user.             *)
SubscribeSidebarRPC(h, u) ==
  /\ Start(h, [pc |-> "sidebar", user |-> u, gen |-> Generation(u)])
  /\ GetOrCreateSubscription(u)
  /\ UNCHANGED <<index, sessions>>

(* Mutant: the new sidebar is indexed before the old one is dropped.       *)
AddThenDrop(u, old) == [c \in Crews |-> IF c \in old THEN index[c] \ {u} ELSE index[c] \cup {u}]

DropThenAdd(u, old) == Indexed(Unindexed(u, old), u, Crews)

ReplaceSidebar(h) ==
  LET s == handler[h] IN
  /\ s.pc = "sidebar"
  /\ index' = DropThenAdd(s.user, obj[s.user][s.gen].sidebar)
  /\ obj' = [obj EXCEPT ![s.user][s.gen].sidebar = Crews]
  /\ Continue(h, Idle)
  /\ UNCHANGED <<cur, made, sessions, client>>

(* OnSessionEnd: registerSessionEnd; the last session's end goes on to the  *)
(* presence write and the voice and stream clean-up, then to CleanupUser.  *)
OnSessionEnd(h, u) ==
  /\ dead[u] > 0
  /\ dead' = [dead EXCEPT ![u] = @ - 1]
  /\ sessions' = [sessions EXCEPT ![u] = @ - 1]
  /\ IF sessions'[u] > 0
     THEN handler[h] = Idle /\ UNCHANGED <<handler, raced>>
     ELSE Start(h, [pc |-> "cleanup", user |-> u])
  /\ UNCHANGED <<cur, obj, made, index, link, open, wants, drops, selects, missed>>

(* Mutant: the sidebar crews stay in the index.                            *)
ActiveOnly(o) == {o.active} \ {NoCrew}

IndexedCrews(o) == ({o.active} \ {NoCrew}) \cup o.sidebar

CleanupUser(h) ==
  LET s == handler[h] IN
  /\ s.pc = "cleanup"
  /\ cur' = [cur EXCEPT ![s.user] = 0]
  /\ Continue(h, IF cur[s.user] = 0
                 THEN Idle
                 ELSE [pc |-> "unindex", user |-> s.user,
                       crews |-> IndexedCrews(obj[s.user][cur[s.user]])])
  /\ UNCHANGED <<obj, made, index, sessions, client>>

(* The rest of CleanupUser: one lock per crew.                             *)
RemoveCrewSubscriber(h) ==
  LET s == handler[h] IN
  /\ s.pc = "unindex"
  /\ \/ \E c \in s.crews :
          /\ index' = Unindexed(s.user, {c})
          /\ Continue(h, [s EXCEPT !.crews = @ \ {c}])
     \/ s.crews = {} /\ Continue(h, Idle) /\ UNCHANGED index
  /\ UNCHANGED <<cur, obj, made, sessions, client>>

-----------------------------------------------------------------------------
(* The client                                                              *)

(* The command loop makes one call at a time (over HTTP, not the socket) and *)
(* waits for the answer, unless the connection of the call fails.          *)
MayCall(u) ==
  link[u] # "out" /\ (GivesUp \/ \A h \in Busy(u) : handler[h].pc \in {"cleanup", "unindex"})

(* Sign-in: the socket opens (OnSessionStart) and load_crews subscribes.   *)
Login(u) ==
  /\ link[u] = "out"
  /\ link' = [link EXCEPT ![u] = "up"]
  /\ wants' = [wants EXCEPT ![u] = "sidebar"]
  /\ sessions' = [sessions EXCEPT ![u] = @ + 1]
  /\ UNCHANGED <<cur, obj, made, index, handler, raced, dead, open, drops, selects, missed>>

(* One command of the user.                                                *)
Command(u) ==
  /\ MayCall(u) /\ wants[u] = "nothing" /\ selects[u] < MaxSelects
  /\ selects' = [selects EXCEPT ![u] = @ + 1]

(* handle_select_crew: join_crew_channel remembers the crew and sends to the *)
(* socket; when it can, set_active_crew is called.                         *)
SelectCrew(u, c) ==
  /\ Command(u)
  /\ open' = [open EXCEPT ![u] = c]
  /\ wants' = [wants EXCEPT ![u] = "active"]
  /\ UNCHANGED <<server, handler, raced, link, dead, drops, missed>>

(* ... and when it cannot, the handler returns with the crew remembered.   *)
SelectCrewFails(u, c) ==
  /\ Command(u)
  /\ open' = [open EXCEPT ![u] = c]
  /\ missed' = missed \cup {u}
  /\ UNCHANGED <<server, handler, raced, link, dead, wants, drops>>

(* handle_leave_crew forgets the crew; the server is not told.             *)
LeaveCrew(u) ==
  /\ Command(u) /\ open[u] # NoCrew
  /\ open' = [open EXCEPT ![u] = NoCrew]
  /\ UNCHANGED <<server, handler, raced, link, dead, wants, drops, missed>>

(* load_crews after a crew was made, joined, left or changed.              *)
LoadCrews(u) ==
  /\ Command(u)
  /\ wants' = [wants EXCEPT ![u] = "sidebar"]
  /\ UNCHANGED <<server, handler, raced, link, dead, open, drops, missed>>

(* set_active_crew arrives; it names the open crew, or it does not.        *)
TellActiveCrew(h, u, c) ==
  /\ SetActiveCrewRPC(h, u, c)
  /\ missed' = IF c = open[u] THEN missed \ {u} ELSE missed \cup {u}

(* Command::SetActiveCrew for the crew of the voice call (the members of the *)
(* call changed), which need not be the open one, and gift_changed.  The   *)
(* command changes nothing when its call fails.                            *)
SetActiveCrewCommand(h, u, c) ==
  /\ Command(u)
  /\ TellActiveCrew(h, u, c)
  /\ UNCHANGED <<link, dead, open, wants, drops>>

Call(h, u) ==
  /\ MayCall(u) /\ wants[u] # "nothing"
  /\ IF wants[u] = "sidebar"
     THEN SubscribeSidebarRPC(h, u) /\ UNCHANGED missed
     ELSE TellActiveCrew(h, u, open[u])
  /\ wants' = [wants EXCEPT ![u] = "nothing"]
  /\ UNCHANGED <<link, dead, open, drops, selects>>

(* A call that does not reach the server is logged and not repeated.       *)
CallFails(u) ==
  /\ MayCall(u) /\ wants[u] # "nothing"
  /\ missed' = IF wants[u] = "active" THEN missed \cup {u} ELSE missed
  /\ wants' = [wants EXCEPT ![u] = "nothing"]
  /\ UNCHANGED <<server, handler, raced, link, dead, open, drops, selects>>

LoseSocket(u) ==
  /\ link[u] = "up" /\ drops[u] < MaxDrops
  /\ link' = [link EXCEPT ![u] = "down"]
  /\ dead' = [dead EXCEPT ![u] = @ + 1]
  /\ drops' = [drops EXCEPT ![u] = @ + 1]
  /\ UNCHANGED <<server, handler, raced, open, wants, selects, missed>>

(* resync_after_reconnect: the active crew is set again, if there is one.   *)
Reconnect(u) ==
  /\ link[u] = "down" /\ MayCall(u) /\ wants[u] = "nothing"
  /\ link' = [link EXCEPT ![u] = "up"]
  /\ wants' = [wants EXCEPT ![u] = IF open[u] = NoCrew THEN "nothing" ELSE "active"]
  /\ sessions' = [sessions EXCEPT ![u] = @ + 1]
  /\ UNCHANGED <<cur, obj, made, index, handler, raced, dead, open, drops, selects, missed>>

Next ==
  \/ \E u \in Users :
       Login(u) \/ LeaveCrew(u) \/ LoadCrews(u) \/ CallFails(u) \/ LoseSocket(u) \/ Reconnect(u)
  \/ \E u \in Users, c \in Crews : SelectCrew(u, c) \/ SelectCrewFails(u, c)
  \/ \E h \in Handlers, u \in Users, c \in Crews : SetActiveCrewCommand(h, u, c)
  \/ \E h \in Handlers, u \in Users : Call(h, u) \/ OnSessionEnd(h, u)
  \/ \E h \in Handlers :
       \/ MoveActiveCrew(h) \/ AddCrewSubscriber(h) \/ ReplaceSidebar(h)
       \/ CleanupUser(h) \/ RemoveCrewSubscriber(h)

Spec == Init /\ [][Next]_vars

-----------------------------------------------------------------------------
(* Properties                                                              *)

Subscribed(u) == cur[u] # 0
Subscription(u) == obj[u][cur[u]]

(* getSubscribersForCrew and getActiveSubscribersForCrew.                  *)
SubscribersOf(c) == {u \in index[c] : Subscribed(u)}
ActiveSubscribersOf(c) == {u \in SubscribersOf(c) : Subscription(u).active = c}

(* No call of the user is on its way, and none of its calls ever overlapped. *)
Settled(u) == Busy(u) = {} /\ dead[u] = 0 /\ wants[u] = "nothing"
Orderly(u) == Settled(u) /\ u \notin raced

(* The reverse index lists a user only under crews its subscription names: a *)
(* user whose sessions are over gets no push and leaves nothing behind.    *)
IndexIsSubscribed ==
  \A u \in Users : Orderly(u) =>
    \A c \in Crews : u \in index[c] =>
      Subscribed(u) /\ (c = Subscription(u).active \/ c \in Subscription(u).sidebar)

(* Whatever crews were selected, left, reloaded and reconnected to, the crew *)
(* that is open in a connected client pushes its full state to that client. *)
(* Exempt (missed) is a client whose newest request for the open crew did   *)
(* not reach the server (set_active_crew or the join of the crew's channel *)
(* failed, which nothing repeats before the next reconnect or selection) or *)
(* was followed by one for the crew of its voice call.                     *)
ToldOpen(u) == link[u] = "up" /\ open[u] # NoCrew /\ u \notin missed
OpenCrewIsPushed ==
  \A u \in Users : Orderly(u) /\ ToldOpen(u) => u \in ActiveSubscribersOf(open[u])

(* Refuted: a reconnect restores the pushes of the open crew even when the   *)
(* server is still cleaning up after the lost socket.                      *)
ReconnectRestoresCrew ==
  \A u \in Users : Settled(u) /\ ToldOpen(u) => u \in ActiveSubscribersOf(open[u])
=============================================================================
