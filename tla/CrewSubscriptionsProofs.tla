----------------------- MODULE CrewSubscriptionsProofs -----------------------
(* Theorems about CrewSubscriptions for any users, crews, goroutines, lost    *)
(* sockets and selected crews.                                              *)
EXTENDS CrewSubscriptions, TLAPS

USE CrewSubscriptionsAssumption

-----------------------------------------------------------------------------
(* The inductive invariant                                                 *)

Objects == [active : Crews \cup {NoCrew}, sidebar : SUBSET Crews]
Activations == [pc : {"activate", "add"}, user : Users, gen : Nat, crew : Crews]
Sidebars == [pc : {"sidebar"}, user : Users, gen : Nat]
Cleanups == [pc : {"cleanup"}, user : Users]

(* The crews a clean-up goes through are whatever it found.                  *)
Unindexes(r) == r.user \in Users /\ r = [pc |-> "unindex", user |-> r.user, crews |-> r.crews]

Shaped(r) == r = Idle \/ r \in Activations \/ r \in Sidebars \/ r \in Cleanups \/ Unindexes(r)

(* The client asks for an active crew only when one is open.                 *)
OpenTyped(u) == (wants[u] = "active" => open[u] # NoCrew) /\ (link[u] = "out" => open[u] = NoCrew)

Types ==
  /\ cur \in [Users -> Nat] /\ made \in [Users -> Nat]
  /\ obj \in [Users -> [Gens -> Objects]]
  /\ index \in [Crews -> SUBSET Users]
  /\ sessions \in [Users -> Int] /\ dead \in [Users -> Nat]
  /\ DOMAIN handler = Handlers /\ \A h \in Handlers : Shaped(handler[h])
  /\ link \in [Users -> {"out", "up", "down"}]
  /\ open \in [Users -> Crews \cup {NoCrew}]
  /\ wants \in [Users -> {"nothing", "sidebar", "active"}]
  /\ drops \in [Users -> 0..MaxDrops]
  /\ \A u \in Users : OpenTyped(u)

Of(h, u) == handler[h] # Idle /\ handler[h].user = u
Alone(u) == \A h, g \in Handlers : Of(h, u) /\ Of(g, u) => h = g

(* The server counts the sockets that are open and those it has not missed.   *)
Counted(u) == sessions[u] = dead[u] + (IF link[u] = "up" THEN 1 ELSE 0)

(* An object is dropped by a clean-up, a clean-up is of a lost socket.       *)
Cleaning(u) == \E h \in Handlers : Of(h, u) /\ handler[h].pc = "cleanup"
Created(u) ==
  /\ made[u] + dead[u] + (IF Cleaning(u) THEN 1 ELSE 0) <= drops[u] + (IF cur[u] # 0 THEN 1 ELSE 0)
  /\ cur[u] <= made[u]

(* A call that found the user's object still has it.                         *)
Holds(u) ==
  \A h \in Handlers : Of(h, u) /\ handler[h].pc \in {"activate", "add", "sidebar"} =>
    /\ cur[u] # 0 /\ handler[h].gen = cur[u]
    /\ handler[h].pc = "add" => obj[u][cur[u]].active = handler[h].crew

(* The index lists a user under the crews of its object, or under those that *)
(* the clean-up has yet to visit.                                          *)
Unindexing(h, u) == Of(h, u) /\ handler[h].pc = "unindex"
Listed(u) ==
  /\ \A h \in Handlers : Unindexing(h, u) =>
       cur[u] = 0 /\ \A c \in Crews : u \in index[c] => c \in handler[h].crews
  /\ (\A h \in Handlers : ~Unindexing(h, u)) =>
       \A c \in Crews : u \in index[c] => cur[u] # 0 /\ c \in IndexedCrews(obj[u][cur[u]])

(* The open crew is the active one and is indexed, or a call makes it so, or  *)
(* the client is about to ask, unless its newest request was lost or amiss. *)
Activating(h, u) ==
  Of(h, u) /\ handler[h].pc \in {"activate", "add"} /\ handler[h].crew = open[u]
Active(u) ==
  /\ cur[u] # 0 /\ obj[u][cur[u]].active = open[u] /\ u \in index[open[u]]
  /\ \A h \in Handlers : Of(h, u) => handler[h].pc = "sidebar"
Opened(u) ==
  ToldOpen(u) /\ wants[u] # "active" =>
    (\E h \in Handlers : Activating(h, u)) \/ Active(u)

Sound(u) == Alone(u) /\ Counted(u) /\ Created(u) /\ Holds(u) /\ Listed(u) /\ Opened(u)

IInv == Types /\ \A u \in Users : Sound(u) \/ u \in raced

-----------------------------------------------------------------------------
(* Frames                                                                  *)

(* Nothing of the user u changes.                                          *)
Same(u) ==
  /\ cur'[u] = cur[u] /\ made'[u] = made[u] /\ obj'[u] = obj[u]
  /\ sessions'[u] = sessions[u] /\ dead'[u] = dead[u] /\ link'[u] = link[u]
  /\ open'[u] = open[u] /\ wants'[u] = wants[u] /\ drops'[u] = drops[u]
  /\ u \in missed' <=> u \in missed
  /\ \A c \in Crews : u \in index'[c] <=> u \in index[c]
  /\ \A h \in Handlers : (Of(h, u)' <=> Of(h, u)) /\ (Of(h, u) => handler'[h] = handler[h])

LEMMA SameIsSound ==
  ASSUME Types, NEW u \in Users, Sound(u), Same(u)
  PROVE  Sound(u)'
<1>1. Alone(u)'
  BY DEF Sound, Alone, Same
<1>2. Counted(u)'
  BY DEF Sound, Counted, Same
<1>3. Cleaning(u)' <=> Cleaning(u)
  BY DEF Cleaning, Same
<1>4. Created(u)'
  BY <1>3 DEF Sound, Created, Same
<1>5. Holds(u)'
  BY DEF Sound, Holds, Same
<1>6. Listed(u)'
  <2>1. \A h \in Handlers : /\ Unindexing(h, u)' <=> Unindexing(h, u)
                            /\ Unindexing(h, u) => handler'[h] = handler[h]
    BY DEF Unindexing, Same
  <2>2. \A c \in Crews : c \in IndexedCrews(obj[u][cur[u]])' <=> c \in IndexedCrews(obj[u][cur[u]])
    BY DEF IndexedCrews, Same
  <2> QED
    BY <2>1, <2>2 DEF Sound, Listed, Same
<1>7. Opened(u)'
  <2>1. open[u] \in Crews \cup {NoCrew}
    BY DEF Types
  <2>2. open[u] # NoCrew => (Active(u)' <=> Active(u))
    BY <2>1 DEF Active, Same
  <2>3. \A h \in Handlers : Activating(h, u)' <=> Activating(h, u)
    BY DEF Activating, Same
  <2> QED
    BY <2>2, <2>3 DEF Sound, Opened, ToldOpen, Same
<1> QED
  BY <1>1, <1>2, <1>4, <1>5, <1>6, <1>7 DEF Sound

LEMMA RunningHasUser ==
  ASSUME NEW r, Shaped(r), r # Idle
  PROVE  /\ r.user \in Users /\ r.pc \in {"activate", "add", "sidebar", "cleanup", "unindex"}
         /\ r.pc \in {"activate", "add"} <=> r \in Activations
         /\ r.pc = "sidebar" <=> r \in Sidebars
         /\ r.pc = "cleanup" <=> r \in Cleanups
         /\ r.pc = "unindex" <=> Unindexes(r)
  BY DEF Shaped, Activations, Sidebars, Cleanups, Unindexes

(* A goroutine that starts to work for a user nobody works for.              *)
LEMMA StartFrame ==
  ASSUME Types, NEW h \in Handlers, NEW u \in Users, NEW r, Start(h, r), r # Idle, r.user = u, Shaped(r)
  PROVE  /\ DOMAIN handler' = Handlers /\ \A g \in Handlers : Shaped(handler'[g])
         /\ handler'[h] = r /\ Of(h, u)' /\ \A g \in Handlers \ {h} : handler'[g] = handler[g]
         /\ raced \subseteq raced'
         /\ u \notin raced' => \A g \in Handlers : ~Of(g, u) /\ (Of(g, u)' => g = h)
         /\ \A v \in Users \ {u}, g \in Handlers :
              (Of(g, v)' <=> Of(g, v)) /\ (Of(g, v) => handler'[g] = handler[g])
<1>1. /\ handler[h] = Idle /\ handler' = [handler EXCEPT ![h] = r]
      /\ raced' = IF Busy(u) = {} THEN raced ELSE raced \cup {u}
  BY DEF Start
<1>2. handler'[h] = r /\ DOMAIN handler' = Handlers /\ \A g \in Handlers \ {h} : handler'[g] = handler[g]
  BY <1>1 DEF Types
<1>3. \A g \in Handlers : Shaped(handler'[g])
  BY <1>2 DEF Types
<1>4. Busy(u) = {} => \A g \in Handlers : ~Of(g, u)
  BY DEF Busy, Of
<1> QED
  BY <1>1, <1>2, <1>3, <1>4 DEF Of

(* A goroutine that goes on or ends.                                        *)
LEMMA ContinueFrame ==
  ASSUME Types, NEW h \in Handlers, NEW r, Continue(h, r), handler[h] # Idle, Shaped(r),
         r = Idle \/ r.user = handler[h].user
  PROVE  /\ DOMAIN handler' = Handlers /\ \A g \in Handlers : Shaped(handler'[g])
         /\ handler'[h] = r /\ \A g \in Handlers \ {h} : handler'[g] = handler[g]
         /\ raced' = raced
         /\ Alone(handler[h].user) =>
              \A g \in Handlers : /\ Of(g, handler[h].user) => g = h
                                  /\ handler'[g] # Idle /\ handler'[g].user = handler[h].user => g = h
         /\ \A v \in Users \ {handler[h].user}, g \in Handlers :
              (Of(g, v)' <=> Of(g, v)) /\ (Of(g, v) => handler'[g] = handler[g])
<1>1. handler' = [handler EXCEPT ![h] = r] /\ raced' = raced
  BY DEF Continue
<1>2. handler'[h] = r /\ DOMAIN handler' = Handlers /\ \A g \in Handlers \ {h} : handler'[g] = handler[g]
  BY <1>1 DEF Types
<1>3. \A g \in Handlers : Shaped(handler'[g])
  BY <1>2 DEF Types
<1> QED
  BY <1>1, <1>2, <1>3 DEF Of, Alone

LEMMA InitInv == Init => IInv
<1> SUFFICES ASSUME Init PROVE IInv
  OBVIOUS
<1>1. Empty \in Objects
  BY DEF Empty, Objects
<1>2. \A h \in Handlers : handler[h] = Idle /\ Shaped(handler[h])
  BY DEF Init, Shaped
<1>3. Types
  BY <1>1, <1>2 DEF Init, Types, OpenTyped
<1>4. ASSUME NEW u \in Users PROVE Sound(u)
  <2>1. \A h \in Handlers : ~Of(h, u)
    BY <1>2 DEF Of
  <2>2. \A c \in Crews : u \notin index[c]
    BY DEF Init
  <2> QED
    BY <2>1, <2>2
    DEF Init, Sound, Alone, Counted, Created, Cleaning, Holds, Listed, Opened, ToldOpen
<1> QED
  BY <1>3, <1>4 DEF IInv

(* All that a user's soundness needs of the others: that nothing of theirs    *)
(* changes.                                                                *)
LEMMA OthersStaySound ==
  ASSUME IInv, Types', NEW u \in Users, raced \subseteq raced',
         \A v \in Users \ {u} : Same(v),
         Sound(u) /\ u \notin raced' => Sound(u)'
  PROVE  IInv'
<1> SUFFICES ASSUME NEW v \in Users, v \notin raced' PROVE Sound(v)'
  BY DEF IInv
<1>1. Sound(v)
  BY DEF IInv
<1> QED
  BY <1>1, SameIsSound DEF IInv

-----------------------------------------------------------------------------
(* The calls                                                               *)

LEMMA GetFrame ==
  ASSUME Types, NEW u \in Users, GetOrCreateSubscription(u)
  PROVE  /\ cur' \in [Users -> Nat] /\ made' \in [Users -> Nat]
         /\ obj' \in [Users -> [Gens -> Objects]]
         /\ \A v \in Users \ {u} : cur'[v] = cur[v] /\ made'[v] = made[v] /\ obj'[v] = obj[v]
         /\ Generation(u) \in Nat \ {0} /\ cur'[u] = Generation(u)
         /\ cur[u] # 0 => cur'[u] = cur[u] /\ made'[u] = made[u] /\ obj'[u] = obj[u]
         /\ cur[u] = 0 => cur'[u] = made[u] + 1 /\ made'[u] = made[u] + 1
<1>1. Generation(u) \in Nat \ {0}
  BY DEF Types, Generation
<1>2. /\ cur' = [cur EXCEPT ![u] = Generation(u)]
      /\ made' = [made EXCEPT ![u] = IF cur[u] = 0 THEN @ + 1 ELSE @]
      /\ obj' = IF cur[u] = 0 THEN [obj EXCEPT ![u][Generation(u)] = Empty] ELSE obj
  BY DEF GetOrCreateSubscription
<1>3. /\ cur' \in [Users -> Nat] /\ made' \in [Users -> Nat]
      /\ \A v \in Users \ {u} : cur'[v] = cur[v] /\ made'[v] = made[v]
      /\ cur'[u] = Generation(u) /\ made'[u] = IF cur[u] = 0 THEN made[u] + 1 ELSE made[u]
  BY <1>1, <1>2 DEF Types
<1>4. Empty \in Objects
  BY DEF Empty, Objects
<1>5. /\ obj' \in [Users -> [Gens -> Objects]]
      /\ \A v \in Users \ {u} : obj'[v] = obj[v]
      /\ cur[u] # 0 => obj'[u] = obj[u]
  BY <1>2, <1>4 DEF Types
<1> QED
  BY <1>1, <1>3, <1>5 DEF Generation

(* set_active_crew or subscribe_sidebar arrives: its first section finds or   *)
(* makes the object.                                                       *)
LEMMA CallStep ==
  ASSUME IInv, NEW h \in Handlers, NEW u \in Users,
         Call(h, u) \/ \E c \in Crews : SetActiveCrewCommand(h, u, c)
  PROVE  IInv'
<1> DEFINE act(c) == [pc |-> "activate", user |-> u, gen |-> Generation(u), crew |-> c]
           side == [pc |-> "sidebar", user |-> u, gen |-> Generation(u)]
<1>1. /\ link[u] # "out" /\ wants'[u] = "nothing"
      /\ wants' \in [Users -> {"nothing", "sidebar", "active"}]
      /\ \A v \in Users \ {u} : wants'[v] = wants[v]
      /\ GetOrCreateSubscription(u)
      /\ UNCHANGED <<index, sessions, link, dead, open, drops>>
  <2>1. CASE Call(h, u)
    <3>1. wants' = [wants EXCEPT ![u] = "nothing"] /\ wants \in [Users -> {"nothing", "sidebar", "active"}]
      BY <2>1 DEF Call, IInv, Types
    <3>2. MayCall(u) /\ GetOrCreateSubscription(u)
          /\ UNCHANGED <<index, sessions, link, dead, open, drops>>
      BY <2>1 DEF Call, SubscribeSidebarRPC, TellActiveCrew, SetActiveCrewRPC
    <3> QED
      BY <3>1, <3>2 DEF MayCall
  <2>2. CASE \E c \in Crews : SetActiveCrewCommand(h, u, c)
    <3>1. wants' = wants /\ wants[u] = "nothing" /\ wants \in [Users -> {"nothing", "sidebar", "active"}]
      BY <2>2 DEF SetActiveCrewCommand, Command, IInv, Types
    <3>2. MayCall(u) /\ GetOrCreateSubscription(u)
          /\ UNCHANGED <<index, sessions, link, dead, open, drops>>
      BY <2>2 DEF SetActiveCrewCommand, Command, TellActiveCrew, SetActiveCrewRPC
    <3> QED
      BY <3>1, <3>2 DEF MayCall
  <2> QED
    BY <2>1, <2>2
<1>2. PICK r : /\ Start(h, r)
               /\ \/ wants[u] = "sidebar" /\ r = side /\ missed' = missed
                  \/ \E c \in Crews : r = act(c) /\ (c = open[u] \/ u \in missed')
  <2>1. CASE Call(h, u) /\ wants[u] = "sidebar"
    BY <2>1 DEF Call, SubscribeSidebarRPC
  <2>2. CASE Call(h, u) /\ wants[u] # "sidebar"
    <3>1. wants[u] = "active" /\ open[u] \in Crews
      BY <2>2 DEF Call, IInv, Types, OpenTyped
    <3> QED
      BY <2>2, <3>1 DEF Call, TellActiveCrew, SetActiveCrewRPC
  <2>3. CASE \E c \in Crews : SetActiveCrewCommand(h, u, c)
    BY <2>3 DEF SetActiveCrewCommand, TellActiveCrew, SetActiveCrewRPC
  <2> QED
    BY <2>1, <2>2, <2>3
<1>3. \A v \in Users \ {u} : v \in missed' <=> v \in missed
  BY DEF Call, SetActiveCrewCommand, TellActiveCrew
<1>4. /\ Generation(u) \in Nat \ {0} /\ cur'[u] = Generation(u)
      /\ cur' \in [Users -> Nat] /\ made' \in [Users -> Nat]
      /\ obj' \in [Users -> [Gens -> Objects]]
      /\ \A v \in Users \ {u} : cur'[v] = cur[v] /\ made'[v] = made[v] /\ obj'[v] = obj[v]
      /\ cur[u] # 0 => cur'[u] = cur[u] /\ made'[u] = made[u] /\ obj'[u] = obj[u]
      /\ cur[u] = 0 => cur'[u] = made[u] + 1 /\ made'[u] = made[u] + 1
  BY <1>1, GetFrame DEF IInv
<1>5. r \in Sidebars \/ r \in Activations
  BY <1>2, <1>4 DEF Sidebars, Activations
<1>6. /\ Shaped(r) /\ r # Idle /\ r.user = u /\ r.pc \in {"activate", "sidebar"}
      /\ r.gen = Generation(u)
      /\ \/ r.pc = "activate" /\ (r.crew = open[u] \/ u \in missed')
         \/ r.pc = "sidebar" /\ wants[u] = "sidebar" /\ missed' = missed
  BY <1>2, <1>5 DEF Shaped, Idle
<1>7. /\ DOMAIN handler' = Handlers /\ \A g \in Handlers : Shaped(handler'[g])
      /\ handler'[h] = r /\ Of(h, u)' /\ raced \subseteq raced'
      /\ u \notin raced' => \A g \in Handlers : ~Of(g, u) /\ (Of(g, u)' => g = h)
      /\ \A v \in Users \ {u}, g \in Handlers :
           (Of(g, v)' <=> Of(g, v)) /\ (Of(g, v) => handler'[g] = handler[g])
  BY <1>2, <1>6, StartFrame DEF IInv
<1>8. Types'
  <2>1. \A v \in Users : OpenTyped(v)'
    BY <1>1 DEF IInv, Types, OpenTyped
  <2> QED
    BY <1>1, <1>4, <1>7, <2>1 DEF IInv, Types
<1>9. \A v \in Users \ {u} : Same(v)
  BY <1>1, <1>3, <1>4, <1>7 DEF Same
<1>10. ASSUME Sound(u), u \notin raced' PROVE Sound(u)'
  <2>1. \A g \in Handlers : ~Of(g, u) /\ (Of(g, u)' => g = h)
    BY <1>7, <1>10
  <2>2. Alone(u)' /\ Counted(u)'
    BY <1>1, <1>10, <2>1 DEF Sound, Alone, Counted
  <2>3. ~Cleaning(u) /\ ~Cleaning(u)'
    BY <1>6, <1>7, <2>1 DEF Cleaning
  <2>4. Created(u)'
    BY <1>1, <1>4, <1>10, <2>3 DEF Sound, Created, IInv, Types
  <2>5. Holds(u)'
    <3>1. cur'[u] # 0 /\ handler'[h].gen = cur'[u] /\ handler'[h].pc # "add"
      BY <1>4, <1>6, <1>7
    <3> QED
      BY <2>1, <3>1 DEF Holds
  <2>6. Listed(u)'
    <3>1. \A g \in Handlers : ~Unindexing(g, u) /\ ~Unindexing(g, u)'
      BY <1>6, <1>7, <2>1 DEF Unindexing
    <3>2. cur[u] # 0 => cur'[u] # 0 /\ IndexedCrews(obj[u][cur[u]])' = IndexedCrews(obj[u][cur[u]])
      BY <1>4 DEF IndexedCrews
    <3> QED
      BY <1>1, <1>10, <3>1, <3>2 DEF Sound, Listed
  <2>7. Opened(u)'
    <3>1. CASE r.pc = "activate"
      BY <1>1, <1>6, <1>7, <3>1 DEF Opened, ToldOpen, Activating
    <3>2. CASE r.pc = "sidebar" /\ wants[u] = "sidebar" /\ missed' = missed
      <4>1. \A g \in Handlers : ~Activating(g, u)
        BY <2>1 DEF Activating
      <4>2. Active(u) => Active(u)'
        BY <1>1, <1>4, <1>6, <1>7, <2>1, <3>2 DEF Active
      <4> QED
        BY <1>1, <1>10, <3>2, <4>1, <4>2 DEF Sound, Opened, ToldOpen
    <3> QED
      BY <1>6, <3>1, <3>2
  <2> QED
    BY <2>2, <2>4, <2>5, <2>6, <2>7 DEF Sound
<1> QED
  BY <1>7, <1>8, <1>9, <1>10, OthersStaySound

LEMMA UnindexFrame ==
  ASSUME NEW u \in Users, NEW crews, index \in [Crews -> SUBSET Users]
  PROVE  /\ Unindexed(u, crews) \in [Crews -> SUBSET Users]
         /\ \A c \in Crews :
              /\ u \in Unindexed(u, crews)[c] <=> u \in index[c] /\ c \notin crews
              /\ \A v \in Users \ {u} : v \in Unindexed(u, crews)[c] <=> v \in index[c]
  BY DEF Unindexed

LEMMA IndexFrame ==
  ASSUME NEW ix \in [Crews -> SUBSET Users], NEW u \in Users, NEW crews
  PROVE  /\ Indexed(ix, u, crews) \in [Crews -> SUBSET Users]
         /\ \A c \in Crews :
              /\ u \in Indexed(ix, u, crews)[c] <=> u \in ix[c] \/ c \in crews
              /\ \A v \in Users \ {u} : v \in Indexed(ix, u, crews)[c] <=> v \in ix[c]
  BY DEF Indexed

(* The object of a sound user is one of those counted.                       *)
LEMMA CurrentIsCounted ==
  ASSUME Types, NEW u \in Users, Created(u), cur[u] # 0
  PROVE  cur[u] \in Gens
  BY DEF Types, Created, Gens

LEMMA MoveActiveCrewStep ==
  ASSUME IInv, NEW h \in Handlers, MoveActiveCrew(h)
  PROVE  IInv'
<1> DEFINE s == handler[h]
           old == obj[s.user][s.gen].active
           r == [s EXCEPT !.pc = "add"]
<1>1. /\ s.pc = "activate" /\ index' = Unindexed(s.user, {old} \ {s.crew})
      /\ obj' = [obj EXCEPT ![s.user][s.gen].active = s.crew] /\ Continue(h, r)
  BY DEF MoveActiveCrew
<1>0. s.pc = "activate" /\ UNCHANGED <<cur, made, sessions, link, dead, open, wants, drops, missed>>
  BY DEF MoveActiveCrew, client
<1>2. s # Idle /\ Shaped(s)
  BY <1>1 DEF IInv, Types, Idle
<1>3. s \in Activations /\ s.user \in Users
  BY <1>1, <1>2, RunningHasUser
<1>4. r \in Activations /\ r.pc = "add" /\ r.user = s.user /\ r.gen = s.gen /\ r.crew = s.crew
  BY <1>3 DEF Activations
<1>5. Shaped(r) /\ r # Idle
  BY <1>4 DEF Shaped, Idle
<1> HIDE DEF r
<1> USE DEF IInv
<1>6. PICK u \in Users : u = s.user
  BY <1>3
<1>7. /\ DOMAIN handler' = Handlers /\ \A g \in Handlers : Shaped(handler'[g])
      /\ handler'[h] = r /\ raced' = raced
      /\ Alone(u) => \A g \in Handlers : /\ Of(g, u) => g = h
                                         /\ handler'[g] # Idle /\ handler'[g].user = u => g = h
      /\ \A v \in Users \ {u}, g \in Handlers :
           (Of(g, v)' <=> Of(g, v)) /\ (Of(g, v) => handler'[g] = handler[g])
  BY <1>1, <1>2, <1>4, <1>5, <1>6, ContinueFrame
<1>8. PICK k : k = s.crew /\ k \in Crews
  BY <1>3 DEF Activations
<1>9. obj' = [obj EXCEPT ![u] = [obj[u] EXCEPT ![s.gen] = [obj[u][s.gen] EXCEPT !.active = k]]]
  BY <1>1, <1>6, <1>8
<1>10. [obj[u] EXCEPT ![s.gen] = [obj[u][s.gen] EXCEPT !.active = k]] \in [Gens -> Objects]
  <2>1. obj[u] \in [Gens -> Objects]
    BY DEF Types
  <2>2. s.gen \in Gens => [obj[u][s.gen] EXCEPT !.active = k] \in Objects
    BY <2>1, <1>8 DEF Objects
  <2> QED
    BY <2>1, <2>2
<1>11. obj' \in [Users -> [Gens -> Objects]] /\ \A v \in Users \ {u} : obj'[v] = obj[v]
  BY <1>9, <1>10 DEF Types
<1>12. /\ index' \in [Crews -> SUBSET Users]
       /\ \A c \in Crews : /\ u \in index'[c] <=> u \in index[c] /\ c \notin {old} \ {k}
                           /\ \A v \in Users \ {u} : v \in index'[c] <=> v \in index[c]
  <2>1. index' = Unindexed(u, {old} \ {k}) /\ index \in [Crews -> SUBSET Users]
    BY <1>1, <1>6, <1>8 DEF Types
  <2> HIDE DEF old, IInv
  <2> QED
    BY <2>1, UnindexFrame
<1>13. Types'
  <2>1. \A v \in Users : OpenTyped(v)'
    BY <1>0 DEF Types, OpenTyped
  <2> QED
    BY <1>0, <1>7, <1>11, <1>12, <2>1 DEF Types
<1>14. \A v \in Users \ {u} : Same(v)
  BY <1>0, <1>7, <1>11, <1>12 DEF Same
<1>15. ASSUME Sound(u), u \notin raced' PROVE Sound(u)'
  <2>1. Of(h, u) /\ \A g \in Handlers : (Of(g, u) => g = h) /\ (Of(g, u)' => g = h)
    BY <1>2, <1>6, <1>7, <1>15 DEF Of, Sound
  <2>2. cur[u] # 0 /\ s.gen = cur[u] /\ cur[u] \in Gens
    BY <1>0, <1>15, <2>1, CurrentIsCounted DEF Sound, Holds
  <2>3. /\ obj'[u][cur[u]].active = k /\ obj'[u][cur[u]].sidebar = obj[u][cur[u]].sidebar
        /\ old = obj[u][cur[u]].active
    <3>1. obj[u] \in [Gens -> Objects] /\ obj[u][cur[u]] \in Objects
      BY <2>2 DEF Types
    <3>2. obj'[u][cur[u]] = [obj[u][cur[u]] EXCEPT !.active = k]
      BY <1>9, <2>2, <3>1 DEF Types
    <3> QED
      BY <1>6, <2>2, <3>1, <3>2 DEF Objects
  <2>4. Alone(u)' /\ Counted(u)'
    BY <1>0, <1>15, <2>1 DEF Sound, Alone, Counted
  <2>5. Created(u)'
    <3>1. ~Cleaning(u) /\ ~Cleaning(u)'
      BY <1>0, <1>4, <1>7, <2>1 DEF Cleaning
    <3> QED
      BY <1>0, <1>15, <3>1 DEF Sound, Created
  <2>6. Holds(u)'
    <3>1. handler'[h].gen = cur'[u] /\ cur'[u] # 0 /\ obj'[u][cur'[u]].active = handler'[h].crew
      BY <1>0, <1>4, <1>7, <1>8, <2>2, <2>3
    <3> QED
      BY <2>1, <3>1 DEF Holds
  <2>7. Listed(u)'
    <3>1. \A g \in Handlers : ~Unindexing(g, u) /\ ~Unindexing(g, u)'
      BY <1>0, <1>4, <1>7, <2>1 DEF Unindexing
    <3>2. ASSUME NEW c \in Crews, u \in index'[c] PROVE c \in IndexedCrews(obj'[u][cur'[u]])
      <4>1. c \in IndexedCrews(obj[u][cur[u]]) /\ (c = old => c = k)
        BY <1>12, <1>15, <3>1, <3>2 DEF Sound, Listed
      <4> QED
        BY <1>0, <1>8, <2>3, <4>1 DEF IndexedCrews
    <3> QED
      BY <1>0, <2>2, <3>1, <3>2 DEF Listed, IndexedCrews
  <2>8. Opened(u)'
    <3>1. ~Active(u)
      BY <1>0, <2>1 DEF Active
    <3>2. (\E g \in Handlers : Activating(g, u)) => Activating(h, u)'
      <4>1. Of(h, u)'
        BY <1>4, <1>5, <1>6, <1>7 DEF Of
      <4> QED
        BY <1>0, <1>4, <1>7, <2>1, <4>1 DEF Activating
    <3> QED
      BY <1>0, <1>15, <3>1, <3>2 DEF Sound, Opened, ToldOpen
  <2> QED
    BY <2>4, <2>5, <2>6, <2>7, <2>8 DEF Sound
<1> QED
  BY <1>7, <1>13, <1>14, <1>15, OthersStaySound

LEMMA AddCrewSubscriberStep ==
  ASSUME IInv, NEW h \in Handlers, AddCrewSubscriber(h)
  PROVE  IInv'
<1> DEFINE s == handler[h]
<1>1. /\ s.pc = "add" /\ index' = Indexed(index, s.user, {s.crew}) /\ Continue(h, Idle)
      /\ UNCHANGED <<cur, obj, made, sessions, link, dead, open, wants, drops, missed>>
  BY DEF AddCrewSubscriber, client
<1>2. s # Idle /\ Shaped(s) /\ Shaped(Idle)
  BY <1>1 DEF IInv, Types, Idle, Shaped
<1>3. s \in Activations /\ s.user \in Users
  BY <1>1, <1>2, RunningHasUser
<1> USE DEF IInv
<1>4. PICK u \in Users : u = s.user
  BY <1>3
<1>5. PICK k \in Crews : k = s.crew
  BY <1>3 DEF Activations
<1>6. /\ DOMAIN handler' = Handlers /\ \A g \in Handlers : Shaped(handler'[g])
      /\ handler'[h] = Idle /\ raced' = raced
      /\ Alone(u) => \A g \in Handlers : /\ Of(g, u) => g = h
                                         /\ handler'[g] # Idle /\ handler'[g].user = u => g = h
      /\ \A v \in Users \ {u}, g \in Handlers :
           (Of(g, v)' <=> Of(g, v)) /\ (Of(g, v) => handler'[g] = handler[g])
  BY <1>1, <1>2, <1>4, ContinueFrame
<1>7. /\ index' \in [Crews -> SUBSET Users]
      /\ \A c \in Crews : /\ u \in index'[c] <=> u \in index[c] \/ c = k
                          /\ \A v \in Users \ {u} : v \in index'[c] <=> v \in index[c]
  <2>1. index' = Indexed(index, u, {k}) /\ index \in [Crews -> SUBSET Users]
    BY <1>1, <1>4, <1>5 DEF Types
  <2> HIDE DEF IInv
  <2> QED
    BY <2>1, IndexFrame
<1>8. Types'
  <2>1. \A v \in Users : OpenTyped(v)'
    BY <1>1 DEF Types, OpenTyped
  <2> QED
    BY <1>1, <1>6, <1>7, <2>1 DEF Types
<1>9. \A v \in Users \ {u} : Same(v)
  BY <1>1, <1>6, <1>7 DEF Same
<1>10. ASSUME Sound(u), u \notin raced' PROVE Sound(u)'
  <2>1. Of(h, u) /\ \A g \in Handlers : (Of(g, u) => g = h) /\ ~Of(g, u)'
    BY <1>2, <1>4, <1>6, <1>10 DEF Of, Sound
  <2>2. cur[u] # 0 /\ obj[u][cur[u]].active = k
    BY <1>1, <1>5, <1>10, <2>1 DEF Sound, Holds
  <2>3. Alone(u)' /\ Counted(u)' /\ Holds(u)'
    BY <1>1, <1>10, <2>1 DEF Sound, Alone, Counted, Holds
  <2>4. Created(u)'
    <3>1. ~Cleaning(u) /\ ~Cleaning(u)'
      BY <1>1, <2>1 DEF Cleaning
    <3> QED
      BY <1>1, <1>10, <3>1 DEF Sound, Created
  <2>5. Listed(u)'
    <3>1. \A g \in Handlers : ~Unindexing(g, u) /\ ~Unindexing(g, u)'
      BY <1>1, <2>1 DEF Unindexing
    <3>2. ASSUME NEW c \in Crews, u \in index'[c] PROVE c \in IndexedCrews(obj[u][cur[u]])
      BY <1>7, <1>10, <2>2, <3>1, <3>2 DEF Sound, Listed, IndexedCrews
    <3> QED
      BY <1>1, <2>2, <3>1, <3>2 DEF Listed, IndexedCrews
  <2>6. Opened(u)'
    <3>1. ~Active(u)
      BY <1>1, <2>1 DEF Active
    <3>2. (\E g \in Handlers : Activating(g, u)) => Active(u)'
      BY <1>1, <1>5, <1>7, <2>1, <2>2 DEF Activating, Active
    <3> QED
      BY <1>1, <1>10, <3>1, <3>2 DEF Sound, Opened, ToldOpen
  <2> QED
    BY <2>3, <2>4, <2>5, <2>6 DEF Sound
<1> QED
  BY <1>6, <1>8, <1>9, <1>10, OthersStaySound

LEMMA ReplaceSidebarStep ==
  ASSUME IInv, NEW h \in Handlers, ReplaceSidebar(h)
  PROVE  IInv'
<1> DEFINE s == handler[h]
           old == obj[s.user][s.gen].sidebar
<1>1. /\ s.pc = "sidebar" /\ index' = Indexed(Unindexed(s.user, old), s.user, Crews)
      /\ obj' = [obj EXCEPT ![s.user][s.gen].sidebar = Crews] /\ Continue(h, Idle)
  BY DEF ReplaceSidebar, DropThenAdd
<1>0. s.pc = "sidebar" /\ UNCHANGED <<cur, made, sessions, link, dead, open, wants, drops, missed>>
  BY DEF ReplaceSidebar, client
<1>2. s # Idle /\ Shaped(s) /\ Shaped(Idle)
  BY <1>1 DEF IInv, Types, Idle, Shaped
<1>3. s \in Sidebars /\ s.user \in Users
  BY <1>1, <1>2, RunningHasUser
<1> USE DEF IInv
<1>4. PICK u \in Users : u = s.user
  BY <1>3
<1>5. /\ DOMAIN handler' = Handlers /\ \A g \in Handlers : Shaped(handler'[g])
      /\ handler'[h] = Idle /\ raced' = raced
      /\ Alone(u) => \A g \in Handlers : /\ Of(g, u) => g = h
                                         /\ handler'[g] # Idle /\ handler'[g].user = u => g = h
      /\ \A v \in Users \ {u}, g \in Handlers :
           (Of(g, v)' <=> Of(g, v)) /\ (Of(g, v) => handler'[g] = handler[g])
  BY <1>1, <1>2, <1>4, ContinueFrame
<1>6. obj' = [obj EXCEPT ![u] = [obj[u] EXCEPT ![s.gen] = [obj[u][s.gen] EXCEPT !.sidebar = Crews]]]
  BY <1>1, <1>4
<1>7. [obj[u] EXCEPT ![s.gen] = [obj[u][s.gen] EXCEPT !.sidebar = Crews]] \in [Gens -> Objects]
  <2>1. obj[u] \in [Gens -> Objects]
    BY DEF Types
  <2>2. s.gen \in Gens => [obj[u][s.gen] EXCEPT !.sidebar = Crews] \in Objects
    BY <2>1 DEF Objects
  <2> QED
    BY <2>1, <2>2
<1>8. obj' \in [Users -> [Gens -> Objects]] /\ \A v \in Users \ {u} : obj'[v] = obj[v]
  BY <1>6, <1>7 DEF Types
<1>9. /\ index' \in [Crews -> SUBSET Users]
      /\ \A c \in Crews : /\ u \in index'[c]
                          /\ \A v \in Users \ {u} : v \in index'[c] <=> v \in index[c]
  <2>1. index \in [Crews -> SUBSET Users] /\ index' = Indexed(Unindexed(u, old), u, Crews)
    BY <1>1, <1>4 DEF Types
  <2> HIDE DEF old, IInv
  <2>2. PICK mid : mid = Unindexed(u, old)
    OBVIOUS
  <2>3. /\ mid \in [Crews -> SUBSET Users]
        /\ \A c \in Crews, v \in Users \ {u} : v \in mid[c] <=> v \in index[c]
    BY <2>1, <2>2, UnindexFrame
  <2>4. index' = Indexed(mid, u, Crews)
    BY <2>1, <2>2
  <2>5. /\ index' \in [Crews -> SUBSET Users]
        /\ \A c \in Crews : /\ u \in index'[c]
                            /\ \A v \in Users \ {u} : v \in index'[c] <=> v \in mid[c]
    BY <2>3, <2>4, IndexFrame
  <2> QED
    BY <2>3, <2>5
<1>10. Types'
  <2>1. \A v \in Users : OpenTyped(v)'
    BY <1>0 DEF Types, OpenTyped
  <2> QED
    BY <1>0, <1>5, <1>8, <1>9, <2>1 DEF Types
<1>11. \A v \in Users \ {u} : Same(v)
  BY <1>0, <1>5, <1>8, <1>9 DEF Same
<1>12. ASSUME Sound(u), u \notin raced' PROVE Sound(u)'
  <2>1. Of(h, u) /\ \A g \in Handlers : (Of(g, u) => g = h) /\ ~Of(g, u)'
    BY <1>2, <1>4, <1>5, <1>12 DEF Of, Sound
  <2>2. cur[u] # 0 /\ s.gen = cur[u] /\ cur[u] \in Gens
    BY <1>0, <1>12, <2>1, CurrentIsCounted DEF Sound, Holds
  <2>3. obj'[u][cur[u]].sidebar = Crews /\ obj'[u][cur[u]].active = obj[u][cur[u]].active
    <3>1. obj[u] \in [Gens -> Objects] /\ obj[u][cur[u]] \in Objects
      BY <2>2 DEF Types
    <3>2. obj'[u][cur[u]] = [obj[u][cur[u]] EXCEPT !.sidebar = Crews]
      BY <1>6, <2>2, <3>1 DEF Types
    <3> QED
      BY <3>1, <3>2 DEF Objects
  <2>4. Alone(u)' /\ Counted(u)' /\ Holds(u)'
    BY <1>0, <1>12, <2>1 DEF Sound, Alone, Counted, Holds
  <2>5. Created(u)'
    <3>1. ~Cleaning(u) /\ ~Cleaning(u)'
      BY <1>0, <2>1 DEF Cleaning
    <3> QED
      BY <1>0, <1>12, <3>1 DEF Sound, Created
  <2>6. Listed(u)'
    <3>1. \A g \in Handlers : ~Unindexing(g, u)'
      BY <2>1 DEF Unindexing
    <3> QED
      BY <1>0, <2>2, <2>3, <3>1 DEF Listed, IndexedCrews
  <2>7. Opened(u)'
    <3>1. \A g \in Handlers : ~Activating(g, u)
      BY <1>0, <2>1 DEF Activating
    <3>2. open[u] # NoCrew /\ Active(u) => Active(u)'
      <4>1. open[u] # NoCrew => open[u] \in Crews
        BY DEF Types
      <4> QED
        BY <1>0, <1>9, <2>1, <2>2, <2>3, <4>1 DEF Active
    <3> QED
      BY <1>0, <1>12, <3>1, <3>2 DEF Sound, Opened, ToldOpen
  <2> QED
    BY <2>4, <2>5, <2>6, <2>7 DEF Sound
<1> QED
  BY <1>5, <1>10, <1>11, <1>12, OthersStaySound

-----------------------------------------------------------------------------
(* The clean-up                                                            *)

LEMMA CleanupUserStep ==
  ASSUME IInv, NEW h \in Handlers, CleanupUser(h)
  PROVE  IInv'
<1> DEFINE s == handler[h]
<1> USE DEF IInv
<1>1. /\ s.pc = "cleanup" /\ cur' = [cur EXCEPT ![s.user] = 0]
      /\ UNCHANGED <<obj, made, index, sessions, link, dead, open, wants, drops, missed>>
  BY DEF CleanupUser, client
<1>2. s # Idle /\ Shaped(s)
  BY <1>1 DEF Types, Idle
<1>3. s.user \in Users
  BY <1>1, <1>2, RunningHasUser
<1>4. PICK u \in Users : u = s.user
  BY <1>3
<1>5. PICK r : /\ Continue(h, r)
               /\ \/ cur[u] = 0 /\ r = Idle
                  \/ /\ cur[u] # 0
                     /\ r = [pc |-> "unindex", user |-> u, crews |-> IndexedCrews(obj[u][cur[u]])]
  BY <1>4 DEF CleanupUser
<1>6. /\ Shaped(r) /\ (r = Idle \/ r.user = u)
      /\ r # Idle => r.pc = "unindex" /\ r.crews = IndexedCrews(obj[u][cur[u]])
      /\ cur[u] # 0 => r # Idle
  BY <1>5 DEF Shaped, Unindexes, Idle
<1>7. /\ DOMAIN handler' = Handlers /\ \A g \in Handlers : Shaped(handler'[g])
      /\ handler'[h] = r /\ raced' = raced
      /\ Alone(u) => \A g \in Handlers : /\ Of(g, u) => g = h
                                         /\ handler'[g] # Idle /\ handler'[g].user = u => g = h
      /\ \A v \in Users \ {u}, g \in Handlers :
           (Of(g, v)' <=> Of(g, v)) /\ (Of(g, v) => handler'[g] = handler[g])
  BY <1>2, <1>4, <1>5, <1>6, ContinueFrame
<1>8. cur' \in [Users -> Nat] /\ cur'[u] = 0 /\ \A v \in Users \ {u} : cur'[v] = cur[v]
  BY <1>1, <1>4 DEF Types
<1>9. Types'
  <2>1. \A v \in Users : OpenTyped(v)'
    BY <1>1 DEF Types, OpenTyped
  <2> QED
    BY <1>1, <1>7, <1>8, <2>1 DEF Types
<1>10. \A v \in Users \ {u} : Same(v)
  BY <1>1, <1>7, <1>8 DEF Same
<1>11. ASSUME Sound(u), u \notin raced' PROVE Sound(u)'
  <2>1. Of(h, u) /\ \A g \in Handlers : (Of(g, u) => g = h) /\ (Of(g, u)' => g = h)
    BY <1>2, <1>4, <1>7, <1>11 DEF Of, Sound
  <2>2. Alone(u)' /\ Counted(u)'
    BY <1>1, <1>11, <2>1 DEF Sound, Alone, Counted
  <2>3. Of(h, u)' => handler'[h].pc = "unindex"
    BY <1>6, <1>7 DEF Of
  <2>4. Created(u)'
    <3>1. Cleaning(u) /\ ~Cleaning(u)'
      BY <1>1, <2>1, <2>3 DEF Cleaning
    <3> QED
      BY <1>1, <1>8, <1>11, <3>1 DEF Sound, Created, Types
  <2>5. Holds(u)'
    BY <2>1, <2>3 DEF Holds
  <2>6. Listed(u)'
    <3>1. \A g \in Handlers : ~Unindexing(g, u)
      BY <1>1, <2>1 DEF Unindexing
    <3>2. \A c \in Crews : u \in index[c] => cur[u] # 0 /\ c \in IndexedCrews(obj[u][cur[u]])
      BY <1>11, <3>1 DEF Sound, Listed
    <3>3. cur[u] # 0 => Unindexing(h, u)'
      BY <1>4, <1>6, <1>7 DEF Unindexing, Of
    <3>4. ASSUME NEW g \in Handlers, Unindexing(g, u)', NEW c \in Crews, u \in index'[c]
          PROVE  c \in handler'[g].crews
      BY <1>1, <1>6, <1>7, <2>1, <3>2, <3>4 DEF Unindexing, Of
    <3> QED
      BY <1>1, <1>8, <3>2, <3>3, <3>4 DEF Listed
  <2>7. Opened(u)'
    <3>1. ~Active(u) /\ \A g \in Handlers : ~Activating(g, u)
      BY <1>1, <2>1 DEF Active, Activating
    <3> QED
      BY <1>1, <1>11, <3>1 DEF Sound, Opened, ToldOpen
  <2> QED
    BY <2>2, <2>4, <2>5, <2>6, <2>7 DEF Sound
<1> QED
  BY <1>7, <1>9, <1>10, <1>11, OthersStaySound

LEMMA RemoveCrewSubscriberStep ==
  ASSUME IInv, NEW h \in Handlers, RemoveCrewSubscriber(h)
  PROVE  IInv'
<1> DEFINE s == handler[h]
<1> USE DEF IInv
<1>1. /\ s.pc = "unindex"
      /\ UNCHANGED <<cur, obj, made, sessions, link, dead, open, wants, drops, missed>>
  BY DEF RemoveCrewSubscriber, client
<1>2. s # Idle /\ Shaped(s)
  BY <1>1 DEF Types, Idle
<1>3. s.user \in Users /\ Unindexes(s)
  BY <1>1, <1>2, RunningHasUser
<1>4. PICK u \in Users : u = s.user
  BY <1>3
<1>5. PICK r, gone :
        /\ Continue(h, r)
        /\ \/ /\ r = [s EXCEPT !.crews = @ \ gone] /\ index' = Unindexed(u, gone)
           \/ r = Idle /\ s.crews = {} /\ gone = {} /\ index' = index
  BY <1>4 DEF RemoveCrewSubscriber
<1>6. /\ Shaped(r) /\ (r = Idle \/ r.user = u)
      /\ r # Idle => r.pc = "unindex" /\ r.crews = s.crews \ gone
      /\ r = Idle => s.crews = {}
  <2>1. CASE r = Idle /\ s.crews = {}
    BY <2>1 DEF Shaped
  <2>2. CASE r = [s EXCEPT !.crews = @ \ gone]
    <3>1. s = [pc |-> "unindex", user |-> u, crews |-> s.crews]
      BY <1>3, <1>4 DEF Unindexes
    <3>2. r = [pc |-> "unindex", user |-> u, crews |-> s.crews \ gone]
      BY <2>2, <3>1
    <3> QED
      BY <3>2 DEF Shaped, Unindexes, Idle
  <2> QED
    BY <1>5, <2>1, <2>2
<1>7. /\ DOMAIN handler' = Handlers /\ \A g \in Handlers : Shaped(handler'[g])
      /\ handler'[h] = r /\ raced' = raced
      /\ Alone(u) => \A g \in Handlers : /\ Of(g, u) => g = h
                                         /\ handler'[g] # Idle /\ handler'[g].user = u => g = h
      /\ \A v \in Users \ {u}, g \in Handlers :
           (Of(g, v)' <=> Of(g, v)) /\ (Of(g, v) => handler'[g] = handler[g])
  BY <1>2, <1>4, <1>5, <1>6, ContinueFrame
<1>8. /\ index' \in [Crews -> SUBSET Users]
      /\ \A c \in Crews : /\ u \in index'[c] <=> u \in index[c] /\ c \notin gone
                          /\ \A v \in Users \ {u} : v \in index'[c] <=> v \in index[c]
  <2>1. index \in [Crews -> SUBSET Users]
    BY DEF Types
  <2> HIDE DEF IInv
  <2>2. CASE index' = Unindexed(u, gone)
    BY <2>1, <2>2, UnindexFrame
  <2>3. CASE gone = {} /\ index' = index
    BY <2>1, <2>3
  <2> QED
    BY <1>5, <2>2, <2>3
<1>9. Types'
  <2>1. \A v \in Users : OpenTyped(v)'
    BY <1>1 DEF Types, OpenTyped
  <2> QED
    BY <1>1, <1>7, <1>8, <2>1 DEF Types
<1>10. \A v \in Users \ {u} : Same(v)
  BY <1>1, <1>7, <1>8 DEF Same
<1>11. ASSUME Sound(u), u \notin raced' PROVE Sound(u)'
  <2>1. Of(h, u) /\ \A g \in Handlers : (Of(g, u) => g = h) /\ (Of(g, u)' => g = h)
    BY <1>2, <1>4, <1>7, <1>11 DEF Of, Sound
  <2>2. Alone(u)' /\ Counted(u)'
    BY <1>1, <1>11, <2>1 DEF Sound, Alone, Counted
  <2>3. Of(h, u)' <=> r # Idle
    BY <1>6, <1>7 DEF Of
  <2>4. Created(u)'
    <3>1. ~Cleaning(u) /\ ~Cleaning(u)'
      BY <1>1, <1>6, <1>7, <2>1, <2>3 DEF Cleaning
    <3> QED
      BY <1>1, <1>11, <3>1 DEF Sound, Created
  <2>5. Holds(u)'
    BY <1>6, <1>7, <2>1, <2>3 DEF Holds
  <2>6. Listed(u)'
    <3>1. cur[u] = 0 /\ \A c \in Crews : u \in index[c] => c \in s.crews
      BY <1>1, <1>11, <2>1 DEF Unindexing, Sound, Listed
    <3>2. r # Idle => Unindexing(h, u)'
      BY <1>6, <1>7, <2>3 DEF Unindexing
    <3>3. ASSUME NEW g \in Handlers, Unindexing(g, u)', NEW c \in Crews, u \in index'[c]
          PROVE  c \in handler'[g].crews
      BY <1>6, <1>7, <1>8, <2>1, <2>3, <3>1, <3>3 DEF Unindexing
    <3>4. r = Idle => \A c \in Crews : u \notin index'[c]
      BY <1>6, <1>8, <3>1
    <3> QED
      BY <1>1, <3>1, <3>2, <3>3, <3>4 DEF Listed
  <2>7. Opened(u)'
    <3>1. ~Active(u) /\ \A g \in Handlers : ~Activating(g, u)
      BY <1>1, <2>1 DEF Active, Activating
    <3> QED
      BY <1>1, <1>11, <3>1 DEF Sound, Opened, ToldOpen
  <2> QED
    BY <2>2, <2>4, <2>5, <2>6, <2>7 DEF Sound
<1> QED
  BY <1>7, <1>9, <1>10, <1>11, OthersStaySound

(* The server saw a socket end: unless another is open, its goroutine will    *)
(* clean up.                                                               *)
LEMMA OnSessionEndStep ==
  ASSUME IInv, NEW h \in Handlers, NEW u \in Users, OnSessionEnd(h, u)
  PROVE  IInv'
<1> USE DEF IInv
<1>1. /\ dead[u] > 0 /\ dead' = [dead EXCEPT ![u] = @ - 1]
      /\ sessions' = [sessions EXCEPT ![u] = @ - 1]
      /\ UNCHANGED <<cur, obj, made, index, link, open, wants, drops, missed>>
  BY DEF OnSessionEnd
<1>2. /\ dead' \in [Users -> Nat] /\ dead'[u] = dead[u] - 1
      /\ sessions' \in [Users -> Int] /\ sessions'[u] = sessions[u] - 1
      /\ \A v \in Users \ {u} : dead'[v] = dead[v] /\ sessions'[v] = sessions[v]
  BY <1>1 DEF Types
<1>3. \A v \in Users : Types => OpenTyped(v)'
  BY <1>1 DEF Types, OpenTyped
<1>4. CASE sessions'[u] > 0
  <2>1. UNCHANGED <<handler, raced>>
    BY <1>4 DEF OnSessionEnd
  <2>2. Types'
    BY <1>1, <1>2, <1>3, <2>1 DEF Types
  <2>3. \A v \in Users \ {u} : Same(v)
    BY <1>1, <1>2, <2>1 DEF Same, Of
  <2>4. ASSUME Sound(u) PROVE Sound(u)'
    <3>1. Counted(u)'
      BY <1>1, <1>2, <2>4 DEF Sound, Counted, Types
    <3>2. Cleaning(u)' <=> Cleaning(u)
      BY <2>1 DEF Cleaning, Of
    <3>3. Created(u)'
      BY <1>1, <1>2, <2>4, <3>2 DEF Sound, Created, Types
    <3>4. Alone(u)' /\ Holds(u)' /\ Listed(u)' /\ Opened(u)'
      BY <1>1, <2>1, <2>4
      DEF Sound, Alone, Holds, Listed, Opened, ToldOpen, Unindexing, Activating, Active, Of
    <3> QED
      BY <3>1, <3>3, <3>4 DEF Sound
  <2> QED
    BY <2>1, <2>2, <2>3, <2>4, OthersStaySound
<1>5. CASE ~(sessions'[u] > 0)
  <2>1. PICK r : r = [pc |-> "cleanup", user |-> u] /\ Start(h, r)
    BY <1>5 DEF OnSessionEnd
  <2>2. r \in Cleanups /\ Shaped(r) /\ r # Idle /\ r.user = u /\ r.pc = "cleanup"
    BY <2>1 DEF Cleanups, Shaped, Idle
  <2>3. /\ DOMAIN handler' = Handlers /\ \A g \in Handlers : Shaped(handler'[g])
        /\ handler'[h] = r /\ Of(h, u)' /\ raced \subseteq raced'
        /\ u \notin raced' => \A g \in Handlers : ~Of(g, u) /\ (Of(g, u)' => g = h)
        /\ \A v \in Users \ {u}, g \in Handlers :
             (Of(g, v)' <=> Of(g, v)) /\ (Of(g, v) => handler'[g] = handler[g])
    BY <2>1, <2>2, StartFrame
  <2>4. Types'
    BY <1>1, <1>2, <1>3, <2>3 DEF Types
  <2>5. \A v \in Users \ {u} : Same(v)
    BY <1>1, <1>2, <2>3 DEF Same
  <2>6. ASSUME Sound(u), u \notin raced' PROVE Sound(u)'
    <3>1. \A g \in Handlers : ~Of(g, u) /\ (Of(g, u)' => g = h)
      BY <2>3, <2>6
    <3>2. dead'[u] = 0 /\ link[u] # "up" /\ Counted(u)'
      BY <1>1, <1>2, <1>5, <2>6 DEF Sound, Counted, Types
    <3>3. Created(u)'
      <4>1. ~Cleaning(u)
        BY <3>1 DEF Cleaning
      <4> QED
        BY <1>1, <1>2, <2>6, <4>1 DEF Sound, Created, Types
    <3>4. Alone(u)' /\ Holds(u)'
      BY <2>2, <2>3, <3>1 DEF Alone, Holds
    <3>5. Listed(u)'
      <4>1. \A g \in Handlers : ~Unindexing(g, u) /\ ~Unindexing(g, u)'
        BY <2>2, <2>3, <3>1 DEF Unindexing
      <4> QED
        BY <1>1, <2>6, <4>1 DEF Sound, Listed
    <3>6. Opened(u)'
      BY <1>1, <3>2 DEF Opened, ToldOpen
    <3> QED
      BY <3>2, <3>3, <3>4, <3>5, <3>6 DEF Sound
  <2> QED
    BY <2>3, <2>4, <2>5, <2>6, OthersStaySound
<1> QED
  BY <1>4, <1>5

-----------------------------------------------------------------------------
(* The client                                                              *)

LEMMA ServerStays ==
  ASSUME NEW u \in Users, Sound(u), UNCHANGED <<cur, obj, index, handler>>
  PROVE  Alone(u)' /\ Holds(u)' /\ Listed(u)' /\ (Cleaning(u)' <=> Cleaning(u))
<1>1. Alone(u)' /\ Holds(u)' /\ (Cleaning(u)' <=> Cleaning(u))
  BY DEF Sound, Alone, Holds, Cleaning, Of
<1>2. Listed(u)'
  BY DEF Sound, Listed, Unindexing, Of
<1> QED
  BY <1>1, <1>2

LEMMA ClientStep ==
  ASSUME IInv, NEW u \in Users,
         \/ Login(u) \/ LeaveCrew(u) \/ LoadCrews(u) \/ CallFails(u) \/ LoseSocket(u) \/ Reconnect(u)
         \/ \E c \in Crews : SelectCrew(u, c) \/ SelectCrewFails(u, c)
  PROVE  IInv'
<1> USE DEF IInv
<1>1. /\ UNCHANGED <<cur, obj, made, index, handler, raced>>
      /\ \A v \in Users \ {u} : /\ sessions'[v] = sessions[v] /\ dead'[v] = dead[v]
                                /\ link'[v] = link[v] /\ open'[v] = open[v]
                                /\ wants'[v] = wants[v] /\ drops'[v] = drops[v]
                                /\ v \in missed' <=> v \in missed
  <2>1. UNCHANGED <<cur, obj, made, index, handler, raced>>
    BY DEF Login, LeaveCrew, LoadCrews, CallFails, LoseSocket, Reconnect, SelectCrew,
       SelectCrewFails, Command, server
  <2>2. ASSUME NEW v \in Users \ {u}
        PROVE  /\ sessions'[v] = sessions[v] /\ dead'[v] = dead[v] /\ link'[v] = link[v]
               /\ open'[v] = open[v] /\ wants'[v] = wants[v] /\ drops'[v] = drops[v]
               /\ v \in missed' <=> v \in missed
    BY DEF Login, LeaveCrew, LoadCrews, CallFails, LoseSocket, Reconnect, SelectCrew,
       SelectCrewFails, Command, server, Types
  <2> QED
    BY <2>1, <2>2
<1>2. \A v \in Users \ {u} : Same(v)
  BY <1>1 DEF Same, Of
<1>3. Types' /\ (Sound(u) => Sound(u)')
  <2> SUFFICES ASSUME TRUE
               PROVE  /\ Types'
                      /\ Sound(u) => Counted(u)' /\ Created(u)' /\ Opened(u)'
    BY <1>1, ServerStays DEF Sound
  <2> USE DEF Types
  <2>1. Sound(u) => (Cleaning(u)' <=> Cleaning(u))
    BY <1>1, ServerStays
  <2>2. CASE Login(u)
    BY <1>1, <2>1, <2>2 DEF Login, OpenTyped, Sound, Counted, Created, Opened, ToldOpen
  <2>3. CASE LoadCrews(u)
    BY <1>1, <2>1, <2>3 DEF LoadCrews, Command, MayCall, server, OpenTyped, Sound, Counted, Created, Opened, ToldOpen, Activating, Active, Of
  <2>4. CASE LoseSocket(u)
    BY <1>1, <2>1, <2>4 DEF LoseSocket, server, OpenTyped, Sound, Counted, Created, Opened, ToldOpen
  <2>5. CASE Reconnect(u)
    BY <1>1, <2>1, <2>5 DEF Reconnect, OpenTyped, Sound, Counted, Created, Opened, ToldOpen
  <2>6. CASE \E c \in Crews : SelectCrew(u, c)
    BY <1>1, <2>1, <2>6
    DEF SelectCrew, Command, MayCall, server, OpenTyped, Sound, Counted, Created, Opened, ToldOpen
  <2>7. CASE \E c \in Crews : SelectCrewFails(u, c)
    BY <1>1, <2>1, <2>7
    DEF SelectCrewFails, Command, MayCall, server, OpenTyped, Sound, Counted, Created, Opened, ToldOpen
  <2>8. CASE LeaveCrew(u)
    BY <1>1, <2>1, <2>8
    DEF LeaveCrew, Command, MayCall, server, OpenTyped, Sound, Counted, Created, Opened, ToldOpen
  <2>9. CASE CallFails(u)
    BY <1>1, <2>1, <2>9
    DEF CallFails, MayCall, server, OpenTyped, Sound, Counted, Created, Opened, ToldOpen, Activating, Active, Of
  <2> QED
    BY <2>2, <2>3, <2>4, <2>5, <2>6, <2>7, <2>8, <2>9
<1> QED
  BY <1>1, <1>2, <1>3, OthersStaySound

LEMMA StepInv == IInv /\ [Next]_vars => IInv'
<1> SUFFICES ASSUME IInv, [Next]_vars PROVE IInv'
  OBVIOUS
<1>1. CASE UNCHANGED vars
  BY <1>1 DEF vars, IInv, Types, OpenTyped, Shaped, Unindexes, Sound, Alone, Counted, Created, Cleaning,
     Holds, Listed, Unindexing, Opened, ToldOpen, Activating, Active, Of
<1>2. CASE Next
  BY <1>2, ClientStep, CallStep, MoveActiveCrewStep, AddCrewSubscriberStep, ReplaceSidebarStep,
     OnSessionEndStep, CleanupUserStep, RemoveCrewSubscriberStep DEF Next
<1> QED
  BY <1>1, <1>2

-----------------------------------------------------------------------------
(* The theorems                                                            *)

(* A user that is settled and never had two handlers at once has none now,    *)
(* so its index entries are those of its object, and its open crew is active. *)
LEMMA OrderlyIsSound ==
  ASSUME IInv, NEW u \in Users, Orderly(u)
  PROVE  Sound(u) /\ dead[u] = 0 /\ wants[u] = "nothing" /\ \A h \in Handlers : ~Of(h, u)
  BY DEF IInv, Orderly, Settled, Busy, Of

(* The reverse index of push.go never lists a user under a crew its           *)
(* subscription does not name, whatever the calls, lost sockets and clean-ups *)
(* before, as long as they did not overlap.                                *)
THEOREM TheIndexIsSubscribed == Spec => []IndexIsSubscribed
<1>1. IInv => IndexIsSubscribed
  <2> SUFFICES ASSUME IInv, NEW u \in Users, Orderly(u), NEW c \in Crews, u \in index[c]
               PROVE  Subscribed(u) /\ (c = Subscription(u).active \/ c \in Subscription(u).sidebar)
    BY DEF IndexIsSubscribed
  <2>1. cur[u] # 0 /\ c \in IndexedCrews(obj[u][cur[u]])
    BY OrderlyIsSound DEF Sound, Listed, Unindexing
  <2> QED
    BY <2>1 DEF Subscribed, Subscription, IndexedCrews
<1> QED
  BY InitInv, StepInv, <1>1, PTL DEF Spec

(* The crew that is open in a connected client is the one the server holds as *)
(* its active crew and finds in the index, once the client's calls are         *)
(* answered, unless its newest request for that crew failed or was followed   *)
(* by one for the crew of its voice call.                                  *)
THEOREM TheOpenCrewIsPushed == Spec => []OpenCrewIsPushed
<1>1. IInv => OpenCrewIsPushed
  <2> SUFFICES ASSUME IInv, NEW u \in Users, Orderly(u), ToldOpen(u)
               PROVE  u \in ActiveSubscribersOf(open[u])
    BY DEF OpenCrewIsPushed
  <2>1. Active(u)
    BY OrderlyIsSound DEF Sound, Opened, ToldOpen, Activating
  <2> QED
    BY <2>1 DEF Active, ActiveSubscribersOf, SubscribersOf, Subscribed, Subscription
<1> QED
  BY InitInv, StepInv, <1>1, PTL DEF Spec
=============================================================================
