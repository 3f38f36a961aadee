# A TLA+ model of m3llo

m3llo is a desktop application for small groups of friends ("crews"): voice channels, game streams, clips, a crew feed
and presence. A Rust client (`mello-core`, `client`, `hud`) talks to a Nakama server that runs one Go module
(`backend/nakama/data/modules`) and to an SFU for media; the media engine is C++ (`libmello`).

This directory holds TLA+ modules translated from that code, configurations that check them with TLC on small
instances, and theorems about them that TLAPS checks for all values of the constants. Paths below are relative to the
root of the repository; Go files without a directory are in `backend/nakama/data/modules`.

    tlc -workers 2 -config MCVoiceSeats.cfg MCVoiceRooms    # model-check one instance
    tlapm VoiceRoomsProofs.tla                              # check the proofs of a module

`PROJECT.json` lists the components, the runs with their properties, the source lines behind every definition, the
mutations of the model that each property detects, the hazards of the code and the theorems.

## 1. The system

### Parts, their state and their operations

| part | state | operations | status |
|---|---|---|---|
| voice rooms (`voice_state.go`, `guest_sessions.go`) | in memory, one mutex per map: rooms with members and SFU region, user -> channel, channel -> crew, open ledger sessions, guest sessions; stored: the user's presence | `voice_join`, `voice_leave`, guest join and leave, kick or leave of a crew, eviction when a channel is deleted, `voice_speaking`, `voice_mute_state`, the sweep of dead members, the expiry of guests | `VoiceRooms`; flags in `VoicePush`; sweep and expiry not |
| crew subscriptions (`push.go`, `presence.go`; client `crew.rs`, `connection.rs`) | user -> subscription (active crew, sidebar crews), crew -> users, session counts | `set_active_crew`, `subscribe_sidebar`, session start and end; client: sign in, select a crew, reload the crews, reconnect | `CrewSubscriptions`; sign-out not |
| voice pushes (`push.go`; client `nakama/client.rs`) | dirty crews, sequence number per crew; client: last number, shown roster | `PushVoiceUpdate`, `markVoiceDirty`, the 100 ms loop, the client's stale filter, its resync | `VoicePush` |
| mention pushes (`push_coalesce.go`) | per user: last push, held mentions, whether a flush is due; timers | `submit`, `flush`, `sweepLocked` | `PushLimiter` |
| crew event ledger (`crew_events.go`, `streaming.go`) | one versioned storage object per crew | append, removal on resume, backfill of pictures | `CrewLedger`, `EventLog` |
| game session reports (`pending_session_ends.rs`, `client/presence.rs`, `crew_events.go`) | client: persisted queue with attempts; server: dedup marks, stats, ledger | direct send, queue, flush, opt-out; `game_session_end` | `SessionEnds` |
| presence (`presence.go`, `session_activity.go`) | one stored presence per user, session counts, activity reports | session start and end, `presence_update`, heartbeat | partly: session count, voice activity |
| voice reconcile (`voice_reconcile.go`) | misses per user | comparison of the rooms with the SFU's members | not modelled (section 7) |
| voice channels (`voice_channels.go`) | one stored list per crew | create, rename, reorder, delete | not modelled (section 7) |
| streams (`streaming.go`; client `stream_host_start.rs`, `streaming.rs`) | backend: metadata, session, resume record, viewer counts in separate storage objects; client: the start in flight with its generation, the hosted stream, the channel of step reports | start, cancel, live, stop, resume, clean-up at the session's end, GC; watch and viewer left | `StreamHost`; viewers not |
| client voice call (`client/voice.rs`, `sfu_voice_join.rs`, `connection.rs`) | remembered channel, kept token, scheduled attempt, join that runs, media | join, leave, select or leave a crew, log in and out, SFU join steps, voice tick, socket lost and back, wake from sleep | `VoiceCall` |
| client clip upload (`clip_upload/*`; backend `clips.go`, `game_clips.go`) | queue and its file, the worker's mailbox, presigned URLs; clips document; multipart uploads of the bucket | share, post, request URLs, PUT, complete, retry, renew, sign out and in, restart, clean-up of old uploads | `ClipUpload` |
| push decision (`push_remote.go`) | tokens and their owners, grace timers | register, decide per user, send | not modelled (section 7) |
| crew state and previews (`crew_state.go`, `push.go`) | cached states, throttles | compute, invalidate, push | not modelled (section 7) |
| crews, invites (`crews.go`, `invite_codes.go`) | Nakama groups, codes | create, join, leave, kick, invite | membership only, in `VoiceRooms` |
| SFU routing and tokens (`sfu_routing.go`, `sfu_auth.go`) | regions | choose a region, sign a token | inside `VoiceRooms` |
| quests, gifts, head2head, recaps, voice clips, chat | versioned documents, object store | | not modelled |
| client: reconnect supervisor, signalling of an SFU session, stream viewer, feed reload | timers, epochs, queues | | not modelled, but for what a reconnect restores |
| client UI, hud, game sensing, updater, libmello, hook, renderer, tools | | | not modelled |

### How the parts interact

Nakama runs every RPC, every hook and every timer of the Go module on its own goroutine. In-memory state is shared
between them through package-level maps, each with a mutex of its own, and almost no operation holds two of these
mutexes. Stored state is read and written with separate storage calls, some of them conditional on a version. The
chains that matter are:

- a voice join or leave changes the rooms, then the presence, then pushes the roster (`PushVoiceUpdate`), and the
  leave that empties a room closes its ledger session, which appends an event to the crew's ledger;
- the end of a user's last socket (`OnSessionEnd`) writes the offline presence, leaves voice, cleans up a stream and
  drops the user's subscriptions, on the session count it read at its beginning;
- pushes go to the subscribers of a crew, so what a client sees depends on the subscriptions, on the sequence numbers,
  and on what the client calls again after it has reconnected;
- a client's finished game session reaches stats and ledger through an RPC that may be repeated;
- a host's client starts a stream with one RPC and advertises it with another when its track is open; the end of its
  socket removes the advertisement, and the reconnect asks for it again while the SFU session goes on;
- a voice call is a seat on the backend and a session at the SFU, which the client joins off its command loop and joins
  again on its own when it is lost;
- a clip goes through a persisted queue, three RPCs and presigned URLs, any of whose answers may be lost.

### What is hard about it, and what makes it correct

| hard behaviour | where | what must hold |
|---|---|---|
| handlers of different users interleave between any two critical sections | voice rooms | the three records of a user's channel agree again when its call is over; an occupied room has a crew; a kicked user is out; one SFU per room; a failed join leaves nothing |
| check, then act in another section | capacities, membership, first region | the overshoot is bounded |
| state that a later event must clean up | guest sessions, ledger sessions, subscriptions | nothing is left that no later event finds |
| reconnect while the end of the old session is still handled | subscriptions, presence, streams | the new session keeps what it set up |
| numbered messages out of order | voice pushes | the newest state is shown |
| coalescing with marks and timers | voice pushes, mention pushes | no change is lost, none is counted twice, rate limit |
| read, modify, write with retries | ledger and every versioned document | acknowledged changes stay, failed ones are absent |
| at-least-once reports with deduplication | session reports | once in the ledger, and in the end |
| limits | queue caps, attempts, sweeps of maps | they drop only what a rule names |
| several records of one thing, written one by one | streams | an ended stream is recorded once, a live one is found, an absent host is not shown for ever |
| work off the command loop whose result comes after a cancel | voice call, stream start | leaving is final; a late connection is left |
| a file behind a queue, requests that are repeated | clip upload | stored once, whole, and not lost without a word |

`PROJECT.json` lists these as hazards, each at its line, with the property that covers it or the reason why none does.

## 2. The modules

    VoiceRoster  <- abstract ---  VoiceRooms         MCVoiceRooms        VoiceRoomsProofs
    EventLog     <- abstract ---  CrewLedger         MCCrewLedger        CrewLedgerProofs
      (both use Filtering)
                                  PushLimiter        MCPushLimiter       PushLimiterProofs
                                  CrewSubscriptions  MCCrewSubscriptions CrewSubscriptionsProofs
                                  VoicePush          MCVoicePush         VoiceClientProofs
                                  SessionEnds        MCSessionEnds       SessionEndsProofs
                                  VoiceCall          MCVoiceCall         VoiceClientProofs
                                  ClipUpload         MCClipUpload        ClipUploadProofs
                                  StreamHost         MCStreamHost        StreamHostProofs

An `MC` module extends its module with model values and symmetry.
In every module the variables carry the names of the code's maps and fields, an action is one critical section, one
storage call or one message, and variables marked "history" record what happened for a property to speak about; no
guard reads them. Operators introduced by "Mutant:" are wrong variants of the definition below them. They are not part
of the specification: substituted for that definition, each is detected by a property, which shows that the property
depends on what the code does there.

### VoiceRooms and VoiceRoster

A process is an RPC call or a goroutine; `pc[p]` is the critical section it enters next. `voiceLeaveInternal` is a
subroutine with a return label (`ret`), called by a switch of channels, a leave, a failed join, a crew exit and an
eviction.

| actions | code |
|---|---|
| `VoiceJoinRPC`, `GuestVoiceJoinRPC`, `GuestCap` | membership test or guest count before `joinVoiceRoom` |
| `CheckCapacity`, `SameChannelRejoin`, `UpsertVoiceMember`, `UpsertCrew`, `Seat`, `SetUserChannel`, `SetChannelCrew`, `RecordLedgerSession`, `JoinPresence` | the sections of `joinVoiceRoom` |
| `IssueToken`, `RememberGuestSession` | the region, the token or its failure with the undo; the record that lets a guest expire |
| `Unmap`, `OrphanFound`, `NotInVoice`, `RemoveMember`, `ReadStats`, `CloseSession`, `LeavePresence` | the sections of `voiceLeaveInternal` |
| `CrewExit`, `ReadMapOnExit`, `ReadCrewOnExit` | kick and leave of a crew with `cleanupVoiceOnCrewExit` |
| `VoiceEvictChannel`, `EvictNext` | snapshot of a deleted channel's members, one leave for each |
| `CrewEnter` | external: Nakama adds a member to the group |

Which crew a join is for is the caller's word: `voice_join` tests that the caller belongs to the crew it names, and
accepts a channel that is not on that crew's list (`resolveVoiceChannel`, `voice_state.go:248`), so `VoiceJoinRPC` takes
any channel with any crew of the caller. `NameCrew` is the write of the room's entry in `voiceChannelCrew`, by which
pushes and crew exits find the room; `mixed` (history) has the rooms whose entry it replaced while others sat there.

A member is its user id: the flags, names and join times of a member are data no property here reads. The choice of a
region is nondeterministic among the configured ones. `raced` records the users for whom two handlers ever ran at the
same time. The code does not serialise the calls of one user, so most agreements hold for the other users only; for a
raced user they are refuted (section 4). `VoiceRoster` is the promise: every user has one seat, and a step takes, moves
or gives up the seat of one user. `ImplementsRoster` maps a raced user to the value `Lost`.

### PushLimiter

`submit` and `flush` each hold the limiter's one mutex, so each is an action per outcome: `SubmitNow`, `SubmitHeld`
and `Flush`; `Swept` is `sweepLocked`. Timers are `time.AfterFunc` goroutines: they run at their due time or later and
are never cancelled. Time is counted in ticks of the window. The mention's text is left out; its crew and its place in
the order are kept, because the coalesced push opens the crew of the newest one and names the total.

### CrewSubscriptions

Server handlers and the client are in one module because the hazard lies between them. `SetActiveCrewRPC` is three
sections (find the subscription object, move the active crew, add to the index). The object found is a generation of its
own: a `CleanupUser` in between removes the entry of the map while the RPC goes on with the old object, as with the
pointer in the code. `CleanupUser` removes the user from each crew under one lock per crew. The client makes one call at
a time unless the connection of a call fails while the server still runs it (`GivesUp`). A call may also fail before the
server sees it (`CallFails`), and `handle_select_crew` may return before it calls (`SelectCrewFails`); both only log.
`LeaveCrew` tells the server nothing. `SetActiveCrewCommand` is the command the user interface sends: for the open crew
after a change there, and for the crew of the voice call when its members change, whichever crew is open. `missed`
(history) has the users whose newest request for the open crew did not arrive, or was followed by one for another crew.

### VoicePush

The roster of a channel is the number of changes it had. A push reads the channels one lock at a time, takes its
number and is sent: three actions of one goroutine that interleave with other goroutines, the coalescing loop, the
client and a restart of the server. `Stale` is `voice_update_is_stale` for the numbers the server sends.

### CrewLedger and EventLog

Each of the three operations is a loop of at most three attempts: read the object, compute the new value, write it
with the version that was read. Nakama's storage is external: a write with an empty version is unconditional, one with
an outdated version is refused, and each call may fail. A failed read is what `readLedger` makes of it, an empty ledger
with an empty version. `EventLog` is the promise: one log changed by whole operations, one after the other.
`Filtering` is the loop that copies the events to keep, as a recursive function on the positions of the slice: the
provers can unfold it, while `SelectSeq` is opaque to them.

### SessionEnds

Client: the direct call, the queue with its cap and its attempts, the flush that stops at the first failure, the
opt-out that empties the queue, the 30 days after which a report is dropped (`Age` and the prunes of `PushUnsent` and
`Open`). Server: membership test, read of the mark, create-only write of the mark, stats, append. A call whose
connection breaks may go on running. `queue` is a function to the failed flushes a report may still have (0: not
queued), and `file` is what the start after a crash would read. `Save` follows every change of the queue and is best
effort, as in the code: a save that fails, or that the crash cuts off, leaves the older file or one that cannot be read,
which counts as empty. A crash starts from the file (`Open`), which may bring back reports that were accepted or
dropped since. `crashed` (history) has what a crash took in the direct call or, when the last save had failed
(`unsaved`), what the file lacks: "A failed write costs the restart survival of the queue"
(`pending_session_ends.rs:171-172`). Every other report must survive.

### VoiceCall

The client's side of a call. The command loop runs one handler at a time and waits for its RPCs, so a handler is an
action, with the outcomes of its RPCs as alternatives; the two network steps of an SFU join run off the loop and are
`SfuConnected`, `SfuReady` and `SfuFails`. `Schedule`, `GiveUp` and `Attempt` are what the 20 ms voice tick does.
`Resync` is the voice part of `resync_after_reconnect`, used by `SocketReturns` and by `Wake`. The backend is this
user's seat. Times are counted in a unit shorter than every delay; each timer counts down or saturates, so no clock is
bounded from outside, and `Clock` stops while a tick has something to do. The backend takes the seat only while the
socket is down (`SeatIsLost`): the clean-up that comes late is the subject of `CrewSubscriptions`. `wish` (what the user
asked for last) and `unclaimed` (the last `voice_join` failed, or the re-assert was left out because a join with the
kept token ran) are history.

### ClipUpload

Client, backend and bucket in one module, because the hazards lie between them. A clip is the number of its capture,
which is the order of the queue. One iteration of the worker's loop is `Pick`, which copies the next entry, and one
request, because the signed-in user may change in between: requests carry the token of the moment. The three outcomes
of a request are an answer, a refusal and an answer lost after the effect (`Lost`). `Save` is the write of the queue
file, which may fail; `Crash` reads the file again. One bound, `Faults`, is shared by everything that goes wrong.

### StreamHost

One host and one crew. A stream is named by the generation of the start that made it. The client's commands
(`StartStream`, `CancelStart`, `EndStream`), the three steps of a start (`RpcAnswered`, `RpcFails`, `StepEnds`) and the
report the loop takes next (`TakeReport`) are the client; `Reconnect` and `ResumeAnswered`, `ResumeTimesOut`,
`ResumeFails` are `readvertise_stream_after_reconnect`, for which the loop waits. An RPC, a session event or the GC is a
handler, a record whose `at` is the storage call it makes next:

| handler | steps |
|---|---|
| start | `StoreStreamSession` |
| live | `LoadForLive`, `AdvertiseStream`, `WriteOnline`, `ClearPending` |
| stop | `ReadMeta`, `DeleteMeta`, `DeleteSession`, `LoadPending`, `DeletePending`, `AppendSession`, `WriteOnline` |
| end of the session, GC | `CountSession`, `WriteOffline`, `ReadMeta`, `LoadSession`, `DeleteMeta`, `DeleteSession`, `AppendSession`, `KeepForResume` |
| resume | `ReadLive`, `LoadLive`, `ReadRecord`, `Restore`, `RestoreSession`, `DeleteRecord`, `RemoveEvent`, `WriteOnline` |
| begin of a session | `RegisterSession`, `WriteOnline` |

The record `active_streams`, which no operation here reads, the durable copy of a session, the viewers and the activity
of a presence are left out. `AppendSession` and `RemoveEvent` are one action each: `CrewLedger` is about what happens
inside them. The code deletes and writes without a version, so it cannot keep what two overlapping operations promise
each: history variables name the cases. `torn` has the streams whose end, or whose resume, two handlers worked on at
once, or that a handler removed or overwrote without having read them. `hidden` has those the client did not ask for, or
a handler set out to remove, since the last reconnect (section 4): each `Reconnect` takes the hosted stream out of it,
because the backend is asked for it again. `seen` has the streams that were ever advertised.

`Logout` and `Login` are `handle_logout` and `on_connected`: the hosted stream and a start in flight go on, nothing is
sent while there is no session (`Sends`), and the sign-in resumes nothing.

## 3. The runs, their bounds and their fairness

| run | instance | properties |
|---|---|---|
| `voice_seats` | 2 members, 2 crews, 2 channels, each joined under either crew, 2 regions, 2 concurrent handlers; join, leave, kick, re-entry, eviction | `SeatAgrees`, `PresenceAgrees`, `OccupiedRoomHasCrew`, `NoSeatOutsideCrew`, `FailedJoinSeatsNobody`, `OpenSessionIsOccupied`, `SameSFU`, `ImplementsRoster` |
| `voice_guests` | 2 members and 3 guests, capacity 2, guest cap 1, 2 handlers | `CapacityBounded`, `SeatedGuestExpires` |
| `push_limiter` | 2 users, 2 crews, window 2, 5 mentions up to tick 7, sweep at 1 | `HeldIsWaiting`, `HeldHasOneTimer`, `NewestOpens`, `OncePerWindow`, `HeldIsPushed` |
| `subscriptions` | 1 user, 2 crews, 3 handlers, 2 lost sockets, 3 commands, calls may fail or break | `IndexIsSubscribed`, `OpenCrewIsPushed` |
| `reconnect_race` | 1 user, 2 handlers, a lost socket | refutes `ReconnectRestoresCrew` |
| `voice_push` | 2 goroutines and the loop, 2 channels, 3 changes, a restart | `NewestSeqShown`, `ChangeIsPushed` |
| `ledger` | 3 goroutines, 2 events, 3 attempts, a failing read, a failing write, retention of 1 tick | `AckedIsKept`, `GoneStaysGone`, `ImplementsEventLog` |
| `session_ends` | 3 sessions, the first refused, queue of 2, 2 attempts, a lost answer, a crash, a failed save, an opt-out or a report that gets too old, a failed write or a restart of the server | `RecordedOnce`, `AcceptedIsRecorded`, `NoneVanishes`, `EndedIsRecorded` |
| `voice_call` | 2 crews of 2 channels, delays 1, 2 and 3, give-up after 6, token life 5, network steps of 2 units each | `LeftStaysLeft`, `OneChannel`, `AttemptsEnd`, `TalkingIsSeated`, `DropEnds` |
| `voice_after_switch` | 2 crews of 1 channel, the shortest times | refutes `MicOnlyOnRequest` |
| `clip_upload` | 2 users, 3 clips of 2 parts, queue of 2, 1 post per day, 2 faults | `UploadedIsWhole`, `DonePartsAreUp`, `StoredOnce`, `NoSilentLoss`, `QueuedLeaves` |
| `stream_host` | 2 starts and losses of the socket together, 1 RPC lost or 1 sign-out | `OneEventPerStream`, `LiveIsFound`, `CarriedIsHosted`, `AbsentHostIsNotShown` |

Why the bounds are enough.

- Two concurrent handlers give every interleaving of a handler with another one. A third adds only overlaps of three
  critical sections; the theorems of section 5 cover any number for the properties of `voice_seats`. Two channels and
  two crews are needed for a switch, for a kick from the other crew and for a channel of another crew. Five users and
  two seats are needed so that a cap that is off by one is told apart from the overshoot of two concurrent joins.
- `voice_seats` carries `CONSTRAINT NobodyRaced`: a state with a raced user is checked and not explored further. Nothing
  is lost for properties that say nothing of raced users, except that a raced user no longer moves among others; the
  theorems do not have this restriction. `voice_guests` carries `RacedAlone`: there the overlapping handlers of one user
  run on as long as nobody else has been in voice, which reaches the orphan walk of a leave (`OrphanFound`), a branch
  that only a leave racing a join of the same user takes.
- A window of two ticks has a first, a middle and a last moment; tick 7 leaves room for three windows in a row with late
  timers, and five mentions fill two users' windows with both crews. `SweepAt = 1` makes every submit sweep.
  `Tick` stops a window after `MaxTime`: by then every timer is due.
- `MaxSelects`, `MaxChanges`, `MaxRestarts`, `MaxTime`, `MaxReadFaults`, `MaxWriteFaults`, `MaxLost`,
  `MaxCrashes`, `MaxDrops`, `SaveFaults` and `ServerFaults` bound how often the environment acts, never
  what a handler does. One failure of each kind already meets every state of a handler.
- In `CrewLedger` a tick (a share of the 7-day window) waits until no write is under way: an operation computes its
  cut-off and writes within milliseconds.
- `subscriptions`: no step of one user reads or changes what belongs to another one (`OthersStaySound` proves it), so
  one user is enough; three handlers let a clean-up and two calls of a broken connection overlap, and a second lost
  socket meets what the first reconnect restored.
- Three goroutines with three attempts exhaust the attempts of one of them by conflicts and a failing write.
- `voice_call`: the delays keep the order and the proportions of the code (0.5 s, 1 s, 2 s; give-up after 30 s): the
  first two attempts differ from the rest, several attempts fit before the limit, a token ages out between two of them,
  and a join that runs into its limits passes the give-up. The theorems of section 5 hold for all delays.
- `clip_upload`: with a queue of two a third clip drops the oldest, which may be the one the worker has copied; a limit
  of one post a day refuses a clip for good; two parts tell a part that is done from one that is sent. Two faults give
  every pair of a lost answer, a failed save, a restart, an abort of an upload, a trim of the document, a sign-out, a
  departure from the crew, deleted files and a pause. By hand the same properties held with a daily limit of 2 (1 part,
  2 faults: 1 090 771 states; 2 parts: 2 163 645) and with a queue of 1, 2 clips and 3 faults (2 591 948).
- `stream_host`: `MaxTurns` counts starts and losses together. Two turns give two starts (a late stop, report or
  connection of the first meets the second), a start and a loss in either order, and two losses; with them one RPC is
  lost or the host signs out (`MaxFaults` counts both). Everything else interleaves without a bound. Three turns matter
  for one thing, two resumes that use one record (`Uses`); the theorems of section 5 hold for any number of turns.
- Users, crews, guests, regions, events, goroutines and processes are symmetric where a configuration says so; no
  configuration that checks a liveness property uses symmetry.
- `CHECK_DEADLOCK FALSE` stands where the environment's bounds run out and nothing is left to do. The voice runs have
  none: there a handler can always begin.

Fairness. `PushLimiter!FairSpec`: time passes and the Go runtime runs a timer that is due. `VoicePush!FairPushSpec`:
goroutines run to their end, the loop's ticker ticks, the socket delivers what it accepted. `SessionEnds!FairSpec`: a
call that runs is answered, the user has sharing on in the end, and the queue is flushed again and again. The last is
strong fairness on `Flush`: the code flushes when a crew becomes active, so the assumption is that the user opens a
crew over and over. `VoiceCall!FairSpec`: the loop runs its voice tick, time passes, and a network step ends, at the
latest by its limit. `ClipUpload!FairSpec`: the worker's thread goes on, and a pause of the pace (a running game, a
stream) ends. `StreamHost!FairSpec`: goroutines run to their end and the GC's ticker ticks, the steps of a start end by
their limits, and the command loop takes what is reported. None of these asks that a join, a mention, a session, a clip
or a stream happens, that a socket comes back, or that an RPC arrives.

## 4. Where the code departs from its documents

Two runs refute a statement of the repository; `PROJECT.json` quotes it under "findings".

- `reconnect_race`: `OnSessionEnd` of the lost socket reaches `CleanupUser` after the reconnected client has called
  `set_active_crew`, and removes the new subscription: the open crew gets no pushes.
- `voice_after_switch`: selecting or leaving a crew stops the media of a call but keeps the remembered channel; the next
  voice tick takes that for a drop, and half a second later the microphone is on in the old channel
  (`client/crew.rs:377`: "Voice now starts only when the user asks for it.").

The modules state seven more properties that TLC refutes, with the instance that shows it. They stand at the end of
their module under "Refuted" and are in no configuration, so that each module keeps one passing run.

| property | statement of the repository | refuted by |
|---|---|---|
| `VoiceRooms!OneChannelAtATime` | `specs/13-VOICE-CHANNELS.md:384`, "one channel at a time globally" | 1 member, 2 handlers, 2 channels: two overlapping joins (two devices, a repeated call) seat the user in two rooms, and a leave finds only the one the map names |
| `VoicePush!SettledShowsRoster` | `nakama/client.rs:2670-2671`, "so stale/duplicate pushes can be discarded" | 2 goroutines, 1 channel: the push that read the roster first takes the higher number, and the client drops the newer roster |
| `CrewLedger!ReadFaultLosesNothing` | `specs/16`, "If two writes race, one fails and retries" | 1 goroutine, 2 events, a failing read: it is taken for an empty ledger, and the append replaces the whole ledger |
| `SessionEnds!AppendFailureIsRetried` | `pending_session_ends.rs:4-5`, "Without this queue the report is dropped and the crew feed never shows the night." | 1 session, a failing append: the session is marked before it is appended, so the retry is answered as a duplicate |
| `ClipUpload!OnlyOwnersSession` | `clip_upload/queue.rs:9-10`, "Only that user's session uploads it." | 2 users, 1 clip, a sign-out: requests carry the token of the moment, and the clip under way is posted for the user who signed in |
| `StreamHost!CrewSeesOnlyCarried` | `streaming.go:544-545`, "the crew never sees a stream that no SFU session carries" | 1 turn: a stop that is handled while `stream_live` runs reads no metadata, and the advertisement follows it |
| `StreamHost!FoundDespiteLateCleanup` | `streaming.go:1343-1344`, "the old socket ended while a newer one was open, so no cleanup ran" | 2 turns, no fault: the socket is lost while a start is in flight, the reconnect has no stream to resume, the stream goes live, and then the end of the old session, which counted before the new one registered, removes the live advertisement (`presence.go:358-381`); the host is not told |

The guards of the passing properties mark further places. They are not separate runs, because each follows from a
step the modules show:

- the capacity can be exceeded by the joins that pass the test together; `CapacityBounded` says by
  how many (`specs/13-VOICE-CHANNELS.md:385`, "max 50"); the test of the guest cap has the same form;
- `voice_join` and the guest join accept a channel of another crew (`voice_state.go:225-249`, `461-469`). The join
  replaces the room's crew entry (192, 341): the roster goes to the other crew from then on, a member who came under the
  first crew and is kicked from it is not found by `cleanupVoiceOnCrewExit` and stays, and its SFU session, whose name
  has the crew, is not the one of the newcomer. `NoSeatOutsideCrew` says that a seat is within the crew the entry names,
  and excepts rooms whose entry was replaced while others sat there (`mixed`);
- a kick between the membership test and the seat of a join of the same user leaves a non-member in the room
  (`NoSeatOutsideCrew` is about users whose calls did not overlap; a kick counts as a call for the user);
- the ledger session of a room is closed after the room's mutex is released (`RemoveMember`, then `CloseSession`): when
  two members leave together the first may read an empty session (`ReadStats`) and its minutes are not recorded, and a
  member who joins in between loses its part of the next `voice_session` event;
- a switch of the active crew takes the old one out of the reverse index although it is still in the sidebar
  (`MoveActiveCrew`), and a reconnect restores the active crew only (`Reconnect`): `IndexIsSubscribed` is an implication
  and not an equivalence for this reason;
- a `set_active_crew` that fails is logged (`crew.rs:354-356`, `492-494`), and `handle_select_crew` returns when the
  join of the crew's channel fails, with the crew already remembered as the open one (326-329): the open crew is not
  pushed until it is selected again or the next reconnect. When the members of a call change, the user interface sends
  `SetActiveCrew` for the crew of the call (`client/src/handlers/voice.rs:573-576`), although it "moves the server's
  active crew and its subscriptions, so it is only for the open crew" (`client/src/handlers/presence.rs:872-874`): with
  another crew open, as after `voice_after_switch`, the open crew gets no more pushes. `handle_leave_crew` does not tell
  the server. `OpenCrewIsPushed` excepts the first three (`missed`);
- after a restart of the server its sequence numbers start again at 1, and a client drops them until they pass its last
  one or differ from it by 1000 (`NewestSeqShown` asks for `restarts = 0`);
- the first two appends of a crew that has no ledger both write unconditionally (`Accepted` with version 0), so the
  `ledger` run starts from a ledger that exists;
- a failing write of a session's mark is answered as a duplicate (`MarkFails`): `AcceptedIsRecorded` asks for a server
  whose storage worked;
- voice call: the socket that comes back while a join with the kept token runs skips the re-assert
  (`connection.rs:268-271`), so the media starts without a seat (`unclaimed`); a give-up sends no `voice_leave` although
  `client/voice.rs:14-15` says that it leaves the call; the replay buffer is stopped by `handle_leave_voice` only, not
  by a logout, a change of crew or a give-up (`CLIPS.md:500`, `CLIPS.md:510`);
- clips: the queue file is written in place, and a torn write reads as an empty queue; a poster or the last part may go
  up before the cleanup aborts the upload, and then the complete is refused and the clip dropped, whereas a part that is
  refused with 404 renews the upload;
- streams: the clean-up of the old session, or the GC, may read the advertisement after the resume found or restored it,
  or after a stream went live for which no resume was sent (`FoundDespiteLateCleanup` above): it removes what the host
  believes is shown, until the next reconnect asks again. A sign-out keeps the hosted stream, its socket's end removes
  the advertisement, and the next sign-in (`connection.rs:17-39`) does not ask for it; `stream_live` and `stop_stream`
  are not sent while signed out (`stream_host_start.rs:788`);
- streams: a `stop_stream` is not compared with the stream that is advertised, so a late one ends the next stream; a
  resume that reads the records before the clean-up deletes them is answered "still advertised"
  (`streaming.go:1353-1359`) and the host streams on unseen; a `stream_live` that fails is logged and not repeated
  (`spawn_rpc_logged`); a resume that is not answered in time is not asked again before the next loss
  (`streaming.rs:1144`); a resume that is not answered in time goes on, and when the next one reads the same record
  before it is deleted, the later restore and delete of the first may remove the record of a newer clean-up, whose event
  then stays although the stream is advertised again (`ReadRecord`); two clean-ups, or a stop and a clean-up, of one
  stream write two events; a start that is cancelled before its `StartRpc` report is taken sends no `stop_stream`
  (`cancel_host_start` needs `resp`), and its pending session record stays, since the GC lists `stream_meta` only; two
  hosts in one crew overwrite each other's metadata, and the stop of the first is refused (the model has one host).

## 5. What is proved

`tlapm` checks every leaf of the proof modules; nothing is assumed but the named assumptions on the constants.

### VoiceRoomsProofs

From `VoiceRoomsAssumption` (guests are users, the markers for "none" are no values, the caps
are positive), for any sets of users, channels, crews, regions and handlers:

| theorem | statement |
|---|---|
| `TypeCorrect` | `Spec => []TypeOK` |
| `SeatsAgree`, `PresencesAgree` | a settled user sits in exactly the channel the reverse map names, and its presence says so |
| `RoomsHaveCrews` | an occupied room has its crew, whatever overlaps |
| `SameRegion` | settled members of a room hold tokens for one SFU |
| `GuestsExpire` | a settled seated guest has a session record |
| `FailedJoinUndone` | a join that failed at the token left no seat |
| `SessionsAreOccupied` | an open ledger session belongs to an occupied room or to one that is being closed |
| `CapacityIsBounded` | a room holds fewer members than the capacity and the handlers together |
| `NobodySitsOutside` | a settled member who sits in a room belongs to the crew the room's entry names, unless the entry was replaced while others sat there |
| `RoomsImplementRoster` | `Spec => ImplementsRoster` |

`SeatAgrees` is not inductive: it speaks of users no handler works for, while the records differ exactly when one does.
The invariant `IInv` says what is true in between. `Typed` (types, and `HasLocals`: a handler has the user and the
channels its next section works on) is inductive alone. `UserInv(u)`, for a user that is not raced, says that at most
one handler works for `u`; with none, `u` is `AtRest` (room, map and presence agree, token and guest session are those
of the room); with one, `u` is `Underway`: for each label, which room holds `u` (`HeldRoom`), whether the map names it,
and which records still agree. The proof that a step preserves `UserInv` has two parts for each group of actions: the
lemmas `...Spares` (a handler for another user disturbs nothing of `u`, except that it may take the last other member
out of a room or set a region that is not set) and `...Actor` (the handler of `u` goes from the facts of one label to
those of the next). `OccupiedRoomHasCrew` is inductive with the types. `NextSession` proves the ledger session on top of
`IInv`. `NobodySitsOutside` rests on a second layer, `Members`: `Sits(u)` says that a handler that may still seat `u`
(`MaySeat`) works for a member of the crew, that a seat of a user outside the crew has a handler that is sure to take it
away (`Removes`), and that the crew entry by which a crew exit finds the room is there while `u` sits. It speaks of
rooms whose entry was not replaced (`mixed`): there the crew the join named and the crew of the entry are one. For the
refinement, `OneMoves` and `SeatUpdate` show that a critical section changes the seat of at most the one user its
handler works for. `CapacityBounded` counts the places that are taken (`Taken`: the members of a room, and the handlers
that passed the test and have not seated their user): a test adds one to a room with a free place, a seat exchanges the
handler for its user. The bound needs that the handlers are finitely many (`HandlersAssumption`).

### PushLimiterProofs

From `PushLimiterAssumption` (a positive window; the thresholds and bounds are numbers), for any users, crews, window,
sweep threshold and bounds: `TypeCorrect`, `PushesAreSpaced` (`OncePerWindow`), `HeldAreTimed` (`HeldHasOneTimer`) and
`TapOpensNewest` (`NewestOpens`). The inductive invariant has three parts for each user. `Remembered`: the entry knows
the last push, or was forgotten at least a window after it; without it a sweep could open a second window.
`Timed`: held mentions have a timer for the end of the window of the last push and `flushDue` says so. `Ordered`: the
newest mention is held with the greatest number, or has been pushed. `SweepIsSafe` shows that a sweep forgets
idle users only and changes no decision of `submit`.

`NoMentionIsLost` (`HeldIsWaiting`) relates a sum over the crews of an entry to what was accepted and not pushed. The
crews are finitely many (`PushLimiterAssumption`: they are the keys of a Go map). `TotalIs` unrolls the sum by one crew
(`AddedIs`), and what it needs of every finite set of crews (`NothingAdds`, `HoldAdds`, `SameHeldSameTotal`) comes from
`SubsetInduction`: a set of subsets that has the empty one, and with each subset that by one element larger, has all.
It follows from the well-founded order of finite sets in the library, and takes a set where the library's induction
theorems take an operator.

### VoiceClientProofs

Two modules about one client, so their proofs are in one place.

From `VoicePushAssumption` (a channel, a positive window, a loop that is no pusher), for any goroutines, channels and
window: `NewestIsShown` (`NewestSeqShown`), with the premise `[]InWindow`: no push is handled when the client has
already taken a number that is a whole window higher. The code takes such a number for one of a restarted server
(`voice_update_is_stale`), so the premise is what its filter rests on; in the run the window is never exceeded. The
invariant `Numbered` (while the server was not restarted): every pending number was drawn, the highest one carries the
newest reading (`Drawn`), and it was taken and is shown, or is still to come (`Arrives`).

From `VoiceCallAssumption` (positive delays and limits, no delay longer than the longest gap), for any crews, channels
and times: `VoiceTypes`, `LeavingIsFinal` (`LeftStaysLeft`), `CallHasOneChannel` (`OneChannel`), `ReconnectIsBounded`
(`AttemptsEnd`) and `TalkersAreSeated` (`TalkingIsSeated`). `AttemptsEnd` bounds the time since the drop, which says
nothing of what is still to come; `Timing` adds the wait for the next attempt and what is left of the limits of the join
that runs, and is preserved because the last attempt starts before the limit. `TalkingIsSeated` needs `Seated` (the seat
is the remembered channel, also while the media is down) and `InCall` (a wished call has a crew and a channel).

### CrewSubscriptionsProofs

From `CrewSubscriptionsAssumption`, for any users, crews, goroutines and bounds: `TheIndexIsSubscribed`
(`IndexIsSubscribed`) and `TheOpenCrewIsPushed` (`OpenCrewIsPushed`). Both speak of users at rest, so the invariant
`Sound(u)` says what holds while one handler works for `u`: `Alone` (it is the only one), `Holds` (a call has the object
that is still the user's), `Listed` (the index names crews of that object, or crews the clean-up has yet to visit) and
`Opened` (the open crew is active and indexed, or a call will make it so, or the client is about to ask, or its request
was `missed`). Two parts tie
the client to the server: `Counted` (the session count is the open socket and those whose end is not yet seen), from
which a clean-up starts only when the client is disconnected and so will ask again, and `Created` (each object but the
first follows a lost socket), which bounds the objects. `OthersStaySound` reduces a step to the user it acts for.

### CrewLedgerProofs

`LedgerIsALog`: a crew whose ledger object exists (`~StartsEmpty`) has a ledger that implements `EventLog`, for any
events, goroutines, number of attempts and window, as long as no read failed. The invariant `WritesAreCurrent` (itself
a theorem, `WritesComeFromReads`) carries the argument of optimistic concurrency: what a goroutine is about to write
bears a version that was stored, and if that is still the stored version, the value is the operation applied to the
stored events. A write that is accepted is therefore one step of `EventLog`. The cut-off time of an append needs the
premise that no time passes between its read and its write, as in the module.

`AckedEventsStay` (`AckedIsKept`) and `TakenBackStaysGone` (`GoneStaysGone`) are about the events themselves. `LInv`
adds to that invariant who works on an event (`Assigned`: one goroutine appends it, and a removal is asked for only
after the append was acknowledged) and what the ledger holds (`OnLedger`: each event once, none before its append or
after its removal, and all that are to be there). The step is `FilteredKeeps`: the loop that copies events keeps exactly
those at the positions to keep, each once. It is proved for every sequence, by an induction over the positions
(`SetInduction`) that is stated about a set of numbers, which the provers can instantiate.

### StreamHostProofs

For any number of starts, lost sockets, lost RPCs and sign-outs: `NoConnectionIsForgotten` and `ConnectionIffHosting`
(`CarriedIsHosted`). The invariant places the connection of every stream in one place at most: its join is still to come
(`Coming`), its report waits for the command loop (`Reported`), the start in flight holds it (`InStart`), or the host
streams on it. `NoneForgotten` says that a connection is open exactly when it has one of the last three; once nothing is
under way only the host is left. `Unused` keeps the numbers of the starts to come apart from those in use.

`TypeCorrect` adds what a handler has read when it makes its next call (`WellFormed`): a clean-up has its stream and the
session of it, a resume its record. `EndedIsRecordedOnce` (`OneEventPerStream`) rests on `Fits(s)` for every stream `s`,
which says what holds while handlers run. `Core(s)`, for a stream that is not torn: one handler ends it and one resume
uses its record; the record, the resume that has read it and the clean-up that is about to write it name the last event
of `s` (`RecordFits`, `RestoreFits`, `KeepFits`); each resume that goes on removes an event of its own, never that of an
end that stands (`UndoFits`); and the ledger has exactly the events still to be removed and that of the end that stands
(`LedgerFits`). `FreshFits` says that nothing of `s` is stored before its `stream_live` advertises it, `LiveFits` that
this happens once. `Recorded(s)`: a stream that was `seen` is still open (advertised, or a handler that read it is about
to write its event) or has had an event. So at rest a stream that was seen and is over has its event, exactly one by
`LedgerFits`. `Kept` and `Spared` state when a step leaves all of this alone; each call has a lemma of its own. The
invariant is what showed that two resumes of one record are a second case of `torn`: the one that finishes last deletes
the record, or removes the event, of an end that came in between.

`LiveHostIsFound` (`LiveIsFound`) adds what ties the client to the backend. `Numbered`: the resume the client waits for
is the newest one, so no late answer of an older one is taken for it. `Starting(s)`: what the start in flight has done
besides its RPC implies that its session is stored as pending (`Answered`), and a hosted stream has no stop under way
(`NoStop`). `Found(s)`: a hosted stream is `Shown`: its `stream_live` is on the way (`ToShow`), or it is advertised,
nobody ends it and its session is stored or about to be (`Advertised`); while a resume is awaited this holds from the
moment it restored the advertisement, or found it untouched (`Restored`). Since a reconnect takes the stream out of
`hidden`, the proof has to show for every later clean-up either that it notes the stream again (`HasLooked`: the resume
has read what the clean-up will remove) or that the resume comes after it; a resume is only asked for while signed in,
which `Numbered` has (`socket` implies `signedIn`). The proof needs `Fits`: that the stream a resume restores is over,
and that nothing touches a stream before its `stream_live`.

### SessionEndsProofs

For any number of sessions, faults, crashes and restarts: `NeverRecordedTwice` (`RecordedOnce`),
`AcceptedReportsAreRecorded` (`AcceptedIsRecorded`) and `NoReportVanishes` (`NoneVanishes`). The invariant: `OneCall`
(the command loop has one call of `game_session_end` whose answer it waits for), `MarkedOnce` (a session that is
recorded or about to be recorded is marked, and one goroutine at most goes from the mark to the record),
`MarkMeansRecord` (while the server works, a marked session is in the ledger or about to be) and `Somewhere` (the place
of every session that ended). For the crash, `OneCall` also says that the file has the queue unless the last save failed
(`SaveStep`), and `OpenStep` that the start drops only what is too old. That the oldest report of a queue is one of its
members (`OldestIsQueued`) follows from the well-founded order of the library.

### ClipUploadProofs

From `ClipUploadAssumption` (the queue has room for a clip, a clip has a part), for any users, clips, parts, limits and
faults: `TypeCorrect` (with the cap of the queue), `UpMeansWhole` (`UploadedIsWhole`), `DonePartsStayUp`
(`DonePartsAreUp`), `ClipsAreStoredOnce` (`StoredOnce`) and `NoClipIsLost` (`NoSilentLoss`). One invariant, `IInv`, has
all of them and what they rest on. `Held`: the copy the worker works on is the queued entry, since only the worker
changes the queue, between two messages. `UrlsMatch`: the URLs in memory are those of the upload the entry names, so a
part that is put counts for the right upload. `VideosAreWhole` and `ShownHasVideo` are the two halves of
`UploadedIsWhole`: an object is made of all parts, and what is shown has an object. `Saved`: a queued clip is in the
file unless the last write failed. `Announced`: a clip is in the channel once, and before it is queued. The three
requests that touch the bucket let an upload only `Grow`, so what is up stays up (`EntryStaysUp`, `WholeStays`). Each
request has a lemma (`PostEffect`, ...) that gives its outcome for the queue (`Outcome`: kept, replaced or removed) and
for the document and the video (`Stores`); from there the invariant is proved once for all requests (`RequestInv`). A
crash is `CrashInv`: what the file lacks was never saved, too old, or still in the channel, and each of these is
excused.

### What is only model-checked

- the liveness properties `HeldIsPushed`, `ChangeIsPushed`, `EndedIsRecorded`, `DropEnds`, `QueuedLeaves` and
  `AbsentHostIsNotShown`: liveness under fairness (and ENABLED) is outside the reach of the provers used here;
- the refutations, which are statements that do not hold of the code.

Every invariant that a passing run checks is a theorem. The library's induction theorems take an operator as a
parameter, which the provers cannot instantiate; where a sum or a copy loop needs induction (`PushLimiterProofs`,
`CrewLedgerProofs`), it is stated about a set and proved from a well-founded order of the library.

No module of this project uses RECURSIVE operators. `VoicePush!PushTypeOK` documents the types and is in no run; the
proofs carry the same types.

## 6. What is not modelled, and why

- Voice: the sweep of dead members, the reconcile with the SFU and the expiry of guests (section 7). The flags, names
  and join times of a member, the contents of tokens and the minutes recorded for a user are data no property reads.
- Subscriptions: a sign-out (the next sign-in starts a client that has no crew open), and the pushes themselves (texts,
  throttles, the 30 s sidebar batch). A concurrent iteration and write of one Go map (`push.go:227`, `push.go:658`)
  stops the process; the models give every reader a whole map.
- Voice call: the signalling inside one SFU session, the microphone's state, the replay and clip buffers.
- Clips: voice clips, the listing, the contents of files and the rate of a PUT (paused or not).
- Streams: an abort in the middle of an SFU join (`streaming.rs:228-265`), which is the step that fails; a sign-in as
  another account while a stream is hosted; the presence heartbeat; viewers (`watch_stream`, `stream_viewer_left`), the
  rejoin of the host's SFU link within its 30 s and the refresh of its token, a second host in the crew, the native host
  process, an older backend that advertises at the start, pictures and resolution.
- Ledger: what callers put into events, and a storage that applies a write and reports an error.
- Session reports: the wording of the event and the time stamps that order the feed.
- Quests, gifts, head2head, recaps and reactions are versioned documents with the loop of the ledger, and pure scoring.
- The user interface, parsers of third-party logs, the updater, rendering, media codecs and the hook are input, output
  or external tooling; clips and media are presigned URLs of an object store.

## 7. What would come next

1. `VoicePresence`: the stored presence with its unconditional partial writes (join, leave, heartbeat, session start and
   end, `presence_update`), the sweep `voiceRoomGC` with its misses, the reconcile with the SFU's members as an external
   component, and the expiry of guests; composed with the actions of `VoiceRooms`. Abstract specification: a user is
   shown online exactly while it has a session, in voice exactly while it has a seat.
2. The viewers of a stream and the rejoin of the host's link, on top of `StreamHost`.
3. `MentionPush`: `PushLimiter` with the decision per user, the grace timer and the owner of a token.
4. `CrewStateCache`: compute, store and invalidate, with the preview throttle.
5. `VoiceChannels`, invite codes, the versioned documents of quests and gifts, the rings of libmello.

Proofs: the invariants of the modules above, along the lines of section 5.
