---------------------------- MODULE StreamHost ----------------------------
(***************************************************************************)
(* A crew's stream: the host's client (mello-core/src/client) that starts,  *)
(* ends and re-advertises it, and the backend's records of it (streaming.go,*)
(* the session events of presence.go).                                      *)
(*                                                                         *)
(* One host and one crew.  A stream is named by the generation of the start *)
(* that made it: each start sends one start_stream.  The client's RPCs run  *)
(* on tasks of their own, so the backend may handle them at any time and in *)
(* any order; a handler is a record with the storage call it makes next.    *)
(***************************************************************************)
EXTENDS Naturals, Sequences, FiniteSets

CONSTANTS
  MaxTurns,    \* bound: starts of a stream and losses of the host's socket, together
  MaxFaults    \* bound: RPCs that are lost or not answered in time and sign-outs, together

ASSUME StreamHostAssumption == {MaxTurns, MaxFaults} \subseteq Nat

Streams == 1..MaxTurns
NoStream == 0
Steps == {"rpc", "native", "sfu"}
NoRecord == [s |-> NoStream, session |-> "none", event |-> 0]

VARIABLES
  generation,  \* client: stream_generation
  start,       \* client: host_start, the start in flight and what it has
  hosted,      \* client: stream_session
  tasks,       \* client: the steps that still run, by start
  reports,     \* client: the channel of step reports
  awaiting,    \* client: the resume whose answer the loop waits for, 0 when it waits for none
  socket,      \* client: the Nakama realtime socket is up
  signedIn,    \* client: it has a session, without which no RPC is sent
  carried,     \* the streams that have a host connection at the SFU
  meta,        \* backend: the stream in stream_meta of the crew
  sessions,    \* backend: stream_sessions, with or without Pending
  resume,      \* backend: stream_resume of the host
  ledger,      \* backend: stream_session events, <<stream, number>>
  written,     \* how many events of a stream were ever written (their ids)
  registered,  \* backend: sessionCounts of the host
  presence,    \* backend: the stored status of the host
  handlers,    \* backend: the handlers that run
  drops, faults,
  seen,        \* history: streams that were ever advertised
  torn,        \* history: streams whose end, or whose resume, two handlers worked on at once
  hidden       \* history: streams the client did not ask for, or a handler set out to remove, since
               \* the last reconnect

client == <<generation, start, hosted, tasks, reports, awaiting, socket, signedIn, carried>>
records == <<meta, sessions, resume, ledger, written>>
online == <<registered, presence>>
bounds == <<drops, faults>>
history == <<seen, torn, hidden>>
vars == <<client, records, online, handlers, bounds, history>>

NoStart == [s |-> NoStream, resp |-> FALSE, native |-> FALSE, conn |-> FALSE]
Starts == [s : Streams \cup {NoStream}, resp : BOOLEAN, native : BOOLEAN, conn : BOOLEAN]
Records == [s : Streams \cup {NoStream}, session : {"none", "pending", "live"}, event : Nat]
Kinds == {"start", "live", "stop", "resume", "begin", "end", "gc"}
Places == {"register", "count", "offline", "online", "load", "read", "readRecord", "loadLive",
           "store", "advertise", "deleteMeta", "deleteSession", "loadPending", "deletePending",
           "append", "keep", "restore", "deleteRecord", "removeEvent", "ok", "refused"}
Handlers == [kind : Kinds, s : Streams \cup {NoStream}, n : Nat, at : Places,
             got : Streams \cup {NoStream}, rec : Records]

TypeOK ==
  /\ generation \in 0..MaxTurns /\ start \in Starts /\ hosted \in Streams \cup {NoStream}
  /\ tasks \in [Streams -> SUBSET Steps]
  /\ reports \in Seq([of : Steps, s : Streams, ok : BOOLEAN])
  /\ awaiting \in 0..MaxTurns /\ {socket, signedIn} \subseteq BOOLEAN /\ carried \subseteq Streams
  /\ meta \in Streams \cup {NoStream} /\ sessions \in [Streams -> {"none", "pending", "live"}]
  /\ resume \in Records /\ ledger \subseteq Streams \X Nat /\ written \in [Streams -> Nat]
  /\ registered \in Nat /\ presence \in {"online", "offline"}
  /\ handlers \subseteq Handlers
  /\ drops \in 0..MaxTurns /\ faults \in 0..MaxFaults
  /\ \A set \in {seen, torn, hidden} : set \subseteq Streams

\* The host is signed in and streams nothing.
Init ==
  /\ generation = 0 /\ start = NoStart /\ hosted = NoStream
  /\ tasks = [s \in Streams |-> {}] /\ reports = <<>>
  /\ awaiting = 0 /\ socket = TRUE /\ signedIn = TRUE /\ carried = {}
  /\ meta = NoStream /\ sessions = [s \in Streams |-> "none"]
  /\ resume = NoRecord /\ ledger = {} /\ written = [s \in Streams |-> 0]
  /\ registered = 1 /\ presence = "online" /\ handlers = {}
  /\ drops = 0 /\ faults = 0 /\ seen = {} /\ torn = {} /\ hidden = {}

-----------------------------------------------------------------------------
(* Handlers *)

Call(kind, s, n, at) == [kind |-> kind, s |-> s, n |-> n, at |-> at, got |-> NoStream, rec |-> NoRecord]
StopCall(s) == Call("stop", s, 0, "read")

\* h becomes g, or ends.
Becomes(h, g) == handlers' = (handlers \ {h}) \cup {g}
Goes(h, at) == Becomes(h, [h EXCEPT !.at = at])
Ends(h) == handlers' = handlers \ {h}

IsCleanup(h) == h.kind \in {"end", "gc"}
IsEnder(h) == h.kind = "stop" \/ IsCleanup(h)
\* The client still waits for the answer of this resume.
Awaited(h) == awaiting # 0 /\ h.kind = "resume" /\ h.n = awaiting
\* It waits for none, or for one that has looked at the advertisement.
HasLooked ==
  awaiting # 0 => \E h \in handlers :
    Awaited(h) /\ h.at \in {"store", "deleteRecord", "removeEvent", "online", "ok"}

-----------------------------------------------------------------------------
(* Client: a start *)

TurnsLeft == generation + drops < MaxTurns

\* handle_start_stream: refused while a stream or a start is there.
StartStream ==
  /\ awaiting = 0 /\ signedIn /\ start = NoStart /\ hosted = NoStream /\ TurnsLeft
  /\ LET s == generation + 1 IN
       /\ generation' = s
       /\ start' = [NoStart EXCEPT !.s = s]
       /\ tasks' = [tasks EXCEPT ![s] = {"rpc"}]
       /\ handlers' = handlers \cup {Call("start", s, 0, "store")}
  /\ UNCHANGED <<hosted, reports, awaiting, socket, signedIn, carried, records, online, bounds, history>>

Report(of, s, ok) == reports' = Append(reports, [of |-> of, s |-> s, ok |-> ok])

\* The task of a start: the RPC is answered, then native start and SFU join run together.
RpcAnswered(s) ==
  /\ "rpc" \in tasks[s] /\ sessions[s] # "none"
  /\ tasks' = [tasks EXCEPT ![s] = {"native", "sfu"}]
  /\ Report("rpc", s, TRUE)
  /\ UNCHANGED <<generation, start, hosted, awaiting, socket, signedIn, carried, records, online,
                 handlers, bounds, history>>

\* It is refused, lost or takes longer than its limit; the backend may still run it.
RpcFails(s) ==
  /\ "rpc" \in tasks[s] /\ faults < MaxFaults
  /\ faults' = faults + 1
  /\ tasks' = [tasks EXCEPT ![s] = {}]
  /\ Report("rpc", s, FALSE)
  /\ handlers' \in {handlers, handlers \ {Call("start", s, 0, "store")}}
  /\ UNCHANGED <<generation, start, hosted, awaiting, socket, signedIn, carried, records, online,
                 drops, history>>

StepEnds(s, step, ok) ==
  /\ step \in tasks[s] \ {"rpc"}
  /\ tasks' = [tasks EXCEPT ![s] = @ \ {step}]
  /\ carried' = IF step = "sfu" /\ ok THEN carried \cup {s} ELSE carried
  /\ Report(step, s, ok)
  /\ UNCHANGED <<generation, start, hosted, awaiting, socket, signedIn, records, online, handlers,
                 bounds, history>>

\* spawn_rpc_logged: nothing is sent without a session.
Sends(call) == handlers' = IF signedIn THEN handlers \cup {call} ELSE handlers

\* cancel_host_start: stops the steps, leaves the SFU, takes the session back if it is known.
CancelHostStart ==
  /\ start' = NoStart
  /\ tasks' = [tasks EXCEPT ![start.s] = {}]
  /\ carried' = IF start.conn THEN carried \ {start.s} ELSE carried
  /\ IF start.resp THEN Sends(StopCall(start.s)) ELSE UNCHANGED handlers

(* Mutant: a connection that comes too late is kept.                        *)
KeepConnection(r) == r.s # start.s /\ UNCHANGED <<start, hosted, tasks, handlers, carried>>

\* A report of a start that is no longer the one in flight; a connection it brings is left.
DropReport(r) ==
  /\ r.s # start.s
  /\ carried' = IF r.of = "sfu" /\ r.ok THEN carried \ {r.s} ELSE carried
  /\ UNCHANGED <<start, hosted, tasks, handlers>>

\* fail_host_start; the session manager may also refuse a native host that started.
FailHostStart(r) ==
  /\ r.s = start.s /\ (r.ok => r.of = "native")
  /\ CancelHostStart
  /\ UNCHANGED hosted

\* on_host_msg with finish_host_start_if_ready: stream_live goes out on its own task.
TakeStep(r) ==
  /\ r.s = start.s /\ r.ok
  /\ LET has == CASE r.of = "rpc"    -> [start EXCEPT !.resp = TRUE]
                  [] r.of = "native" -> [start EXCEPT !.native = TRUE]
                  [] r.of = "sfu"    -> [start EXCEPT !.conn = TRUE]
         ready == has.native /\ has.conn IN
       /\ start' = IF ready THEN NoStart ELSE has
       /\ hosted' = IF ready THEN r.s ELSE hosted
       /\ IF ready THEN Sends(Call("live", r.s, 0, "load")) ELSE UNCHANGED handlers
  /\ UNCHANGED <<tasks, carried>>

TakeReport ==
  /\ awaiting = 0 /\ reports # <<>>
  /\ reports' = Tail(reports)
  /\ LET r == Head(reports) IN DropReport(r) \/ FailHostStart(r) \/ TakeStep(r)
  /\ UNCHANGED <<generation, awaiting, socket, signedIn, records, online, bounds, history>>

-----------------------------------------------------------------------------
(* Client: the end, the socket *)

\* end_hosted_stream: the SFU leave and stop_stream, each on its own task.
EndHostedStream ==
  /\ hosted' = NoStream
  /\ carried' = carried \ {hosted}
  /\ Sends(StopCall(hosted))

\* END STREAM, or no SFU rejoin within 30 s, for a stream that is live.
EndStream ==
  /\ awaiting = 0 /\ hosted # NoStream
  /\ EndHostedStream
  /\ UNCHANGED <<generation, start, tasks, reports, awaiting, socket, signedIn, records, online,
                 bounds, history>>

\* END STREAM while the start is in flight.
CancelStart ==
  /\ awaiting = 0 /\ start # NoStart
  /\ CancelHostStart
  /\ UNCHANGED <<generation, hosted, reports, awaiting, socket, signedIn, records, online, bounds,
                 history>>

\* The socket is lost; the backend sees its end now or later.
LoseSocket(rest) ==
  /\ socket /\ TurnsLeft
  /\ socket' = FALSE /\ drops' = drops + 1
  /\ handlers' = rest \cup {Call("end", NoStream, drops + 1, "count")}

SocketDrops ==
  /\ LoseSocket(handlers)
  /\ UNCHANGED <<generation, start, hosted, tasks, reports, awaiting, signedIn, carried, records,
                 online, faults, history>>

\* handle_logout: an offline presence, if that call succeeds, then the session and the socket go;
\* a hosted stream and a start go on.
Logout ==
  /\ awaiting = 0 /\ signedIn /\ faults < MaxFaults
  /\ signedIn' = FALSE /\ faults' = faults + 1
  /\ presence' \in {presence, "offline"}
  /\ \/ LoseSocket(handlers)
     \/ ~socket /\ UNCHANGED <<socket, drops, handlers>>
  /\ UNCHANGED <<generation, start, hosted, tasks, reports, awaiting, carried, records, registered,
                 history>>

\* on_connected, of the same account: nobody asks for the hosted stream.
Login ==
  /\ awaiting = 0 /\ ~signedIn
  /\ signedIn' = TRUE /\ socket' = TRUE
  /\ handlers' = handlers \cup {Call("begin", NoStream, drops, "register")}
  /\ hidden' = hidden \cup ({hosted} \ {NoStream})
  /\ UNCHANGED <<generation, start, hosted, tasks, reports, awaiting, carried, records, online,
                 bounds, seen, torn>>

\* The app ends without a word, and with it the socket, the tasks and the SFU connections.
AppExits ==
  /\ LET rest == {h \in handlers : h.at \notin {"ok", "refused"}} IN
       \/ LoseSocket(rest)
       \/ ~socket /\ handlers' = rest /\ UNCHANGED <<socket, drops>>
  /\ start' = NoStart /\ hosted' = NoStream /\ awaiting' = 0
  /\ tasks' = [s \in Streams |-> {}] /\ reports' = <<>> /\ carried' = {}
  /\ UNCHANGED <<generation, signedIn, records, online, faults, history>>

\* resync_after_reconnect, or the sign-in after an exit: the loop waits for the resume.  From here
\* on the hosted stream is no longer excepted: the backend is asked for it again.
Reconnect ==
  /\ ~socket /\ signedIn /\ awaiting = 0
  /\ socket' = TRUE
  /\ awaiting' = IF hosted # NoStream THEN drops ELSE 0
  /\ handlers' = handlers \cup {Call("begin", NoStream, drops, "register")}
                   \cup (IF hosted # NoStream THEN {Call("resume", hosted, drops, "read")} ELSE {})
  /\ hidden' = hidden \ {hosted}
  /\ UNCHANGED <<generation, start, hosted, tasks, reports, signedIn, carried, records, online,
                 bounds, seen, torn>>

\* readvertise_stream_after_reconnect: a stream that cannot be restored ends.
ResumeAnswered(h) ==
  /\ h \in handlers /\ Awaited(h) /\ h.at \in {"ok", "refused"}
  /\ awaiting' = 0
  /\ \/ h.at = "ok" /\ handlers' = handlers \ {h} /\ UNCHANGED <<hosted, carried>>
     \/ /\ h.at = "refused" /\ hosted' = NoStream /\ carried' = carried \ {hosted}
        /\ handlers' = (handlers \ {h}) \cup {StopCall(hosted)}
  /\ UNCHANGED <<generation, start, tasks, reports, socket, signedIn, records, online, bounds, history>>

\* No answer within the limit: the stream stays, and so does the handler.
ResumeTimesOut ==
  /\ awaiting # 0 /\ faults < MaxFaults
  /\ ~ \E h \in handlers : h.at \in {"ok", "refused"}
  /\ awaiting' = 0 /\ faults' = faults + 1
  /\ hidden' = hidden \cup {hosted}
  /\ UNCHANGED <<generation, start, hosted, tasks, reports, socket, signedIn, carried, records,
                 online, handlers>>
  /\ UNCHANGED <<drops, seen, torn>>

\* The RPC fails on its way: the stream ends although the backend may run the resume.
ResumeFails ==
  /\ awaiting # 0 /\ faults < MaxFaults
  /\ ~ \E h \in handlers : h.at \in {"ok", "refused"}
  /\ awaiting' = 0 /\ faults' = faults + 1
  /\ EndHostedStream
  /\ UNCHANGED <<generation, start, tasks, reports, socket, signedIn, records, online, drops, history>>

\* spawn_rpc_logged: an RPC that fails is logged and not sent again.
CallIsLost(h) ==
  /\ h \in handlers /\ faults < MaxFaults
  /\ <<h.kind, h.at>> \in {<<"live", "load">>, <<"stop", "read">>}
  /\ Ends(h) /\ faults' = faults + 1
  /\ hidden' = IF h.kind = "live" THEN hidden \cup {h.s} ELSE hidden
  /\ UNCHANGED <<client, records, online, drops, seen, torn>>

-----------------------------------------------------------------------------
(* Backend: start_stream and stream_live *)

StoreStreamSession(h) ==
  /\ h.kind = "start" /\ h.at = "store"
  /\ sessions' = [sessions EXCEPT ![h.s] = "pending"]
  /\ Ends(h)
  /\ UNCHANGED <<client, meta, resume, ledger, written, online, bounds, history>>

\* StreamLiveRPC: unknown, or advertised already, ends it.
LoadForLive(h) ==
  /\ h.kind = "live" /\ h.at = "load"
  /\ IF sessions[h.s] = "pending" THEN Goes(h, "advertise") ELSE Ends(h)
  /\ UNCHANGED <<client, records, online, bounds, history>>

\* A stream that is overwritten or removed by a handler that did not read it.
Torn(read) == IF meta \in {NoStream, read} THEN torn ELSE torn \cup {meta}

AdvertiseStream(h) ==
  /\ h.kind = "live" /\ h.at = "advertise"
  /\ meta' = h.s /\ torn' = Torn(h.s) /\ seen' = seen \cup {h.s}
  /\ Goes(h, "online")
  /\ UNCHANGED <<client, sessions, resume, ledger, written, online, bounds, hidden>>

ClearPending(h) ==
  /\ h.kind = "live" /\ h.at = "store"
  /\ sessions' = [sessions EXCEPT ![h.s] = "live"]
  /\ Ends(h)
  /\ UNCHANGED <<client, meta, resume, ledger, written, online, bounds, history>>

\* The unconditional presence writes: online, and what follows.
WriteOnline(h) ==
  /\ h.at = "online"
  /\ presence' = "online"
  /\ CASE h.kind = "live"              -> Goes(h, "store")
       [] h.kind \in {"begin", "stop"} -> Ends(h)
       [] h.kind = "resume"            -> IF Awaited(h) THEN Goes(h, "ok") ELSE Ends(h)
  /\ UNCHANGED <<client, records, registered, bounds, history>>

-----------------------------------------------------------------------------
(* Backend: the session events *)

\* OnSessionStart: only the first session writes the presence.
RegisterSession(h) ==
  /\ h.at = "register"
  /\ registered' = registered + 1
  /\ IF registered = 0 THEN Goes(h, "online") ELSE Ends(h)
  /\ UNCHANGED <<client, records, presence, bounds, history>>

\* OnSessionEnd: the last session cleans up.
CountSession(h) ==
  /\ h.at = "count"
  /\ registered' = IF registered = 0 THEN 0 ELSE registered - 1
  /\ IF registered <= 1 THEN Goes(h, "offline") ELSE Ends(h)
  /\ UNCHANGED <<client, records, presence, bounds, history>>

WriteOffline(h) ==
  /\ h.at = "offline"
  /\ presence' = "offline"
  /\ Goes(h, "read")
  /\ UNCHANGED <<client, records, registered, bounds, history>>

(* Mutant: only an offline host is gone.                                     *)
OnlyOffline == presence = "offline"

\* streamGC: the host is offline, or its presence was not written for two hours.
HostIsGone == presence = "offline" \/ (~socket /\ handlers = {})

\* One goroutine, at every tick.
StreamGC ==
  /\ meta # NoStream /\ ~ \E h \in handlers : h.kind = "gc"
  /\ HostIsGone
  /\ handlers' = handlers \cup {Call("gc", NoStream, 0, "read")}
  /\ UNCHANGED <<client, records, online, bounds, history>>

-----------------------------------------------------------------------------
(* Backend: stop_stream and cleanupStreamIfHost *)

\* The advertisement as the handler finds it; a clean-up that finds none ends.
ReadMeta(h) ==
  /\ IsEnder(h) /\ h.at = "read"
  /\ IF IsCleanup(h) /\ meta = NoStream THEN Ends(h)
     ELSE Becomes(h, [h EXCEPT !.got = meta, !.at = IF IsCleanup(h) THEN "load" ELSE "deleteMeta"])
  /\ torn' = IF \E g \in handlers : IsEnder(g) /\ g.got = meta
             THEN torn \cup ({meta} \ {NoStream}) ELSE torn
  /\ hidden' = IF (IsCleanup(h) /\ socket /\ HasLooked) \/ (h.kind = "stop" /\ meta # h.s)
               THEN hidden \cup ({meta} \ {NoStream}) ELSE hidden
  /\ UNCHANGED <<client, records, online, bounds, seen>>

LoadSession(h) ==
  /\ IsCleanup(h) /\ h.at = "load"
  /\ Becomes(h, [h EXCEPT !.at = "deleteMeta",
                          !.rec = [s |-> h.got, session |-> sessions[h.got], event |-> 0]])
  /\ UNCHANGED <<client, records, online, bounds, history>>

DeleteMeta(h) ==
  /\ h.at = "deleteMeta"
  /\ meta' = NoStream /\ torn' = Torn(h.got)
  /\ Goes(h, "deleteSession")
  /\ UNCHANGED <<client, sessions, resume, ledger, written, online, bounds, seen, hidden>>

\* The session of the stream that was read; a stop looks for its own one after it.
DeleteSession(h) ==
  /\ h.at = "deleteSession"
  /\ sessions' = [s \in Streams |-> IF s = h.got THEN "none" ELSE sessions[s]]
  /\ Goes(h, IF h.kind = "stop" /\ h.s # h.got THEN "loadPending" ELSE "append")
  /\ UNCHANGED <<client, meta, resume, ledger, written, online, bounds, history>>

LoadPending(h) ==
  /\ h.at = "loadPending"
  /\ Goes(h, IF sessions[h.s] = "pending" THEN "deletePending" ELSE "append")
  /\ UNCHANGED <<client, records, online, bounds, history>>

DeletePending(h) ==
  /\ h.at = "deletePending"
  /\ sessions' = [sessions EXCEPT ![h.s] = "none"]
  /\ Goes(h, "append")
  /\ UNCHANGED <<client, meta, resume, ledger, written, online, bounds, history>>

(* Mutant: the event of a stream is left to its stop.                        *)
AppendOnStop(h) ==
  /\ h.at = "append"
  /\ LET event == written[h.got] + 1 IN
       IF h.got = NoStream \/ IsCleanup(h)
       THEN Goes(h, IF h.kind = "stop" THEN "online" ELSE "keep") /\ UNCHANGED <<ledger, written>>
       ELSE /\ ledger' = ledger \cup {<<h.got, event>>}
            /\ written' = [written EXCEPT ![h.got] = event]
            /\ Becomes(h, [h EXCEPT !.at = "online", !.rec.event = event])
  /\ UNCHANGED <<client, meta, sessions, resume, online, bounds, history>>

\* The stream_session event, if a stream was read.
AppendSession(h) ==
  /\ h.at = "append"
  /\ LET s == h.got
         event == written[s] + 1
         next == IF h.kind = "stop" THEN "online" ELSE "keep" IN
       IF s = NoStream THEN Goes(h, next) /\ UNCHANGED <<ledger, written>>
       ELSE /\ ledger' = ledger \cup {<<s, event>>}
            /\ written' = [written EXCEPT ![s] = event]
            /\ Becomes(h, [h EXCEPT !.at = next, !.rec.event = event])
  /\ UNCHANGED <<client, meta, sessions, resume, online, bounds, history>>

(* Mutant: the record does not name the event that was just written.         *)
KeepWithoutEvent(h) ==
  /\ h.at = "keep"
  /\ resume' = IF h.rec.session = "none" THEN resume ELSE [h.rec EXCEPT !.event = 0]
  /\ Ends(h)
  /\ UNCHANGED <<client, meta, sessions, ledger, written, online, bounds, history>>

\* writeStreamResumeRecord, if the session was there.
KeepForResume(h) ==
  /\ h.at = "keep"
  /\ resume' = IF h.rec.session = "none" THEN resume ELSE h.rec
  /\ Ends(h)
  /\ UNCHANGED <<client, meta, sessions, ledger, written, online, bounds, history>>

-----------------------------------------------------------------------------
(* Backend: resumeStream *)

Answers(h, at) == IF Awaited(h) THEN Goes(h, at) ELSE Ends(h)

ReadLive(h) ==
  /\ h.kind = "resume" /\ h.at = "read"
  /\ Goes(h, IF meta = h.s THEN "loadLive" ELSE "readRecord")
  /\ UNCHANGED <<client, records, online, bounds, history>>

\* The records are still there: nothing is written.
LoadLive(h) ==
  /\ h.at = "loadLive"
  /\ IF sessions[h.s] # "none" THEN Answers(h, "ok") ELSE Goes(h, "readRecord")
  /\ hidden' = IF meta # h.s \/ \E g \in handlers : IsEnder(g) /\ g.got = h.s
               THEN hidden \cup {h.s} ELSE hidden
  /\ UNCHANGED <<client, records, online, bounds, seen, torn>>

\* A resume that has read the record of s and not yet deleted it.
Uses(h, s) == h.kind = "resume" /\ h.rec.s = s /\ h.at \in {"restore", "store", "deleteRecord"}

\* The record fits, unless more than streamResumeWindow went by.
ReadRecord(h) ==
  /\ h.at = "readRecord"
  /\ \/ /\ resume.s = h.s /\ Becomes(h, [h EXCEPT !.at = "restore", !.rec = resume])
        /\ torn' = IF \E g \in handlers : Uses(g, h.s) THEN torn \cup {h.s} ELSE torn
     \/ Answers(h, "refused") /\ UNCHANGED torn
  /\ UNCHANGED <<client, records, online, bounds, seen, hidden>>

Restore(h) ==
  /\ h.at = "restore"
  /\ meta' = h.s /\ torn' = Torn(h.s)
  /\ Goes(h, "store")
  /\ UNCHANGED <<client, sessions, resume, ledger, written, online, bounds, seen, hidden>>

(* Mutant: only the metadata of the stream is restored.                      *)
SkipSession(h) ==
  /\ h.kind = "resume" /\ h.at = "store"
  /\ Goes(h, "deleteRecord")
  /\ UNCHANGED <<client, records, online, bounds, history>>

RestoreSession(h) ==
  /\ h.kind = "resume" /\ h.at = "store"
  /\ sessions' = [sessions EXCEPT ![h.s] = h.rec.session]
  /\ Goes(h, "deleteRecord")
  /\ UNCHANGED <<client, meta, resume, ledger, written, online, bounds, history>>

DeleteRecord(h) ==
  /\ h.at = "deleteRecord"
  /\ resume' = NoRecord
  /\ Goes(h, "removeEvent")
  /\ UNCHANGED <<client, meta, sessions, ledger, written, online, bounds, history>>

RemoveEvent(h) ==
  /\ h.at = "removeEvent"
  /\ ledger' = ledger \ {<<h.s, h.rec.event>>}
  /\ Goes(h, "online")
  /\ UNCHANGED <<client, meta, sessions, resume, written, online, bounds, history>>

-----------------------------------------------------------------------------
Handle(h) ==
  \/ StoreStreamSession(h) \/ LoadForLive(h) \/ AdvertiseStream(h) \/ ClearPending(h)
  \/ WriteOnline(h) \/ RegisterSession(h) \/ CountSession(h) \/ WriteOffline(h)
  \/ ReadMeta(h) \/ LoadSession(h) \/ DeleteMeta(h) \/ DeleteSession(h)
  \/ LoadPending(h) \/ DeletePending(h) \/ AppendSession(h) \/ KeepForResume(h)
  \/ ReadLive(h) \/ LoadLive(h) \/ ReadRecord(h) \/ Restore(h)
  \/ RestoreSession(h) \/ DeleteRecord(h) \/ RemoveEvent(h)

Backend == (\E h \in handlers : Handle(h)) \/ StreamGC

TaskStep(s) ==
  \/ RpcAnswered(s) \/ RpcFails(s)
  \/ \E step \in {"native", "sfu"}, ok \in BOOLEAN : StepEnds(s, step, ok)

User == StartStream \/ EndStream \/ CancelStart \/ Logout
Network ==
  \/ SocketDrops \/ AppExits \/ Login \/ Reconnect \/ ResumeTimesOut \/ ResumeFails
  \/ \E h \in handlers : CallIsLost(h)

Next ==
  \/ User \/ Network \/ TakeReport \/ Backend
  \/ \E s \in Streams : TaskStep(s)
  \/ \E h \in handlers : ResumeAnswered(h)

Spec == Init /\ [][Next]_vars

\* Goroutines run to their end and the GC's ticker ticks; the limits end every step of a start,
\* and the command loop takes what is reported.
FairSpec ==
  /\ Spec
  /\ WF_vars(Backend)
  /\ WF_vars(TakeReport) /\ WF_vars(\E h \in handlers : ResumeAnswered(h))
  /\ WF_vars(\E s \in Streams : TaskStep(s))

-----------------------------------------------------------------------------
(* Properties *)

\* Nothing is under way, at the client or at the backend.
Settled ==
  /\ handlers = {} /\ reports = <<>> /\ awaiting = 0 /\ start = NoStart
  /\ \A s \in Streams : tasks[s] = {}

Events(s) == {e \in ledger : e[1] = s}

(* A stream that the crew saw and that is over is in its ledger once, one that *)
(* goes on, or that the crew never saw, is not: the event that a lost session *)
(* wrote is gone when the host resumed, however the clean-up, the resume, a   *)
(* stop and the GC overlap.  Two handlers that end one advertisement both     *)
(* write an event, one that overwrites or removes an advertisement it has not *)
(* read writes none, and two resumes of one record may undo an end that came  *)
(* between them (torn): streaming.go has no compare-and-delete, and such a    *)
(* stream is excepted.                                                       *)
OneEventPerStream ==
  Settled => \A s \in Streams \ torn :
    Cardinality(Events(s)) = IF s \in seen /\ meta # s THEN 1 ELSE 0

(* A host that is live and connected is found by its crew, with the session a *)
(* viewer's watch_stream asks for: after starts that were cancelled, lost     *)
(* sockets, and a resume that raced the clean-up of the old session.  But for *)
(* a torn stream there are two exceptions (hidden), and each lasts until the  *)
(* next reconnect, which asks for the stream again.                          *)
(*   The client does not ask: its stream_live failed, or could not be sent    *)
(*   after a sign-out; it gave up waiting for its resume; or it signed out    *)
(*   and in again, which resumes nothing.                                    *)
(*   A handler removes what the client believes is shown: the clean-up of the *)
(*   old session, or the GC, reads the advertisement after the resume found   *)
(*   it or restored it, or when no resume was sent because the start was      *)
(*   still in flight at the reconnect; a resume is answered from records that *)
(*   are being deleted; or the stop of an earlier stream arrives.            *)
LiveIsFound ==
  Settled /\ socket /\ hosted \notin torn \cup hidden \cup {NoStream} =>
    meta = hosted /\ sessions[hosted] # "none"

(* The host's connection at the SFU exists exactly while it hosts a stream:    *)
(* the join of a start that was cancelled, failed or replaced while it ran    *)
(* leaves none behind ("a report of a cancelled one is dropped").    *)
CarriedIsHosted == Settled => carried = {hosted} \ {NoStream}

(* A host that went away and does not come back is not shown for ever:         *)
(* whatever the late RPCs of its client and the clean-up of its session wrote,*)
(* the GC removes the advertisement.                                          *)
AbsentHostIsNotShown == ~socket ~> (socket \/ meta = NoStream)

(* Refuted (MaxTurns = 1): a stop_stream that is handled while stream_live     *)
(* runs reads no metadata and leaves the advertisement that follows, although *)
(* a crew "never sees a stream that no SFU session carries"                   *)
(* (streaming.go:544-545).                                                    *)
CrewSeesOnlyCarried == Settled /\ socket => meta \in carried \cup {NoStream}

(* Refuted (MaxTurns = 2, MaxFaults = 0): a host that came back is found even  *)
(* when the clean-up of its old session is late, as streaming.go:1343-1344    *)
(* takes for granted: "the old socket ended while a newer one was open, so no *)
(* cleanup ran".                                                             *)
FoundDespiteLateCleanup ==
  Settled /\ socket /\ hosted \notin torn \cup {NoStream} => meta = hosted
=============================================================================
