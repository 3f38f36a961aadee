----------------------------- MODULE ClipUpload -----------------------------
(***************************************************************************)
(* The upload of game clips: the client's persisted queue and its worker    *)
(* (mello-core/src/clip_upload), the three RPCs of the backend (clips.go,   *)
(* game_clips.go) and the bucket behind presigned URLs.                     *)
(*                                                                         *)
(* A clip is the number of its capture: queue order is numeric order.  An   *)
(* iteration of the worker's loop is two actions, because the user may      *)
(* change between them: Pick copies the next clip, and one request follows, *)
(* with the answer's effect on the queue and its file.  The client dying     *)
(* between a request and its answer is an answer lost before Crash.         *)
(***************************************************************************)
EXTENDS Integers, Sequences, FiniteSets, FiniteSetsExt, Functions

CONSTANTS
  Users,
  NumClips, NumParts,  \* bounds: clips that are shared, and the parts of each
  MaxEntries,          \* MAX_ENTRIES of the queue
  DailyLimit,          \* ClipMaxPerUserPerDay
  Faults               \* bound: lost answers, failed saves, crashes, sign-outs, aborts, ...

ASSUME ClipUploadAssumption ==
  /\ {NumClips, NumParts, DailyLimit, Faults} \subseteq Nat
  /\ MaxEntries \in Nat \ {0} /\ NumParts > 0

Clips == 1..NumClips
Parts == 1..NumParts
Nobody == "nobody"
NoUpload == 0
Idle == [clip |-> 0]

VARIABLES
  session,   \* client: the signed-in user, whose token every RPC carries
  owner,     \* the user who shared a clip
  mail,      \* the worker's channel
  user,      \* worker: the user it was told
  queue,     \* worker: entries by clip
  disk,      \* the queue file
  unsaved,   \* history: the last write of the file failed
  work,      \* worker: the copy of the entry it works on
  urls,      \* worker: the upload whose URLs it has, by clip
  renewed,   \* worker: clips whose URLs were renewed and not used since
  doc,       \* backend: the crew's clips document
  uploads,   \* bucket: multipart uploads, numbered in order
  video,     \* bucket: the upload that made a clip's MP4 object
  posters,   \* bucket: clips with a poster object
  members,   \* users that are in the crew
  gone,      \* clips whose local files are gone
  paused,    \* the pace is a pause
  told,      \* the last event about a clip: "none", "up" or "failed"
  excused,   \* history: clips that left the queue by a rule, or unsaved in a crash
  faults     \* what is left of the bound

client == <<session, owner, mail, user>>
local == <<queue, disk, unsaved, excused, told>>
bucket == <<uploads, video, posters>>
world == <<members, gone, paused>>
vars == <<client, local, work, urls, renewed, doc, bucket, world, faults>>

Entry == [posted : BOOLEAN, poster : BOOLEAN, upload : Nat, parts : SUBSET Parts]
NewEntry == [posted |-> FALSE, poster |-> FALSE, upload |-> NoUpload, parts |-> {}]
Messages == [user : Users \cup {Nobody}] \cup [clip : Clips]
IsQueue(q) == DOMAIN q \subseteq Clips /\ \A d \in DOMAIN q : q[d] \in Entry

TypeOK ==
  /\ session \in Users \cup {Nobody} /\ user \in Users \cup {Nobody}
  /\ owner \in [Clips -> Users \cup {Nobody}]
  /\ mail \in Seq(Messages)
  /\ IsQueue(queue) /\ IsQueue(disk) /\ Cardinality(DOMAIN queue) <= MaxEntries
  /\ work = Idle \/ work \in [clip : Clips, entry : Entry, confirm : BOOLEAN]
  /\ DOMAIN urls \subseteq Clips /\ Range(urls) \subseteq DOMAIN uploads
  /\ renewed \subseteq Clips /\ posters \subseteq Clips
  /\ doc \in Seq([clip : Clips, actor : Users, poster : BOOLEAN, media : BOOLEAN])
  /\ uploads \in Seq([clip : Clips, parts : SUBSET Parts, state : {"open", "aborted", "complete"}])
  /\ video \in [Clips -> Nat]
  /\ members \subseteq Users /\ gone \subseteq Clips /\ paused \in BOOLEAN
  /\ told \in [Clips -> {"none", "up", "failed"}] /\ excused \subseteq Clips
  /\ unsaved \in BOOLEAN /\ faults \in 0..Faults

Init ==
  /\ session \in Users /\ user = Nobody /\ mail = <<[user |-> session]>>
  /\ owner = [c \in Clips |-> Nobody]
  /\ queue = <<>> /\ disk = <<>> /\ unsaved = FALSE
  /\ work = Idle /\ urls = <<>> /\ renewed = {}
  /\ doc = <<>> /\ uploads = <<>> /\ video = [c \in Clips |-> NoUpload] /\ posters = {}
  /\ members = Users /\ gone = {} /\ paused = FALSE
  /\ told = [c \in Clips |-> "none"] /\ excused = {}
  /\ faults = Faults

Spend == faults > 0 /\ faults' = faults - 1
Free == UNCHANGED faults
Without(f, c) == [x \in DOMAIN f \ {c} |-> f[x]]
With(f, c, v) == [x \in DOMAIN f \cup {c} |-> IF x = c THEN v ELSE f[x]]

-----------------------------------------------------------------------------
(* The queue and its file                                                  *)

(* save: a failed write is logged and forgotten.                            *)
Save(q) ==
  \/ disk' = q /\ unsaved' = FALSE /\ Free
  \/ disk' = disk /\ unsaved' = TRUE /\ Spend

(* Mutant: push changes the list and leaves the file.                      *)
PushUnsaved(c) ==
  LET all == With(queue, c, NewEntry)
      over == IF Cardinality(DOMAIN all) > MaxEntries THEN {Min(DOMAIN all)} ELSE {} IN
  /\ queue' = [x \in DOMAIN all \ over |-> all[x]]
  /\ excused' = excused \cup over
  /\ UNCHANGED <<disk, unsaved, faults, told>>

(* push: over the cap, the oldest clips drop.                               *)
Push(c) ==
  LET all == With(queue, c, NewEntry)
      over == IF Cardinality(DOMAIN all) > MaxEntries THEN {Min(DOMAIN all)} ELSE {} IN
  /\ queue' = [x \in DOMAIN all \ over |-> all[x]]
  /\ excused' = excused \cup over
  /\ Save(queue')
  /\ UNCHANGED told

(* update: a clip that dropped while it was worked on stays out.            *)
Update(c, e) ==
  /\ IF c \in DOMAIN queue
     THEN queue' = [queue EXCEPT ![c] = e] /\ Save(queue')
     ELSE UNCHANGED <<queue, disk, unsaved, faults>>
  /\ UNCHANGED <<told, excused>>

(* remove, forget, and the event to the user interface.                     *)
Leave(c, event) ==
  /\ queue' = Without(queue, c)
  /\ IF c \in DOMAIN queue THEN Save(queue') ELSE UNCHANGED <<disk, unsaved, faults>>
  /\ told' = [told EXCEPT ![c] = event]
  /\ UNCHANGED excused
  /\ urls' = Without(urls, c) /\ renewed' = renewed \ {c}

NeedsPoster(e) == ~e.posted \/ ~e.poster
Mine == {c \in DOMAIN queue : owner[c] = user}
Posterless == {c \in Mine : NeedsPoster(queue[c])}
NextFor == Min(IF Posterless # {} THEN Posterless ELSE Mine)

-----------------------------------------------------------------------------
(* The command loop                                                        *)

(* handle_share_game_clip: the clip belongs to the user signed in now.      *)
Share ==
  /\ session # Nobody
  /\ \E c \in Clips :
       /\ owner[c] = Nobody /\ \A d \in 1..(c - 1) : owner[d] # Nobody
       /\ owner' = [owner EXCEPT ![c] = session]
       /\ mail' = Append(mail, [clip |-> c])
  /\ UNCHANGED <<session, user, local, work, urls, renewed, doc, bucket, world, faults>>

(* handle_logout: the worker is told first, then the token is cleared.      *)
SignOut ==
  /\ session # Nobody /\ Spend
  /\ session' = Nobody
  /\ mail' = Append(mail, [user |-> Nobody])
  /\ UNCHANGED <<owner, user, local, work, urls, renewed, doc, bucket, world>>

(* start_clip_uploads, at each sign-in.                                    *)
SignIn ==
  /\ session = Nobody
  /\ session' \in Users
  /\ mail' = Append(mail, [user |-> session'])
  /\ UNCHANGED <<owner, user, local, work, urls, renewed, doc, bucket, world, faults>>

(* The client ends and starts again with its stored session.  The worker     *)
(* reads the file, without the clips that are older than a week.            *)
Crash ==
  /\ Spend
  /\ \E newest \in 0..NumClips :
       LET read == [c \in {d \in DOMAIN disk : d > newest} |-> disk[c]] IN
       /\ queue' = read
       /\ disk' = read
       /\ excused' = excused
            \cup {c \in DOMAIN queue : c \in 1..newest \/ (unsaved /\ c \notin DOMAIN disk)}
            \cup {c \in Clips : [clip |-> c] \in Range(mail)}
  /\ unsaved' = FALSE
  /\ mail' = IF session = Nobody THEN <<>> ELSE <<[user |-> session]>>
  /\ user' = Nobody /\ work' = Idle /\ urls' = <<>> /\ renewed' = {}
  /\ UNCHANGED <<session, owner, told, doc, bucket, world>>

-----------------------------------------------------------------------------
(* The worker's loop                                                       *)

(* apply *)
Receive ==
  /\ work = Idle /\ mail # <<>>
  /\ mail' = Tail(mail)
  /\ IF "clip" \in DOMAIN Head(mail)
     THEN Push(Head(mail).clip) /\ UNCHANGED user
     ELSE user' = Head(mail).user /\ UNCHANGED <<local, faults>>
  /\ UNCHANGED <<session, owner, work, urls, renewed, doc, bucket, world>>

(* The mailbox is empty: next_for.                                         *)
Pick ==
  /\ work = Idle /\ mail = <<>> /\ user # Nobody /\ Mine # {}
  /\ work' = [clip |-> NextFor, entry |-> queue[NextFor], confirm |-> FALSE]
  /\ UNCHANGED <<client, local, urls, renewed, doc, bucket, world, faults>>

c == work.clip
e == work.entry
At(cond) == work # Idle /\ ~work.confirm /\ c \notin gone /\ cond

Progress(new) == Update(c, new) /\ work' = Idle
DropClip == Leave(c, "failed") /\ work' = Idle
Finished == Leave(c, "up") /\ work' = Idle
Retry == work' = Idle /\ UNCHANGED <<local, urls, renewed, faults>>
(* The request took effect and its answer is lost.                         *)
Lost == Spend /\ work' = Idle /\ UNCHANGED <<local, urls, renewed>>

FilesGone ==
  /\ work # Idle /\ ~work.confirm /\ c \in gone
  /\ DropClip
  /\ UNCHANGED <<client, doc, bucket, world>>

(* existingClip: the document holds the clip of this actor; or of another.   *)
Stored(actor) == \E i \in DOMAIN doc : doc[i].clip = c /\ doc[i].actor = actor
Taken == \E i \in DOMAIN doc : doc[i].clip = c
PostsOf(actor) == Cardinality({i \in DOMAIN doc : doc[i].actor = actor})

(* Mutant: post_clip does not look for the clip it already stored.          *)
AlwaysAppends == TRUE

(* PostClipRPC: a retry is answered as the first call, before the limit.     *)
Appends == ~Stored(session)

MayPost == session \in members /\ (Stored(session) \/ (~Taken /\ PostsOf(session) < DailyLimit))

Post ==
  /\ At(~e.posted)
  /\ \/ /\ session = Nobody /\ Retry /\ UNCHANGED doc
     \/ /\ session # Nobody /\ ~MayPost /\ DropClip /\ UNCHANGED doc
     \/ /\ session # Nobody /\ MayPost
        /\ doc' = IF Appends
                  THEN Append(doc, [clip |-> c, actor |-> session, poster |-> FALSE, media |-> FALSE])
                  ELSE doc
        /\ \/ Progress([e EXCEPT !.posted = TRUE]) /\ UNCHANGED <<urls, renewed>>
           \/ Lost
  /\ UNCHANGED <<client, bucket, world>>

(* ownGameClip *)
MayUpload == session \in members /\ Stored(session)

(* gameClipUploadURL: a given upload is resumed, else a new one starts.      *)
(* A new upload has none of the parts of an old one.                       *)
RequestUrls ==
  LET resume == e.upload # NoUpload
      u == IF resume THEN e.upload ELSE Len(uploads) + 1 IN
  /\ At(e.posted /\ c \notin DOMAIN urls)
  /\ \/ session = Nobody /\ Retry /\ UNCHANGED uploads
     \/ session # Nobody /\ ~MayUpload /\ DropClip /\ UNCHANGED uploads
     \/ /\ session # Nobody /\ MayUpload
        /\ uploads' = IF resume THEN uploads
                      ELSE Append(uploads, [clip |-> c, parts |-> {}, state |-> "open"])
        /\ \/ /\ Progress(IF resume THEN e ELSE [e EXCEPT !.upload = u, !.parts = {}])
              /\ urls' = With(urls, c, u)
              /\ UNCHANGED renewed
           \/ Lost
  /\ UNCHANGED <<client, doc, video, posters, world>>

(* Mutant: URLs are renewed as often as the bucket refuses them.            *)
RenewAgain(restart) ==
  /\ renewed' = renewed \cup {c}
  /\ urls' = Without(urls, c)
  /\ Progress(IF restart THEN [e EXCEPT !.upload = NoUpload, !.parts = {}] ELSE e)

(* renew: a second refusal in a row drops the clip.                        *)
Renew(restart) ==
  IF c \in renewed THEN DropClip
  ELSE /\ renewed' = renewed \cup {c}
       /\ urls' = Without(urls, c)
       /\ Progress(IF restart THEN [e EXCEPT !.upload = NoUpload, !.parts = {}] ELSE e)

(* send_poster, the PUT: the presigned URL carries no session.              *)
PutPoster ==
  /\ At(e.posted /\ c \in DOMAIN urls /\ ~e.poster)
  /\ \/ Renew(FALSE) /\ UNCHANGED posters
     \/ /\ posters' = posters \cup {c}
        /\ work' = [work EXCEPT !.confirm = TRUE]
        /\ UNCHANGED <<local, urls, renewed, faults>>
     \/ posters' = posters \cup {c} /\ Lost
  /\ UNCHANGED <<client, doc, uploads, video, world>>

(* setGameClipURL *)
SetUrl(field) ==
  doc' = [i \in DOMAIN doc |->
    IF doc[i].clip = c /\ doc[i].actor = session THEN [doc[i] EXCEPT ![field] = TRUE] ELSE doc[i]]

(* send_poster, the complete.                                              *)
ConfirmPoster ==
  /\ work # Idle /\ work.confirm
  /\ \/ session = Nobody /\ Retry /\ UNCHANGED doc
     \/ session # Nobody /\ (~MayUpload \/ c \notin posters) /\ DropClip /\ UNCHANGED doc
     \/ /\ session # Nobody /\ MayUpload /\ c \in posters
        /\ SetUrl("poster")
        /\ \/ /\ Progress([e EXCEPT !.poster = TRUE])
              /\ renewed' = renewed \ {c} /\ UNCHANGED urls
           \/ Lost
  /\ UNCHANGED <<client, bucket, world>>

Missing == Parts \ e.parts
Ready == e.posted /\ e.poster /\ c \in DOMAIN urls
Bucketed(u, p) == uploads' = [uploads EXCEPT ![u].parts = @ \cup {p}]

(* Mutant: a part counts as done when it is sent.                          *)
PartCounts(p) ==
  /\ Progress([e EXCEPT !.parts = @ \cup {p}])
  /\ UNCHANGED <<urls, renewed, uploads>>

(* The PUT of a part fails and nothing is stored.                          *)
PartFails(p) == Spend /\ work' = Idle /\ UNCHANGED <<local, urls, renewed, uploads>>

(* send_part: a pause leaves all as it is.                                 *)
PutPart ==
  LET p == Min(Missing)
      u == urls[c] IN
  /\ At(Ready /\ Missing # {})
  /\ \/ paused /\ Retry /\ UNCHANGED uploads
     \/ /\ ~paused
        /\ \/ Renew(FALSE) /\ UNCHANGED uploads
           \/ uploads[u].state # "open" /\ Renew(TRUE) /\ UNCHANGED uploads
           \/ PartFails(p)
           \/ /\ uploads[u].state = "open"
              /\ Bucketed(u, p)
              /\ \/ /\ Progress([e EXCEPT !.parts = @ \cup {p}])
                    /\ renewed' = renewed \ {c} /\ UNCHANGED urls
                 \/ Lost
  /\ UNCHANGED <<client, doc, video, posters, world>>

(* Mutant: an upload that is gone counts as complete.                      *)
AlwaysFound == TRUE

(* CompleteMultipartUpload makes the object; an upload that is gone goes on   *)
(* to the HEAD.                                                            *)
Makes == uploads[e.upload].state = "open" /\ e.parts \subseteq uploads[e.upload].parts
Found == video[c] # NoUpload

(* gameClipUploadComplete, part video; the last step may fail on its own.    *)
CompleteVideo ==
  /\ At(Ready /\ Missing = {})
  /\ \/ session = Nobody /\ Retry /\ UNCHANGED <<doc, uploads, video>>
     \/ session # Nobody /\ ~MayUpload /\ DropClip /\ UNCHANGED <<doc, uploads, video>>
     \/ /\ session # Nobody /\ MayUpload /\ ~Makes
        /\ IF uploads[e.upload].state # "open" /\ Found
           THEN SetUrl("media") /\ (Finished \/ Lost)
           ELSE DropClip /\ UNCHANGED doc
        /\ UNCHANGED <<uploads, video>>
     \/ /\ session # Nobody /\ MayUpload /\ Makes
        /\ uploads' = [uploads EXCEPT ![e.upload].state = "complete"]
        /\ video' = [video EXCEPT ![c] = e.upload]
        /\ \/ SetUrl("media") /\ (Finished \/ Lost)
           \/ Lost /\ UNCHANGED doc
  /\ UNCHANGED <<client, posters, world>>

Request ==
  FilesGone \/ Post \/ RequestUrls \/ PutPoster \/ ConfirmPoster \/ PutPart \/ CompleteVideo

-----------------------------------------------------------------------------
(* The world around them                                                   *)

(* The cleanup job aborts an upload after a day.                            *)
Abort ==
  /\ Spend
  /\ \E u \in DOMAIN uploads :
       uploads[u].state = "open" /\ uploads' = [uploads EXCEPT ![u].state = "aborted"]
  /\ UNCHANGED <<client, local, work, urls, renewed, doc, video, posters, world>>

(* capClips: newer clips of the crew push a clip out of the document.        *)
TrimDocument ==
  /\ Spend /\ doc # <<>>
  /\ doc' = Tail(doc)
  /\ UNCHANGED <<client, local, work, urls, renewed, bucket, world>>

LeaveCrew ==
  /\ Spend
  /\ \E u \in members : members' = members \ {u}
  /\ UNCHANGED <<client, local, work, urls, renewed, doc, bucket, gone, paused>>

DeleteFiles ==
  /\ Spend
  /\ \E d \in Clips \ gone : owner[d] # Nobody /\ gone' = gone \cup {d}
  /\ UNCHANGED <<client, local, work, urls, renewed, doc, bucket, members, paused>>

Pause ==
  /\ ~paused /\ Spend /\ paused' = TRUE
  /\ UNCHANGED <<client, local, work, urls, renewed, doc, bucket, members, gone>>

Resume ==
  /\ paused /\ paused' = FALSE
  /\ UNCHANGED <<client, local, work, urls, renewed, doc, bucket, members, gone, faults>>

Next ==
  \/ Share \/ SignOut \/ SignIn \/ Crash
  \/ Receive \/ Pick \/ Request
  \/ Abort \/ TrimDocument \/ LeaveCrew \/ DeleteFiles \/ Pause \/ Resume

Spec == Init /\ [][Next]_vars

(* The worker's thread runs, and a pause of the pace ends.                  *)
FairSpec == Spec /\ WF_vars(Receive) /\ WF_vars(Pick) /\ WF_vars(Request) /\ WF_vars(Resume)

-----------------------------------------------------------------------------
(* Properties                                                              *)

Whole(d) == video[d] # NoUpload /\ uploads[video[d]].clip = d /\ uploads[video[d]].parts = Parts

(* A clip the client is told is up, and a clip whose media_url is set, has an *)
(* object made of every part of one upload of that clip.                   *)
UploadedIsWhole ==
  /\ \A d \in Clips : told[d] = "up" => Whole(d)
  /\ \A i \in DOMAIN doc : doc[i].media => Whole(doc[i].clip)

PartsAreUp(q) ==
  \A d \in DOMAIN q :
    IF q[d].upload = NoUpload THEN q[d].parts = {}
    ELSE /\ q[d].upload \in DOMAIN uploads /\ uploads[q[d].upload].clip = d
         /\ q[d].parts \subseteq uploads[q[d].upload].parts

(* The done parts of an entry, in memory and in the file a restart reads, are *)
(* in the bucket under the entry's own upload.                             *)
DonePartsAreUp == PartsAreUp(queue) /\ PartsAreUp(disk)

(* Retries, lost answers, restarts and another account never store a clip    *)
(* twice in the crew's document.                                           *)
StoredOnce == \A i, j \in DOMAIN doc : doc[i].clip = doc[j].clip => i = j

(* A shared clip waits in the channel or the queue, the user was told how it  *)
(* ended, or a rule (cap, age) took it, or a crash after a failed save.      *)
NoSilentLoss ==
  \A d \in Clips : owner[d] # Nobody =>
    d \in DOMAIN queue \cup excused \/ [clip |-> d] \in Range(mail) \/ told[d] # "none"

(* While its owner stays signed in, a queued clip goes up or is given up,     *)
(* however often the bucket refuses its URLs.                              *)
QueuedLeaves ==
  \A d \in Clips : d \in DOMAIN queue ~> d \notin DOMAIN queue \/ session # owner[d]

(* Refuted: "A clip belongs to the user who clipped it. Only that user's      *)
(* session uploads it." (queue.rs)                                         *)
OnlyOwnersSession == \A i \in DOMAIN doc : doc[i].actor = owner[doc[i].clip]
=============================================================================
