--------------------------- MODULE ClipUploadProofs ---------------------------
(* Theorems about ClipUpload for every set of users, every number of clips,  *)
(* parts and faults, every cap of the queue and every daily limit.          *)
EXTENDS ClipUpload, FiniteSetTheorems, WellFoundedInduction, SequenceTheorems, TLAPS

USE ClipUploadAssumption

-----------------------------------------------------------------------------
(* The inductive invariant                                                 *)

(* The worker works on a copy of a queued entry that is still the same.      *)
Held == work # Idle => work.clip \in DOMAIN queue /\ work.entry = queue[work.clip]

(* A file that the last write reached has every queued clip; it is no longer *)
(* than the queue may be.                                                  *)
Saved ==
  /\ ~unsaved => DOMAIN queue \subseteq DOMAIN disk
  /\ Cardinality(DOMAIN disk) <= MaxEntries

(* A clip is in the channel once, and before it is queued.                   *)
Mailed(d) == [clip |-> d] \in Range(mail)

Announced ==
  /\ \A d \in DOMAIN queue \cup DOMAIN disk \cup DOMAIN urls : owner[d] # Nobody
  /\ \A d \in Clips : Mailed(d) => owner[d] # Nobody /\ d \notin DOMAIN queue \cup DOMAIN urls
  /\ \A i, j \in DOMAIN mail : mail[i] = mail[j] /\ mail[i] \in [clip : Clips] => i = j

(* The worker's URLs are those of the upload the entry names.                *)
UrlsMatch == \A d \in DOMAIN urls \cap DOMAIN queue : urls[d] = queue[d].upload

(* A video object is made of every part of an upload of its clip.            *)
VideosAreWhole == \A d \in Clips : video[d] # NoUpload => video[d] \in DOMAIN uploads /\ Whole(d)

(* What the user and the crew are told to be up has a video object.          *)
ShownHasVideo ==
  /\ \A d \in Clips : told[d] = "up" => video[d] # NoUpload
  /\ \A i \in DOMAIN doc : doc[i].media => video[doc[i].clip] # NoUpload

IInv ==
  /\ TypeOK /\ Held /\ Saved /\ Announced /\ UrlsMatch /\ DonePartsAreUp
  /\ VideosAreWhole /\ ShownHasVideo /\ StoredOnce /\ NoSilentLoss

-----------------------------------------------------------------------------
(* Numbers, sets and entries                                               *)

LEMMA MinIsThere ==
  ASSUME NEW S \in SUBSET Nat, S # {}
  PROVE  Min(S) \in S
<1> DEFINE below == {1..n : n \in S}
           R == StrictSubsetOrdering(Nat)
<1>1. IsWellFoundedOn(R, FiniteSubsetsOf(Nat))
  BY FS_StrictSubsetOrderingWellFounded
<1>2. below \subseteq FiniteSubsetsOf(Nat) /\ below # {}
  <2>1. \A n \in S : IsFiniteSet(1..n) /\ 1..n \subseteq Nat
    BY FS_Interval
  <2> QED
    BY <2>1 DEF FiniteSubsetsOf
<1>3. PICK least \in below : \A other \in below : <<other, least>> \notin R
  <2> HIDE DEF below, R
  <2> QED
    BY <1>1, <1>2, WFMin
<1>4. PICK n \in S : least = 1..n
  OBVIOUS
<1>5. ASSUME NEW m \in S, m < n PROVE FALSE
  <2>1. n \in Nat /\ m \in Nat /\ n \in 1..n /\ n \notin 1..m
    BY <1>5
  <2>2. <<1..m, 1..n>> \in (SUBSET Nat) \X (SUBSET Nat) /\ 1..m \subseteq 1..n /\ 1..m # 1..n
    BY <1>5, <2>1
  <2>3. <<1..m, 1..n>> \in R
    BY <2>2 DEF StrictSubsetOrdering
  <2> QED
    BY <1>3, <1>4, <2>3
<1>6. \A m \in S : n <= m
  BY <1>5
<1> QED
  BY <1>6 DEF Min

LEMMA ClipsAreFinite ==
  ASSUME NEW S \in SUBSET Clips
  PROVE  IsFiniteSet(S) /\ Cardinality(S) \in Nat /\ S \in SUBSET Nat
<1>1. IsFiniteSet(Clips)
  BY FS_Interval DEF Clips
<1>2. IsFiniteSet(S)
  BY <1>1, FS_Subset
<1>3. Cardinality(S) \in Nat
  BY <1>2, FS_CardinalityType
<1> QED
  BY <1>2, <1>3 DEF Clips

LEMMA NewEntryFits ==
  /\ NewEntry \in Entry /\ NewEntry.upload = NoUpload /\ NewEntry.parts = {}
  /\ Idle.clip = 0 /\ Idle \notin [clip : Clips, entry : Entry, confirm : BOOLEAN]
  BY DEF NewEntry, Entry, NoUpload, Idle, Clips

(* What the queue has after a write of one entry, and without one.           *)
LEMMA WithOne ==
  ASSUME NEW q, NEW d, NEW v
  PROVE  /\ DOMAIN With(q, d, v) = DOMAIN q \cup {d} /\ With(q, d, v)[d] = v
         /\ \A x \in DOMAIN q \ {d} : With(q, d, v)[x] = q[x]
  BY DEF With

LEMMA WithoutOne ==
  ASSUME NEW q, NEW d
  PROVE  DOMAIN Without(q, d) = DOMAIN q \ {d} /\ \A x \in DOMAIN q \ {d} : Without(q, d)[x] = q[x]
  BY DEF Without

(* The worker's clip and entry are typed while it works.                     *)
LEMMA AtWork ==
  ASSUME IInv, work # Idle
  PROVE  /\ c \in Clips /\ c \in DOMAIN queue /\ e \in Entry /\ e = queue[c] /\ work.confirm \in BOOLEAN
         /\ work \in [clip : Clips, entry : Entry, confirm : BOOLEAN] /\ owner[c] # Nobody
         /\ e.posted \in BOOLEAN /\ e.poster \in BOOLEAN /\ e.upload \in Nat /\ e.parts \in SUBSET Parts
  BY DEF IInv, TypeOK, Held, c, e, Announced, Entry

-----------------------------------------------------------------------------
(* Uploads                                                                 *)

Uploads == [clip : Clips, parts : SUBSET Parts, state : {"open", "aborted", "complete"}]

(* No step takes a part from an upload, or an upload away.                   *)
Grow ==
  /\ uploads' \in Seq(Uploads) /\ DOMAIN uploads \subseteq DOMAIN uploads'
  /\ \A u \in DOMAIN uploads :
       uploads'[u].clip = uploads[u].clip /\ uploads[u].parts \subseteq uploads'[u].parts

LEMMA UploadsTyped ==
  ASSUME TypeOK
  PROVE  /\ uploads \in Seq(Uploads) /\ Len(uploads) \in Nat /\ DOMAIN uploads = 1..Len(uploads)
         /\ \A u \in DOMAIN uploads : uploads[u] \in Uploads
<1>1. uploads \in Seq(Uploads)
  BY DEF TypeOK, Uploads
<1> QED
  BY <1>1

LEMMA UploadsStay == TypeOK /\ uploads' = uploads => Grow
  BY UploadsTyped DEF Grow

LEMMA UploadChanges ==
  ASSUME TypeOK, NEW u \in DOMAIN uploads, NEW new \in Uploads, uploads' = [uploads EXCEPT ![u] = new],
         new.clip = uploads[u].clip, uploads[u].parts \subseteq new.parts
  PROVE  Grow /\ DOMAIN uploads' = DOMAIN uploads /\ uploads'[u] = new
<1>1. uploads \in Seq(Uploads)
  BY UploadsTyped
<1>2. uploads' \in Seq(Uploads) /\ DOMAIN uploads' = DOMAIN uploads
  BY <1>1
<1>3. \A v \in DOMAIN uploads : uploads'[v] = IF v = u THEN new ELSE uploads[v]
  BY <1>1
<1> QED
  BY <1>2, <1>3 DEF Grow

LEMMA UploadStarts ==
  ASSUME TypeOK, NEW new \in Uploads, uploads' = Append(uploads, new)
  PROVE  /\ Grow /\ Len(uploads) + 1 \in DOMAIN uploads' /\ uploads'[Len(uploads) + 1] = new
         /\ Len(uploads) + 1 \in Nat \ {0}
<1>1. uploads \in Seq(Uploads) /\ Len(uploads) \in Nat /\ DOMAIN uploads = 1..Len(uploads)
  BY UploadsTyped
<1>2. /\ uploads' \in Seq(Uploads) /\ DOMAIN uploads' = 1..(Len(uploads) + 1)
      /\ uploads'[Len(uploads) + 1] = new /\ \A u \in 1..Len(uploads) : uploads'[u] = uploads[u]
  BY <1>1, AppendProperties
<1> QED
  BY <1>1, <1>2 DEF Grow

(* The done parts of the entry x of clip d are up; up, they stay up.         *)
EntryUp(d, x, ups) ==
  IF x.upload = NoUpload THEN x.parts = {}
  ELSE x.upload \in DOMAIN ups /\ ups[x.upload].clip = d /\ x.parts \subseteq ups[x.upload].parts

LEMMA EntryStaysUp ==
  ASSUME Grow, NEW d, NEW x, EntryUp(d, x, uploads)
  PROVE  EntryUp(d, x, uploads')
  BY DEF Grow, EntryUp

LEMMA EntriesUp ==
  ASSUME DonePartsAreUp
  PROVE  /\ \A d \in DOMAIN queue : EntryUp(d, queue[d], uploads)
         /\ \A d \in DOMAIN disk : EntryUp(d, disk[d], uploads)
  BY DEF DonePartsAreUp, PartsAreUp, EntryUp

-----------------------------------------------------------------------------
(* What a request does to the worker's queue                               *)

Written == (disk' = queue' /\ unsaved' = FALSE) \/ (disk' = disk /\ unsaved' = TRUE)

Kept == UNCHANGED <<queue, disk, unsaved, excused, told>>

Replaced(new) == queue' = [queue EXCEPT ![c] = new] /\ Written /\ UNCHANGED <<told, excused>>

Removed(event) ==
  /\ queue' = Without(queue, c) /\ Written
  /\ told' = [told EXCEPT ![c] = event] /\ urls' = Without(urls, c)
  /\ UNCHANGED excused

(* The other clips keep their URLs, the clip has those of its upload.        *)
UrlsOf(new) ==
  /\ DOMAIN urls' \subseteq DOMAIN urls \cup {c} /\ \A d \in DOMAIN urls' \ {c} : urls'[d] = urls[d]
  /\ c \in DOMAIN urls' => urls'[c] = new.upload /\ new.upload \in DOMAIN uploads'

Outcome ==
  \/ Kept /\ UNCHANGED urls /\ (work' = Idle \/ work' = [work EXCEPT !.confirm = TRUE])
  \/ Removed("failed") /\ work' = Idle
  \/ Removed("up") /\ work' = Idle /\ video'[c] # NoUpload
  \/ \E new \in Entry : Replaced(new) /\ UrlsOf(new) /\ EntryUp(c, new, uploads') /\ work' = Idle

Effect ==
  /\ UNCHANGED <<client, members, gone, paused>> /\ Grow /\ Outcome
  /\ renewed' \subseteq Clips /\ posters' \subseteq Clips /\ faults' \in 0..Faults

LEMMA SpendOrFree == TypeOK /\ (Spend \/ Free) => faults' \in 0..Faults
  BY DEF TypeOK, Spend, Free

LEMMA UpdateReplaces ==
  ASSUME IInv, work # Idle, NEW new, Update(c, new)
  PROVE  Replaced(new) /\ faults' \in 0..Faults
<1>1. c \in DOMAIN queue
  BY AtWork
<1>2. queue' = [queue EXCEPT ![c] = new] /\ Save(queue') /\ UNCHANGED <<told, excused>>
  BY <1>1 DEF Update
<1>3. Written /\ (Spend \/ Free)
  BY <1>2 DEF Save, Written
<1> QED
  BY <1>2, <1>3, SpendOrFree DEF Replaced, IInv

LEMMA LeaveRemoves ==
  ASSUME IInv, work # Idle, NEW event, Leave(c, event)
  PROVE  Removed(event) /\ renewed' \subseteq Clips /\ faults' \in 0..Faults
<1>1. c \in DOMAIN queue
  BY AtWork
<1>2. /\ queue' = Without(queue, c) /\ Save(queue') /\ told' = [told EXCEPT ![c] = event]
      /\ UNCHANGED excused /\ urls' = Without(urls, c) /\ renewed' = renewed \ {c}
  BY <1>1 DEF Leave
<1>3. Written /\ (Spend \/ Free)
  BY <1>2 DEF Save, Written
<1> QED
  BY <1>2, <1>3, SpendOrFree DEF Removed, IInv, TypeOK

LEMMA RetryKeeps ==
  ASSUME IInv, Retry \/ Lost
  PROVE  Outcome /\ renewed' \subseteq Clips /\ faults' \in 0..Faults /\ UNCHANGED <<disk, unsaved>>
<1>1. Kept /\ UNCHANGED <<urls, renewed>> /\ work' = Idle
  BY DEF Retry, Lost, Kept, local
<1>2. faults' \in 0..Faults
  BY SpendOrFree DEF Retry, Lost, Free, IInv
<1> QED
  BY <1>1, <1>2 DEF Outcome, Kept, IInv, TypeOK

LEMMA DropRemoves ==
  ASSUME IInv, work # Idle, DropClip
  PROVE  Outcome /\ renewed' \subseteq Clips /\ faults' \in 0..Faults
  BY LeaveRemoves DEF DropClip, Outcome

LEMMA EntryOfWork ==
  ASSUME IInv, work # Idle, Grow
  PROVE  EntryUp(c, e, uploads) /\ EntryUp(c, e, uploads')
<1>1. EntryUp(c, e, uploads)
  BY AtWork, EntriesUp DEF IInv
<1> QED
  BY <1>1, EntryStaysUp

(* The entry new replaces the copy; the URLs are as they were, or gone.      *)
LEMMA ProgressReplaces ==
  ASSUME IInv, work # Idle, NEW new \in Entry, Progress(new), Grow,
         EntryUp(c, new, uploads'), UrlsOf(new), renewed' \subseteq Clips
  PROVE  Outcome /\ faults' \in 0..Faults
  BY UpdateReplaces DEF Progress, Outcome

LEMMA SameUrls ==
  ASSUME IInv, work # Idle, Grow, NEW new, new.upload = e.upload,
         urls' = urls \/ urls' = Without(urls, c)
  PROVE  UrlsOf(new)
<1>1. DOMAIN urls' \subseteq DOMAIN urls /\ \A d \in DOMAIN urls' : urls'[d] = urls[d]
  BY DEF Without
<1>2. ASSUME c \in DOMAIN urls' PROVE urls'[c] = new.upload /\ new.upload \in DOMAIN uploads'
  <2>1. c \in DOMAIN urls /\ c \in DOMAIN queue /\ e = queue[c]
    BY <1>1, <1>2, AtWork
  <2>2. urls[c] = e.upload /\ urls[c] \in DOMAIN uploads
    BY <2>1 DEF IInv, UrlsMatch, TypeOK, Range
  <2> QED
    BY <1>1, <1>2, <2>2 DEF Grow
<1> QED
  BY <1>1, <1>2 DEF UrlsOf

(* A refused URL: the clip asks for new ones, or is given up.                *)
LEMMA RenewKeepsParts ==
  ASSUME IInv, work # Idle, NEW restart \in BOOLEAN, Renew(restart), Grow
  PROVE  Outcome /\ renewed' \subseteq Clips /\ faults' \in 0..Faults
<1>1. CASE c \in renewed
  BY <1>1, DropRemoves DEF Renew
<1>2. CASE c \notin renewed
  <2> DEFINE new == IF restart THEN [e EXCEPT !.upload = NoUpload, !.parts = {}] ELSE e
  <2>1. renewed' = renewed \cup {c} /\ urls' = Without(urls, c) /\ Progress(new)
    BY <1>2 DEF Renew
  <2>2. new \in Entry /\ EntryUp(c, new, uploads')
    <3>1. CASE restart
      BY <3>1, AtWork DEF Entry, EntryUp, NoUpload
    <3>2. CASE ~restart
      BY <3>2, AtWork, EntryOfWork
    <3> QED
      BY <3>1, <3>2
  <2>3. c \notin DOMAIN urls'
    BY <2>1 DEF Without
  <2>4. UrlsOf(new)
    BY <2>1, <2>3, WithoutOne DEF UrlsOf
  <2>5. renewed' \subseteq Clips
    BY <2>1, AtWork DEF IInv, TypeOK
  <2> HIDE DEF new
  <2> QED
    BY <2>1, <2>2, <2>4, <2>5, ProgressReplaces
<1> QED
  BY <1>1, <1>2

-----------------------------------------------------------------------------
(* What a request does to the crew's document and the bucket                *)

NewClip == [clip |-> c, actor |-> session, poster |-> FALSE, media |-> FALSE]

MadeOfAll(u) == u \in DOMAIN uploads' /\ uploads'[u].clip = c /\ uploads'[u].parts = Parts

Stores ==
  /\ \/ doc' = doc
     \/ ~Taken /\ session \in Users /\ doc' = Append(doc, NewClip)
     \/ SetUrl("poster")
     \/ SetUrl("media") /\ video'[c] # NoUpload
  /\ video' = video \/ (MadeOfAll(e.upload) /\ e.upload # NoUpload
     /\ video' = [video EXCEPT ![c] = e.upload])

LEMMA FilesGoneEffect ==
  ASSUME IInv, FilesGone
  PROVE  work # Idle /\ Effect /\ Stores
<1>1. work # Idle /\ DropClip /\ UNCHANGED <<client, doc, bucket, world>>
  BY DEF FilesGone
<1>2. Grow
  BY <1>1, UploadsStay DEF IInv, bucket
<1> QED
  BY <1>1, <1>2, DropRemoves DEF Effect, world, Stores, bucket, IInv, TypeOK

LEMMA PostEffect ==
  ASSUME IInv, Post
  PROVE  work # Idle /\ Effect /\ Stores
<1>1. work # Idle /\ UNCHANGED <<client, bucket, world>>
  BY DEF Post, At
<1>2. Grow /\ posters' \subseteq Clips
  BY <1>1, UploadsStay DEF IInv, bucket, TypeOK
<1>3. Stores
  <2>1. doc' = doc \/ (session # Nobody /\ MayPost /\ doc' = IF Appends THEN Append(doc, NewClip) ELSE doc)
    BY DEF Post, NewClip
  <2>2. session # Nobody => session \in Users
    BY DEF IInv, TypeOK
  <2>3. MayPost /\ Appends => ~Taken
    BY DEF MayPost, Appends
  <2> QED
    BY <1>1, <2>1, <2>2, <2>3 DEF Stores, bucket
<1>4. CASE Retry \/ Lost
  BY <1>1, <1>2, <1>3, <1>4, RetryKeeps DEF Effect, world
<1>5. CASE DropClip
  BY <1>1, <1>2, <1>3, <1>5, DropRemoves DEF Effect, world
<1>6. CASE Progress([e EXCEPT !.posted = TRUE]) /\ UNCHANGED <<urls, renewed>>
  <2> DEFINE new == [e EXCEPT !.posted = TRUE]
  <2>1. new \in Entry /\ new.upload = e.upload /\ new.parts = e.parts
    BY <1>1, AtWork DEF Entry
  <2>2. EntryUp(c, new, uploads')
    BY <1>1, <1>2, <2>1, EntryOfWork DEF EntryUp
  <2> HIDE DEF new
  <2>3. UrlsOf(new)
    BY <1>1, <1>2, <1>6, <2>1, SameUrls
  <2>4. renewed' \subseteq Clips
    BY <1>6 DEF IInv, TypeOK
  <2>5. Progress(new)
    BY <1>6 DEF new
  <2> QED
    BY <1>1, <1>2, <1>3, <2>1, <2>2, <2>3, <2>4, <2>5, ProgressReplaces DEF Effect, world
<1> QED
  BY <1>4, <1>5, <1>6 DEF Post

LEMMA RequestUrlsEffect ==
  ASSUME IInv, RequestUrls
  PROVE  work # Idle /\ Effect /\ Stores
<1> DEFINE resume == e.upload # NoUpload
           u == IF resume THEN e.upload ELSE Len(uploads) + 1
           start == [clip |-> c, parts |-> {}, state |-> "open"]
           new == IF resume THEN e ELSE [e EXCEPT !.upload = u, !.parts = {}]
<1>1. work # Idle /\ UNCHANGED <<client, doc, video, posters, world>>
  BY DEF RequestUrls, At
<1>2. start \in Uploads
  BY <1>1, AtWork DEF Uploads
<1>3. uploads' = uploads \/ (~resume /\ uploads' = Append(uploads, start))
  BY DEF RequestUrls
<1>4. Grow
  BY <1>2, <1>3, UploadsStay, UploadStarts DEF IInv
<1>5. Stores /\ posters' \subseteq Clips
  BY <1>1 DEF Stores, IInv, TypeOK
<1>6. CASE Retry \/ Lost
  BY <1>1, <1>4, <1>5, <1>6, RetryKeeps DEF Effect, world
<1>7. CASE DropClip
  BY <1>1, <1>4, <1>5, <1>7, DropRemoves DEF Effect, world
<1>8. CASE /\ uploads' = IF resume THEN uploads ELSE Append(uploads, start)
           /\ Progress(new) /\ urls' = With(urls, c, u) /\ UNCHANGED renewed
  <2>1. new \in Entry /\ new.upload = u /\ EntryUp(c, new, uploads') /\ u \in DOMAIN uploads'
    <3>1. CASE resume
      <4>1. EntryUp(c, e, uploads')
        BY <1>1, <1>4, EntryOfWork
      <4> QED
        BY <1>1, <3>1, <4>1, AtWork DEF EntryUp
    <3>2. CASE ~resume
      <4>1. u = Len(uploads) + 1 /\ uploads' = Append(uploads, start)
        BY <1>8, <3>2
      <4>2. u \in DOMAIN uploads' /\ uploads'[u] = start /\ u \in Nat \ {0}
        BY <1>2, <4>1, UploadStarts DEF IInv
      <4>3. new = [e EXCEPT !.upload = u, !.parts = {}]
        BY <3>2
      <4> HIDE DEF u, resume, new
      <4>4. new \in Entry /\ new.upload = u /\ new.parts = {}
        BY <1>1, <4>2, <4>3, AtWork DEF Entry
      <4> QED
        BY <4>2, <4>4 DEF EntryUp, NoUpload
    <3> QED
      BY <3>1, <3>2
  <2> HIDE DEF new, u, resume
  <2>2. UrlsOf(new)
    BY <1>8, <2>1 DEF UrlsOf, With
  <2>3. renewed' \subseteq Clips
    BY <1>8 DEF IInv, TypeOK
  <2> QED
    BY <1>1, <1>4, <1>5, <1>8, <2>1, <2>2, <2>3, ProgressReplaces DEF Effect, world
<1>9. \/ Retry \/ Lost \/ DropClip
      \/ /\ uploads' = IF resume THEN uploads ELSE Append(uploads, start)
         /\ Progress(new) /\ urls' = With(urls, c, u) /\ UNCHANGED renewed
  BY DEF RequestUrls
<1> QED
  BY <1>6, <1>7, <1>8, <1>9

LEMMA PutPosterEffect ==
  ASSUME IInv, PutPoster
  PROVE  work # Idle /\ Effect /\ Stores
<1>1. work # Idle /\ UNCHANGED <<client, doc, uploads, video, world>>
  BY DEF PutPoster, At
<1>2. Grow /\ Stores
  BY <1>1, UploadsStay DEF IInv, Stores
<1>3. posters' \subseteq Clips
  BY <1>1, AtWork DEF PutPoster, IInv, TypeOK
<1>4. CASE Renew(FALSE)
  BY <1>1, <1>2, <1>3, <1>4, RenewKeepsParts DEF Effect, world
<1>5. CASE work' = [work EXCEPT !.confirm = TRUE] /\ UNCHANGED <<local, urls, renewed, faults>>
  BY <1>1, <1>2, <1>3, <1>5 DEF Effect, world, Outcome, Kept, local, IInv, TypeOK
<1>6. CASE Lost
  BY <1>1, <1>2, <1>3, <1>6, RetryKeeps DEF Effect, world
<1> QED
  BY <1>4, <1>5, <1>6 DEF PutPoster

LEMMA ConfirmPosterEffect ==
  ASSUME IInv, ConfirmPoster
  PROVE  work # Idle /\ Effect /\ Stores
<1>1. work # Idle /\ UNCHANGED <<client, bucket, world>>
  BY DEF ConfirmPoster
<1>2. Grow /\ posters' \subseteq Clips
  BY <1>1, UploadsStay DEF IInv, bucket, TypeOK
<1>3. Stores
  BY <1>1 DEF ConfirmPoster, Stores, bucket
<1>4. CASE Retry \/ Lost
  BY <1>1, <1>2, <1>3, <1>4, RetryKeeps DEF Effect, world
<1>5. CASE DropClip
  BY <1>1, <1>2, <1>3, <1>5, DropRemoves DEF Effect, world
<1>6. CASE Progress([e EXCEPT !.poster = TRUE]) /\ renewed' = renewed \ {c} /\ UNCHANGED urls
  <2> DEFINE new == [e EXCEPT !.poster = TRUE]
  <2>1. new \in Entry /\ new.upload = e.upload /\ new.parts = e.parts
    BY <1>1, AtWork DEF Entry
  <2>2. EntryUp(c, new, uploads')
    BY <1>1, <1>2, <2>1, EntryOfWork DEF EntryUp
  <2> HIDE DEF new
  <2>3. UrlsOf(new)
    BY <1>1, <1>2, <1>6, <2>1, SameUrls
  <2>4. renewed' \subseteq Clips
    BY <1>6 DEF IInv, TypeOK
  <2>5. Progress(new)
    BY <1>6 DEF new
  <2> QED
    BY <1>1, <1>2, <1>3, <2>1, <2>2, <2>3, <2>4, <2>5, ProgressReplaces DEF Effect, world
<1> QED
  BY <1>4, <1>5, <1>6 DEF ConfirmPoster

LEMMA PutPartEffect ==
  ASSUME IInv, PutPart
  PROVE  work # Idle /\ Effect /\ Stores
<1> DEFINE p == Min(Missing)
           u == urls[c]
           grown == [uploads[u] EXCEPT !.parts = @ \cup {p}]
           new == [e EXCEPT !.parts = @ \cup {p}]
<1>1. /\ work # Idle /\ UNCHANGED <<client, doc, video, posters, world>>
      /\ Missing # {} /\ c \in DOMAIN urls
  BY DEF PutPart, At, Ready
<1>2. Missing \in SUBSET Nat /\ Missing \subseteq Parts
  BY DEF Missing, Parts
<1>3. p \in Parts
  BY <1>1, <1>2, MinIsThere
<1>4. u \in DOMAIN uploads /\ u = e.upload /\ uploads[u] \in Uploads /\ u \in Nat \ {0}
  <2>1. u = queue[c].upload /\ u \in DOMAIN uploads
    BY <1>1, AtWork DEF IInv, UrlsMatch, TypeOK, Range
  <2> QED
    BY <1>1, <2>1, AtWork, UploadsTyped DEF IInv
<1>5. Stores /\ posters' \subseteq Clips
  BY <1>1 DEF Stores, IInv, TypeOK
<1>6. CASE UNCHANGED uploads /\ (Retry \/ Renew(FALSE) \/ Renew(TRUE) \/ PartFails(p))
  <2>1. Grow
    BY <1>6, UploadsStay DEF IInv
  <2>2. PartFails(p) => Lost
    BY DEF PartFails, Lost
  <2>3. Outcome /\ renewed' \subseteq Clips /\ faults' \in 0..Faults
    BY <1>1, <1>6, <2>1, <2>2, RetryKeeps, RenewKeepsParts
  <2> QED
    BY <1>1, <1>5, <2>1, <2>3 DEF Effect, world
<1>7. CASE /\ Bucketed(u, p)
           /\ Lost \/ (Progress(new) /\ renewed' = renewed \ {c} /\ UNCHANGED urls)
  <2>1. uploads' = [uploads EXCEPT ![u] = grown]
    BY <1>7 DEF Bucketed
  <2>2. grown \in Uploads /\ grown.clip = uploads[u].clip /\ grown.parts = uploads[u].parts \cup {p}
    BY <1>3, <1>4 DEF Uploads
  <2> HIDE DEF grown, p
  <2>3. Grow /\ DOMAIN uploads' = DOMAIN uploads /\ uploads'[u] = grown
    BY <1>4, <2>1, <2>2, UploadChanges DEF IInv
  <2>4. CASE Lost
    BY <1>1, <1>5, <2>3, <2>4, RetryKeeps DEF Effect, world
  <2>5. CASE Progress(new) /\ renewed' = renewed \ {c} /\ UNCHANGED urls
    <3>1. new \in Entry /\ new.upload = e.upload /\ new.parts = e.parts \cup {p}
      BY <1>1, <1>3, AtWork DEF Entry
    <3>2. uploads[u].clip = c /\ e.parts \subseteq uploads[u].parts
      BY <1>1, <1>4, <2>3, EntryOfWork DEF EntryUp, NoUpload
    <3>3. EntryUp(c, new, uploads')
      BY <1>4, <2>2, <2>3, <3>1, <3>2 DEF EntryUp, NoUpload
    <3> HIDE DEF new
    <3>4. UrlsOf(new)
      BY <1>1, <2>3, <2>5, <3>1, SameUrls
    <3>5. renewed' \subseteq Clips
      BY <2>5 DEF IInv, TypeOK
    <3> QED
      BY <1>1, <1>5, <2>3, <2>5, <3>1, <3>3, <3>4, <3>5, ProgressReplaces DEF Effect, world
  <2> QED
    BY <1>7, <2>4, <2>5
<1>8. PartFails(p) => UNCHANGED uploads
  BY DEF PartFails
<1>9. \/ UNCHANGED uploads /\ (Retry \/ Renew(FALSE) \/ Renew(TRUE) \/ PartFails(p))
      \/ /\ Bucketed(u, p)
         /\ Lost \/ (Progress(new) /\ renewed' = renewed \ {c} /\ UNCHANGED urls)
  BY <1>8 DEF PutPart
<1> QED
  BY <1>6, <1>7, <1>9

LEMMA FinishedRemoves ==
  ASSUME IInv, work # Idle, Finished, video'[c] # NoUpload
  PROVE  Outcome /\ renewed' \subseteq Clips /\ faults' \in 0..Faults
  BY LeaveRemoves DEF Finished, Outcome

LEMMA CompleteVideoEffect ==
  ASSUME IInv, CompleteVideo
  PROVE  work # Idle /\ Effect /\ Stores
<1> DEFINE u == e.upload
           done == [uploads[u] EXCEPT !.state = "complete"]
<1>1. work # Idle /\ UNCHANGED <<client, posters, world>> /\ e.parts = Parts
  <2>1. work # Idle /\ UNCHANGED <<client, posters, world>> /\ Missing = {}
    BY DEF CompleteVideo, At
  <2> QED
    BY <2>1, AtWork DEF Missing
<1>2. posters' \subseteq Clips
  BY <1>1 DEF IInv, TypeOK
<1>3. /\ u \in DOMAIN uploads /\ uploads[u] \in Uploads /\ u \in Nat \ {0}
      /\ uploads[u].clip = c /\ uploads[u].parts = Parts
  <2>1. 1 \in Parts
    BY DEF Parts
  <2>2. EntryUp(c, e, uploads)
    BY <1>1, AtWork, EntriesUp DEF IInv
  <2>3. u \in DOMAIN uploads /\ uploads[u].clip = c /\ Parts \subseteq uploads[u].parts
    BY <1>1, <2>1, <2>2 DEF EntryUp
  <2>4. uploads[u] \in Uploads /\ u \in Nat \ {0}
    BY <2>3, UploadsTyped DEF IInv
  <2> QED
    BY <2>3, <2>4 DEF Uploads
<1>4. CASE UNCHANGED <<doc, uploads, video>> /\ (Retry \/ DropClip)
  <2>1. Grow /\ Stores
    BY <1>4, UploadsStay DEF IInv, Stores
  <2> QED
    BY <1>1, <1>2, <1>4, <2>1, RetryKeeps, DropRemoves DEF Effect, world
<1>5. CASE UNCHANGED <<uploads, video>> /\ Found /\ SetUrl("media") /\ (Finished \/ Lost)
  <2>1. Grow /\ video'[c] # NoUpload
    BY <1>5, UploadsStay DEF IInv, Found
  <2>2. Stores
    BY <1>5, <2>1 DEF Stores
  <2> QED
    BY <1>1, <1>2, <1>5, <2>1, <2>2, RetryKeeps, FinishedRemoves DEF Effect, world
<1>6. CASE /\ uploads' = [uploads EXCEPT ![e.upload].state = "complete"]
           /\ video' = [video EXCEPT ![c] = e.upload]
           /\ (SetUrl("media") /\ (Finished \/ Lost)) \/ (Lost /\ UNCHANGED doc)
  <2>1. uploads' = [uploads EXCEPT ![u] = done]
    BY <1>6
  <2>2. done \in Uploads /\ done.clip = c /\ done.parts = Parts
    BY <1>3 DEF Uploads
  <2> HIDE DEF done
  <2>3. Grow /\ u \in DOMAIN uploads' /\ uploads'[u] = done
    BY <1>3, <2>1, <2>2, UploadChanges DEF IInv
  <2>4. MadeOfAll(u)
    BY <2>2, <2>3 DEF MadeOfAll
  <2>5. video'[c] # NoUpload
    BY <1>1, <1>3, <1>6, AtWork DEF IInv, TypeOK, NoUpload
  <2>6. Stores
    BY <1>3, <1>6, <2>4, <2>5 DEF Stores, NoUpload
  <2> QED
    BY <1>1, <1>2, <1>6, <2>3, <2>5, <2>6, RetryKeeps, FinishedRemoves DEF Effect, world
<1> QED
  BY <1>4, <1>5, <1>6 DEF CompleteVideo

LEMMA RequestEffect ==
  ASSUME IInv, Request
  PROVE  work # Idle /\ Effect /\ Stores
  BY FilesGoneEffect, PostEffect, RequestUrlsEffect, PutPosterEffect, ConfirmPosterEffect, PutPartEffect,
     CompleteVideoEffect DEF Request

-----------------------------------------------------------------------------
(* The queue, its file and the videos after a step                          *)

LEMMA QueueFits ==
  ASSUME IInv, NEW S \in SUBSET DOMAIN queue
  PROVE  S \in SUBSET Clips /\ Cardinality(S) <= MaxEntries
<1>1. DOMAIN queue \in SUBSET Clips /\ Cardinality(DOMAIN queue) <= MaxEntries
  BY DEF IInv, TypeOK, IsQueue
<1>2. IsFiniteSet(DOMAIN queue) /\ Cardinality(DOMAIN queue) \in Nat /\ Cardinality(S) \in Nat
  BY <1>1, ClipsAreFinite
<1>3. Cardinality(S) <= Cardinality(DOMAIN queue)
  BY <1>2, FS_Subset
<1> QED
  BY <1>1, <1>2, <1>3

(* The file has what it had, or what the queue has now.                     *)
LEMMA FileStep ==
  ASSUME IInv, Grow, IsQueue(queue'), Cardinality(DOMAIN queue') <= MaxEntries,
         \A d \in DOMAIN queue' : EntryUp(d, queue'[d], uploads'),
         Written \/ (UNCHANGED <<disk, unsaved>> /\ DOMAIN queue' \subseteq DOMAIN queue)
  PROVE  /\ IsQueue(disk)' /\ unsaved' \in BOOLEAN /\ Saved' /\ DonePartsAreUp'
         /\ disk' = disk \/ disk' = queue'
<1>1. \A d \in DOMAIN disk : EntryUp(d, disk[d], uploads')
  BY EntriesUp, EntryStaysUp DEF IInv
<1>2. CASE disk' = disk /\ (unsaved' = TRUE \/ (unsaved' = unsaved /\ DOMAIN queue' \subseteq DOMAIN queue))
  <2>1. IsQueue(disk)' /\ unsaved' \in BOOLEAN /\ Saved'
    BY <1>2 DEF IInv, TypeOK, IsQueue, Saved
  <2>2. DonePartsAreUp'
    BY <1>1, <1>2 DEF DonePartsAreUp, PartsAreUp, EntryUp
  <2> QED
    BY <1>2, <2>1, <2>2
<1>3. CASE disk' = queue' /\ unsaved' = FALSE
  <2>1. IsQueue(disk)' /\ unsaved' \in BOOLEAN /\ Saved'
    BY <1>3 DEF IsQueue, Saved
  <2>2. DonePartsAreUp'
    BY <1>3 DEF DonePartsAreUp, PartsAreUp, EntryUp
  <2> QED
    BY <1>3, <2>1, <2>2
<1> QED
  BY <1>2, <1>3 DEF Written

LEMMA WholeStays ==
  ASSUME IInv, Grow, NEW d, NEW u \in DOMAIN uploads, uploads[u].clip = d, uploads[u].parts = Parts
  PROVE  u \in DOMAIN uploads' /\ uploads'[u].clip = d /\ uploads'[u].parts = Parts
<1>1. uploads' \in Seq(Uploads) /\ u \in DOMAIN uploads' /\ Parts \subseteq uploads'[u].parts
        /\ uploads'[u].clip = d
  BY DEF Grow
<1>2. uploads'[u] \in Uploads
  BY <1>1
<1> QED
  BY <1>1, <1>2 DEF Uploads

LEMMA VideosStay ==
  ASSUME IInv, Grow, video' = video
  PROVE  VideosAreWhole'
<1> SUFFICES ASSUME NEW d \in Clips, video[d] # NoUpload
             PROVE  video[d] \in DOMAIN uploads' /\ uploads'[video[d]].clip = d
                      /\ uploads'[video[d]].parts = Parts
  BY DEF VideosAreWhole, Whole
<1>1. video[d] \in DOMAIN uploads /\ uploads[video[d]].clip = d /\ uploads[video[d]].parts = Parts
  BY DEF IInv, VideosAreWhole, Whole
<1> QED
  BY <1>1, WholeStays

-----------------------------------------------------------------------------
(* Every request keeps the invariant                                       *)

LEMMA RequestQueue ==
  ASSUME IInv, work # Idle, Effect
  PROVE  /\ IsQueue(queue') /\ DOMAIN queue' \subseteq DOMAIN queue
         /\ \A d \in DOMAIN queue' : EntryUp(d, queue'[d], uploads')
         /\ Written \/ UNCHANGED <<disk, unsaved>>
<1>1. \A d \in DOMAIN queue : EntryUp(d, queue[d], uploads') /\ queue[d] \in Entry
  BY EntriesUp, EntryStaysUp DEF IInv, Effect, TypeOK, IsQueue
<1>2. DOMAIN queue \subseteq Clips
  BY DEF IInv, TypeOK, IsQueue
<1>3. CASE Kept
  BY <1>1, <1>2, <1>3 DEF Kept, IsQueue
<1>4. CASE \E event : Removed(event)
  <2>1. queue' = Without(queue, c) /\ Written
    BY <1>4 DEF Removed
  <2>2. DOMAIN queue' = DOMAIN queue \ {c} /\ \A d \in DOMAIN queue' : queue'[d] = queue[d]
    BY <2>1 DEF Without
  <2> QED
    BY <1>1, <1>2, <2>1, <2>2 DEF IsQueue
<1>5. ASSUME NEW new \in Entry, Replaced(new), EntryUp(c, new, uploads')
      PROVE  /\ IsQueue(queue') /\ DOMAIN queue' \subseteq DOMAIN queue
             /\ \A d \in DOMAIN queue' : EntryUp(d, queue'[d], uploads')
             /\ Written
  <2>1. queue' = [queue EXCEPT ![c] = new] /\ Written
    BY <1>5 DEF Replaced
  <2>2. DOMAIN queue' = DOMAIN queue /\ \A d \in DOMAIN queue' : queue'[d] = IF d = c THEN new ELSE queue[d]
    BY <2>1
  <2> QED
    BY <1>1, <1>2, <1>5, <2>1, <2>2 DEF IsQueue
<1> QED
  BY <1>3, <1>4, <1>5 DEF Effect, Outcome, Kept

LEMMA RequestUrlsMatch ==
  ASSUME IInv, work # Idle, Effect
  PROVE  /\ UrlsMatch' /\ Held' /\ DOMAIN urls' \subseteq DOMAIN urls \cup {c}
         /\ Range(urls') \subseteq DOMAIN uploads'
         /\ work' = Idle \/ work' \in [clip : Clips, entry : Entry, confirm : BOOLEAN]
<1>1. \A d \in DOMAIN urls : urls[d] \in DOMAIN uploads'
  BY DEF IInv, TypeOK, Range, Effect, Grow
<1>2. CASE Kept /\ UNCHANGED urls /\ (work' = Idle \/ work' = [work EXCEPT !.confirm = TRUE])
  <2>1. work \in [clip : Clips, entry : Entry, confirm : BOOLEAN]
    BY AtWork
  <2>2. CASE work' = Idle
    BY <1>1, <1>2, <2>2 DEF Kept, IInv, UrlsMatch, Held, Range
  <2>3. CASE work' = [work EXCEPT !.confirm = TRUE]
    <3>1. work'.clip = work.clip /\ work'.entry = work.entry
            /\ work' \in [clip : Clips, entry : Entry, confirm : BOOLEAN]
      BY <2>1, <2>3
    <3> QED
      BY <1>1, <1>2, <3>1 DEF Kept, IInv, UrlsMatch, Held, Range
  <2> QED
    BY <1>2, <2>2, <2>3
<1>3. ASSUME NEW event, Removed(event), work' = Idle
      PROVE  UrlsMatch' /\ Held' /\ DOMAIN urls' \subseteq DOMAIN urls
               /\ Range(urls') \subseteq DOMAIN uploads'
  <2>1. DOMAIN queue' = DOMAIN queue \ {c} /\ \A d \in DOMAIN queue' : queue'[d] = queue[d]
    BY <1>3 DEF Removed, Without
  <2>2. DOMAIN urls' = DOMAIN urls \ {c} /\ \A d \in DOMAIN urls' : urls'[d] = urls[d]
    BY <1>3 DEF Removed, Without
  <2> QED
    BY <1>1, <1>3, <2>1, <2>2 DEF IInv, UrlsMatch, Held, Range
<1>4. ASSUME NEW new \in Entry, Replaced(new), UrlsOf(new), work' = Idle
      PROVE  /\ UrlsMatch' /\ Held' /\ DOMAIN urls' \subseteq DOMAIN urls \cup {c}
             /\ Range(urls') \subseteq DOMAIN uploads'
  <2>1. DOMAIN queue' = DOMAIN queue /\ \A d \in DOMAIN queue' : queue'[d] = IF d = c THEN new ELSE queue[d]
    BY <1>4 DEF Replaced
  <2> QED
    BY <1>1, <1>4, <2>1 DEF IInv, UrlsMatch, Held, Range, UrlsOf
<1> QED
  BY <1>2, <1>3, <1>4 DEF Effect, Outcome

Posts == [clip : Clips, actor : Users, poster : BOOLEAN, media : BOOLEAN]

LEMMA VideosGrow ==
  ASSUME IInv, work # Idle, Effect, Stores
  PROVE  /\ video' \in [Clips -> Nat] /\ VideosAreWhole'
         /\ \A d \in Clips : video[d] # NoUpload => video'[d] # NoUpload
<1>1. Grow /\ video \in [Clips -> Nat]
  BY DEF Effect, IInv, TypeOK
<1>2. CASE video' = video
  BY <1>1, <1>2, VideosStay
<1>3. CASE MadeOfAll(e.upload) /\ e.upload # NoUpload /\ video' = [video EXCEPT ![c] = e.upload]
  <2>1. c \in Clips /\ e.upload \in Nat
    BY AtWork
  <2>2. video' \in [Clips -> Nat] /\ \A d \in Clips : video'[d] = IF d = c THEN e.upload ELSE video[d]
    BY <1>1, <1>3, <2>1
  <2>3. ASSUME NEW d \in Clips \ {c}, video[d] # NoUpload
        PROVE  video[d] \in DOMAIN uploads' /\ uploads'[video[d]].clip = d
                 /\ uploads'[video[d]].parts = Parts
    <3>1. video[d] \in DOMAIN uploads /\ uploads[video[d]].clip = d /\ uploads[video[d]].parts = Parts
      BY <2>3 DEF IInv, VideosAreWhole, Whole
    <3> QED
      BY <1>1, <3>1, WholeStays
  <2>4. VideosAreWhole'
    BY <1>3, <2>2, <2>3 DEF VideosAreWhole, Whole, MadeOfAll
  <2> QED
    BY <1>3, <2>2, <2>4
<1> QED
  BY <1>2, <1>3 DEF Stores

(* The document keeps its clips and their order; a clip is marked shown      *)
(* once its video is there.                                                *)
LEMMA ShownAfterSet ==
  ASSUME IInv, NEW field \in {"poster", "media"}, SetUrl(field)
  PROVE  /\ doc' \in Seq(Posts) /\ StoredOnce' /\ DOMAIN doc' = DOMAIN doc
         /\ \A i \in DOMAIN doc :
              /\ doc'[i].clip = doc[i].clip /\ doc'[i].actor = doc[i].actor
              /\ doc'[i].media => doc[i].media \/ (field = "media" /\ doc[i].clip = c)
<1>1. doc \in Seq(Posts) /\ DOMAIN doc = 1..Len(doc) /\ Len(doc) \in Nat
  BY DEF IInv, TypeOK, Posts
<1>2. \A i \in DOMAIN doc : doc[i] \in Posts
  BY <1>1
<1>3. DOMAIN doc' = DOMAIN doc
  BY DEF SetUrl
<1>4. ASSUME NEW i \in DOMAIN doc
      PROVE  /\ doc'[i] \in Posts /\ doc'[i].clip = doc[i].clip /\ doc'[i].actor = doc[i].actor
             /\ doc'[i].media => doc[i].media \/ (field = "media" /\ doc[i].clip = c)
  <2>1. doc[i] \in Posts
    BY <1>2
  <2>2. doc'[i] = doc[i] \/ (doc[i].clip = c /\ doc'[i] = [doc[i] EXCEPT ![field] = TRUE])
    BY DEF SetUrl
  <2>3. CASE field = "poster"
    BY <2>1, <2>2, <2>3 DEF Posts
  <2>4. CASE field = "media"
    BY <2>1, <2>2, <2>4 DEF Posts
  <2> QED
    BY <2>3, <2>4
<1>5. doc' = [i \in 1..Len(doc) |-> doc'[i]]
  BY <1>1, <1>3 DEF SetUrl
<1>6. doc' \in Seq(Posts)
  BY <1>1, <1>3, <1>4, <1>5, SeqDef
<1>7. StoredOnce'
  BY <1>3, <1>4 DEF IInv, StoredOnce
<1> QED
  BY <1>3, <1>4, <1>6, <1>7

LEMMA RequestStores ==
  ASSUME IInv, work # Idle, Effect, Stores
  PROVE  /\ doc' \in Seq(Posts) /\ StoredOnce'
         /\ \A i \in DOMAIN doc' : doc'[i].media => video'[doc'[i].clip] # NoUpload
<1>1. doc \in Seq(Posts) /\ DOMAIN doc = 1..Len(doc) /\ Len(doc) \in Nat
        /\ \A i \in DOMAIN doc : doc[i] \in Posts
  <2>1. doc \in Seq(Posts)
    BY DEF IInv, TypeOK, Posts
  <2> QED
    BY <2>1
<1>2. \A i \in DOMAIN doc : doc[i].media => video'[doc[i].clip] # NoUpload
  BY <1>1, VideosGrow DEF IInv, ShownHasVideo, Posts
<1>3. CASE doc' = doc
  BY <1>1, <1>2, <1>3 DEF IInv, StoredOnce
<1>4. CASE ~Taken /\ session \in Users /\ doc' = Append(doc, NewClip)
  <2>1. NewClip \in Posts /\ NewClip.clip = c /\ ~NewClip.media
    BY <1>4, AtWork DEF NewClip, Posts
  <2> HIDE DEF NewClip
  <2>2. /\ doc' \in Seq(Posts) /\ DOMAIN doc' = 1..(Len(doc) + 1)
        /\ doc'[Len(doc) + 1] = NewClip /\ \A i \in 1..Len(doc) : doc'[i] = doc[i]
    BY <1>1, <1>4, <2>1, AppendProperties
  <2>3. \A i \in DOMAIN doc : doc[i].clip # c
    BY <1>4 DEF Taken
  <2>4. StoredOnce'
    BY <1>1, <2>1, <2>2, <2>3 DEF IInv, StoredOnce
  <2> QED
    BY <1>1, <1>2, <2>1, <2>2, <2>4
<1>5. CASE SetUrl("poster")
  BY <1>2, <1>5, ShownAfterSet
<1>6. CASE SetUrl("media") /\ video'[c] # NoUpload
  BY <1>2, <1>6, ShownAfterSet
<1> QED
  BY <1>3, <1>4, <1>5, <1>6 DEF Stores

(* What the user was told, and the clips that wait.                         *)
LEMMA RequestTells ==
  ASSUME IInv, work # Idle, Effect, Stores
  PROVE  /\ told' \in [Clips -> {"none", "up", "failed"}] /\ excused' = excused
         /\ \A d \in Clips : told'[d] = "up" => video'[d] # NoUpload
         /\ NoSilentLoss'
<1>1. c \in Clips /\ c \in DOMAIN queue /\ told \in [Clips -> {"none", "up", "failed"}]
  BY AtWork DEF IInv, TypeOK
<1>2. \A d \in Clips : told[d] = "up" => video'[d] # NoUpload
  BY VideosGrow DEF IInv, ShownHasVideo
<1>3. owner' = owner /\ mail' = mail
  BY DEF Effect, client
<1>4. CASE UNCHANGED <<told, excused>> /\ DOMAIN queue' = DOMAIN queue
  BY <1>1, <1>2, <1>3, <1>4 DEF IInv, NoSilentLoss
<1>5. ASSUME NEW event \in {"up", "failed"}, Removed(event), event = "up" => video'[c] # NoUpload
      PROVE  /\ told' \in [Clips -> {"none", "up", "failed"}] /\ excused' = excused
             /\ \A d \in Clips : told'[d] = "up" => video'[d] # NoUpload
             /\ NoSilentLoss'
  <2>1. /\ told' = [told EXCEPT ![c] = event] /\ excused' = excused
        /\ DOMAIN queue' = DOMAIN queue \ {c}
    BY <1>5 DEF Removed, Without
  <2>2. told' \in [Clips -> {"none", "up", "failed"}]
          /\ \A d \in Clips : told'[d] = IF d = c THEN event ELSE told[d]
    BY <1>1, <1>5, <2>1
  <2>3. NoSilentLoss'
    BY <1>3, <1>5, <2>1, <2>2 DEF IInv, NoSilentLoss
  <2> QED
    BY <1>2, <1>5, <2>1, <2>2, <2>3
<1>6. \/ UNCHANGED <<told, excused>> /\ DOMAIN queue' = DOMAIN queue
      \/ \E event \in {"up", "failed"} : Removed(event) /\ (event = "up" => video'[c] # NoUpload)
  BY DEF Effect, Outcome, Kept, Replaced
<1> QED
  BY <1>4, <1>5, <1>6

LEMMA RequestInv ==
  ASSUME IInv, Request
  PROVE  IInv'
<1>1. work # Idle /\ Effect /\ Stores
  BY RequestEffect
<1>2. /\ IsQueue(queue') /\ DOMAIN queue' \subseteq DOMAIN queue /\ Cardinality(DOMAIN queue') <= MaxEntries
      /\ \A d \in DOMAIN queue' : EntryUp(d, queue'[d], uploads')
      /\ Written \/ UNCHANGED <<disk, unsaved>>
  BY <1>1, RequestQueue, QueueFits
<1>3. /\ IsQueue(disk)' /\ unsaved' \in BOOLEAN /\ Saved' /\ DonePartsAreUp'
         /\ (disk' = disk \/ disk' = queue')
  BY <1>1, <1>2, FileStep DEF Effect
<1>4. /\ UrlsMatch' /\ Held' /\ DOMAIN urls' \subseteq DOMAIN urls \cup {c}
         /\ Range(urls') \subseteq DOMAIN uploads'
      /\ work' = Idle \/ work' \in [clip : Clips, entry : Entry, confirm : BOOLEAN]
  BY <1>1, RequestUrlsMatch
<1>5. VideosAreWhole' /\ video' \in [Clips -> Nat]
  BY <1>1, VideosGrow
<1>6. doc' \in Seq(Posts) /\ StoredOnce'
        /\ \A i \in DOMAIN doc' : doc'[i].media => video'[doc'[i].clip] # NoUpload
  BY <1>1, RequestStores
<1>7. /\ told' \in [Clips -> {"none", "up", "failed"}] /\ excused' = excused
      /\ \A d \in Clips : told'[d] = "up" => video'[d] # NoUpload
      /\ NoSilentLoss'
  BY <1>1, RequestTells
<1>8. /\ session' = session /\ user' = user /\ owner' = owner /\ mail' = mail
      /\ members' = members /\ gone' = gone /\ paused' = paused
      /\ renewed' \subseteq Clips /\ posters' \subseteq Clips /\ faults' \in 0..Faults
         /\ uploads' \in Seq(Uploads)
  BY <1>1 DEF Effect, client, Grow
<1>9. ShownHasVideo'
  BY <1>6, <1>7 DEF ShownHasVideo
<1>10. Announced'
  BY <1>1, <1>2, <1>3, <1>4, <1>8, AtWork DEF IInv, Announced, Mailed
<1>11. TypeOK'
  <2>1. c \in Clips /\ DOMAIN urls \subseteq Clips
    BY <1>1, AtWork DEF IInv, TypeOK
  <2>2. IsQueue(queue)' /\ Cardinality(DOMAIN queue') <= MaxEntries
    BY <1>2 DEF IsQueue
  <2> QED
    BY <1>3, <1>4, <1>5, <1>6, <1>7, <1>8, <2>1, <2>2 DEF IInv, TypeOK, Posts, Uploads
<1> QED
  BY <1>3, <1>4, <1>5, <1>6, <1>7, <1>9, <1>10, <1>11 DEF IInv

-----------------------------------------------------------------------------
(* The channel of the worker                                               *)

LEMMA MailTyped ==
  ASSUME IInv
  PROVE  /\ mail \in Seq(Messages) /\ Len(mail) \in Nat /\ DOMAIN mail = 1..Len(mail)
         /\ \A i \in DOMAIN mail : mail[i] \in Messages
<1>1. mail \in Seq(Messages)
  BY DEF IInv, TypeOK
<1> QED
  BY <1>1

(* A message is of one kind.                                               *)
LEMMA MessageKinds ==
  ASSUME NEW m \in Messages
  PROVE  /\ "clip" \in DOMAIN m => m \in [clip : Clips] /\ m.clip \in Clips /\ m = [clip |-> m.clip]
         /\ "clip" \notin DOMAIN m => m \in [user : Users \cup {Nobody}] /\ m.user \in Users \cup {Nobody}
         /\ m \in [user : Users \cup {Nobody}] => m \notin [clip : Clips]
            /\ \A d \in Clips : m # [clip |-> d]
<1>1. \A n \in [user : Users \cup {Nobody}] : DOMAIN n = {"user"} /\ n.user \in Users \cup {Nobody}
  OBVIOUS
<1>2. \A n \in [clip : Clips] : DOMAIN n = {"clip"} /\ n.clip \in Clips /\ n = [clip |-> n.clip]
  OBVIOUS
<1>3. \A d \in Clips : [clip |-> d] \in [clip : Clips]
  OBVIOUS
<1> QED
  BY <1>1, <1>2, <1>3 DEF Messages

LEMMA MailGrows ==
  ASSUME IInv, NEW m \in Messages, mail' = Append(mail, m)
  PROVE  /\ mail' \in Seq(Messages) /\ Range(mail') = Range(mail) \cup {m}
         /\ m \notin Range(mail) \/ m \notin [clip : Clips]
            => \A i, j \in DOMAIN mail' : mail'[i] = mail'[j] /\ mail'[i] \in [clip : Clips] => i = j
<1>1. mail \in Seq(Messages) /\ Len(mail) \in Nat /\ DOMAIN mail = 1..Len(mail)
  BY MailTyped
<1>2. /\ mail' \in Seq(Messages) /\ DOMAIN mail' = 1..(Len(mail) + 1)
      /\ mail'[Len(mail) + 1] = m /\ \A i \in 1..Len(mail) : mail'[i] = mail[i]
  BY <1>1, AppendProperties
<1>3. Range(mail') = Range(mail) \cup {m}
  BY <1>1, <1>2 DEF Range
<1>4. \A i, j \in DOMAIN mail : mail[i] = mail[j] /\ mail[i] \in [clip : Clips] => i = j
  BY DEF IInv, Announced
<1>5. ASSUME m \notin Range(mail) \/ m \notin [clip : Clips],
             NEW i \in DOMAIN mail', NEW j \in DOMAIN mail', mail'[i] = mail'[j], mail'[i] \in [clip : Clips]
      PROVE  i = j
  BY <1>1, <1>2, <1>4, <1>5 DEF Range
<1> QED
  BY <1>2, <1>3, <1>5

LEMMA MailShrinks ==
  ASSUME IInv, mail # <<>>, mail' = Tail(mail)
  PROVE  /\ mail' \in Seq(Messages) /\ Head(mail) \in Messages
            /\ Range(mail) = Range(mail') \cup {Head(mail)}
         /\ Head(mail) \in [clip : Clips] => Head(mail) \notin Range(mail')
         /\ \A i, j \in DOMAIN mail' : mail'[i] = mail'[j] /\ mail'[i] \in [clip : Clips] => i = j
<1>1. mail \in Seq(Messages) /\ Len(mail) \in Nat /\ DOMAIN mail = 1..Len(mail)
  BY MailTyped
<1>2. /\ mail' \in Seq(Messages) /\ DOMAIN mail' = 1..(Len(mail) - 1) /\ Len(mail) >= 1
      /\ Head(mail) = mail[1] /\ Head(mail) \in Messages
         /\ \A i \in 1..(Len(mail) - 1) : mail'[i] = mail[i + 1]
  BY <1>1, HeadTailProperties
<1>3. \A i, j \in DOMAIN mail : mail[i] = mail[j] /\ mail[i] \in [clip : Clips] => i = j
  BY DEF IInv, Announced
<1>4. Range(mail) = Range(mail') \cup {Head(mail)}
  <2>1. ASSUME NEW i \in DOMAIN mail PROVE mail[i] \in Range(mail') \cup {Head(mail)}
    <3>1. CASE i = 1
      BY <1>2, <3>1
    <3>2. CASE i # 1
      <4>1. i - 1 \in DOMAIN mail' /\ mail[i] = mail'[i - 1]
        BY <1>1, <1>2, <3>2
      <4> QED
        BY <4>1 DEF Range
    <3> QED
      BY <3>1, <3>2
  <2>2. \A i \in DOMAIN mail' : mail'[i] \in Range(mail)
    BY <1>1, <1>2 DEF Range
  <2>3. Head(mail) \in Range(mail)
    BY <1>1, <1>2 DEF Range
  <2> QED
    BY <2>1, <2>2, <2>3 DEF Range
<1>5. ASSUME Head(mail) \in [clip : Clips], NEW i \in DOMAIN mail', mail'[i] = Head(mail)
      PROVE  FALSE
  <2>1. 1 \in DOMAIN mail /\ i + 1 \in DOMAIN mail /\ mail[i + 1] = mail[1] /\ mail[1] \in [clip : Clips]
    <3>1. i \in 1..(Len(mail) - 1) /\ i + 1 \in DOMAIN mail /\ 1 \in DOMAIN mail
      BY <1>1, <1>2
    <3>2. mail[i + 1] = mail'[i] /\ mail'[i] = Head(mail) /\ Head(mail) = mail[1]
      BY <1>2, <1>5, <3>1
    <3> QED
      BY <1>5, <3>1, <3>2
  <2>2. i + 1 = 1 /\ i >= 1
    BY <1>2, <1>3, <2>1
  <2> QED
    BY <1>2, <2>2
<1>6. ASSUME NEW i \in DOMAIN mail', NEW j \in DOMAIN mail', mail'[i] = mail'[j], mail'[i] \in [clip : Clips]
      PROVE  i = j
  <2>1. i + 1 = j + 1
    BY <1>1, <1>2, <1>3, <1>6
  <2> QED
    BY <1>2, <2>1
<1> QED
  BY <1>2, <1>4, <1>5, <1>6 DEF Range

-----------------------------------------------------------------------------
(* The other steps of the worker                                           *)

LEMMA PushQueues ==
  ASSUME IInv, NEW d \in Clips, Push(d)
  PROVE  /\ DOMAIN queue' \subseteq DOMAIN queue \cup {d} /\ Cardinality(DOMAIN queue') <= MaxEntries
         /\ \A x \in DOMAIN queue' : queue'[x] = IF x = d THEN NewEntry ELSE queue[x]
         /\ DOMAIN queue \cup {d} \subseteq DOMAIN queue' \cup excused'
         /\ excused \subseteq excused' /\ excused' \subseteq Clips
         /\ Written /\ told' = told /\ faults' \in 0..Faults
<1> DEFINE all == With(queue, d, NewEntry)
           over == IF Cardinality(DOMAIN all) > MaxEntries THEN {Min(DOMAIN all)} ELSE {}
<1>1. /\ queue' = [x \in DOMAIN all \ over |-> all[x]] /\ excused' = excused \cup over
      /\ Save(queue') /\ told' = told
  BY DEF Push
<1>2. DOMAIN all = DOMAIN queue \cup {d}
        /\ \A x \in DOMAIN all : all[x] = IF x = d THEN NewEntry ELSE queue[x]
  BY DEF With
<1>3. Written /\ faults' \in 0..Faults
  BY <1>1, SpendOrFree DEF Save, Written, IInv
<1>4. /\ DOMAIN queue \in SUBSET Clips /\ Cardinality(DOMAIN queue) <= MaxEntries
         /\ DOMAIN all \in SUBSET Clips
      /\ excused \subseteq Clips
  BY <1>2 DEF IInv, TypeOK, IsQueue
<1>5. /\ IsFiniteSet(DOMAIN queue) /\ Cardinality(DOMAIN queue) \in Nat
      /\ IsFiniteSet(DOMAIN all) /\ Cardinality(DOMAIN all) \in Nat /\ DOMAIN all \in SUBSET Nat
  BY <1>4, ClipsAreFinite
<1>6. Cardinality(DOMAIN all) <= Cardinality(DOMAIN queue) + 1
  BY <1>2, <1>5, FS_AddElement
<1> HIDE DEF all
<1>7. over \subseteq DOMAIN all
  BY <1>2, <1>5, MinIsThere
<1>8. DOMAIN queue' = DOMAIN all \ over /\ \A x \in DOMAIN queue' : queue'[x] = all[x]
  BY <1>1
<1>9. Cardinality(DOMAIN queue') <= MaxEntries
  <2>1. CASE Cardinality(DOMAIN all) > MaxEntries
    <3> DEFINE first == Min(DOMAIN all)
    <3>1. DOMAIN queue' = DOMAIN all \ {first} /\ first \in DOMAIN all
      BY <1>7, <1>8, <2>1
    <3> HIDE DEF first
    <3>2. Cardinality(DOMAIN queue') = Cardinality(DOMAIN all) - 1
      BY <1>5, <3>1, FS_RemoveElement
    <3> QED
      BY <1>4, <1>5, <1>6, <3>2
  <2>2. CASE ~(Cardinality(DOMAIN all) > MaxEntries)
    <3>1. DOMAIN queue' = DOMAIN all
      BY <1>8, <2>2
    <3> QED
      BY <1>5, <2>2, <3>1
  <2> QED
    BY <2>1, <2>2
<1> QED
  BY <1>1, <1>2, <1>3, <1>4, <1>7, <1>8, <1>9

(* What a step that leaves the queue, its file and the bucket as they are,   *)
(* or lets an upload grow, keeps.                                          *)
LEMMA LocalStays ==
  ASSUME IInv, Grow, UNCHANGED <<local, urls, video>>
  PROVE  /\ Saved' /\ UrlsMatch' /\ DonePartsAreUp' /\ VideosAreWhole'
         /\ work' = work => Held'
         /\ doc' = doc => ShownHasVideo' /\ StoredOnce'
<1>1. /\ queue' = queue /\ disk' = disk /\ unsaved' = unsaved /\ urls' = urls /\ told' = told
         /\ video' = video
  BY DEF local
<1>2. DonePartsAreUp'
  <2>1. \A d \in DOMAIN queue : EntryUp(d, queue[d], uploads')
    BY EntriesUp, EntryStaysUp DEF IInv
  <2>2. \A d \in DOMAIN disk : EntryUp(d, disk[d], uploads')
    BY EntriesUp, EntryStaysUp DEF IInv
  <2> QED
    BY <1>1, <2>1, <2>2 DEF DonePartsAreUp, PartsAreUp, EntryUp
<1>3. VideosAreWhole'
  BY VideosStay
<1> QED
  BY <1>1, <1>2, <1>3 DEF IInv, Saved, UrlsMatch, Held, ShownHasVideo, StoredOnce

LEMMA ReceiveInv ==
  ASSUME IInv, Receive
  PROVE  IInv'
<1>1. /\ work = Idle /\ mail # <<>> /\ mail' = Tail(mail)
      /\ UNCHANGED <<session, owner, work, urls, renewed, doc, uploads, video, posters, members, gone,
                     paused>>
  BY DEF Receive, bucket, world
<1>2. /\ mail' \in Seq(Messages) /\ Head(mail) \in Messages /\ Range(mail) = Range(mail') \cup {Head(mail)}
      /\ Head(mail) \in [clip : Clips] => Head(mail) \notin Range(mail')
      /\ \A i, j \in DOMAIN mail' : mail'[i] = mail'[j] /\ mail'[i] \in [clip : Clips] => i = j
  BY <1>1, MailShrinks
<1>3. Grow /\ VideosAreWhole' /\ Held' /\ StoredOnce'
  BY <1>1, UploadsStay, VideosStay DEF IInv, Held, StoredOnce
<1>4. CASE "clip" \in DOMAIN Head(mail)
  <2> DEFINE d == Head(mail).clip
  <2>1. d \in Clips /\ Head(mail) = [clip |-> d] /\ Head(mail) \in [clip : Clips]
    BY <1>2, <1>4, MessageKinds
  <2>2. Push(d) /\ user' = user
    BY <1>4 DEF Receive
  <2> HIDE DEF d
  <2>3. Mailed(d) /\ owner[d] # Nobody /\ d \notin DOMAIN queue \cup DOMAIN urls
          /\ [clip |-> d] \notin Range(mail')
    <3>1. Mailed(d)
      BY <1>2, <2>1 DEF Mailed
    <3>2. [clip |-> d] \notin Range(mail')
      BY <1>2, <2>1
    <3>3. \A x \in Clips : Mailed(x) => owner[x] # Nobody /\ x \notin DOMAIN queue \cup DOMAIN urls
      BY DEF IInv, Announced
    <3> QED
      BY <2>1, <3>1, <3>2, <3>3
  <2>4. /\ DOMAIN queue' \subseteq DOMAIN queue \cup {d} /\ Cardinality(DOMAIN queue') <= MaxEntries
        /\ \A x \in DOMAIN queue' : queue'[x] = IF x = d THEN NewEntry ELSE queue[x]
        /\ DOMAIN queue \cup {d} \subseteq DOMAIN queue' \cup excused'
        /\ excused \subseteq excused' /\ excused' \subseteq Clips
        /\ Written /\ told' = told /\ faults' \in 0..Faults
    BY <2>1, <2>2, PushQueues
  <2>5. IsQueue(queue') /\ \A x \in DOMAIN queue' : EntryUp(x, queue'[x], uploads')
    <3>1. \A x \in DOMAIN queue : EntryUp(x, queue[x], uploads') /\ queue[x] \in Entry
      BY <1>3, EntriesUp, EntryStaysUp DEF IInv, TypeOK, IsQueue
    <3>2. NewEntry \in Entry /\ EntryUp(d, NewEntry, uploads')
      BY NewEntryFits DEF EntryUp
    <3> QED
      BY <2>1, <2>4, <3>1, <3>2 DEF IInv, TypeOK, IsQueue
  <2>6. IsQueue(disk)' /\ unsaved' \in BOOLEAN /\ Saved' /\ DonePartsAreUp'
          /\ (disk' = disk \/ disk' = queue')
    BY <1>3, <2>4, <2>5, FileStep
  <2>7. UrlsMatch' /\ ShownHasVideo'
    BY <1>1, <2>3, <2>4 DEF IInv, UrlsMatch, ShownHasVideo
  <2>8. \A x \in Clips : Mailed(x)' => Mailed(x) /\ x # d
    <3>1. \A x \in Clips : Mailed(x)' => Mailed(x)
      BY <1>2 DEF Mailed
    <3> QED
      BY <2>3, <3>1 DEF Mailed
  <2>9. Announced'
    <3>1. \A x \in DOMAIN queue' \cup DOMAIN disk' \cup DOMAIN urls' : owner'[x] # Nobody
      BY <1>1, <2>3, <2>4, <2>6 DEF IInv, Announced
    <3>2. \A x \in Clips : Mailed(x)' => owner'[x] # Nobody /\ x \notin DOMAIN queue' \cup DOMAIN urls'
      BY <1>1, <2>4, <2>8 DEF IInv, Announced
    <3> QED
      BY <1>2, <3>1, <3>2 DEF Announced
  <2>10. NoSilentLoss'
    <3>1. \A x \in Clips : Mailed(x) => x = d \/ Mailed(x)'
      BY <1>2, <2>1 DEF Mailed
    <3> QED
      BY <1>1, <2>4, <3>1 DEF IInv, NoSilentLoss, Mailed
  <2>11. TypeOK'
    <3>1. IsQueue(queue)'
      BY <2>5 DEF IsQueue
    <3> QED
      BY <1>1, <1>2, <2>2, <2>4, <2>6, <3>1 DEF IInv, TypeOK
  <2> QED
    BY <1>3, <2>6, <2>7, <2>9, <2>10, <2>11 DEF IInv
<1>5. CASE "clip" \notin DOMAIN Head(mail)
  <2>1. /\ Head(mail) \in [user : Users \cup {Nobody}] /\ user' \in Users \cup {Nobody}
        /\ UNCHANGED <<queue, disk, unsaved, excused, told, faults>>
    BY <1>2, <1>5, MessageKinds DEF Receive, local
  <2>2. \A x \in Clips : Mailed(x)' <=> Mailed(x)
    BY <1>2, <2>1, MessageKinds DEF Mailed
  <2>3. Saved' /\ UrlsMatch' /\ DonePartsAreUp' /\ ShownHasVideo'
    BY <1>1, <1>3, <2>1, LocalStays DEF local
  <2>4. Announced'
    BY <1>1, <1>2, <2>1, <2>2 DEF IInv, Announced
  <2>5. NoSilentLoss'
    BY <1>1, <2>1, <2>2 DEF IInv, NoSilentLoss, Mailed
  <2>6. TypeOK'
    BY <1>1, <1>2, <2>1 DEF IInv, TypeOK, IsQueue
  <2> QED
    BY <1>3, <2>3, <2>4, <2>5, <2>6 DEF IInv
<1> QED
  BY <1>4, <1>5

LEMMA PickInv ==
  ASSUME IInv, Pick
  PROVE  IInv'
<1>1. /\ work = Idle /\ Mine # {} /\ work' = [clip |-> NextFor, entry |-> queue[NextFor], confirm |-> FALSE]
      /\ UNCHANGED <<session, owner, mail, user, queue, disk, unsaved, excused, told, urls, renewed,
                     doc, uploads,
                     video, posters, members, gone, paused, faults>>
  BY DEF Pick, client, local, bucket, world
<1>2. Mine \subseteq DOMAIN queue /\ Posterless \subseteq Mine /\ DOMAIN queue \in SUBSET Nat
  BY DEF Mine, Posterless, IInv, TypeOK, IsQueue, Clips
<1>3. NextFor \in DOMAIN queue
  BY <1>1, <1>2, MinIsThere DEF NextFor
<1> HIDE DEF NextFor
<1>4. NextFor \in Clips /\ queue[NextFor] \in Entry
  BY <1>3 DEF IInv, TypeOK, IsQueue
<1>5. work'.clip = NextFor /\ work'.entry = queue[NextFor]
        /\ work' \in [clip : Clips, entry : Entry, confirm : BOOLEAN]
  BY <1>1, <1>4
<1>6. Held'
  BY <1>1, <1>3, <1>5 DEF Held
<1>7. Grow
  BY <1>1, UploadsStay DEF IInv
<1>8. Saved' /\ UrlsMatch' /\ DonePartsAreUp' /\ VideosAreWhole' /\ ShownHasVideo' /\ StoredOnce'
  BY <1>1, <1>7, LocalStays DEF local
<1>9. TypeOK'
  BY <1>1, <1>5 DEF IInv, TypeOK, IsQueue
<1>10. Announced' /\ NoSilentLoss'
  BY <1>1 DEF IInv, Announced, Mailed, NoSilentLoss
<1> QED
  BY <1>6, <1>8, <1>9, <1>10 DEF IInv

-----------------------------------------------------------------------------
(* The command loop                                                        *)

(* A message that is no clip changes nothing about the clips.                *)
LEMMA TellsUser ==
  ASSUME IInv, NEW who \in Users \cup {Nobody}, mail' = Append(mail, [user |-> who]),
         session' \in Users \cup {Nobody}, faults' \in 0..Faults,
         UNCHANGED <<owner, user, local, work, urls, renewed, doc, bucket, world>>
  PROVE  IInv'
<1> DEFINE m == [user |-> who]
<1>1. m \in Messages /\ m \notin [clip : Clips] /\ \A d \in Clips : m # [clip |-> d]
  <2>1. m \in Messages /\ m \in [user : Users \cup {Nobody}]
    BY DEF Messages
  <2> QED
    BY <2>1, MessageKinds
<1>2. /\ mail' \in Seq(Messages) /\ Range(mail') = Range(mail) \cup {m}
      /\ \A i, j \in DOMAIN mail' : mail'[i] = mail'[j] /\ mail'[i] \in [clip : Clips] => i = j
  BY <1>1, MailGrows
<1> HIDE DEF m
<1>3. \A d \in Clips : Mailed(d)' <=> Mailed(d)
  BY <1>1, <1>2 DEF Mailed
<1>4. UNCHANGED <<queue, disk, unsaved, excused, told, uploads, video, posters, members, gone, paused>>
  BY DEF local, bucket, world
<1>5. Grow
  BY <1>4, UploadsStay DEF IInv
<1>6. Held' /\ Saved' /\ UrlsMatch' /\ DonePartsAreUp' /\ VideosAreWhole' /\ ShownHasVideo' /\ StoredOnce'
  BY <1>4, <1>5, LocalStays
<1>7. TypeOK'
  BY <1>2, <1>4 DEF IInv, TypeOK, IsQueue
<1>8. Announced'
  BY <1>2, <1>3, <1>4 DEF IInv, Announced
<1>9. NoSilentLoss'
  BY <1>3, <1>4 DEF IInv, NoSilentLoss, Mailed
<1> QED
  BY <1>6, <1>7, <1>8, <1>9 DEF IInv

LEMMA SessionInv ==
  ASSUME IInv, SignOut \/ SignIn
  PROVE  IInv'
<1>1. CASE SignOut
  BY <1>1, TellsUser, SpendOrFree DEF SignOut, IInv
<1>2. CASE SignIn
  BY <1>2, TellsUser DEF SignIn, IInv, TypeOK
<1> QED
  BY <1>1, <1>2

LEMMA ShareInv ==
  ASSUME IInv, Share
  PROVE  IInv'
<1>1. PICK d \in Clips :
        owner[d] = Nobody /\ owner' = [owner EXCEPT ![d] = session] /\ mail' = Append(mail, [clip |-> d])
  BY DEF Share
<1>2. /\ session # Nobody
      /\ UNCHANGED <<session, user, queue, disk, unsaved, excused, told, work, urls, renewed, doc,
                     uploads, video,
                     posters, members, gone, paused, faults>>
  BY DEF Share, local, bucket, world
<1>3. ~Mailed(d) /\ d \notin DOMAIN queue \cup DOMAIN disk \cup DOMAIN urls
  BY <1>1 DEF IInv, Announced
<1>4. owner \in [Clips -> Users \cup {Nobody}] /\ session \in Users \cup {Nobody}
  BY DEF IInv, TypeOK
<1>5. owner' \in [Clips -> Users \cup {Nobody}]
        /\ \A x \in Clips : owner'[x] = IF x = d THEN session ELSE owner[x]
  BY <1>1, <1>4
<1>6. [clip |-> d] \in Messages /\ [clip |-> d] \notin Range(mail)
  BY <1>3 DEF Messages, Mailed
<1>7. /\ mail' \in Seq(Messages) /\ Range(mail') = Range(mail) \cup {[clip |-> d]}
      /\ \A i, j \in DOMAIN mail' : mail'[i] = mail'[j] /\ mail'[i] \in [clip : Clips] => i = j
  BY <1>1, <1>6, MailGrows
<1>8. \A x \in Clips : Mailed(x)' <=> Mailed(x) \/ x = d
  <2> SUFFICES ASSUME NEW x \in Clips PROVE Mailed(x)' <=> Mailed(x) \/ x = d
    OBVIOUS
  <2>1. [clip |-> x] = [clip |-> d] <=> x = d
    OBVIOUS
  <2>2. Mailed(x)' <=> Mailed(x) \/ [clip |-> x] = [clip |-> d]
    BY <1>7 DEF Mailed
  <2> QED
    BY <2>1, <2>2
<1>9. Grow
  BY <1>2, UploadsStay DEF IInv
<1>10. Held' /\ Saved' /\ UrlsMatch' /\ DonePartsAreUp' /\ VideosAreWhole' /\ ShownHasVideo' /\ StoredOnce'
  BY <1>2, <1>9, LocalStays DEF local
<1>11. TypeOK'
  BY <1>2, <1>5, <1>7 DEF IInv, TypeOK, IsQueue
<1>12. Announced'
  <2>1. DOMAIN queue \cup DOMAIN disk \cup DOMAIN urls \subseteq Clips
    BY DEF IInv, TypeOK, IsQueue
  <2>2. \A x \in DOMAIN queue' \cup DOMAIN disk' \cup DOMAIN urls' : owner'[x] # Nobody
    BY <1>2, <1>3, <1>5, <2>1 DEF IInv, Announced
  <2>3. \A x \in Clips : Mailed(x)' => owner'[x] # Nobody /\ x \notin DOMAIN queue' \cup DOMAIN urls'
    BY <1>2, <1>3, <1>5, <1>8 DEF IInv, Announced
  <2> QED
    BY <1>7, <2>2, <2>3 DEF Announced
<1>13. NoSilentLoss'
  BY <1>2, <1>5, <1>8 DEF IInv, NoSilentLoss, Mailed
<1> QED
  BY <1>10, <1>11, <1>12, <1>13 DEF IInv

(* A restart has what the file has, without the clips that are too old.      *)
LEMMA CrashInv ==
  ASSUME IInv, Crash
  PROVE  IInv'
<1>1. PICK newest \in 0..NumClips :
        LET read == [d \in {x \in DOMAIN disk : x > newest} |-> disk[d]] IN
        /\ queue' = read /\ disk' = read
        /\ excused' = excused
             \cup {d \in DOMAIN queue : d \in 1..newest \/ (unsaved /\ d \notin DOMAIN disk)}
             \cup {d \in Clips : [clip |-> d] \in Range(mail)}
  BY DEF Crash
<1>2. /\ unsaved' = FALSE /\ user' = Nobody /\ work' = Idle /\ urls' = <<>> /\ renewed' = {}
      /\ mail' = (IF session = Nobody THEN <<>> ELSE <<[user |-> session]>>)
      /\ UNCHANGED <<session, owner, told, doc, uploads, video, posters, members, gone, paused>>
      /\ faults' \in 0..Faults
  BY SpendOrFree DEF Crash, bucket, world, IInv
<1>3. /\ DOMAIN queue' = {x \in DOMAIN disk : x > newest} /\ DOMAIN disk' = DOMAIN queue'
      /\ \A d \in DOMAIN queue' : queue'[d] = disk[d] /\ disk'[d] = disk[d]
  BY <1>1
<1>4. IsQueue(disk) /\ Cardinality(DOMAIN disk) <= MaxEntries /\ DOMAIN queue \subseteq Clips
        /\ excused \subseteq Clips
  BY DEF IInv, TypeOK, Saved, IsQueue
<1>5. IsQueue(queue)' /\ IsQueue(disk)' /\ excused' \subseteq Clips
  BY <1>1, <1>3, <1>4 DEF IsQueue
<1>6. Cardinality(DOMAIN queue') <= MaxEntries /\ Cardinality(DOMAIN disk') <= MaxEntries
  <2>1. IsFiniteSet(DOMAIN disk) /\ Cardinality(DOMAIN disk) \in Nat /\ Cardinality(DOMAIN queue') \in Nat
    BY <1>3, <1>4, ClipsAreFinite DEF IsQueue
  <2>2. Cardinality(DOMAIN queue') <= Cardinality(DOMAIN disk)
    BY <1>3, <2>1, FS_Subset
  <2> QED
    BY <1>3, <1>4, <2>1, <2>2
<1>7. DOMAIN urls' = {} /\ Range(urls') = {}
  BY <1>2 DEF Range
<1>8. /\ mail' \in Seq(Messages) /\ \A d \in Clips : ~Mailed(d)'
      /\ \A i, j \in DOMAIN mail' : mail'[i] = mail'[j] /\ mail'[i] \in [clip : Clips] => i = j
  <2>1. CASE session = Nobody
    BY <1>2, <2>1 DEF Range, Mailed
  <2>2. CASE session # Nobody
    <3>1. /\ [user |-> session] \in Messages /\ \A d \in Clips : [user |-> session] # [clip |-> d]
      <4>1. [user |-> session] \in [user : Users \cup {Nobody}]
        BY DEF IInv, TypeOK
      <4> QED
        BY <4>1, MessageKinds DEF Messages
    <3>2. mail' = <<[user |-> session]>>
      BY <1>2, <2>2
    <3> QED
      BY <3>1, <3>2 DEF Range, Mailed
  <2> QED
    BY <2>1, <2>2
<1>9. TypeOK'
  BY <1>2, <1>5, <1>6, <1>7, <1>8 DEF IInv, TypeOK
<1>10. Held' /\ Saved' /\ UrlsMatch'
  BY <1>2, <1>3, <1>6, <1>7 DEF Held, Saved, UrlsMatch
<1>11. DonePartsAreUp'
  BY <1>2, <1>3 DEF IInv, DonePartsAreUp, PartsAreUp
<1>12. VideosAreWhole' /\ ShownHasVideo' /\ StoredOnce'
  BY <1>2 DEF IInv, VideosAreWhole, Whole, ShownHasVideo, StoredOnce
<1>13. Announced'
  BY <1>2, <1>3, <1>7, <1>8 DEF IInv, Announced
<1>14. NoSilentLoss'
  <2> SUFFICES ASSUME NEW d \in Clips, owner[d] # Nobody, told[d] = "none"
               PROVE  d \in DOMAIN queue' \cup excused'
    BY <1>2 DEF NoSilentLoss
  <2>1. d \in DOMAIN queue \cup excused \/ [clip |-> d] \in Range(mail)
    BY DEF IInv, NoSilentLoss
  <2>2. d \in DOMAIN queue => d \in DOMAIN disk \/ (unsaved /\ d \notin DOMAIN disk)
    BY DEF IInv, Saved
  <2>3. d \in DOMAIN disk => d \in DOMAIN queue' \/ d \in 1..newest
    BY <1>3 DEF Clips
  <2> QED
    BY <1>1, <2>1, <2>2, <2>3
<1> QED
  BY <1>9, <1>10, <1>11, <1>12, <1>13, <1>14 DEF IInv

-----------------------------------------------------------------------------
(* The world around them                                                   *)

(* A step that leaves the clients alone, and only lets uploads grow.         *)
LEMMA WorldInv ==
  ASSUME IInv, Grow, UNCHANGED <<client, local, work, urls, renewed, video, posters>>,
         doc' \in Seq(Posts), ShownHasVideo', StoredOnce', members' \subseteq Users, gone' \subseteq Clips,
         paused' \in BOOLEAN, faults' \in 0..Faults
  PROVE  IInv'
<1>1. UNCHANGED <<session, owner, mail, user, queue, disk, unsaved, excused, told>>
  BY DEF client, local
<1>2. Held' /\ Saved' /\ UrlsMatch' /\ DonePartsAreUp' /\ VideosAreWhole'
  BY LocalStays
<1>3. TypeOK'
  <2>1. Range(urls') \subseteq DOMAIN uploads'
    BY DEF IInv, TypeOK, Grow
  <2>2. uploads' \in Seq(Uploads)
    BY DEF Grow
  <2> QED
    BY <1>1, <2>1, <2>2 DEF IInv, TypeOK, IsQueue, Posts, Uploads
<1>4. Announced' /\ NoSilentLoss'
  BY <1>1 DEF IInv, Announced, NoSilentLoss, Mailed
<1> QED
  BY <1>2, <1>3, <1>4 DEF IInv

LEMMA AbortInv ==
  ASSUME IInv, Abort
  PROVE  IInv'
<1>1. PICK u \in DOMAIN uploads : uploads' = [uploads EXCEPT ![u].state = "aborted"]
  BY DEF Abort
<1> DEFINE new == [uploads[u] EXCEPT !.state = "aborted"]
<1>2. uploads' = [uploads EXCEPT ![u] = new]
  BY <1>1
<1>3. new \in Uploads /\ new.clip = uploads[u].clip /\ new.parts = uploads[u].parts
  BY UploadsTyped DEF IInv, Uploads
<1> HIDE DEF new
<1>4. Grow
  BY <1>2, <1>3, UploadChanges DEF IInv
<1>5. /\ UNCHANGED <<client, local, work, urls, renewed, doc, video, posters, members, gone, paused>>
      /\ faults' \in 0..Faults
  BY SpendOrFree DEF Abort, world, IInv
<1>6. ShownHasVideo' /\ StoredOnce'
  BY <1>4, <1>5, LocalStays
<1>7. doc' \in Seq(Posts) /\ members' \subseteq Users /\ gone' \subseteq Clips /\ paused' \in BOOLEAN
  BY <1>5 DEF IInv, TypeOK, Posts
<1> QED
  BY <1>4, <1>5, <1>6, <1>7, WorldInv

LEMMA TrimInv ==
  ASSUME IInv, TrimDocument
  PROVE  IInv'
<1>1. /\ doc # <<>> /\ doc' = Tail(doc) /\ faults' \in 0..Faults
      /\ UNCHANGED <<client, local, work, urls, renewed, uploads, video, posters, members, gone, paused>>
  BY SpendOrFree DEF TrimDocument, bucket, world, IInv
<1>2. doc \in Seq(Posts) /\ Len(doc) \in Nat /\ DOMAIN doc = 1..Len(doc)
  <2>1. doc \in Seq(Posts)
    BY DEF IInv, TypeOK, Posts
  <2> QED
    BY <2>1
<1>3. /\ doc' \in Seq(Posts) /\ DOMAIN doc' = 1..(Len(doc) - 1)
      /\ \A i \in 1..(Len(doc) - 1) : doc'[i] = doc[i + 1]
  BY <1>1, <1>2, HeadTailProperties
<1>4. Grow
  BY <1>1, UploadsStay DEF IInv
<1>5. \A i \in DOMAIN doc' : i \in Nat /\ i + 1 \in DOMAIN doc /\ doc'[i] = doc[i + 1]
  BY <1>2, <1>3
<1>6. told' = told /\ video' = video
  BY <1>1 DEF local
<1>7. ShownHasVideo'
  BY <1>5, <1>6 DEF IInv, ShownHasVideo
<1>8. StoredOnce'
  <2> SUFFICES ASSUME NEW i \in DOMAIN doc', NEW j \in DOMAIN doc', doc'[i].clip = doc'[j].clip
               PROVE  i = j
    BY DEF StoredOnce
  <2>1. i + 1 = j + 1
    BY <1>5 DEF IInv, StoredOnce
  <2> QED
    BY <1>5, <2>1
<1>9. members' \subseteq Users /\ gone' \subseteq Clips /\ paused' \in BOOLEAN
  BY <1>1 DEF IInv, TypeOK
<1> QED
  BY <1>1, <1>3, <1>4, <1>7, <1>8, <1>9, WorldInv

LEMMA OutsideInv ==
  ASSUME IInv, LeaveCrew \/ DeleteFiles \/ Pause \/ Resume
  PROVE  IInv'
<1>1. UNCHANGED <<client, local, work, urls, renewed, doc, uploads, video, posters>>
  BY DEF LeaveCrew, DeleteFiles, Pause, Resume, bucket
<1>2. members' \subseteq Users /\ gone' \subseteq Clips /\ paused' \in BOOLEAN
  BY DEF LeaveCrew, DeleteFiles, Pause, Resume, IInv, TypeOK
<1>3. faults' \in 0..Faults
  BY SpendOrFree DEF LeaveCrew, DeleteFiles, Pause, Resume, Free, IInv
<1>4. Grow
  BY <1>1, UploadsStay DEF IInv
<1>5. ShownHasVideo' /\ StoredOnce'
  BY <1>1, <1>4, LocalStays
<1>6. doc' \in Seq(Posts)
  BY <1>1 DEF IInv, TypeOK, Posts
<1> QED
  BY <1>1, <1>2, <1>3, <1>4, <1>5, <1>6, WorldInv

-----------------------------------------------------------------------------
(* Theorems                                                                *)

LEMMA InitInv == Init => IInv
<1> SUFFICES ASSUME Init PROVE IInv
  OBVIOUS
<1>1. /\ mail = <<[user |-> session]>> /\ session \in Users /\ queue = <<>> /\ disk = <<>> /\ urls = <<>>
      /\ doc = <<>> /\ uploads = <<>> /\ unsaved = FALSE /\ work = Idle
      /\ video = [d \in Clips |-> NoUpload] /\ told = [d \in Clips |-> "none"]
         /\ owner = [d \in Clips |-> Nobody]
  BY DEF Init
<1>2. /\ DOMAIN queue = {} /\ DOMAIN disk = {} /\ DOMAIN urls = {} /\ DOMAIN doc = {} /\ DOMAIN uploads = {}
      /\ Range(urls) = {}
  BY <1>1 DEF Range
<1>3. Cardinality(DOMAIN queue) = 0 /\ Cardinality(DOMAIN disk) = 0
  BY <1>2, FS_EmptySet
<1>4. [user |-> session] \in [user : Users \cup {Nobody}] /\ [user |-> session] \in Messages
  BY <1>1 DEF Messages
<1>5. \A d \in Clips : ~Mailed(d)
  BY <1>1, <1>4, MessageKinds DEF Mailed, Range
<1>6. doc \in Seq(Posts) /\ uploads \in Seq(Uploads) /\ mail \in Seq(Messages)
  BY <1>1, <1>4
<1>7. TypeOK
  <2>1. /\ user \in Users \cup {Nobody} /\ renewed = {} /\ posters = {} /\ members = Users /\ gone = {}
        /\ paused = FALSE /\ excused = {} /\ faults \in 0..Faults
    BY DEF Init
  <2>2. IsQueue(queue) /\ IsQueue(disk) /\ Cardinality(DOMAIN queue) <= MaxEntries
    BY <1>2, <1>3 DEF IsQueue
  <2>3. /\ owner \in [Clips -> Users \cup {Nobody}] /\ video \in [Clips -> Nat]
        /\ told \in [Clips -> {"none", "up", "failed"}]
    BY <1>1 DEF NoUpload
  <2> QED
    BY <1>1, <1>2, <1>6, <2>1, <2>2, <2>3 DEF TypeOK, Posts, Uploads
<1>8. Announced
  BY <1>1, <1>2, <1>5 DEF Announced
<1>9. Held /\ Saved /\ UrlsMatch /\ DonePartsAreUp
  BY <1>1, <1>2, <1>3 DEF Held, Saved, UrlsMatch, DonePartsAreUp, PartsAreUp
<1>10. VideosAreWhole /\ ShownHasVideo /\ StoredOnce /\ NoSilentLoss
  BY <1>1, <1>2 DEF VideosAreWhole, ShownHasVideo, StoredOnce, NoSilentLoss
<1> QED
  BY <1>7, <1>8, <1>9, <1>10 DEF IInv

LEMMA StutterInv == IInv /\ UNCHANGED vars => IInv'
<1> SUFFICES ASSUME IInv, UNCHANGED vars PROVE IInv'
  OBVIOUS
<1>1. UNCHANGED <<client, local, work, urls, renewed, doc, uploads, video, posters, members, gone,
                  paused, faults>>
  BY DEF vars, bucket, world
<1>2. Grow
  BY <1>1, UploadsStay DEF IInv
<1>3. ShownHasVideo' /\ StoredOnce'
  BY <1>1, <1>2, LocalStays
<1>4. /\ doc' \in Seq(Posts) /\ members' \subseteq Users /\ gone' \subseteq Clips /\ paused' \in BOOLEAN
      /\ faults' \in 0..Faults
  BY <1>1 DEF IInv, TypeOK, Posts
<1> QED
  BY <1>1, <1>2, <1>3, <1>4, WorldInv

LEMMA StepInv == IInv /\ [Next]_vars => IInv'
  BY RequestInv, ReceiveInv, PickInv, SessionInv, ShareInv, CrashInv, AbortInv, TrimInv, OutsideInv,
     StutterInv
     DEF Next

LEMMA InvHolds == Spec => []IInv
  BY InitInv, StepInv, PTL DEF Spec

(* Every variable keeps its type, and the queue its cap (clip_upload).       *)
THEOREM TypeCorrect == Spec => []TypeOK
<1>1. IInv => TypeOK
  BY DEF IInv
<1> QED
  BY <1>1, InvHolds, PTL

(* A clip the client is told is up (worker.rs), and a clip whose media_url    *)
(* the backend set (gameClipUploadComplete), has an object made of all its   *)
(* parts.                                                                  *)
THEOREM UpMeansWhole == Spec => []UploadedIsWhole
<1>1. IInv => UploadedIsWhole
  <2> SUFFICES ASSUME IInv PROVE UploadedIsWhole
    OBVIOUS
  <2>1. \A i \in DOMAIN doc : doc[i].clip \in Clips
    <3>1. doc \in Seq(Posts)
      BY DEF IInv, TypeOK, Posts
    <3>2. \A i \in DOMAIN doc : doc[i] \in Posts
      BY <3>1
    <3> QED
      BY <3>2 DEF Posts
  <2> QED
    BY <2>1 DEF IInv, UploadedIsWhole, VideosAreWhole, ShownHasVideo
<1> QED
  BY <1>1, InvHolds, PTL

(* The parts an entry counts as done are in the bucket under its own upload, *)
(* in memory and in the file a restart reads (queue.rs).                    *)
THEOREM DonePartsStayUp == Spec => []DonePartsAreUp
<1>1. IInv => DonePartsAreUp
  BY DEF IInv
<1> QED
  BY <1>1, InvHolds, PTL

(* Retries, restarts and changes of account store no clip twice (PostClipRPC). *)
THEOREM ClipsAreStoredOnce == Spec => []StoredOnce
<1>1. IInv => StoredOnce
  BY DEF IInv
<1> QED
  BY <1>1, InvHolds, PTL

(* A shared clip leaves the channel and the queue only with an event, by the *)
(* cap or the age rule, or by a crash after a failed save (queue.rs).        *)
THEOREM NoClipIsLost == Spec => []NoSilentLoss
<1>1. IInv => NoSilentLoss
  BY DEF IInv
<1> QED
  BY <1>1, InvHolds, PTL
=============================================================================
