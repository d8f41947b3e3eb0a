------------------------------- MODULE Poster -------------------------------
(***************************************************************************)
(* A video's poster (internal/thumbnail, F85): the slots its picture can   *)
(* come from, the rows and the decision that name them, and the pair of    *)
(* served files, a projection of the decision that Present writes.  The    *)
(* owner's requests, the scanner, a worker of the generation queue and the *)
(* writes of a poster into the file run side by side, any of them may      *)
(* fail or end with the process after any step, and a library from before  *)
(* the slots is upgraded at boot.                                          *)
(*                                                                         *)
(* One video: videos share two mutexes and the queue, which MediaQueue     *)
(* shows.  An image is its bytes and its hash.  The row of a write in the  *)
(* ledger and the write itself are one step; TagWrite has the end of the   *)
(* process between them.                                                   *)
(***************************************************************************)
EXTENDS Naturals

CONSTANTS
    Image,      \* what the owner may upload or pick
    Art,        \* the cover the file came with
    Frame,      \* what the generation queue makes of the file
    None,
    Thread,     \* requests and the scanner
    Worker,     \* of the generation queue
    MaxEvent    \* bound: requests, indexings, writes, failures and restarts together

ASSUME ImagesDistinct == Art # Frame /\ {Art, Frame, None} \cap Image = {} /\ None \notin {Art, Frame}
ASSUME ThreadAssumption == Worker \notin Thread /\ None \notin Thread \cup {Worker}
ASSUME BoundAssumption == MaxEvent \in Nat

VARIABLES
    slot,       \* {id}-<slot>.jpg
    row,        \* video_poster_sources: the hash of each local slot
    decision,   \* poster_url: a local kind, "other", or None
    thumb, poster,  \* the served pair
    state,      \* thumbnail_state
    art,        \* the cover in the media file
    ledger,     \* the token the newest poster write recorded
    pending,    \* the video is in the queue or being generated
    actor,      \* where each thread and the worker are
    ownerMu, presentMu,
    boot,       \* how far this process has booted
    events,
    gap,        \* history: a change whose Present never ran
    torn,       \* history: a Present that ended between the two served files
    unnamed,    \* history: slots whose row was not written
    dropped     \* history, since the boot's sweep: a request that ended before it made or
                \* queued a picture, a job that could not record how it ended, or a request
                \* that found the video still pending though its job had ended

local == <<slot, row, decision>>
served == <<thumb, poster>>
locks == <<ownerMu, presentMu>>
hist == <<gap, torn, unnamed, dropped>>
vars == <<local, served, state, art, ledger, pending, actor, locks, boot, events, hist>>

Owner == {"frame", "upload"}
Kind == Owner \cup {"auto"}
Slot == Kind \cup {"file"}
ASSUME SlotAssumption == None \notin Slot
Actor == Thread \cup {Worker}
AnyImage == Image \cup {Art, Frame}
Idle == [op |-> "none", step |-> "idle", kind |-> None, img |-> None, dec |-> None]

At(a, s) == actor[a].step = s
Goto(a, s) == actor' = [actor EXCEPT ![a].step = s]
End(a) == actor' = [actor EXCEPT ![a] = Idle]
Event == events < MaxEvent /\ events' = events + 1
Up == boot \in {"up", "swept"}

\* A library from before the slots, of one video: never attempted, or with a pair
\* from the file's cover, a frame, or an upload.
Init ==
    /\ slot = [s \in Slot |-> None] /\ row = [k \in Kind |-> None] /\ decision = None
    /\ art \in {Art, None}
    /\ \E u \in Image :
          \/ state = "none" /\ thumb = None
          \/ state = "embedded" /\ art = Art /\ thumb = Art
          \/ state = "generated" /\ thumb = Frame
          \/ state = "uploaded" /\ thumb = u
    /\ poster = thumb
    /\ ledger = None /\ pending = FALSE
    /\ actor = [a \in Actor |-> Idle] /\ ownerMu = None /\ presentMu = None
    /\ boot = "seed" /\ events = 0
    /\ gap = FALSE /\ torn = FALSE /\ unnamed = {} /\ dropped = FALSE

---------------------------------------------------------------------------
(* Boot: BackfillSlots.                                                    *)

Seeds == CASE state = "embedded" -> "file"
           [] state = "generated" -> "auto"
           [] state = "uploaded" -> "upload"
           [] OTHER -> None

\* A slot that holds an image is seeded, but an upload is seeded again: the reset of
\* its state is what makes it once.
Seeded == Seeds \in {"file", "auto"} /\ slot[Seeds] # None

BootSeed ==
    /\ boot = "seed"
    /\ IF Seeds = None \/ Seeded \/ poster = None
       THEN boot' = "up" /\ UNCHANGED slot
       ELSE /\ slot' = [slot EXCEPT ![Seeds] = poster]
            /\ boot' = IF Seeds = "file" THEN "up" ELSE "row"
    /\ UNCHANGED <<row, decision, served, state, art, ledger, pending, actor, locks, events, hist>>

BootRow ==
    /\ boot = "row"
    /\ row' = [row EXCEPT ![Seeds] = slot[Seeds]]
    /\ decision' = IF Seeds = "upload" THEN "upload" ELSE decision
    /\ boot' = IF Seeds = "upload" THEN "reset" ELSE "up"
    /\ unnamed' = unnamed \ {Seeds}
    /\ UNCHANGED <<slot, served, state, art, ledger, pending, actor, locks, events, gap, torn, dropped>>

BootReset ==
    /\ boot = "reset"
    /\ state' = "none"
    /\ boot' = "up"
    /\ UNCHANGED <<local, served, art, ledger, pending, actor, locks, events, hist>>

---------------------------------------------------------------------------
(* Requests.                                                               *)

Begin(t, op, s, k, i) ==
    /\ Up /\ At(t, "idle") /\ Event
    /\ actor' = [actor EXCEPT ![t] = [op |-> op, step |-> s, kind |-> k, img |-> i, dec |-> None]]
    /\ UNCHANGED <<local, served, state, art, ledger, pending, locks, boot, hist>>

Request(t) ==
    \/ \E k \in Owner, i \in Image : Begin(t, "set", "lock", k, i)
    \/ Begin(t, "remove", "lock", "upload", None)
    \/ \E d \in Kind : row[d] # None /\ slot[d] # None /\ Begin(t, "decide", "decide", d, None)
    \/ \E d \in {"other", None} : Begin(t, "decide", "decide", d, None)
    \/ Begin(t, "reset", "reset", None, None)
    \/ Begin(t, "index", "art", None, None)     \* handleThumbnail, of a changed file
    \/ \E k \in Kind : /\ \A u \in Thread : actor[u].op \notin {"write", "reread"}
                       /\ row[k] # None /\ Begin(t, "write", "stage", k, row[k])

\* ownerMu.
OwnerFree == ownerMu = None

\* SetOwnerImage and RemoveOwnerImage hold ownerMu from the slot to the pair.
LockOwner(t) ==
    /\ At(t, "lock") /\ OwnerFree
    /\ ownerMu' = t
    /\ Goto(t, "slot")
    /\ UNCHANGED <<local, served, state, art, ledger, pending, presentMu, boot, events, hist>>

OwnerSlot(t) ==
    /\ At(t, "slot")
    /\ slot' = [slot EXCEPT ![actor[t].kind] = actor[t].img]
    /\ Goto(t, "row")
    /\ UNCHANGED <<row, decision, served, state, art, ledger, pending, locks, boot, events, hist>>

\* DeletePosterSource: a decision that names the slot goes with it.
Cleared(k) == IF decision = k THEN None ELSE decision

OwnerRow(t) ==
    LET k == actor[t].kind
    IN  /\ At(t, "row") /\ t \in Thread
        /\ row' = [row EXCEPT ![k] = actor[t].img]
        /\ decision' = IF actor[t].op = "set" THEN k ELSE Cleared(k)
        /\ unnamed' = unnamed \ {k}
        /\ Goto(t, "present")
        /\ UNCHANGED <<slot, served, state, art, ledger, pending, locks, boot, events, gap, torn, dropped>>

SetDecision(t) ==
    /\ At(t, "decide")
    /\ decision' = actor[t].kind
    /\ Goto(t, "present")
    /\ UNCHANGED <<slot, row, served, state, art, ledger, pending, locks, boot, events, hist>>

\* regenerateThumbnail: the state, then a local decision, then the file's cover.
ResetState(t) ==
    /\ At(t, "reset")
    /\ state' = "none"
    /\ Goto(t, "clear")
    /\ UNCHANGED <<local, served, art, ledger, pending, locks, boot, events, hist>>

ClearDecision(t) ==
    /\ At(t, "clear")
    /\ IF decision \in Kind
       THEN decision' = None /\ Goto(t, "present")
       ELSE UNCHANGED decision /\ actor' = [actor EXCEPT ![t].op = "fill", ![t].step = "art"]
    /\ UNCHANGED <<slot, row, served, state, art, ledger, pending, locks, boot, events, hist>>

\* deleteVideoPoster: with no picture left, one is made.
CheckPoster(t) ==
    /\ At(t, "check")
    /\ IF poster # None THEN End(t)
       ELSE actor' = [actor EXCEPT ![t].op = "fill", ![t].step = "art"]
    /\ UNCHANGED <<local, served, state, art, ledger, pending, locks, boot, events, hist>>

\* StageLocalPosters copies the slot of the job's kind, whatever it holds now.
Stage(t) ==
    /\ At(t, "stage")
    /\ IF slot[actor[t].kind] = None THEN End(t)
       ELSE actor' = [actor EXCEPT ![t].img = slot[actor[t].kind], ![t].step = "write"]
    /\ UNCHANGED <<local, served, state, art, ledger, pending, locks, boot, events, hist>>

\* Mutant: the ledger gets the hash the job was queued with, which is its row's.
TokenQueued(t) == row[actor[t].kind]

\* The hash in the token of the bytes copied.
Token(t) == actor[t].img

WritePoster(t) ==
    /\ At(t, "write")
    /\ art' = actor[t].img
    /\ ledger' = [kind |-> actor[t].kind, hash |-> Token(t)]
    /\ actor' = [actor EXCEPT ![t].op = "reread", ![t].step = "art"]
    /\ UNCHANGED <<local, served, state, pending, locks, boot, events, hist>>

---------------------------------------------------------------------------
(* ExtractEmbedded, with the enqueueing of what has no cover.              *)

Push == pending' = TRUE

ReadArt(t) ==
    /\ At(t, "art")
    /\ IF art # None
       THEN actor' = [actor EXCEPT ![t].img = art, ![t].step = "cover"] /\ UNCHANGED pending
       ELSE End(t) /\ IF actor[t].op # "reread" THEN Push ELSE UNCHANGED pending
    /\ dropped' = (dropped \/ (art = None /\ At(Worker, "done")))
    /\ UNCHANGED <<local, served, state, art, ledger, locks, boot, events, gap, torn, unnamed>>

WriteCover(t) ==
    /\ At(t, "cover")
    /\ slot' = [slot EXCEPT !["file"] = actor[t].img]
    /\ Goto(t, "embedded")
    /\ UNCHANGED <<row, decision, served, state, art, ledger, pending, locks, boot, events, hist>>

SetEmbedded(t) ==
    /\ At(t, "embedded")
    /\ state' = "embedded"
    /\ Goto(t, "present")
    /\ UNCHANGED <<local, served, art, ledger, pending, locks, boot, events, hist>>

---------------------------------------------------------------------------
(* The queue's worker.                                                     *)

\* Mutant: a comparison that NULL does not pass.
WantingNotNull == state = "failed"

\* ThumbnailBackfillCandidates.
Wanting == state \in {"none", "failed"}

\* The boot's one sweep of what has no picture, or failed ...
Backfill ==
    /\ boot = "up"
    /\ boot' = "swept"
    /\ IF Wanting THEN Push ELSE UNCHANGED pending
    /\ dropped' = (Wanting /\ At(Worker, "done"))
    /\ UNCHANGED <<local, served, state, art, ledger, actor, locks, events, gap, torn, unnamed>>

\* ... and a browse of videos never attempted.
Browse ==
    /\ Up /\ state = "none" /\ ~pending /\ Event
    /\ Push
    /\ UNCHANGED <<local, served, state, art, ledger, actor, locks, boot, hist>>

Pop ==
    /\ Up /\ pending /\ At(Worker, "idle")
    /\ Goto(Worker, "generate")
    /\ UNCHANGED <<local, served, state, art, ledger, pending, locks, boot, events, hist>>

Generate ==
    /\ At(Worker, "generate")
    /\ slot' = [slot EXCEPT !["auto"] = Frame]
    /\ Goto(Worker, "row")
    /\ UNCHANGED <<row, decision, served, state, art, ledger, pending, locks, boot, events, hist>>

GenerateFails ==
    /\ At(Worker, "generate") /\ Event
    /\ state' = "failed"
    /\ Goto(Worker, "done")
    /\ UNCHANGED <<local, served, art, ledger, pending, locks, boot, hist>>

AutoRow ==
    /\ At(Worker, "row")
    /\ row' = [row EXCEPT !["auto"] = slot["auto"]]
    /\ Goto(Worker, "present")
    /\ UNCHANGED <<slot, decision, served, state, art, ledger, pending, locks, boot, events, hist>>

SetGenerated ==
    /\ At(Worker, "generated")
    /\ state' = "generated"
    /\ Goto(Worker, "done")
    /\ UNCHANGED <<local, served, art, ledger, pending, locks, boot, events, hist>>

Done ==
    /\ At(Worker, "done")
    /\ pending' = FALSE
    /\ End(Worker)
    /\ UNCHANGED <<local, served, state, art, ledger, locks, boot, events, hist>>

---------------------------------------------------------------------------
(* Present.                                                                *)

\* The image of the decision's slot, or else of the first automatic slot that has one.
Chosen(d) ==
    IF d \in Kind /\ slot[d] # None THEN slot[d]
    ELSE IF slot["file"] # None THEN slot["file"] ELSE slot["auto"]

\* What an actor goes on with.
After(a) ==
    CASE actor[a].op = "remove" -> [actor[a] EXCEPT !.step = "check"]
      [] actor[a].op = "reset" -> [actor[a] EXCEPT !.op = "fill", !.step = "art"]
      [] a = Worker -> [actor[a] EXCEPT !.step = "generated"]
      [] OTHER -> Idle

Unlock(a) ==
    /\ presentMu' = None
    /\ ownerMu' = IF ownerMu = a THEN None ELSE ownerMu
    /\ actor' = [actor EXCEPT ![a] = After(a)]

\* presentMu.
PresentFree == presentMu = None

PresentDecision(a) ==
    /\ At(a, "present") /\ PresentFree
    /\ presentMu' = a
    /\ actor' = [actor EXCEPT ![a].dec = decision, ![a].step = "slots"]
    /\ gap' = FALSE
    /\ UNCHANGED <<local, served, state, art, ledger, pending, ownerMu, boot, events,
                   torn, unnamed, dropped>>

\* The pair is left alone when its poster is the chosen image already.
PresentSlots(a) ==
    LET data == Chosen(actor[a].dec)
    IN  /\ At(a, "slots")
        /\ IF data # None /\ poster = data /\ thumb # None
           THEN Unlock(a)
           ELSE /\ actor' = [actor EXCEPT ![a].img = data, ![a].step = "thumb"]
                /\ UNCHANGED locks
        /\ UNCHANGED <<local, served, state, art, ledger, pending, boot, events, hist>>

PresentThumb(a) ==
    /\ At(a, "thumb")
    /\ thumb' = actor[a].img
    /\ Goto(a, "poster")
    /\ UNCHANGED <<local, poster, state, art, ledger, pending, locks, boot, events, hist>>

PresentPoster(a) ==
    /\ At(a, "poster")
    /\ poster' = actor[a].img
    /\ Unlock(a)
    /\ torn' = FALSE
    /\ UNCHANGED <<local, thumb, state, art, ledger, pending, boot, events, gap, unnamed, dropped>>

---------------------------------------------------------------------------
(* A file or a row that cannot be written, and the end of the process.     *)

\* An actor has changed what the pair is made from, and not presented it.
Owing(a) == actor[a].step \in {"row", "embedded", "present", "slots", "thumb", "poster"}

Lose(A) ==
    /\ gap' = (gap \/ \E a \in A : Owing(a))
    /\ torn' = (torn \/ \E a \in A : At(a, "poster"))
    /\ unnamed' = unnamed \cup {IF a = Worker THEN "auto" ELSE actor[a].kind : a \in {b \in A : At(b, "row")}}
                          \cup (IF boot = "row" THEN {Seeds} ELSE {})
    /\ dropped' = (dropped \/ \E a \in A : actor[a].op # "index"
                                /\ actor[a].step \in {"clear", "check", "art", "cover", "generate"})

\* A reset goes on when it could not present (presentIfPoster).
Left(a) == IF actor[a].op = "reset" /\ Owing(a) THEN After(a) ELSE Idle

\* The scanner enqueues a video whose cover it could not extract.
Fails(a) ==
    /\ Up /\ actor[a].step \notin {"idle", "lock", "done"} /\ Event
    /\ Lose({a})
    /\ actor' = [actor EXCEPT ![a] = Left(a)]
    /\ presentMu' = IF presentMu = a THEN None ELSE presentMu
    /\ ownerMu' = IF ownerMu = a THEN None ELSE ownerMu
    /\ pending' = ((pending /\ a # Worker) \/ actor[a].op = "index")
    /\ UNCHANGED <<local, served, state, art, ledger, boot>>

Restart ==
    /\ Event
    /\ Lose(Actor)
    /\ actor' = [a \in Actor |-> Idle]
    /\ presentMu' = None /\ ownerMu' = None
    /\ pending' = FALSE /\ boot' = "seed"
    /\ UNCHANGED <<local, served, state, art, ledger>>

---------------------------------------------------------------------------

Present(a) ==
    PresentDecision(a) \/ PresentSlots(a) \/ PresentThumb(a) \/ PresentPoster(a)

Handler(t) ==
    \/ LockOwner(t) \/ OwnerSlot(t) \/ OwnerRow(t) \/ SetDecision(t) \/ ResetState(t)
    \/ ClearDecision(t) \/ CheckPoster(t) \/ Stage(t) \/ WritePoster(t)
    \/ ReadArt(t) \/ WriteCover(t) \/ SetEmbedded(t) \/ Present(t)

WorkerStep ==
    Pop \/ Generate \/ GenerateFails \/ AutoRow \/ SetGenerated \/ Done \/ Present(Worker)

BackfillSlots == BootSeed \/ BootRow \/ BootReset

Next ==
    \/ BackfillSlots \/ Backfill \/ Browse \/ WorkerStep \/ Restart
    \/ \E t \in Thread : Request(t) \/ Handler(t)
    \/ \E a \in Actor : Fails(a)

Spec == Init /\ [][Next]_vars

---------------------------------------------------------------------------

TypeOK ==
    /\ slot \in [Slot -> AnyImage \cup {None}] /\ row \in [Kind -> AnyImage \cup {None}]
    /\ decision \in Kind \cup {"other", None}
    /\ {thumb, poster, art} \subseteq AnyImage \cup {None}
    /\ state \in {"none", "embedded", "generated", "failed", "uploaded"}
    /\ boot \in {"up", "swept"} => state # "uploaded"
    /\ presentMu # None => actor[presentMu].step \in {"slots", "thumb", "poster"}
    /\ ownerMu # None => actor[ownerMu].op \in {"set", "remove"}
    /\ events \in 0 .. MaxEvent

\* When nobody is between a change and its Present, and none was cut off there, the
\* served pair is what the decision and the slots say: no re-extraction, generation
\* or upgrade displaces a chosen image (F85 P0-6, Present's comment).
Projection ==
    (Up /\ ~gap /\ ~torn /\ \A a \in Actor : ~Owing(a)) =>
        poster = Chosen(decision) /\ thumb = poster

\* A slot's row names the bytes in it, but while they change (SetOwnerImage's comment).
NamedBytes ==
    \A k \in Kind \ unnamed :
        (Up /\ \A a \in Actor : At(a, "row") => k # IF a = Worker THEN "auto" ELSE actor[a].kind)
            => row[k] = slot[k]

\* A poster shown as in sync with the file is: when the ledger's token is that of the
\* slot's row, the file's cover is the slot's image, though the slot was replaced
\* between the write's enqueueing and the write (StageLocalPosters' comment).
InSyncTrue ==
    \A k \in Kind \ unnamed :
        (ledger # None /\ ledger.kind = k /\ ledger.hash = row[k]
           /\ \A a \in Actor : ~At(a, "row")) => art = slot[k]

\* A video without a picture is being given one, or its generation failed: it is not
\* left so when its upload is removed, or its picture reset.  The exceptions are a Present
\* that was cut off and, until the next boot's sweep, a request or a job that was, or a
\* request that met the very end of the video's last job (deleteVideoPoster's comment).
NeverPosterless ==
    (boot = "swept" /\ poster = None /\ ~pending /\ \A a \in Actor : At(a, "idle")) =>
        (state = "failed" \/ gap \/ torn \/ dropped)
=============================================================================
