----------------------------- MODULE MediaQueue -----------------------------
(***************************************************************************)
(* Hover montages (internal/montage): the two-tier queue in memory with    *)
(* its one wake-up slot, the workers that drain it while no still waits,   *)
(* the owner's requests, the browse bump and the backfill, a re-encode     *)
(* that invalidates a montage, and restarts that lose the queue.  The      *)
(* queue of internal/thumbnail is a copy of it without the promotion.      *)
(*                                                                         *)
(* The picture of a file is a number that a re-encode raises; a montage    *)
(* is the number it was made from.  The length of the still queue is left  *)
(* to the still pipeline: it is empty or not.                              *)
(***************************************************************************)
EXTENDS Naturals, Sequences, SequencesExt, FiniteSets

CONSTANTS
    Video,
    Short,      \* videos under the minimum length
    Worker,
    Nothing,    \* no row, no file, no id
    MaxEvent    \* bound: requests, re-encodes, deletions, failures and restarts together

ShortAssumption == Short \subseteq Video
NothingAssumption == Nothing \notin Video \cup Nat

VARIABLES
    mode,       \* of this process
    high, normal, pending, ready,   \* the queue
    step, held, \* where each worker is, and the id it has
    read,       \* the picture a worker's ffmpeg has read
    stills,     \* TRUE while a still waits
    cands,      \* the ids a browse or the backfill found unattempted, not yet pushed
    live,       \* videos neither deleted nor inactive
    picture,    \* of each video's file
    due,        \* videos re-encoded and not yet invalidated
    row,        \* video_montages
    montage,    \* the montage files
    events,
    asked,      \* history: videos the owner asked for that wait to be popped
    lost        \* history: videos whose re-encode was told while a montage of the old
                \* picture was being made, or not before the process ended

queue == <<high, normal, pending, ready>>
workers == <<step, held, read>>
library == <<live, picture, due>>
store == <<row, montage>>
hist == <<asked, lost>>
vars == <<mode, queue, workers, stills, cands, library, store, events, hist>>

Event == events < MaxEvent /\ events' = events + 1
Making(v) == \E w \in Worker : held[w] = v

\* The montage in the making shows an old picture.
MakingOld(v) == \E w \in Worker : held[w] = v /\ read[w] \notin {Nothing, picture[v]}

Boot ==
    /\ mode' \in {"off", "manual", "automatic"}
    /\ high' = <<>> /\ normal' = <<>> /\ pending' = {} /\ ready' = FALSE
    /\ step' = [w \in Worker |-> IF mode' = "off" THEN "gone" ELSE "wait"]
    /\ held' = [w \in Worker |-> Nothing] /\ read' = [w \in Worker |-> Nothing]
    /\ cands' = {} /\ due' = {} /\ asked' = {}

Init ==
    /\ mode \in {"manual", "automatic"}
    /\ high = <<>> /\ normal = <<>> /\ pending = {} /\ ready = FALSE
    /\ step = [w \in Worker |-> "wait"]
    /\ held = [w \in Worker |-> Nothing] /\ read = [w \in Worker |-> Nothing]
    /\ stills = FALSE /\ cands = {}
    /\ live = Video /\ picture = [v \in Video |-> 1] /\ due = {}
    /\ row = [v \in Video |-> Nothing] /\ montage = [v \in Video |-> Nothing]
    /\ events = 0 /\ asked = {} /\ lost = {}

---------------------------------------------------------------------------
(* The queue.                                                              *)

\* Mutant: a promoted id leaves the normal tier and joins no other.
PromotedNowhere(v) == high

\* Where an owner's request of an id in the normal tier puts it.
Promoted(v) == Append(high, v)

WaitsInNormal(v) == Contains(normal, v)

Push(v, first) ==
    IF v \in pending THEN
        /\ IF first /\ WaitsInNormal(v)
           THEN high' = Promoted(v) /\ normal' = Remove(normal, v)
           ELSE UNCHANGED <<high, normal>>
        /\ UNCHANGED <<pending, ready>>
    ELSE
        /\ pending' = pending \cup {v}
        /\ high' = IF first THEN Append(high, v) ELSE high
        /\ normal' = IF first THEN normal ELSE Append(normal, v)
        /\ ready' = TRUE

---------------------------------------------------------------------------
(* Who pushes.                                                             *)

\* The owner's Make or Remake.  An id being made is not made again for it.
Request(v) ==
    /\ mode # "off" /\ Event
    /\ Push(v, TRUE)
    /\ asked' = IF Making(v) THEN asked ELSE asked \cup {v}
    /\ UNCHANGED <<mode, workers, stills, cands, library, store, lost>>

\* The browse bump of some videos, and the backfill of all that are long enough: the
\* rows are read ...
ReadUnattempted(V) ==
    /\ mode = "automatic" /\ cands = {} /\ Event
    /\ cands' = {v \in V : row[v] = Nothing}
    /\ UNCHANGED <<mode, queue, workers, stills, library, store, hist>>

EnqueueVisible == \E V \in SUBSET live : ReadUnattempted(V)
Backfill == ReadUnattempted(live \ Short)

\* ... and the ids are pushed one by one.
PushUnattempted(v) ==
    /\ v \in cands
    /\ cands' = cands \ {v}
    /\ Push(v, FALSE)
    /\ UNCHANGED <<mode, workers, stills, library, store, events, hist>>

\* A re-encode replaces the file ...
Reencode(v) ==
    /\ v \in live /\ v \notin due /\ Event
    /\ picture' = [picture EXCEPT ![v] = @ + 1]
    /\ due' = due \cup {v}
    /\ UNCHANGED <<mode, queue, workers, stills, cands, live, store, hist>>

\* MontageState: a file change never starts a first montage.
Attempted(v) == row[v] # Nothing

\* ... and its post-write hook queues the montage again.
Invalidate(v) ==
    /\ v \in due
    /\ due' = due \ {v}
    /\ IF mode # "off" /\ Attempted(v) THEN Push(v, FALSE) ELSE UNCHANGED queue
    /\ lost' = IF mode = "off" \/ MakingOld(v) THEN lost \cup {v} ELSE lost
    /\ UNCHANGED <<mode, workers, stills, cands, live, picture, store, events, asked>>

SoftDelete(v) ==
    /\ v \in live /\ Event
    /\ live' = live \ {v}
    /\ UNCHANGED <<mode, queue, workers, stills, cands, picture, due, store, hist>>

\* A still is queued, and the still workers drain their queue (external).
StillQueued ==
    /\ ~stills /\ Event /\ stills' = TRUE
    /\ UNCHANGED <<mode, queue, workers, cands, library, store, hist>>

StillsDrained ==
    /\ stills /\ stills' = FALSE
    /\ UNCHANGED <<mode, queue, workers, cands, library, store, events, hist>>

---------------------------------------------------------------------------
(* A worker.                                                               *)

Goto(w, s) == step' = [step EXCEPT ![w] = s]

WaitForStills(w) ==
    /\ step[w] = "wait" /\ ~stills
    /\ Goto(w, "pop")
    /\ UNCHANGED <<mode, queue, held, read, stills, cands, library, store, events, hist>>

\* A popped id stays pending until it is done.
StillPending(v) == pending

Pop(w) ==
    /\ step[w] = "pop"
    /\ \/ /\ high \o normal # <<>>
          /\ LET v == Head(high \o normal)
             IN  /\ held' = [held EXCEPT ![w] = v]
                 /\ pending' = StillPending(v)
                 /\ asked' = asked \ {v}
          /\ high' = IF high # <<>> THEN Tail(high) ELSE high
          /\ normal' = IF high # <<>> THEN normal ELSE Tail(normal)
          /\ Goto(w, "signal")
       \/ /\ high \o normal = <<>>
          /\ Goto(w, "asleep")
          /\ UNCHANGED <<high, normal, pending, held, asked>>
    /\ UNCHANGED <<mode, ready, read, stills, cands, library, store, events, lost>>

Wake(w) ==
    /\ step[w] = "asleep" /\ ready
    /\ ready' = FALSE
    /\ Goto(w, "wait")
    /\ UNCHANGED <<mode, high, normal, pending, held, read, stills, cands, library, store, events, hist>>

\* What is left in the queue wakes another worker.
SignalRest(w) ==
    /\ step[w] = "signal"
    /\ ready' = (ready \/ high \o normal # <<>>)
    /\ Goto(w, "candidate")
    /\ UNCHANGED <<mode, high, normal, pending, held, read, stills, cands, library, store, events, hist>>

\* process: a video that is gone is let be, a short one has failed, and ffmpeg reads
\* the file of any other.
Candidate(w) ==
    /\ step[w] = "candidate"
    /\ LET v == held[w]
       IN  CASE v \notin live -> Goto(w, "done") /\ UNCHANGED <<read, row>>
             [] v \in live /\ v \in Short ->
                    Goto(w, "done") /\ row' = [row EXCEPT ![v] = "failed"] /\ UNCHANGED read
             [] OTHER ->
                    Goto(w, "make") /\ read' = [read EXCEPT ![w] = picture[v]] /\ UNCHANGED row
    /\ UNCHANGED <<mode, queue, held, stills, cands, library, montage, events, hist>>

Made(w) ==
    /\ step[w] = "make"
    /\ montage' = [montage EXCEPT ![held[w]] = read[w]]
    /\ Goto(w, "record")
    /\ UNCHANGED <<mode, queue, held, read, stills, cands, library, row, events, hist>>

RecordGenerated(w) ==
    /\ step[w] = "record"
    /\ row' = [row EXCEPT ![held[w]] = "generated"]
    /\ Goto(w, "done")
    /\ UNCHANGED <<mode, queue, held, read, stills, cands, library, montage, events, hist>>

\* ffmpeg fails, or runs into the job's time limit.
MakeFails(w) ==
    /\ step[w] = "make" /\ Event
    /\ row' = [row EXCEPT ![held[w]] = "failed"]
    /\ Goto(w, "done")
    /\ UNCHANGED <<mode, queue, held, read, stills, cands, library, montage, hist>>

Done(w) ==
    /\ step[w] = "done"
    /\ pending' = pending \ {held[w]}
    /\ held' = [held EXCEPT ![w] = Nothing] /\ read' = [read EXCEPT ![w] = Nothing]
    /\ Goto(w, "wait")
    /\ UNCHANGED <<mode, high, normal, ready, stills, cands, library, store, events, hist>>

\* The process ends, and starts again with an empty queue.
Restart ==
    /\ Event
    /\ Boot
    /\ lost' = lost \cup due \cup pending
    /\ stills' = FALSE
    /\ UNCHANGED <<live, picture, store>>

---------------------------------------------------------------------------

WorkerStep(w) ==
    \/ WaitForStills(w) \/ Pop(w) \/ Wake(w) \/ SignalRest(w) \/ Candidate(w)
    \/ Made(w) \/ RecordGenerated(w) \/ MakeFails(w) \/ Done(w)

Next ==
    \/ \E v \in Video : \/ Request(v) \/ PushUnattempted(v) \/ Reencode(v)
                        \/ Invalidate(v) \/ SoftDelete(v)
    \/ EnqueueVisible \/ Backfill \/ StillQueued \/ StillsDrained \/ Restart
    \/ \E w \in Worker : WorkerStep(w)

Spec == Init /\ [][Next]_vars

\* A worker runs until the process ends, every job has a time limit, and the still
\* queue is drained by workers of its own.
Fairness ==
    /\ \A w \in Worker : WF_vars(WorkerStep(w))
    /\ WF_vars(StillsDrained)

FairSpec == Spec /\ Fairness

---------------------------------------------------------------------------

\* Two workers never make one video's montage at once: they would write one temporary
\* file (the comment of pop in internal/thumbnail/queue.go).
OneMaker == \A v, w \in Worker : v # w /\ held[v] # Nothing => held[v] # held[w]

\* An owner's request never waits behind the automatic backfill, wherever the video
\* stood in the queue when it was made (F83 P0-15).
OwnerFirst ==
    [][\A w \in Worker : held[w] = Nothing /\ held'[w] # Nothing =>
            (held'[w] \in asked \/ asked = {})]_vars

\* What the owner's page shows.  A job that waits or runs wins over the stored row.
Status(v) ==
    CASE Making(v) -> "making"
      [] ~Making(v) /\ v \in pending -> "waiting"
      [] ~Making(v) /\ v \notin pending /\ row[v] = "failed" -> "failed"
      [] OTHER -> IF montage[v] # Nothing THEN "ready" ELSE "none"

\* A page that says ready shows the file's own picture, once its last re-encode has
\* been told; but for one told while a montage of the old picture is being made, and
\* for restarts (F83 P0-12).
ReadyIsCurrent ==
    \A v \in Video :
        (Status(v) = "ready" /\ v \in live /\ v \notin due \cup lost)
            => montage[v] = picture[v]

\* Every page that says waiting or making comes to say something else: no wake-up is
\* lost between the workers, and no tier or still queue starves one.
StatusSettles ==
    \A v \in Video : (Status(v) \in {"waiting", "making"}) ~> (Status(v) \notin {"waiting", "making"})
=============================================================================
