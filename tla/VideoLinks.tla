----------------------------- MODULE VideoLinks -----------------------------
(***************************************************************************)
(* What links a video to its studio and its people, and the gate that      *)
(* keeps two videos from agreeing on title, date, people and studio.       *)
(*                                                                         *)
(* The links are derived: a write to an input (a decision, a curation, a   *)
(* scan) is followed by a relink, which loads the inputs, resolves them    *)
(* and replaces the links.  Writes and replacements each hold writeMu;     *)
(* most relinks load before they take it.  The gate checks a title, a      *)
(* studio or a person's credit in the transaction that writes it, against  *)
(* the links the videos have then.                                         *)
(*                                                                         *)
(* Every video here has the same date.  A studio comes from the file, from *)
(* a provider or from the owner's pick; credits (a person in a role) from  *)
(* the file, with the owner's additions and removals.                      *)
(***************************************************************************)
EXTENDS Naturals, FiniteSets

CONSTANTS
    Video, Title, Studio, Person, Role,
    Slot,       \* requests and scans that may be under way at once
    None,
    MaxStep     \* bound: writes and restarts

VARIABLES
    title, manual,          \* videos.title; the title decision or None
    fileStudio, provStudio, \* the studio the file's tags and a provider give
    pick,                   \* the studio decision
    fileCredits, added, removed,   \* the credits of the file; the owner's curation
    studioLink, credits,    \* video_studios and video_people
    backfilled,             \* a successful studio backfill is recorded
    req,        \* what each slot is doing, or None
    steps,
    drifted,    \* history: [kind, video] whose last replacement was not of current values
    ungated,    \* history: videos whose key changed since a check passed, without one
    raced,      \* history: [by, video] in a check made while a studio already written was
                \* not linked; by says whether the check was a studio decision's
    mistitled   \* history: videos checked under another title than the one they show

inputs == <<title, manual, fileStudio, provStudio, pick, fileCredits, added, removed>>
links == <<studioLink, credits>>
hist == <<drifted, ungated, raced, mistitled>>
vars == <<inputs, links, backfilled, req, steps, hist>>

Credit == Person \X Role
Kind == {"studio", "people"}
Source == {"file", "provider"} \cup Studio
(* What a slot works on: the video, the links to replace (todo), the       *)
(* values it loaded for them, and whether a check let them through.        *)
Request == [video : Video, todo : SUBSET Kind, at : {"check", "load", "write"}, src : Source \cup {None},
            gated : BOOLEAN, studio : Studio \cup {None}, cast : SUBSET Credit]
NoneAssumption == None \notin Title \cup Studio \cup Request
Counted == steps < MaxStep /\ steps' = steps + 1

(* What resolving v gives, were its studio decision s. *)
StudioUnder(v, s) ==
    CASE s = "file" -> fileStudio[v]
      [] s = "provider" -> provStudio[v]
      [] s = None -> IF fileStudio[v] = None THEN provStudio[v] ELSE fileStudio[v]
      [] OTHER -> s
StudioOf(v) == StudioUnder(v, pick[v])
CreditsOf(v) == (fileCredits[v] \cup added[v]) \ removed[v]

Effective(v) == IF manual[v] = None THEN title[v] ELSE manual[v]
(* Two sets of credits make the same key when each person has as many      *)
(* roles in both: the key lists a person once for each link.               *)
SameCast(a, b) == \A p \in Person : Cardinality({c \in a : c[1] = p}) = Cardinality({c \in b : c[1] = p})

(* Two videos that show the same title and have the same links. *)
Twins(v, w) == Effective(v) = Effective(w) /\ studioLink[v] = studioLink[w] /\ SameCast(credits[v], credits[w])

Init ==
    /\ title \in [Video -> Title] /\ manual = [v \in Video |-> None]
    /\ fileStudio \in [Video -> Studio \cup {None}] /\ provStudio = [v \in Video |-> None]
    /\ pick = [v \in Video |-> None]
    /\ fileCredits = [v \in Video |-> {}]
    /\ added = [v \in Video |-> {}] /\ removed = [v \in Video |-> {}]
    /\ studioLink = [v \in Video |-> StudioUnder(v, None)]
    /\ credits = [v \in Video |-> {}]
    /\ backfilled = FALSE
    /\ req = [i \in Slot |-> None]
    /\ steps = 0
    /\ drifted = {} /\ raced = {} /\ mistitled = {}
    /\ ungated = {v \in Video : \E w \in Video \ {v} : Twins(v, w)}

-----------------------------------------------------------------------------
(* The gate.                                                               *)

(* Another video shows title t and is linked to studio s and to a cast cs. *)
Collides(v, t, s, cs) == \E w \in Video \ {v} :
    Effective(w) = t /\ studioLink[w] = s /\ SameCast(credits[w], cs)

FindTitleCollision(v, t) == Collides(v, t, studioLink[v], credits[v])
FindStudioCollision(v, s) == Collides(v, title[v], s, credits[v])
FindPeopleCollision(v, cs) == Collides(v, title[v], studioLink[v], cs)

(* Studio decisions written and not linked yet. *)
Unlinked(i) == req[i] # None /\ req[i].at = "write" /\ req[i].gated
Checked(v, by) ==
    LET open == {i \in Slot : Unlinked(i)} IN
    raced' = IF open = {} THEN raced ELSE raced \cup ({by} \X ({v} \cup {req[i].video : i \in open}))
Titled(v) == mistitled' = IF title[v] = Effective(v) THEN mistitled ELSE mistitled \cup {v}

(* A manual title: check and decision in one step; no link depends on it. *)
EditTitle(v, t, override) ==
    /\ Counted
    /\ override \/ ~FindTitleCollision(v, t)
    /\ manual' = [manual EXCEPT ![v] = t]
    /\ Checked(v, "title or people")
    /\ ungated' = IF override THEN ungated \cup {v} ELSE ungated \ {v}
    /\ mistitled' = mistitled \ {v}
    /\ UNCHANGED <<title, fileStudio, provStudio, pick, fileCredits, added, removed, links, backfilled, req, drifted>>

ClearTitle(v) ==
    /\ Counted
    /\ manual[v] # None
    /\ manual' = [manual EXCEPT ![v] = None]
    /\ ungated' = ungated \cup {v}
    /\ UNCHANGED <<title, fileStudio, provStudio, pick, fileCredits, added, removed, links, backfilled, req,
                   drifted, raced, mistitled>>

RequestFor(v, todo, at, s, gated) ==
    [video |-> v, todo |-> todo, at |-> at, src |-> s, gated |-> gated,
     studio |-> IF "studio" \in todo /\ at # "load" THEN StudioUnder(v, s) ELSE None,
     cast |-> IF "people" \in todo /\ at # "load" THEN CreditsOf(v) ELSE {}]
Start(i, r) == req[i] = None /\ req' = [req EXCEPT ![i] = r]
Finish(i) == req' = [req EXCEPT ![i] = None]

(* A studio decision resolves the proposal and checks it before the lock.  *)
(* A provider matched to the video may give no studio.                     *)
ProposeStudio(i, v, s, override) ==
    /\ Counted
    /\ override \/ ~FindStudioCollision(v, StudioUnder(v, s))
    /\ Start(i, RequestFor(v, {"studio"}, "check", s, ~override))
    /\ UNCHANGED <<inputs, links, backfilled, hist>>

(* Mutant: the check is not made again under the lock. *)
CommitUnchecked(i, v) == TRUE

(* Under the lock: the check again, with the names resolved before it. *)
Passes(i, v) == req[i].gated => ~FindStudioCollision(v, req[i].studio)

CommitStudio(i, v) ==
    /\ req[i] # None /\ req[i].at = "check" /\ req[i].video = v
    /\ IF Passes(i, v)
         THEN /\ pick' = [pick EXCEPT ![v] = req[i].src]
              /\ req' = [req EXCEPT ![i].at = "write", ![i].src = None]
              /\ IF req[i].gated THEN Checked(v, "studio") /\ Titled(v) ELSE UNCHANGED <<raced, mistitled>>
              /\ ungated' = IF req[i].gated THEN ungated ELSE ungated \cup {v}
         ELSE Finish(i) /\ UNCHANGED <<pick, ungated, raced, mistitled>>
    /\ UNCHANGED <<title, manual, fileStudio, provStudio, fileCredits, added, removed, links, backfilled, steps, drifted>>

(* A credit added or removed: check, curation and relink in one step. The  *)
(* new links are the current ones with the credit put in or left out.      *)
ProposedPeopleLinks(v, c, action) == IF action = "add" THEN credits[v] \cup {c} ELSE credits[v] \ {c}
Drift(kind, v, holds) == drifted' = IF holds THEN drifted \ {<<kind, v>>} ELSE drifted \cup {<<kind, v>>}

SetCuration(v, c, action, override) ==
    LET cast == ProposedPeopleLinks(v, c, action) IN
    /\ Counted
    /\ override \/ ~FindPeopleCollision(v, cast)
    /\ IF action = "add" THEN added' = [added EXCEPT ![v] = @ \cup {c}] /\ UNCHANGED removed
                         ELSE removed' = [removed EXCEPT ![v] = @ \cup {c}] /\ UNCHANGED added
    /\ \E linked \in BOOLEAN :
         /\ credits' = IF linked THEN [credits EXCEPT ![v] = cast] ELSE credits
         /\ Drift("people", v, credits'[v] = (fileCredits[v] \cup added'[v]) \ removed'[v])
    /\ IF override THEN ungated' = ungated \cup {v} /\ UNCHANGED <<raced, mistitled>>
                   ELSE ungated' = (IF credits' = credits THEN ungated ELSE ungated \ {v}) /\ Checked(v, "title or people") /\ Titled(v)
    /\ UNCHANGED <<title, manual, fileStudio, provStudio, pick, fileCredits, studioLink, backfilled, req>>

-----------------------------------------------------------------------------
(* Writes the gate does not see, each followed by a relink.                *)

Write(i, v, todo) ==
    /\ Counted
    /\ Start(i, RequestFor(v, todo, "load", None, FALSE))
    /\ UNCHANGED <<manual, links, backfilled, hist>>

ClearStudio(i, v) ==
    /\ pick[v] # None
    /\ Write(i, v, {"studio"})
    /\ pick' = [pick EXCEPT ![v] = None]
    /\ UNCHANGED <<title, fileStudio, provStudio, fileCredits, added, removed>>

ClearCuration(i, v, c) ==
    /\ Write(i, v, {"people"})
    /\ \/ c \in added[v] /\ added' = [added EXCEPT ![v] = @ \ {c}] /\ UNCHANGED removed
       \/ c \in removed[v] /\ removed' = [removed EXCEPT ![v] = @ \ {c}] /\ UNCHANGED added
    /\ UNCHANGED <<title, fileStudio, provStudio, pick, fileCredits>>

(* A scan that finds other tags. *)
Rescan(i, v, s, cs) ==
    /\ (s = fileStudio[v]) # (cs = fileCredits[v])
    /\ Write(i, v, Kind)
    /\ fileStudio' = [fileStudio EXCEPT ![v] = s]
    /\ fileCredits' = [fileCredits EXCEPT ![v] = cs]
    /\ UNCHANGED <<title, provStudio, pick, added, removed>>

(* An enrichment or its clear. *)
Enrich(i, v, s) ==
    /\ s # provStudio[v]
    /\ Write(i, v, Kind)
    /\ provStudio' = [provStudio EXCEPT ![v] = s]
    /\ UNCHANGED <<title, fileStudio, pick, fileCredits, added, removed>>

Load(i) ==
    /\ req[i] # None /\ req[i].at = "load"
    /\ req' = [req EXCEPT ![i] = [RequestFor(req[i].video, req[i].todo, "write", pick[req[i].video], FALSE) EXCEPT !.src = None]]
    /\ UNCHANGED <<inputs, links, backfilled, steps, hist>>

(* Mutant: a relink for both kinds leaves the people for the next one. *)
DoneAfterStudio(i, kind) == Finish(i)

Done(i, kind) == IF req[i].todo = {kind} THEN Finish(i) ELSE req' = [req EXCEPT ![i].todo = @ \ {kind}]

Reconcile(i, kind) ==
    /\ req[i] # None /\ req[i].at = "write" /\ kind \in req[i].todo
    /\ kind = "people" => req[i].todo = {"people"}
    /\ Done(i, kind)

ReconcileVideoStudios(i) ==
    LET v == req[i].video IN
    /\ Reconcile(i, "studio")
    /\ studioLink' = [studioLink EXCEPT ![v] = req[i].studio]
    /\ Drift("studio", v, req[i].studio = StudioOf(v))
    /\ ungated' = IF (req[i].gated /\ req[i].studio = StudioOf(v)) \/ studioLink' = studioLink
                     THEN ungated ELSE ungated \cup {v}
    /\ UNCHANGED <<inputs, credits, backfilled, steps, raced, mistitled>>

ReconcileVideoPeople(i) ==
    LET v == req[i].video IN
    /\ Reconcile(i, "people")
    /\ credits' = [credits EXCEPT ![v] = req[i].cast]
    /\ Drift("people", v, req[i].cast = CreditsOf(v))
    /\ ungated' = IF credits' = credits THEN ungated ELSE ungated \cup {v}
    /\ UNCHANGED <<inputs, studioLink, backfilled, steps, raced, mistitled>>

(* A failed relink is logged; what the write asked for stays unlinked. *)
RelinkFails(i, kind) ==
    /\ Reconcile(i, kind)
    /\ drifted' = drifted \cup {<<kind, req[i].video>>}
    /\ UNCHANGED <<inputs, links, backfilled, steps, ungated, raced, mistitled>>

(* The process ends: what was written and not relinked stays so, unless    *)
(* no studio is linked at all and no backfill is on record.                *)
Behind(v, kind) == \E i \in Slot :
    req[i] # None /\ req[i].at \in {"load", "write"} /\ req[i].video = v /\ kind \in req[i].todo
BackfillStudioLinks == (\A v \in Video : studioLink[v] = None) /\ ~backfilled

Restart ==
    /\ Counted
    /\ req' = [i \in Slot |-> None]
    /\ IF BackfillStudioLinks
         THEN /\ studioLink' = [v \in Video |-> StudioOf(v)]
              /\ backfilled' = TRUE
              /\ ungated' = ungated \cup {v \in Video : StudioOf(v) # None}
         ELSE UNCHANGED <<studioLink, backfilled, ungated>>
    /\ drifted' = (drifted \cup {p \in Kind \X Video : Behind(p[2], p[1])})
                    \ (IF BackfillStudioLinks THEN {"studio"} \X Video ELSE {})
    /\ UNCHANGED <<inputs, credits, raced, mistitled>>

Next ==
    \/ \E v \in Video :
         \/ \E t \in Title, o \in BOOLEAN : EditTitle(v, t, o)
         \/ ClearTitle(v)
         \/ \E c \in Credit, a \in {"add", "suppress"}, o \in BOOLEAN : SetCuration(v, c, a, o)
         \/ \E i \in Slot :
              \/ \E s \in Source, o \in BOOLEAN : ProposeStudio(i, v, s, o)
              \/ CommitStudio(i, v)
              \/ ClearStudio(i, v)
              \/ \E c \in Credit : ClearCuration(i, v, c)
              \/ \E s \in Studio \cup {None}, cs \in {{}} \cup {{c} : c \in Credit} : Rescan(i, v, s, cs)
              \/ \E s \in Studio \cup {None} : Enrich(i, v, s)
    \/ \E i \in Slot :
         \/ Load(i) \/ ReconcileVideoStudios(i) \/ ReconcileVideoPeople(i)
         \/ \E k \in Kind : RelinkFails(i, k)
    \/ Restart

Spec == Init /\ [][Next]_vars

-----------------------------------------------------------------------------
(* Once nothing is relinking a video, its links are what its fields        *)
(* resolve to, unless the last replacement failed, was cut off or wrote    *)
(* values loaded before another write, or put in a credit the owner had    *)
(* removed.  So every write that changes a field is followed by a relink   *)
(* of that kind.                                                           *)
LinksFollow == \A v \in Video :
    /\ Behind(v, "studio") \/ <<"studio", v>> \in drifted \/ studioLink[v] = StudioOf(v)
    /\ Behind(v, "people") \/ <<"people", v>> \in drifted \/ credits[v] = CreditsOf(v)

(* Two videos agree on title, people and studio only after a change the    *)
(* owner forced or no gate sees, a check under the file's title of a video *)
(* that shows another, or a check made while a studio was decided and not  *)
(* linked.                                                                 *)
TwinsAreForced == \A v, w \in Video :
    v # w /\ Twins(v, w) => {v, w} \cap (ungated \cup mistitled \cup {r[2] : r \in raced}) # {}

=============================================================================
