------------------------------ MODULE Extract -------------------------------
(***************************************************************************)
(* What a file's name says about its video (internal/extract,              *)
(* repo/extraction_review.go, api/extract_review.go): the name is read by  *)
(* the template Holodex wrote it with, by the owner's patterns or by the   *)
(* current templates; each field it gives is scored against the file's tag *)
(* and the known entities, and is either written at once or put in a queue *)
(* the owner answers.  Runs are started by a scan, by the owner and by the *)
(* library pass, and meet each other and the owner's tabs.                 *)
(*                                                                         *)
(* One video.  A value is a model value: what the scores ask of its text   *)
(* (how much of it there is, which values it is like) is given by          *)
(* constants.  Scores are hundredths.                                      *)
(***************************************************************************)
EXTENDS Naturals, FiniteSets, Sequences, FiniteSetsExt

CONSTANTS
    Field,      \* the fields names give
    CastKey,    \* the key the field mapping gives the cast: "actors" as shipped
    Value,
    Short,      \* values of one word (entities) or under three letters (others)
    Shape,      \* values a person is never called: years, resolutions
    Alike,      \* pairs of value sets at or over the similarity threshold
    Name,
    Pattern,
    Capture,    \* [Pattern -> [Name -> the fields it captures, or NoFit]]
    Marker,     \* [Name -> the fields of its markers]
    Template,   \* [Name -> what the templates read of it, or NoFit]
    NoFit,
    Run,        \* the extraction runs there can be at once; "batch" is the library's
    Tab,        \* the owner's open tabs
    Entered,      \* what the owner types
    Start,      \* tags, manual decisions and entities there may be at first
    MaxRow, MaxWrite,   \* bounds: review rows, queued writes
    MaxRun, MaxStep     \* bounds: videos read, outside changes

ExtractAssumption ==
    /\ Field \subseteq {"people", "studio", "movie", "edition", "part", "title", "release_date", "comment"}
    /\ CastKey \in {"people", "actors"} /\ \A pr \in Alike : <<pr[2], pr[1]>> \in Alike

Entity == {"people", "studio"}
WritebackField(f) == IF f = "people" THEN "actors" ELSE f
Mapped(f) == IF f = "people" THEN CastKey ELSE f    \* the canonical key the owner sees and decides

VARIABLES
    name,       \* the file's name
    patterns,   \* the compiled pattern list
    record,     \* token_values of the last done rename, or NoFit
    tag,        \* [Field -> the values the file's tags of the field hold]
    manual,     \* keys with a manual decision
    known,      \* the entities' names
    shadow,     \* entity_enrichment's filename rows
    reviews,    \* metadata_extraction_review, by id
    writes,     \* the writes queued from here, oldest first
    done,       \* how many of them reached the file
    run,        \* [Run -> where it is and what it has read]
    tab,        \* [Tab -> the row it has read, and whether its write is queued]
    enabled,    \* ExtractionAutoApplyEnabled
    begun, steps

vars == <<name, patterns, record, tag, manual, known, shadow, reviews, writes, done, run, tab, enabled, begun, steps>>
outside == <<name, patterns, record, tag, manual, known, done, enabled, steps>>

Idle == [at |-> "idle"]
Closed == [at |-> "closed"]
Empty == [f \in {} |-> {}]

-----------------------------------------------------------------------------
(* Reading a name.                                                         *)

Match(p, n) ==
    IF Capture[p][n] = NoFit THEN NoFit
    ELSE LET got == [f \in DOMAIN Capture[p][n] |-> IF f = "people" THEN Capture[p][n][f] \ Shape ELSE Capture[p][n][f]]
         IN  [f \in {g \in DOMAIN got : got[g] # {}} |-> got[f]]

Over(a, b) == [f \in DOMAIN a \cup DOMAIN b |-> IF f \in DOMAIN a THEN a[f] ELSE b[f]]
MatchFirst(ps, n) ==
    LET fits == {i \in DOMAIN ps : Match(ps[i], n) # NoFit}
    IN  IF fits # {} THEN Over(Marker[n], Match(ps[Min(fits)], n))
        ELSE IF DOMAIN Marker[n] # {} THEN Marker[n] ELSE NoFit

Recorded(n) == record # NoFit /\ Template[n] # NoFit
Parsed(n) ==
    IF Recorded(n) THEN Template[n]
    ELSE IF MatchFirst(patterns, n) # NoFit THEN MatchFirst(patterns, n) ELSE Template[n]

dropEchoes(fields, rec) ==
    IF rec = NoFit THEN fields
    ELSE [f \in {g \in DOMAIN fields : ~(g \in DOMAIN rec /\ rec[g] = fields[g])} |-> fields[f]]

-----------------------------------------------------------------------------
(* Scoring and routing.                                                    *)

classifyAgreement(vs, ts) ==
    IF ts = {} THEN "single" ELSE IF vs = ts THEN "exact"
    ELSE IF <<vs, ts>> \in Alike THEN "fuzzy" ELSE "conflict"
minSpecificity(vs) == IF vs \cap Short # {} THEN "partial" ELSE "full"
resolveEntityMatch(vs, exact, candidates) ==
    IF vs \subseteq exact THEN "exact"
    ELSE IF \A v \in vs \ exact : \E c \in candidates : <<{v}, {c}>> \in Alike THEN "fuzzy" ELSE "none"

ScoreEntity(a, s, m) ==
      (CASE a = "exact" -> 30 [] a = "single" -> 20 [] a = "fuzzy" -> 10 [] OTHER -> 0)
    + (IF s = "full" THEN 20 ELSE 7)
    + (CASE m = "exact" -> 50 [] m = "fuzzy" -> 20 [] OTHER -> 5)
ScoreNonEntity(a, s) ==
      (CASE a = "exact" -> 50 [] a = "single" -> 30 [] a = "fuzzy" -> 20 [] OTHER -> 0)
    + (IF s = "full" THEN 50 ELSE 25)

AutoApplyThreshold(f) ==
    CASE f \in {"people", "studio", "movie", "edition", "part"} -> 80
      [] f \in {"title", "release_date"} -> 70
      [] OTHER -> 40

Score(f, vs, ts, m) ==
    IF f \in Entity THEN ScoreEntity(classifyAgreement(vs, ts), minSpecificity(vs), m)
    ELSE ScoreNonEntity(classifyAgreement(vs, ts), minSpecificity(vs))

Route(f, m, score, hasManual) ==
    ~hasManual /\ (f \in Entity => m = "exact") /\ score >= AutoApplyThreshold(f)

-----------------------------------------------------------------------------
(* A run: the video is read, the name parsed, the shadow values stored,    *)
(* and the fields taken one by one in their order.                         *)

Order == <<"comment", "edition", "movie", "part", "people", "release_date", "studio", "title">>
First(fs) == Order[Min({i \in DOMAIN Order : Order[i] \in fs})]

(* TriggerAll: one pass at a time; its names are the ones its first video  *)
(* found.                                                                  *)
TriggerAll ==
    /\ "batch" \in Run /\ run["batch"] = Idle
    /\ run' = [run EXCEPT !["batch"] = [at |-> "pass", names |-> known]]
    /\ UNCHANGED <<outside, begun, shadow, reviews, writes, tab>>

ExtractVideo(r) ==
    /\ run[r].at = IF r = "batch" THEN "pass" ELSE "idle"
    /\ begun < MaxRun /\ begun' = begun + 1
    /\ run' = [run EXCEPT ![r] =
         IF Parsed(name) = NoFit THEN Idle
         ELSE LET got == dropEchoes(Parsed(name), IF Recorded(name) THEN record ELSE NoFit)
              IN  [at |-> "store", fields |-> got, tags |-> tag, left |-> DOMAIN got,
                   names |-> IF r = "batch" THEN run[r].names ELSE {},
                   rec |-> IF Recorded(name) THEN record ELSE Empty]]
    /\ UNCHANGED <<outside, shadow, reviews, writes, tab>>

Store(r) ==
    /\ run[r].at = "store"
    /\ shadow' = Over(run[r].fields, shadow)
    /\ run' = [run EXCEPT ![r] = IF run[r].left = {} THEN Idle ELSE [run[r] EXCEPT !.at = "fields"]]
    /\ UNCHANGED <<outside, begun, reviews, writes, tab>>

(* The mapping has no field of the parsed key: no tag values.              *)
fileTagValues(r, f) == IF Mapped(f) = f THEN run[r].tags[f] ELSE {}
HasManualSource(f) == f \in manual

Process(r) ==
    /\ run[r].at = "fields"
    /\ LET f == First(run[r].left)
           vs == run[r].fields[f]
           ts == fileTagValues(r, f)
           m == IF f \in Entity
                THEN resolveEntityMatch(vs, known, IF r = "batch" THEN run[r].names ELSE known) ELSE "none"
           score == Score(f, vs, ts, m)
       IN  run' = [run EXCEPT ![r] = [at |-> "act", fields |-> run[r].fields, tags |-> run[r].tags,
                        left |-> run[r].left, names |-> run[r].names, rec |-> run[r].rec, score |-> score,
                        seen |-> ts, manual |-> Mapped(f) \in manual, known |-> known,
                        auto |-> Route(f, m, score, HasManualSource(f))]]
    /\ UNCHANGED <<outside, begun, shadow, reviews, writes, tab>>

NextField(r) ==
    LET left == run[r].left \ {First(run[r].left)}
    IN  IF left = {} THEN Idle
        ELSE [at |-> "fields", fields |-> run[r].fields, tags |-> run[r].tags, left |-> left,
              names |-> run[r].names, rec |-> run[r].rec]

AutoApply(r) ==
    /\ run[r].at = "act" /\ run[r].auto /\ enabled /\ Len(writes) < MaxWrite
    /\ LET f == First(run[r].left)
       IN  writes' = Append(writes, [field |-> f, values |-> run[r].fields[f], by |-> 0,
                       tags |-> run[r].tags[f], manual |-> run[r].manual, known |-> run[r].known])
    /\ run' = [run EXCEPT ![r] = NextField(r)]
    /\ UNCHANGED <<outside, begun, shadow, reviews, tab>>

(* The flag off: the candidate is only logged.                             *)
LoggedOnly(r) ==
    /\ run[r].at = "act" /\ run[r].auto /\ ~enabled
    /\ run' = [run EXCEPT ![r] = NextField(r)]
    /\ UNCHANGED <<outside, begun, shadow, reviews, writes, tab>>

(* An enqueue or an upsert that fails ends the run; its last fields wait.  *)
Fail(r) ==
    /\ run[r].at = "act"
    /\ run' = [run EXCEPT ![r] = Idle]
    /\ UNCHANGED <<outside, begun, shadow, reviews, writes, tab>>

PendingOf(f) == {i \in DOMAIN reviews : reviews[i].field = f /\ reviews[i].status = "pending"}

UpsertExtractionReview(r) ==
    /\ run[r].at = "act" /\ ~run[r].auto
    /\ LET f == First(run[r].left)
           row == [field |-> f, filename |-> run[r].fields[f], tag |-> run[r].seen,
                   confidence |-> run[r].score, status |-> "pending"]
       IN  \/ /\ PendingOf(f) = {} /\ Len(reviews) < MaxRow
              /\ reviews' = Append(reviews, row)
           \/ \E i \in PendingOf(f) : reviews' = [reviews EXCEPT ![i] = row]
    /\ run' = [run EXCEPT ![r] = NextField(r)]
    /\ UNCHANGED <<outside, begun, shadow, writes, tab>>

-----------------------------------------------------------------------------
(* The owner's answers.                                                    *)

StillPending(i) == reviews[i].status = "pending"

GetExtractionReview(t, i) ==
    /\ tab[t] = Closed /\ i \in DOMAIN reviews /\ StillPending(i)
    /\ tab' = [tab EXCEPT ![t] = [at |-> "read", id |-> i, row |-> reviews[i]]]
    /\ UNCHANGED <<outside, begun, shadow, reviews, writes, run>>

(* ResolveReviewAction.                                                    *)
ResolvedWrite(action, row, typed) ==
    CASE action = "filename" -> row.filename [] action = "tag" -> {} [] OTHER -> typed
Allowed(action, row, typed) ==
    CASE action = "filename" -> row.filename # {} [] action = "tag" -> row.tag # {} [] OTHER -> typed # {}

(* What is refused leaves the row.                                         *)
Refuse(t) ==
    /\ tab[t].at = "read"
    /\ tab' = [tab EXCEPT ![t] = Closed]
    /\ UNCHANGED <<outside, begun, shadow, reviews, writes, run>>

ResolveReviewAction(t, action, typed) ==
    /\ tab[t].at = "read" /\ Allowed(action, tab[t].row, typed)
    /\ LET vs == ResolvedWrite(action, tab[t].row, typed)
       IN  IF vs = {} THEN UNCHANGED writes
           ELSE /\ Len(writes) < MaxWrite
                /\ writes' = Append(writes, [field |-> tab[t].row.field, values |-> vs, by |-> tab[t].id,
                       tags |-> {}, manual |-> FALSE, known |-> {}])
    /\ tab' = [tab EXCEPT ![t].at = "mark"]
    /\ UNCHANGED <<outside, begun, shadow, reviews, run>>

(* Marked whatever its status is by now.                                   *)
ResolveExtractionReview(t) ==
    /\ tab[t].at = "mark"
    /\ reviews' = [reviews EXCEPT ![tab[t].id].status = "resolved"]
    /\ tab' = [tab EXCEPT ![t] = Closed]
    /\ UNCHANGED <<outside, begun, shadow, writes, run>>

DismissExtractionReview(i) ==
    /\ i \in DOMAIN reviews /\ reviews[i].status # "dismissed"
    /\ reviews' = [reviews EXCEPT ![i].status = "dismissed"]
    /\ UNCHANGED <<outside, begun, shadow, writes, run, tab>>

-----------------------------------------------------------------------------
(* What happens around it.                                                 *)

inside == <<shadow, reviews, writes, run, tab, enabled, begun>>
Counted == steps < MaxStep /\ steps' = steps + 1

(* By hand, or by Holodex, which records what it wrote.                    *)
RenameFile(n) ==
    /\ Counted /\ n # name /\ name' = n
    /\ \/ UNCHANGED record
       \/ Template[n] # NoFit /\ record' = Template[n]
    /\ UNCHANGED <<inside, patterns, tag, manual, known, done>>
(* A bad pattern leaves the list as it was.                                *)
Reload(ps) ==
    /\ Counted /\ ps # patterns /\ patterns' = ps
    /\ UNCHANGED <<inside, name, record, tag, manual, known, done>>
Decide(k) ==
    /\ Counted
    /\ manual' = (manual \ {k}) \cup ({k} \ manual)
    /\ UNCHANGED <<inside, name, patterns, record, tag, known, done>>
EntityChange(v) ==
    /\ Counted
    /\ known' = (known \ {v}) \cup ({v} \ known)
    /\ UNCHANGED <<inside, name, patterns, record, tag, manual, done>>
(* The write queue's job, with the re-read that follows it; the writer has *)
(* no field "people" and leaves it unwritten.                              *)
Written ==
    /\ done < Len(writes) /\ done' = done + 1
    /\ LET f == writes[done + 1].field
       IN  tag' = IF WritebackField(f) = "people" THEN tag ELSE [tag EXCEPT ![f] = writes[done + 1].values]
    /\ UNCHANGED <<inside, name, patterns, record, manual, known, steps>>

Init ==
    /\ name \in Name /\ patterns \in {<<p>> : p \in Pattern} /\ record = NoFit
    /\ \E s \in Start : tag = s.tag /\ manual = s.manual /\ known = s.known
    /\ shadow = Empty /\ reviews = <<>> /\ writes = <<>> /\ done = 0
    /\ run = [r \in Run |-> Idle] /\ tab = [t \in Tab |-> Closed]
    /\ enabled \in BOOLEAN /\ begun = 0 /\ steps = 0

Next ==
    \/ TriggerAll
    \/ \E r \in Run : ExtractVideo(r) \/ Store(r) \/ Process(r) \/ AutoApply(r) \/ LoggedOnly(r) \/ Fail(r)
                        \/ UpsertExtractionReview(r)
    \/ \E t \in Tab : \/ \E i \in DOMAIN reviews : GetExtractionReview(t, i)
                      \/ \E a \in {"filename", "tag"} : ResolveReviewAction(t, a, {})
                      \/ \E s \in Entered : ResolveReviewAction(t, "manual", s)
                      \/ Refuse(t) \/ ResolveExtractionReview(t)
    \/ \E i \in DOMAIN reviews : DismissExtractionReview(i)
    \/ \E n \in Name : RenameFile(n)
    \/ \E ps \in {<<>>} \cup {<<p>> : p \in Pattern} : Reload(ps)
    \/ \E f \in Field : Decide(Mapped(f))
    \/ \E v \in Value : EntityChange(v)
    \/ Written

Spec == Init /\ [][Next]_vars

-----------------------------------------------------------------------------
Auto == {i \in DOMAIN writes : writes[i].by = 0}

(***************************************************************************)
(* A value written without asking never contradicts what the file said     *)
(* when the run read it: the tag was empty, the same, or nearly the same;  *)
(* and a name of one word with no tag behind it waits for the owner        *)
(* (confidence.go's weights against its thresholds, process.go's reading   *)
(* of the tags).  Stated of the fields the mapping has under the parsed    *)
(* key; the cast as shipped is not one of them.                              *)
(***************************************************************************)
AutoIsUncontested ==
    \A i \in Auto : LET w == writes[i] IN
        Mapped(w.field) = w.field =>
            IF w.field \in Entity THEN w.values \subseteq w.known
            ELSE /\ w.tags = {} \/ w.tags = w.values \/ <<w.values, w.tags>> \in Alike
                 /\ w.tags = {} => w.values \cap Short = {}

(***************************************************************************)
(* An answered row is history: no later run changes its values or opens it *)
(* again; what the name still says gets a row of its own                   *)
(* (repo/extraction_review.go's partial index).                            *)
(***************************************************************************)
AnsweredStays ==
    [][\A i \in DOMAIN reviews : reviews[i].status # "pending" =>
          reviews'[i].status # "pending" /\ reviews'[i].filename = reviews[i].filename /\ reviews'[i].tag = reviews[i].tag]_vars

(***************************************************************************)
(* A name Holodex wrote is not news: what it wrote for a field neither     *)
(* makes a row nor a write of that field, however the tags and patterns    *)
(* have changed since (orchestrate.go's dropEchoes).                       *)
(***************************************************************************)
EchoSilent ==
    [][\A r \in Run : run[r].at = "act" =>
          LET f == First(run[r].left)
          IN  f \in DOMAIN run[r].rec /\ run[r].rec[f] = run[r].fields[f] =>
                  reviews' = reviews /\ writes' = writes]_vars

==============================================================================
