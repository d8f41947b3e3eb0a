---------------------------- MODULE ResolvedStore ----------------------------
(***************************************************************************)
(* The two caches of what the resolver makes of each video: its score      *)
(* (entity_completeness) and its winning values (resolved_values), with    *)
(* the set of dirty videos that triggers feed on every write to an input,  *)
(* the drain that empties it under the write lock, the media page that     *)
(* heals a stale score, a reload of the mapping file, and the boot that    *)
(* compares a fingerprint of its inputs with the recorded one.             *)
(*                                                                         *)
(* A resolve reads the video's links and provider rows (link), the literal *)
(* of a manual decision (literal), its not-applicable marks (na), the tag  *)
(* aliases, the mapping and the trust order.  Which values come out is     *)
(* the Resolver module's matter: here a result is the inputs it was made   *)
(* from, so that a stale one shows.                                        *)
(***************************************************************************)
EXTENDS Naturals, FiniteSets

CONSTANTS
    Video,
    Mapping,    \* the contents the mapping file may have
    None,
    MaxStep     \* bound: owner's and scanner's writes, edits, reloads, drains, pages, restarts

NoneAssumption == None \notin Mapping

VARIABLES
    present, active,        \* the videos rows, and those listed
    link, literal, na,      \* each video's inputs
    alias,      \* the tag aliases
    file, mapping, trust,   \* the mapping file, the mapping in force, the trust order
    dirty,      \* completeness_dirty
    score,      \* entity_completeness
    index,      \* resolved_values
    signed,     \* videos.change_sig
    print,      \* the fingerprint the settings record
    boot,       \* this process: "start", "marked", "up"
    bootDrain,  \* TRUE while the boot drain runs: requests skip theirs
    drain,      \* what the drain that holds writeMu has left, or None
    made,       \* the result it computed and has not written, or None
    page,       \* a media page between its resolve and the end of its heal, or None
    reload,     \* TRUE between a reload's swap and its mark
    steps,
    late,       \* history: videos whose score a page wrote after it went stale
    unmarked,   \* history: videos whose values a tag alias or a trust order changed
    skipped,    \* history: videos whose scores and values a boot that marked nothing, or a
                \* mark that failed, left stale
    failed      \* history: a mark or its record failed, or the process ended before it

inputs == <<present, active, link, literal, na, alias>>
config == <<file, mapping, trust, print>>
stored == <<dirty, score, index, signed>>
threads == <<boot, bootDrain, drain, made, page, reload>>
hist == <<late, unmarked, skipped, failed>>
vars == <<inputs, config, stored, threads, steps, hist>>

Counted == steps < MaxStep /\ steps' = steps + 1
Unlocked == drain = None

(* What a resolve of v gives now. An unlisted video has neither. *)
Score(v) == IF v \in active THEN <<link[v], na[v], mapping>> ELSE None
Values(v) == IF v \in active THEN <<link[v], literal[v], alias, mapping, trust>> ELSE None

Init ==
    /\ present = Video /\ active = Video
    /\ link = [v \in Video |-> 0] /\ literal = [v \in Video |-> 0] /\ na = [v \in Video |-> FALSE]
    /\ alias = FALSE
    /\ file \in Mapping /\ mapping = file /\ trust = 0
    /\ dirty = Video
    /\ score = [v \in Video |-> None] /\ index = [v \in Video |-> None] /\ signed = [v \in Video |-> None]
    /\ print = None
    /\ boot = "start" /\ bootDrain = FALSE
    /\ drain = None /\ made = None /\ page = None /\ reload = FALSE
    /\ steps = 0
    /\ late = {} /\ unmarked = {} /\ skipped = {} /\ failed = FALSE

Up == boot = "up"

-----------------------------------------------------------------------------
(* The inputs. Every write takes writeMu, and the triggers mark the video  *)
(* in the same transaction.                                                *)

(* Mutant: the mark is dropped for a video that already has a score. *)
MarkedUnscored(vs) == dirty \cup {v \in vs : score[v] = None}

Marked(vs) == dirty \cup vs

Write(v) ==
    /\ Up /\ Counted /\ Unlocked /\ v \in present
    /\ dirty' = Marked({v})
    /\ UNCHANGED <<present, alias, config, score, index, signed, threads, hist>>

(* A link, a provider's row, a file tag or a curation. *)
LinkChanges(v) ==
    /\ Write(v)
    /\ link' = [link EXCEPT ![v] = 1 - @]
    /\ UNCHANGED <<active, literal, na>>

(* A manual decision whose text alone changes. *)
LiteralChanges(v) ==
    /\ Write(v)
    /\ literal' = [literal EXCEPT ![v] = 1 - @]
    /\ UNCHANGED <<active, link, na>>

SetFacetNotApplicable(v) ==
    /\ Write(v)
    /\ na' = [na EXCEPT ![v] = ~@]
    /\ UNCHANGED <<active, link, literal>>

(* The scan loses or finds the file, or the owner trashes or restores it. *)
ListedChanges(v) ==
    /\ Write(v)
    /\ active' = IF v \in active THEN active \ {v} ELSE active \cup {v}
    /\ UNCHANGED <<link, literal, na>>

(* A purge: the triggers of the delete drop every derived row. *)
Delete(v) ==
    /\ Up /\ Counted /\ Unlocked /\ v \in present \ active
    /\ present' = present \ {v}
    /\ dirty' = dirty \ {v}
    /\ score' = [score EXCEPT ![v] = None]
    /\ index' = [index EXCEPT ![v] = None]
    /\ signed' = [signed EXCEPT ![v] = None]
    /\ UNCHANGED <<active, link, literal, na, alias, config, threads, hist>>

(* A tag's alias changes which tag a genre names: the triggers of          *)
(* entity_aliases mark videos, people and studios, never a tag's videos.   *)
TagAliasChanges ==
    /\ Up /\ Counted /\ Unlocked
    /\ alias' = ~alias
    /\ unmarked' = unmarked \cup active
    /\ UNCHANGED <<present, active, link, literal, na, config, stored, threads, late, skipped, failed>>

(* An edit of a tag's parent or switch, or of the denylist, marks them all. *)
TagChanges ==
    /\ Up /\ Counted /\ Unlocked
    /\ \E ls \in [active -> 0 .. 1] : link' = [v \in Video |-> IF v \in active THEN ls[v] ELSE link[v]]
    /\ dirty' = Marked(present)
    /\ UNCHANGED <<present, active, literal, na, alias, config, score, index, signed, threads, hist>>

-----------------------------------------------------------------------------
(* The drain.                                                              *)

(* A list read by the owner, or one whose query or order needs the index.  *)
(* It reads the dirty set under the lock.                                  *)
DrainStarts ==
    /\ Up /\ Counted /\ Unlocked /\ ~bootDrain
    /\ dirty # {}
    /\ drain' = dirty
    /\ UNCHANGED <<inputs, config, stored, boot, bootDrain, made, page, reload, hist>>

DrainComputes(v) ==
    /\ drain # None /\ v \in drain /\ made = None
    /\ made' = [video |-> v, score |-> Score(v), values |-> Values(v)]
    /\ UNCHANGED <<inputs, config, stored, boot, bootDrain, drain, page, reload, steps, hist>>

CleanAfter(v) == dirty \ {v}

(* The end of a drain: the boot drain's flag drops with it. *)
Ends == drain' = None /\ bootDrain' = FALSE

(* One chunk: both caches, the stamp and the flags in one transaction. *)
DrainWrites ==
    /\ made # None
    /\ LET v == made.video IN
         /\ score' = [score EXCEPT ![v] = made.score]
         /\ index' = [index EXCEPT ![v] = made.values]
         /\ signed' = [signed EXCEPT ![v] = link[v]]
         /\ dirty' = CleanAfter(v)
         /\ late' = late \ {v} /\ unmarked' = unmarked \ {v}
         /\ skipped' = IF made.values = Values(v) THEN skipped \ {v} ELSE skipped
         /\ IF drain = {v} THEN Ends ELSE drain' = drain \ {v} /\ UNCHANGED bootDrain
    /\ made' = None
    /\ UNCHANGED <<inputs, config, boot, page, reload, steps, failed>>

(* A chunk that fails ends the drain; its videos and the rest stay dirty. *)
DrainFails ==
    /\ Counted /\ drain # None
    /\ Ends /\ made' = None
    /\ UNCHANGED <<inputs, config, stored, boot, page, reload, hist>>

-----------------------------------------------------------------------------
(* The media page computes live, outside the lock, then compares and heals *)
(* the stored score. It leaves the index and the dirty set alone.          *)

Open(v) ==
    /\ Up /\ Counted /\ page = None /\ v \in active
    /\ page' = [video |-> v, score |-> Score(v), differs |-> FALSE]
    /\ UNCHANGED <<inputs, config, stored, boot, bootDrain, drain, made, reload, hist>>

Compare ==
    /\ page # None /\ ~page.differs
    /\ page' = IF score[page.video] = page.score THEN None ELSE [page EXCEPT !.differs = TRUE]
    /\ UNCHANGED <<inputs, config, stored, boot, bootDrain, drain, made, reload, steps, hist>>

(* Mutant: the heal clears the flag as the drain does. *)
HealClears ==
    /\ page # None /\ page.differs /\ Unlocked
    /\ score' = [score EXCEPT ![page.video] = page.score]
    /\ late' = IF page.score # Score(page.video) THEN late \cup {page.video} ELSE late
    /\ dirty' = dirty \ {page.video}
    /\ page' = None
    /\ UNCHANGED <<inputs, config, index, signed, boot, bootDrain, drain, made, reload, steps, unmarked, skipped, failed>>

Heal ==
    /\ page # None /\ page.differs /\ Unlocked
    /\ score' = [score EXCEPT ![page.video] = page.score]
    /\ late' = IF page.score # Score(page.video) THEN late \cup {page.video} ELSE late
    /\ page' = None
    /\ UNCHANGED <<inputs, config, dirty, index, signed, boot, bootDrain, drain, made, reload, steps, unmarked, skipped, failed>>

-----------------------------------------------------------------------------
(* The configuration.                                                      *)

EditMappingFile ==
    /\ Counted
    /\ file' \in Mapping \ {file}
    /\ UNCHANGED <<inputs, mapping, trust, print, stored, threads, hist>>

(* The reload swaps the mapping at once and marks afterwards, under the    *)
(* lock: a drain that runs between them resolves with the new one.         *)
ReloadSwaps ==
    /\ Up /\ Counted /\ ~reload
    /\ mapping' = file
    /\ reload' = TRUE
    /\ UNCHANGED <<inputs, file, trust, print, stored, boot, bootDrain, drain, made, page, hist>>

ReloadMarks ==
    /\ reload /\ Unlocked
    /\ dirty' = Marked(present)
    /\ reload' = FALSE
    /\ UNCHANGED <<inputs, config, score, index, signed, boot, bootDrain, drain, made, page, steps, hist>>

(* A mark that fails leaves the old mapping's scores until the next boot. *)
ReloadFails ==
    /\ reload /\ Counted
    /\ reload' = FALSE
    /\ skipped' = skipped \cup active
    /\ failed' = TRUE
    /\ UNCHANGED <<inputs, config, stored, boot, bootDrain, drain, made, page, late, unmarked>>

(* The process ends anywhere and starts again, with the file as it is and  *)
(* perhaps another trust order. A transaction is whole or was never there. *)
Restart ==
    /\ Counted
    /\ mapping' = file
    /\ trust' \in {0, 1}
    /\ unmarked' = IF trust' # trust THEN unmarked \cup active ELSE unmarked
    /\ boot' = "start" /\ bootDrain' = FALSE
    /\ drain' = None /\ made' = None /\ page' = None /\ reload' = FALSE
    /\ failed' = (failed \/ reload)
    /\ UNCHANGED <<inputs, file, print, stored, late, skipped>>

(* The binary and the mapping file against the recorded fingerprint: the   *)
(* trust order is in neither.                                              *)
BootMarks ==
    /\ boot = "start" /\ print # mapping
    /\ dirty' = Marked(present)
    /\ \/ print' = mapping /\ UNCHANGED failed
       \/ print' = print /\ failed' = TRUE      \* the setting was not recorded
    /\ boot' = "marked"
    /\ UNCHANGED <<inputs, file, mapping, trust, score, index, signed, bootDrain, drain, made, page, reload,
                   steps, late, unmarked, skipped>>

(* Nothing changed, or the mark failed: the stored scores stand. *)
BootSkips ==
    /\ boot = "start"
    /\ IF print = mapping THEN UNCHANGED <<steps, failed>> ELSE Counted /\ failed' = TRUE
    /\ boot' = "marked"
    /\ skipped' = skipped \cup {v \in active : score[v] # Score(v) \/ index[v] # Values(v)}
    /\ UNCHANGED <<inputs, config, stored, bootDrain, drain, made, page, reload, late, unmarked>>

(* The drain off the request path, with its flag up before the server      *)
(* listens.                                                                *)
DrainCompletenessInBackground ==
    /\ boot = "marked"
    /\ boot' = "up"
    /\ IF dirty = {} THEN UNCHANGED <<bootDrain, drain>> ELSE bootDrain' = TRUE /\ drain' = dirty
    /\ UNCHANGED <<inputs, config, stored, made, page, reload, steps, hist>>

Next ==
    \/ \E v \in Video : \/ LinkChanges(v) \/ LiteralChanges(v) \/ SetFacetNotApplicable(v)
                        \/ ListedChanges(v) \/ Delete(v) \/ DrainComputes(v) \/ Open(v)
    \/ TagAliasChanges \/ TagChanges
    \/ DrainStarts \/ DrainWrites \/ DrainFails
    \/ Compare \/ Heal
    \/ EditMappingFile \/ ReloadSwaps \/ ReloadMarks \/ ReloadFails
    \/ Restart \/ BootMarks \/ BootSkips \/ DrainCompletenessInBackground

Spec == Init /\ [][Next]_vars

-----------------------------------------------------------------------------
(* A video that is not waiting for a drain has the score a resolve would   *)
(* give it now, whatever raced: else a list ranks it by an old one. The    *)
(* page's heal may come after the drain it raced with (late), a reload is  *)
(* between its swap and its mark, or nothing marked the video (skipped).   *)
StoreTruth ==
    Up /\ ~reload => \A v \in present \ (dirty \cup late \cup skipped) : score[v] = Score(v)

(* The same for the index and the change stamp, which no page heals: a     *)
(* query must match the winning value only.                                *)
IndexTruth ==
    Up /\ ~reload => \A v \in present \ (dirty \cup unmarked \cup skipped) :
        index[v] = Values(v) /\ (v \in active => signed[v] = link[v])

=============================================================================
