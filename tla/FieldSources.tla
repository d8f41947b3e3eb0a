---------------------------- MODULE FieldSources ----------------------------
(***************************************************************************)
(* One field of one video and everyone who has a say in it: the file's     *)
(* tags, the matched providers, the films the video is attached to, the    *)
(* owner's standing decision (api/decisions.go), the owner's added and     *)
(* removed values (api/curation.go), and the write of the decided value    *)
(* back into the file (api/writeback.go), which a scan then reads again.   *)
(* What the field shows is Resolver applied to all of it, at every read.   *)
(***************************************************************************)
EXTENDS Resolver

CONSTANTS
    Field,      \* the shapes the mapping file may give the field
    Source,     \* every source some shape declares, and the films' own
    ValueOrder, \* the values, in the order the curation table is read
    Settings,   \* default source and trust order: [fileFirst, trust]
    Supply,     \* what a source may send
    MaxStep     \* bound: requests, scans, refreshes and writes together

Value == ToSet(ValueOrder)
Provider == {s.ns : s \in Source} \ ({"file"} \cup FilmNs)
NoJob == <<>>

VARIABLES
    field,      \* the mapping in force: [multi, lower, clearable, tag, sources]
    fileFirst, trust,       \* the settings, fixed at start
    supply,     \* what each source sends
    matched,    \* providers with rows and films with an attachment
    dec,        \* the standing decision
    add, suppress,          \* metadata_curation
    written,    \* the ledger's newest value for the field
    job,        \* a write on its way to the file: the value, or NoJob
    steps
vars == <<field, fileFirst, trust, supply, matched, dec, add, suppress, written, job, steps>>

(* A field nothing reads back from the file is witnessed by the ledger. *)
Witnessed(f) == f.tag \notin ToSet(f.sources)

Ctx == [field |-> [multi |-> field.multi, lower |-> field.lower,
                   witnessed |-> Witnessed(field), sources |-> field.sources],
        supply |-> supply, dec |-> dec, suppress |-> suppress,
        add |-> SelectSeq(ValueOrder, LAMBDA v : v \in add),
        fileFirst |-> fileFirst, trust |-> trust, written |-> written]

Init ==
    /\ field \in Field
    /\ \E set \in Settings : fileFirst = set.fileFirst /\ trust = set.trust
    /\ supply = [s \in Source |-> <<>>]
    /\ matched = {}
    /\ dec = NoDecision
    /\ add = {} /\ suppress = {}
    /\ written = Unwritten
    /\ job = NoJob
    /\ steps = 0

Counted == steps < MaxStep /\ steps' = steps + 1

-----------------------------------------------------------------------------
(* The sources.                                                            *)

(* A scan reads the file again, after someone else changed the tag. *)
Rescan(s, vals) ==
    /\ Counted /\ IsBase(s)
    /\ supply' = [supply EXCEPT ![s] = vals]
    /\ UNCHANGED <<field, fileFirst, trust, matched, dec, add, suppress, written, job>>

(* A refresh of a provider's match replaces its rows. *)
Enrich(s, vals) ==
    /\ Counted /\ s.ns \in Provider
    /\ supply' = [supply EXCEPT ![s] = vals]
    /\ matched' = matched \cup {s.ns}
    /\ UNCHANGED <<field, fileFirst, trust, dec, add, suppress, written, job>>

(* Dropping a match, or an attachment, leaves a decision for it standing. *)
Unmatch(ns) ==
    /\ Counted /\ ns \in matched
    /\ supply' = [s \in Source |-> IF s.ns = ns THEN <<>> ELSE supply[s]]
    /\ matched' = matched \ {ns}
    /\ UNCHANGED <<field, fileFirst, trust, dec, add, suppress, written, job>>

(* An attached film offers its name as the collection, and as the title    *)
(* when the file is the whole film.                                        *)
Attach(s, vals) ==
    /\ Counted /\ IsFilm(s)
    /\ supply' = [supply EXCEPT ![s] = vals]
    /\ matched' = matched \cup {s.ns}
    /\ UNCHANGED <<field, fileFirst, trust, dec, add, suppress, written, job>>

(* The mapping file was edited and is read again. *)
ReloadMappings ==
    /\ Counted
    /\ field' \in Field \ {field}
    /\ UNCHANGED <<fileFirst, trust, supply, matched, dec, add, suppress, written, job>>

-----------------------------------------------------------------------------
(* The owner.                                                              *)

(* A decision is for a replace field, and a provider must be matched when  *)
(* it is made.                                                             *)
SetFieldDecision(d) ==
    /\ Counted
    /\ ~field.multi
    /\ d.source \in Provider \cup FilmNs => d.source \in matched
    /\ IsCleared(d) => field.clearable
    /\ dec' = d
    /\ UNCHANGED <<field, fileFirst, trust, supply, matched, add, suppress, written, job>>

ClearFieldDecision ==
    /\ Counted
    /\ ~field.multi
    /\ dec' = NoDecision
    /\ UNCHANGED <<field, fileFirst, trust, supply, matched, add, suppress, written, job>>

(* One row per key and action: a second spelling replaces the first. *)
CurationAdd(v) ==
    /\ Counted
    /\ add' = {w \in add : w.key # v.key} \cup {v}
    /\ UNCHANGED <<field, fileFirst, trust, supply, matched, dec, suppress, written, job>>

CurationSuppress(v) ==
    /\ Counted
    /\ suppress' = suppress \cup {v.key}
    /\ UNCHANGED <<field, fileFirst, trust, supply, matched, dec, add, written, job>>

(* An add taken back, or a removal lifted. *)
ClearCuration(v, removal) ==
    /\ Counted
    /\ add' = IF removal THEN add ELSE {w \in add : w.key # v.key}
    /\ suppress' = IF removal THEN suppress \ {v.key} ELSE suppress
    /\ UNCHANGED <<field, fileFirst, trust, supply, matched, dec, written, job>>

-----------------------------------------------------------------------------
(* The write back.                                                         *)

(* The dialog's row: what the page shows, against what the file has. The   *)
(* ledger's verdict stands in for a file value only for what was decided.  *)
Matches ==
    \/ Shown(Ctx) = Cased(field, BaselineValue(Ctx))
    \/ dec # NoDecision /\ InSync(Ctx) = "yes"

(* A row is written when it is decided, differs from the file, and either  *)
(* has a value or is the deletion of a cleared field.                      *)
WritebackMedia ==
    /\ Counted
    /\ job = NoJob
    /\ ~field.multi /\ dec # NoDecision
    /\ ~Matches
    /\ Items(Ctx) # <<>> \/ IsCleared(dec)
    /\ job' = [value |-> Shown(Ctx)]
    /\ UNCHANGED <<field, fileFirst, trust, supply, matched, dec, add, suppress, written>>

(* The worker sets or deletes the tag, and notes it in the ledger; the     *)
(* re-index that follows reads the tag back.                               *)
JobLands ==
    /\ job # NoJob
    /\ job' = NoJob
    /\ written' = job.value
    /\ supply' = [s \in Source |->
                    CASE s # field.tag -> supply[s]
                      [] s = field.tag /\ job.value = Blank -> <<>>
                      [] OTHER -> <<job.value>>]
    /\ UNCHANGED <<field, fileFirst, trust, matched, dec, add, suppress, steps>>

JobFails ==
    /\ Counted
    /\ job # NoJob
    /\ job' = NoJob
    /\ UNCHANGED <<field, fileFirst, trust, supply, matched, dec, add, suppress, written>>

Next ==
    \/ \E s \in Source, vals \in Supply : Rescan(s, vals) \/ Enrich(s, vals) \/ Attach(s, vals)
    \/ \E ns \in Provider \cup FilmNs : Unmatch(ns)
    \/ ReloadMappings
    \/ \E ns \in Provider \cup FilmNs \cup {"file"} : SetFieldDecision(Decision(ns))
    \/ \E v \in Value \cup {Blank} : SetFieldDecision(Manual(v))
    \/ ClearFieldDecision
    \/ \E v \in Value : CurationAdd(v) \/ CurationSuppress(v)
    \/ \E v \in Value, removal \in BOOLEAN : ClearCuration(v, removal)
    \/ WritebackMedia \/ JobLands \/ JobFails

Spec == Init /\ [][Next]_vars

-----------------------------------------------------------------------------
(* Choosing a value the page offers shows that value, whichever source it  *)
(* comes from and however the field is cased: the offer and the decided    *)
(* value are computed by different code (replaceMarkers, resolveDecided).  *)
(* And pinning the source an undecided, uncurated field already names      *)
(* changes nothing.                                                        *)
AdoptIsExact ==
    ~field.multi =>
        /\ \A offer \in Candidates(Ctx) :
             offer.value # Blank => Shown([Ctx EXCEPT !.dec = Decision(offer.source)]) = offer.value
        /\ dec = NoDecision /\ add = {} /\ suppress = {} /\ Items(Ctx) # <<>> =>
             Shown([Ctx EXCEPT !.dec = Decision(Marker(Ctx))]) = Shown(Ctx)

Moved == {s.ns : s \in {s \in Source : supply'[s] # supply[s]}}

(* A scan, a refresh, an unmatch or a landed write moves only the fields   *)
(* that listen to it: a decided field stands still unless its own source   *)
(* moved, and an undecided one unless the winner of before or of after     *)
(* did. A film is left out, since the second one silences the first.       *)
StandsStill ==
    [][~UNCHANGED <<supply, written>> /\ ~field.multi /\ UNCHANGED <<field, dec, add, suppress>>
        /\ Shown(Ctx)' # Shown(Ctx) =>
        \/ dec # NoDecision /\ dec.source \in Moved
        \/ dec = NoDecision /\ ({Winner(Ctx), Winner(Ctx)'} \cup FilmNs) \cap Moved # {}]_vars

(* Another tag the mapping reads holds a value beside the written one. *)
Shadowed ==
    /\ ~Witnessed(field)
    /\ \E s \in ToSet(field.sources) : IsBase(s) /\ s # field.tag /\ supply[s] # <<>>

(* A write of the value the field still shows settles the field: once it   *)
(* landed and was read back, the page reads it as in sync and does not     *)
(* offer it again, casing, deletions and ledger-witnessed fields included. *)
WriteSettles ==
    [][JobLands /\ ~field.multi /\ dec # NoDecision /\ job.value = Shown(Ctx) /\ ~Shadowed =>
        InSync(Ctx)' = "yes"]_vars

(* The list of removed values tells which of them a lift would bring back: *)
(* one marked as not sent stays away, and another one returns.             *)
LiftWorks ==
    field.multi =>
        \A r \in Removed(Ctx) :
            r.notSent = (r.key \notin {v.key : v \in Values([Ctx EXCEPT !.suppress = @ \ {r.key}])})
=============================================================================
