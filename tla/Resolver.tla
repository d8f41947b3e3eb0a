------------------------------ MODULE Resolver ------------------------------
(***************************************************************************)
(* How one mapped field of an entity gets its value: internal/resolver.    *)
(* Everything here is a function of a context `c`, the inputs of one call: *)
(*                                                                         *)
(*   field     [multi, lower, witnessed, sources]: a merge or a replace    *)
(*             field, its casing, whether only the write ledger can say    *)
(*             what the file holds, and the sources in mapping order;      *)
(*   supply    what each source sends: its file tag, a provider's rows,    *)
(*             or an attached film;                                        *)
(*   dec       the standing decision, or NoDecision;                       *)
(*   add       the values the owner added, in order;                       *)
(*   suppress  the keys of the values the owner removed;                   *)
(*   fileFirst, trust   the two global settings;                           *)
(*   written   what the ledger says was last written, or Unwritten.        *)
(*                                                                         *)
(* A value is a record [key, caps]: two spellings of one value share the   *)
(* key that normKey compares by. Blank is a value that trims to nothing.   *)
(* A source is [ns, key]; ns is "file", a provider's name or a film's.     *)
(***************************************************************************)
EXTENDS Naturals, FiniteSets, SequencesExt

CONSTANTS
    FilmNs,     \* the namespaces "film:<id>"
    Split       \* the values with a separator in them, and their parts

Blank == [key |-> "", caps |-> FALSE]
Unwritten == [key |-> "unwritten", caps |-> FALSE]
NoDecision == [source |-> "none", manual |-> Blank]

(* The decision sources: the file, a literal, or a namespace. *)
Decision(source) == [source |-> source, manual |-> Blank]
Manual(v) == [source |-> "manual", manual |-> v]

(* The owner cleared the field: a literal with nothing in it. *)
IsCleared(dec) == dec.source = "manual" /\ dec.manual = Blank

IsBase(s) == s.ns = "file"
IsFilm(s) == s.ns \in FilmNs

Cased(f, v) == IF f.lower THEN [v EXCEPT !.caps = FALSE] ELSE v

(* The films attached to the video are sources no mapping declares. *)
Films(c) == {s \in DOMAIN c.supply : IsFilm(s)}

Filled(vals) == SelectSeq(vals, LAMBDA v : v # Blank)
FirstNonEmpty(vals) == IF Filled(vals) = <<>> THEN Blank ELSE Filled(vals)[1]
First(c, s) == FirstNonEmpty(c.supply[s])

Item(v, from) == [value |-> v, from |-> from]

-----------------------------------------------------------------------------
(* Undecided replace fields.                                               *)

(* The only film that has a value for this field, when there is just one. *)
SoleFilm(c) ==
    LET offering == {s \in Films(c) : First(c, s) # Blank}
    IN IF Cardinality(offering) = 1 THEN SetToSeq(offering) ELSE <<>>

TrustRank(c, ns) ==
    IF Contains(c.trust, ns) THEN CHOOSE i \in DOMAIN c.trust : c.trust[i] = ns
    ELSE Len(c.trust) + 1

ByTrust(c, srcs) ==
    FlattenSeq([i \in 1 .. Len(c.trust) + 1 |-> SelectSeq(srcs, LAMBDA s : TrustRank(c, s.ns) = i)])

OrderedSources(c) ==
    LET srcs == c.field.sources IN
    IF c.fileFirst
    THEN SelectSeq(srcs, IsBase) \o ByTrust(c, SelectSeq(srcs, LAMBDA s : ~IsBase(s)))
    ELSE srcs

(* The first value of each source competes; a removed or blank one drops   *)
(* its whole source out. What the owner added comes before any source.     *)
Precedence(c) ==
    LET added == SelectSeq(c.add, LAMBDA v : v # Blank /\ v.key \notin c.suppress)
        Heads(s) == c.supply[s] # <<>> /\ c.supply[s][1] # Blank /\ c.supply[s][1].key \notin c.suppress
        racing == SelectSeq(SoleFilm(c) \o OrderedSources(c), Heads)
    IN CASE added # <<>>  -> <<Item(Cased(c.field, added[1]), {"manual"})>>
         [] added = <<>> /\ racing # <<>> -> <<Item(Cased(c.field, c.supply[racing[1]][1]), {racing[1].ns})>>
         [] OTHER -> <<>>

-----------------------------------------------------------------------------
(* Decided replace fields.                                                 *)

Declared(c, ns) == SelectSeq(c.field.sources, LAMBDA s : s.ns = ns)

(* The first of these sources that has a value. *)
Best(c, srcs) ==
    LET with == SelectSeq(srcs, LAMBDA s : First(c, s) # Blank)
    IN IF with = <<>> THEN Blank ELSE First(c, with[1])

BaselineValue(c) == Best(c, Declared(c, "file"))

FilmValue(c, ns) == Best(c, SetToSeq({s \in Films(c) : s.ns = ns}))

DecidedValue(c) ==
    CASE c.dec.source = "manual"   -> c.dec.manual
      [] c.dec.source = "file"     -> BaselineValue(c)
      [] c.dec.source \in FilmNs   -> FilmValue(c, c.dec.source)
      [] OTHER                     -> Best(c, Declared(c, c.dec.source))

(* Mutant: the decided value keeps the source's own casing. *)
DecidedUncased(c) ==
    IF DecidedValue(c) = Blank THEN <<>> ELSE <<Item(DecidedValue(c), {c.dec.source})>>

(* A decision whose source has nothing shows nothing: there is no falling  *)
(* back, and the removals of the undecided field do not apply.             *)
Decided(c) ==
    IF DecidedValue(c) = Blank THEN <<>>
    ELSE <<Item(Cased(c.field, DecidedValue(c)), {c.dec.source})>>

-----------------------------------------------------------------------------
(* Merge fields.                                                           *)

(* A tag holds several values, a list with separators. *)
SplitMulti(v) == IF v \in DOMAIN Split THEN Split[v] ELSE <<v>>

Pairs(vals, ns) ==
    LET parts == FlattenSeq([i \in DOMAIN vals |-> SplitMulti(vals[i])])
    IN [i \in DOMAIN parts |-> [v |-> parts[i], ns |-> ns]]

BySource(c) ==
    FlattenSeq([i \in DOMAIN c.field.sources |-> Pairs(c.supply[c.field.sources[i]], c.field.sources[i].ns)])

(* One item per key, in the order first met, with everyone who sent it. *)
Merged(c) ==
    LET kept == SelectSeq(BySource(c) \o Pairs(c.add, "manual"), LAMBDA p : p.v # Blank /\ p.v.key \notin c.suppress)
        first == SelectSeq([i \in DOMAIN kept |-> i],
                           LAMBDA i : \A j \in 1 .. i - 1 : kept[j].v.key # kept[i].v.key)
    IN [n \in DOMAIN first |->
          Item(Cased(c.field, kept[first[n]].v),
               {kept[j].ns : j \in {j \in DOMAIN kept : kept[j].v.key = kept[first[n]].v.key}})]

(* The removals, each marked when nobody sends the value now. What the     *)
(* owner added is compared whole.                                          *)
Removed(c) ==
    LET sent == {p.v.key : p \in ToSet(BySource(c))} \cup {v.key : v \in ToSet(c.add)}
    IN {[key |-> k, notSent |-> k \notin sent] : k \in c.suppress}

-----------------------------------------------------------------------------
(* The field as the page gets it.                                          *)

Items(c) ==
    CASE c.field.multi -> Merged(c)
      [] ~c.field.multi /\ c.dec # NoDecision -> Decided(c)
      [] OTHER -> Precedence(c)

Values(c) == {Items(c)[i].value : i \in DOMAIN Items(c)}
Shown(c) == IF Items(c) = <<>> THEN Blank ELSE Items(c)[1].value

(* Where the value comes from: a merge field names the first source that   *)
(* sent anything, even if the owner removed all of it.                     *)
Winner(c) ==
    LET sending == SelectSeq(c.field.sources, LAMBDA s : c.supply[s] # <<>>) IN
    CASE Items(c) = <<>> -> "none"
      [] Items(c) # <<>> /\ ~c.field.multi -> CHOOSE ns \in Items(c)[1].from : TRUE
      [] OTHER -> IF sending = <<>> THEN "manual" ELSE sending[1].ns

(* What the owner may adopt: the file always, a provider or a film that    *)
(* has a value.                                                            *)
Candidates(c) ==
    {[source |-> "file", value |-> Cased(c.field, BaselineValue(c))]}
        \cup {[source |-> s.ns, value |-> Cased(c.field, First(c, SelectSeq(Declared(c, s.ns),
                                                              LAMBDA t : First(c, t) # Blank)[1]))] :
                 s \in {s \in ToSet(c.field.sources) : ~IsBase(s) /\ First(c, s) # Blank}}
        \cup {[source |-> s.ns, value |-> Cased(c.field, First(c, s))] :
                 s \in {s \in Films(c) : First(c, s) # Blank}}

(* The decision the page shows: the standing one, or the winner's. *)
Marker(c) ==
    CASE c.dec # NoDecision -> c.dec.source
      [] c.dec = NoDecision /\ Items(c) = <<>> -> "file"
      [] OTHER -> Winner(c)

(* Does the file hold the decided value? An undecided field is in sync by  *)
(* construction, except one a film decides.                                *)
InSync(c) ==
    LET declared == Declared(c, "file") # <<>>
        Holds(v) == IF Shown(c) = v THEN "yes" ELSE "no"
        fileHas == Cased(c.field, BaselineValue(c))
    IN CASE c.dec # NoDecision /\ c.field.witnessed ->
              IF c.written = Unwritten THEN "unknown" ELSE Holds(c.written)
         [] c.dec # NoDecision /\ ~c.field.witnessed ->
              IF declared THEN Holds(fileHas) ELSE "unknown"
         [] c.dec = NoDecision /\ Winner(c) \in FilmNs ->
              IF declared THEN Holds(fileHas) ELSE "unknown"
         [] OTHER -> "yes"

-----------------------------------------------------------------------------
(* What completeness reads off a resolved field.                           *)

(* The page keeps a field without a value only when it is decided or may   *)
(* be; a dropped field counts as missing just the same.                    *)
Listed(c) ==
    \/ Items(c) # <<>>
    \/ ~c.field.multi /\ (c.dec # NoDecision \/ \E s \in Films(c) : First(c, s) # Blank)
    \/ c.field.multi /\ c.suppress # {}

Tier(c) ==
    CASE Winner(c) = "none" -> "missing"
      [] Winner(c) \in {"file", "manual"} -> "curated"
      [] OTHER -> "provider"

=============================================================================
