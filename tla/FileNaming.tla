----------------------------- MODULE FileNaming ------------------------------
(***************************************************************************)
(* The names Holodex gives files (internal/rename name.go, template.go,    *)
(* plan.go, collide.go, readback.go; api/rename.go): a template filled     *)
(* from a video's values, the reading of such a name back into values, and *)
(* the plan that settles the names of one folder against each other.  How  *)
(* the files are then moved is FileRename's.                               *)
(*                                                                         *)
(* A stem is a sequence of symbols: letters, and a whole marker such as    *)
(* {edition-x} or {hx-1}, which no value can spell (braces are removed     *)
(* from values and refused in templates).  The extension never changes and *)
(* is left out.                                                            *)
(***************************************************************************)
EXTENDS Naturals, FiniteSets, SequencesExt, FiniteSetsExt

CONSTANTS
    Video,      \* ids
    Forbidden,  \* symbols no value keeps
    Lower,      \* [symbol -> symbol]: case folding
    Mark,       \* [edition value -> its marker]
    Tag,        \* [Video -> the marker of its id, {hx-<id>}]
    Reserved,   \* stems Windows reserves
    MaxName,    \* the longest stem
    TemplateLists, Delimiters, ValueSets, HandNames,    \* what the owner may set, and what a file may be called by hand
    First,      \* [Video -> the stem of its file at first]
    None,
    MaxStep     \* bound

Space == " "
Plain == {"{title}", "{studio}", "{people}"}
Token == Plain \cup {"{edition}"}

VARIABLES
    list,       \* the template list
    delimiter,  \* between the names of {people}
    values,     \* [Video -> [Token -> its resolved values]]
    cur,        \* [Video -> the stem of its file]
    last,       \* [Video -> its last done rename, or None]
    locked, held,
    foreign,    \* stems of files no video has
    steps,
    fresh       \* history: the videos whose plan has just been carried out

vars == <<list, delimiter, values, cur, last, locked, held, foreign, steps, fresh>>

FoldKey(n) == [i \in DOMAIN n |-> IF n[i] \in DOMAIN Lower THEN Lower[n[i]] ELSE n[i]]

-----------------------------------------------------------------------------
(* Values.                                                                 *)

RECURSIVE TrimLeft(_), TrimRight(_)
TrimLeft(s) == IF s # <<>> /\ Head(s) = Space THEN TrimLeft(Tail(s)) ELSE s
TrimRight(s) == IF s # <<>> /\ Last(s) = Space THEN TrimRight(Front(s)) ELSE s
Trim(s) == TrimLeft(TrimRight(s))

RECURSIVE Squeezed(_)
Squeezed(s) ==
    IF Len(s) < 2 THEN s
    ELSE IF s[1] = Space /\ s[2] = Space THEN Squeezed(Tail(s)) ELSE <<s[1]>> \o Squeezed(Tail(s))
SanitizeValue(s) == Trim(Squeezed(SelectSeq(s, LAMBDA c : c \notin Forbidden)))
sanitizeAll(raw) == SelectSeq([i \in DOMAIN raw |-> SanitizeValue(raw[i])], LAMBDA v : v # <<>>)

(* The cast whole, the first of anything else.                             *)
tokenValues(tok, raw) == IF tok = "{people}" \/ raw = <<>> THEN raw ELSE <<raw[1]>>
Clean(vals) == [tok \in Token |-> sanitizeAll(tokenValues(tok, vals[tok]))]

-----------------------------------------------------------------------------
(* Templates: [text |-> symbols and tokens, optional |-> tokens].          *)

FirstToken(t) == IF \E i \in DOMAIN t : t[i] \in Token THEN Min({i \in DOMAIN t : t[i] \in Token}) ELSE 0
UpToSpace(s) ==     \* kept before a dropped token: through its last space
    LET at == {i \in DOMAIN s : s[i] = Space} IN IF at = {} THEN <<>> ELSE SubSeq(s, 1, Max(at))
FromSpace(s) ==     \* kept after it: from its first space
    LET at == {i \in DOMAIN s : s[i] = Space} IN IF at = {} THEN <<>> ELSE SubSeq(s, Min(at), Len(s))

RECURSIVE Dropped(_, _, _)
Dropped(out, t, drop) ==
    LET i == FirstToken(t)
        lit == SubSeq(t, 1, i - 1)
        rest == SubSeq(t, i + 1, Len(t))
        j == FirstToken(rest)
        next == IF j = 0 THEN rest ELSE SubSeq(rest, 1, j - 1)
        kept == out \o UpToSpace(lit)
        after == IF kept = <<>> \/ Last(kept) = Space THEN TrimLeft(FromSpace(next)) ELSE FromSpace(next)
    IN  IF i = 0 THEN out \o t
        ELSE IF t[i] \notin drop THEN Dropped(out \o lit \o <<t[i]>>, rest, drop)
        ELSE Dropped(kept, after \o SubSeq(rest, Len(next) + 1, Len(rest)), drop)
dropOptional(t, drop) == Trim(Dropped(<<>>, t, drop))

(* The token sets a template may drop, fewest first, in written order.     *)
Written(S, t) == SetToSortSeq(S, LAMBDA a, b : SelectInSeq(t, LAMBDA c : c = a) < SelectInSeq(t, LAMBDA c : c = b))
Before(S, R, t) ==
    LET s == Written(S, t)  r == Written(R, t)
        at(x, i) == SelectInSeq(t, LAMBDA c : c = x[i])
    IN  \/ Len(s) < Len(r)
        \/ Len(s) = Len(r) /\ \E i \in DOMAIN s : at(s, i) < at(r, i) /\ \A k \in 1 .. i - 1 : s[k] = r[k]
dropSets(t) == SetToSortSeq(SUBSET t.optional, LAMBDA S, R : Before(S, R, t.text))
Template == UNION {Range(ts) : ts \in TemplateLists}
Variants == [t \in Template |-> LET ds == dropSets(t) IN [k \in DOMAIN ds |-> dropOptional(t.text, ds[k])]]

RECURSIVE Joined(_, _)
Joined(vs, d) == IF Len(vs) = 1 THEN vs[1] ELSE vs[1] \o d \o Joined(Tail(vs), d)

Tokens(text) == Range(text) \cap Token
Fits(text, vals) == \A tok \in Tokens(text) : vals[tok] # <<>>
RECURSIVE render(_, _, _)
render(text, vals, d) ==
    IF text = <<>> THEN <<>>
    ELSE (IF Head(text) = "{people}" THEN Joined(vals["{people}"], d)
          ELSE IF Head(text) = "{edition}" THEN <<Mark[vals["{edition}"][1]]>>
          ELSE IF Head(text) \in Token THEN vals[Head(text)][1]
          ELSE <<Head(text)>>) \o render(Tail(text), vals, d)

-----------------------------------------------------------------------------
(* Reading back.                                                           *)

Markers == {Mark[e] : e \in DOMAIN Mark}
(* The first marker goes, and the space around it closes to one.           *)
LiftMarkers(stem) ==
    LET at == {i \in DOMAIN stem : stem[i] \in Markers}
        i == Min(at)
    IN  IF at = {} THEN stem
        ELSE Trim(TrimRight(SubSeq(stem, 1, i - 1)) \o <<Space>> \o TrimLeft(SubSeq(stem, i + 1, Len(stem))))
Lifted(stem) ==
    LET at == {i \in DOMAIN stem : stem[i] \in Markers}
    IN  IF at = {} THEN <<>> ELSE <<CHOOSE e \in DOMAIN Mark : Mark[e] = stem[Min(at)]>>

(* The pattern of a variant, each token taking as little as it can.        *)
RECURSIVE Match(_, _), Take(_, _, _), OrMore(_, _, _, _)
Ahead(x, r) == IF r = None THEN None ELSE <<x>> \o r
Match(text, s) ==
    IF text = <<>> THEN IF s = <<>> THEN <<>> ELSE None
    ELSE IF Head(text) \in Token THEN Take(text, s, 1)
    ELSE IF s # <<>> /\ Head(s) = Head(text) THEN Match(Tail(text), Tail(s)) ELSE None
Take(text, s, k) ==
    IF k > Len(s) THEN None
    ELSE OrMore(Ahead(SubSeq(s, 1, k), Match(Tail(text), SubSeq(s, k + 1, Len(s)))), text, s, k)
OrMore(r, text, s, k) == IF r # None THEN r ELSE Take(text, s, k + 1)

RECURSIVE splitValues(_, _)
splitValues(s, d) ==
    LET at == {i \in 1 .. Len(s) - Len(d) + 1 : SubSeq(s, i, i + Len(d) - 1) = d}
    IN  IF at = {} THEN <<Trim(s)>>
        ELSE <<Trim(SubSeq(s, 1, Min(at) - 1))>> \o splitValues(SubSeq(s, Min(at) + Len(d), Len(s)), d)

Nothing == [tok \in Token |-> <<>>]
Captured(caps, toks, stem, d) ==
    LET Got(tok) == Trim(caps[SelectInSeq(toks, LAMBDA x : x = tok)])
    IN  IF caps = None THEN None
        ELSE [tok \in Token |->
                IF tok = "{edition}" THEN Lifted(stem)
                ELSE IF tok \notin Range(toks) \/ Got(tok) = <<>> THEN <<>>
                ELSE IF tok = "{people}" THEN SelectSeq(splitValues(Got(tok), d), LAMBDA v : v # <<>>) ELSE <<Got(tok)>>]
ReadPattern(pat, stem, d) ==
    Captured(Match(pat, LiftMarkers(stem)), SelectSeq(pat, LAMBDA c : c \in Token), stem, d)
readVariant(text, stem, d) ==
    ReadPattern(LiftMarkers([i \in DOMAIN text |-> IF text[i] = "{edition}" THEN CHOOSE m \in Markers : TRUE ELSE text[i]]),
                stem, d)

RECURSIVE FirstRead(_, _, _), OrNext(_, _, _, _)
FirstRead(texts, stem, d) ==
    IF texts = <<>> THEN None ELSE OrNext(readVariant(Head(texts), stem, d), texts, stem, d)
OrNext(got, texts, stem, d) == IF got # None THEN got ELSE FirstRead(Tail(texts), stem, d)

StripDisambiguator(stem) ==
    IF stem # <<>> /\ Last(stem) \in {Tag[v] : v \in Video} THEN TrimRight(Front(stem)) ELSE stem
ReadBack(ts, stem, d) == FirstRead(FlattenSeq([i \in DOMAIN ts |-> Variants[ts[i]]]), StripDisambiguator(stem), d)

(* With the template that wrote it, then the current list.                 *)
Recorded(v) == ReadBack(<<last[v].template>> \o list, cur[v], delimiter)

-----------------------------------------------------------------------------
(* One video's name: [stem, template, written], or why it has none.        *)

Refused(why) == [reason |-> why, stem |-> <<>>]
CheckName(stem) == stem # <<>> /\ FoldKey(stem) \notin Reserved /\ Len(stem) <= MaxName

ReadsBack(ts, stem, d, written) == ReadBack(ts, stem, d) = written

Checked(ts, t, stem, d, written) ==
    IF ~CheckName(stem) THEN Refused("bad-name")
    ELSE IF ~ReadsBack(ts, stem, d, written) THEN Refused("wont-read-back")
    ELSE [reason |-> "", stem |-> stem, template |-> t, written |-> written]
BuildFrom(ts, clean, d) ==
    LET texts(i) == {k \in DOMAIN Variants[ts[i]] : Fits(Variants[ts[i]][k], clean)}
        i == Min({j \in DOMAIN ts : texts(j) # {}})
        text == Variants[ts[i]][Min(texts(i))]
    IN  IF \A j \in DOMAIN ts : texts(j) = {} THEN Refused("no-template")
        ELSE Checked(ts, ts[i], render(text, clean, d), d,
                     [tok \in Token |-> IF tok \in Tokens(text) THEN clean[tok] ELSE <<>>])
Build(ts, vals, d) == BuildFrom(ts, Clean(vals), d)

-----------------------------------------------------------------------------
(* The plan.                                                               *)

Disambiguate(stem, v) == stem \o <<Space, Tag[v]>>
Holder(key, v, moving) ==
    LET us == {u \in Video \ ({v} \cup moving) : FoldKey(cur[u]) = key} IN IF us = {} THEN 0 ELSE Min(us)
Untracked(key) == key \in {FoldKey(n) : n \in foreign} /\ \A u \in Video : FoldKey(cur[u]) # key

Clash == [stem |-> <<>>, reason |-> "clash"]
To(stem) == [stem |-> stem, reason |-> ""]
Second(v, desired, moving, name) ==
    IF ~CheckName(name) THEN Refused("bad-name")
    ELSE IF FoldKey(name) # FoldKey(cur[v]) /\ (Untracked(FoldKey(name)) \/ Holder(FoldKey(name), v, moving) # 0) THEN Clash
    ELSE To(name)
Outcome(v, desired, moving, claimed) ==
    LET key == FoldKey(desired[v])
    IN  IF key = FoldKey(cur[v]) THEN To(desired[v])    \* a case-only change is its own name
        ELSE IF Untracked(key) THEN Clash
        ELSE IF Holder(key, v, moving) = 0 /\ key \notin claimed THEN To(desired[v])
        ELSE Second(v, desired, moving, Disambiguate(desired[v], v))

(* The wants in id order, each against the claims of those before it.      *)
RECURSIVE planPass(_, _, _, _), AfterOne(_, _, _, _, _, _)
planPass(wants, desired, moving, claimed) ==
    IF wants = {} THEN <<>>
    ELSE AfterOne(Min(wants), Outcome(Min(wants), desired, moving, claimed), wants, desired, moving, claimed)
AfterOne(v, o, wants, desired, moving, claimed) ==
    (v :> o) @@ planPass(wants \ {v}, desired, moving,
        IF o = To(desired[v]) /\ FoldKey(desired[v]) # FoldKey(cur[v]) THEN claimed \cup {FoldKey(desired[v])} ELSE claimed)

Stays(o, v) == o.reason # "" \/ o.stem = cur[v]
(* Mutant: one pass: a video that turns out to stay still counts as gone.  *)
OnePass(out, wants, desired, moving) == out
RECURSIVE Settled(_, _, _, _)
Settled(out, wants, desired, moving) ==
    IF \A v \in moving : ~Stays(out[v], v) THEN out
    ELSE Settled(planPass(wants, desired, {v \in moving : ~Stays(out[v], v)}, {}), wants, desired,
                 {v \in moving : ~Stays(out[v], v)})
PlanFolder(wants, desired) == Settled(planPass(wants, desired, wants, {}), wants, desired, wants)

Rows(built, out) ==
    [v \in {u \in DOMAIN out : ~Stays(out[u], u)} |-> [name |-> out[v].stem, template |-> built[v].template,
                                                       written |-> built[v].written, delimiter |-> delimiter]]
Wanting(built, only) == {v \in only : v \notin held \cup locked /\ built[v].reason = "" /\ built[v].stem # cur[v]}
Planned(built, only) ==
    Rows(built, PlanFolder(Wanting(built, only), [v \in Wanting(built, only) |-> built[v].stem]))
Plan(only) == Planned([v \in only |-> Build(list, values[v], delimiter)], only)

-----------------------------------------------------------------------------
Counted == steps < MaxStep /\ steps' = steps + 1 /\ fresh' = {}

(* The plan of the chosen videos applied: FileRename's jobs, all of them   *)
(* done.                                                                   *)
Carried(plan) ==
    /\ DOMAIN plan # {}
    /\ last' = plan @@ last
    /\ cur' = [v \in DOMAIN plan |-> plan[v].name] @@ cur
Apply(only) ==
    /\ steps < MaxStep /\ steps' = steps + 1 /\ fresh' = only
    /\ Carried(Plan(only))
    /\ UNCHANGED <<list, delimiter, values, locked, held, foreign>>

SaveTemplates(ts) ==
    /\ Counted /\ ts # list /\ list' = ts
    /\ UNCHANGED <<delimiter, values, cur, last, locked, held, foreign>>
ReloadPatterns(d) ==
    /\ Counted /\ d # delimiter /\ delimiter' = d
    /\ UNCHANGED <<list, values, cur, last, locked, held, foreign>>
Edit(v, vals) ==
    /\ Counted /\ vals # values[v] /\ values' = [values EXCEPT ![v] = vals]
    /\ UNCHANGED <<list, delimiter, cur, last, locked, held, foreign>>
setNameLock(v, lock) ==
    /\ Counted /\ locked' = IF lock THEN locked \cup {v} ELSE locked \ {v}
    /\ UNCHANGED <<list, delimiter, values, cur, last, held, foreign>>
(* The video's original is being held beside it, or let go.                *)
Hold(v, on) ==
    /\ Counted /\ held' = IF on THEN held \cup {v} ELSE held \ {v}
    /\ UNCHANGED <<list, delimiter, values, cur, last, locked, foreign>>
Free(n) == \A m \in foreign \cup {cur[v] : v \in Video} : FoldKey(m) # FoldKey(n)
(* A scan finds the file under a name its owner gave it: one that Holodex  *)
(* had named is locked.                                                    *)
HandRename(v, n) ==
    /\ Counted /\ Free(n) /\ cur' = [cur EXCEPT ![v] = n]
    /\ locked' = IF last[v] # None /\ last[v].name = cur[v] THEN locked \cup {v} ELSE locked
    /\ UNCHANGED <<list, delimiter, values, last, held, foreign>>
Drop(n) ==
    /\ Counted /\ Free(n) /\ foreign' = foreign \cup {n}
    /\ UNCHANGED <<list, delimiter, values, cur, last, locked, held>>

Init ==
    /\ list \in TemplateLists /\ delimiter \in Delimiters
    /\ values \in [Video -> ValueSets]
    /\ cur = First
    /\ last = [v \in Video |-> None]
    /\ locked = {} /\ held = {} /\ foreign = {} /\ steps = 0 /\ fresh = {}

Next ==
    \/ \E only \in SUBSET Video : Apply(only)
    \/ \E ts \in TemplateLists : SaveTemplates(ts)
    \/ \E d \in Delimiters : ReloadPatterns(d)
    \/ \E v \in Video : \/ \E vals \in ValueSets : Edit(v, vals)
                        \/ \E n \in HandNames : HandRename(v, n)
                        \/ setNameLock(v, v \notin locked) \/ Hold(v, v \notin held)
    \/ \E n \in HandNames : Drop(n)

Spec == Init /\ [][Next]_vars

-----------------------------------------------------------------------------
(***************************************************************************)
(* However the wants of a folder cross, no plan gives two files names the  *)
(* disk may take for one: not two videos', not one video's and a foreign   *)
(* file's (collide.go).                                                    *)
(***************************************************************************)
NamesApart ==
    fresh # {} => /\ \A v, u \in Video : FoldKey(cur[v]) = FoldKey(cur[u]) => v = u
                  /\ \A v \in Video, n \in foreign : FoldKey(cur[v]) # FoldKey(n)

(***************************************************************************)
(* A plan that was carried out leaves nothing of its videos to rename: no  *)
(* two of them trade a name back and forth from one plan to the next       *)
(* (collide.go, "planning twice gives the same plan").                     *)
(***************************************************************************)
SecondPlanRests == DOMAIN Plan(fresh) = {}

(***************************************************************************)
(* A name Holodex wrote and nobody changed reads back as exactly what it   *)
(* recorded, whatever the template list has become since, so that it is    *)
(* never taken for news (readback.go).  While the delimiter is the one it  *)
(* was written with: the record does not keep it.                          *)
(***************************************************************************)
EchoHolds ==
    \A v \in Video : last[v] # None /\ cur[v] = last[v].name /\ last[v].delimiter = delimiter =>
        Recorded(v) = last[v].written
==============================================================================
