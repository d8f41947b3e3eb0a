---------------------------- MODULE Fields_proofs ----------------------------
(***************************************************************************)
(* What is kept of the values a video shows is true: the caches of keys    *)
(* and claims (FieldKeys), the stored scores and values (ResolvedStore),   *)
(* the links to studio and people (VideoLinks) and the books of tag writes *)
(* (TagWrite); for every set of keys, fields, pages, videos, mappings,     *)
(* studios, people, slots and tags, and every number of jobs.              *)
(***************************************************************************)
EXTENDS MCFields, TLAPS

-----------------------------------------------------------------------------
(* The caches of promotions and claims.                                    *)

\* Between a commit and the drop that follows it a cache may be old: which
\* drops are still to come is what keeps CachesTrue through a write.
CacheInv ==
    /\ writer \subseteq {"claims", "promotions"}
    /\ "promotions" \in writer \cup raced \/ CacheTrue(pcache, promos)
    /\ "claims" \in writer \cup raced \/ CacheTrue(ccache, claims)

LEMMA CacheInit == Init => CacheInv
BY DEF Init, CacheInv, CacheTrue

LEMMA CacheNext == CacheInv /\ [Next]_vars => CacheInv'
<1> SUFFICES ASSUME CacheInv, [Next]_vars PROVE CacheInv'
  OBVIOUS
<1> USE DEF CacheInv, CacheTrue
<1>1. ASSUME NEW r \in Reader, \/ \E claim \in {None} \cup (Source \X Key) : Begin(r, claim)
                                \/ QueryPromotions(r) \/ BeginClaims(r) \/ QueryClaims(r)
      PROVE  CacheInv'
  BY <1>1 DEF Begin, QueryPromotions, BeginClaims, QueryClaims, tables
\* A request that stores what is no longer the table is on record.
<1>2. ASSUME NEW r \in Reader, StorePromotions(r) \/ StoreClaims(r) PROVE CacheInv'
  BY <1>2 DEF StorePromotions, StoreClaims, tables
<1>3. ASSUME NEW key \in Key, SetPromotion(key) \/ ClearPromotion(key) PROVE CacheInv'
  BY <1>3 DEF SetPromotion, ClearPromotion, Counted
<1>4. ASSUME NEW r \in Reader, SetClaim(r) PROVE CacheInv'
  BY <1>4 DEF SetClaim, Counted
<1>5. ASSUME NEW s \in Source, ClearClaim(s) \/ Enrich(s) PROVE CacheInv'
  BY <1>5 DEF ClearClaim, Enrich, Counted
<1>6. ASSUME NEW p, DeleteEnrichment(p) PROVE CacheInv'
  BY <1>6 DEF DeleteEnrichment, Counted
<1>7. CASE DropClaims
  BY <1>7 DEF DropClaims
<1>8. CASE DropPromotions
  BY <1>8 DEF DropPromotions
<1>9. CASE UNCHANGED vars
  BY <1>9 DEF vars
<1> QED
  BY <1>1, <1>2, <1>3, <1>4, <1>5, <1>6, <1>7, <1>8, <1>9 DEF Next

\* Outside a write a filled cache is its table, unless a page stored what it
\* had queried before a commit.
THEOREM Caches == Spec => []CachesTrue
<1>1. CacheInv => CachesTrue
  BY DEF CacheInv, CachesTrue
<1> QED
  BY <1>1, CacheInit, CacheNext, PTL DEF Spec

-----------------------------------------------------------------------------
(* The stored scores and values.                                           *)

\* What a resolve of v gives under the mapping m.
ScoreUnder(v, m) == IF v \in active THEN <<link[v], na[v], m>> ELSE None
ValuesUnder(v, m) == IF v \in active THEN <<link[v], literal[v], alias, m, order>> ELSE None

\* A mark is still to come: the boot has not compared its fingerprints, or a
\* reload has swapped the mapping and not marked.  No mark tells an unlisted video.
Owed(v) == v \in active /\ (boot = "start" \/ reload)

StoreShape ==
    /\ active \subseteq present /\ present \subseteq Video
    /\ mapFile \in Mapping /\ mapping \in Mapping
    /\ score = [v \in Video |-> score[v]] /\ index = [v \in Video |-> index[v]]
    /\ signed = [v \in Video |-> signed[v]]
    /\ link = [v \in Video |-> link[v]] /\ literal = [v \in Video |-> literal[v]]
    /\ na = [v \in Video |-> na[v]]

ScoresTrue == \A v \in present \ (dirty \cup late \cup skipped) : score[v] = Store!Score(v) \/ Owed(v)
ValuesTrue == \A v \in present \ (dirty \cup unmarked \cup skipped) : index[v] = Store!Values(v) \/ Owed(v)
StampsTrue == \A v \in present \ dirty : signed[v] = link[v]

\* What the drain has computed is of the inputs as they are, for the lock is
\* held; only the mapping may have moved under it, and then a mark is to come or
\* was refused.
ResultTrue == made # None =>
    /\ drain # None /\ made.video \in Video
    /\ \E m \in Mapping :
         /\ made.score = ScoreUnder(made.video, m) /\ made.values = ValuesUnder(made.video, m)
         /\ m = mapping \/ reload \/ made.video \in skipped \/ made.video \notin active

\* No drain runs before the boot has started its own.
Idle == boot # "up" => drain = None /\ made = None

StoreInv == Idle /\ StoreShape /\ ScoresTrue /\ ValuesTrue /\ StampsTrue /\ ResultTrue

LEMMA StoreInit == Store!Init => StoreInv
BY DEF Store!Init, StoreInv, Idle, StoreShape, ScoresTrue, ValuesTrue, StampsTrue, ResultTrue, Owed

LEMMA StoreNext == StoreInv /\ [Store!Next]_(Store!vars) => StoreInv'
<1> SUFFICES ASSUME StoreInv, [Store!Next]_(Store!vars) PROVE StoreInv'
  OBVIOUS
<1> USE DEF StoreInv, Idle, Owed, Store!Score, Store!Values, ScoreUnder, ValuesUnder
<1>a. Idle /\ StoreShape /\ ScoresTrue /\ ValuesTrue /\ StampsTrue /\ ResultTrue
  OBVIOUS
\* A write to an input holds the lock and marks its video.
<1>1. ASSUME NEW v \in Video, Store!LinkChanges(v) \/ Store!LiteralChanges(v) \/ Store!SetFacetNotApplicable(v)
                               \/ Store!ListedChanges(v)
      PROVE  StoreInv'
  <2>1. /\ Store!Up /\ drain = None /\ v \in present /\ dirty' = dirty \cup {v}
        /\ UNCHANGED <<present, alias, Store!config, score, index, signed, Store!threads, Store!hist>>
    BY <1>1 DEF Store!LinkChanges, Store!LiteralChanges, Store!SetFacetNotApplicable, Store!ListedChanges,
                Store!Write, Store!Unlocked, Store!Marked
  <2>2. /\ \A w \in Video \ {v} : link'[w] = link[w] /\ literal'[w] = literal[w] /\ na'[w] = na[w]
        /\ \A w \in Video \ {v} : w \in active' <=> w \in active
        /\ link' = [w \in Video |-> link'[w]] /\ literal' = [w \in Video |-> literal'[w]]
        /\ na' = [w \in Video |-> na'[w]]
        /\ active' \subseteq present
    BY <1>1, <1>a, <2>1 DEF Store!LinkChanges, Store!LiteralChanges, Store!SetFacetNotApplicable, Store!ListedChanges,
                      StoreShape
  <2>3. StoreShape'
    BY <1>a, <2>1, <2>2 DEF StoreShape, Store!config
  <2>4. ScoresTrue' /\ ValuesTrue' /\ StampsTrue'
    BY <1>a, <2>1, <2>2 DEF StoreShape, ScoresTrue, ValuesTrue, StampsTrue, Store!config, Store!threads, Store!hist
  <2>5. ResultTrue'
    BY <1>a, <2>1 DEF ResultTrue, Store!threads
  <2>6. Idle'
    BY <1>a, <2>1 DEF Store!threads
  <2> QED BY <2>3, <2>4, <2>5, <2>6
<1>2. ASSUME NEW v \in Video, Store!Delete(v) PROVE StoreInv'
  BY <1>a, <1>2 DEF Store!Delete, Store!Unlocked, Store!config, Store!threads, Store!hist,
                    StoreShape, ScoresTrue, ValuesTrue, StampsTrue, ResultTrue
<1>3. ASSUME NEW v \in Video, Store!DrainComputes(v) PROVE StoreInv'
  <2>1. ResultTrue' /\ Idle'
    BY <1>a, <1>3 DEF Store!DrainComputes, Store!config, Store!hist, Store!inputs, StoreShape, ResultTrue
  <2>2. StoreShape' /\ ScoresTrue' /\ ValuesTrue' /\ StampsTrue'
    BY <1>a, <1>3 DEF Store!DrainComputes, Store!config, Store!hist, Store!inputs, Store!stored,
                      StoreShape, ScoresTrue, ValuesTrue, StampsTrue
  <2> QED BY <2>1, <2>2
<1>4. ASSUME NEW v \in Video, Store!Open(v) PROVE StoreInv'
  BY <1>a, <1>4 DEF Store!Open, Store!config, Store!hist, Store!inputs, Store!stored,
                    StoreShape, ScoresTrue, ValuesTrue, StampsTrue, ResultTrue
\* A tag's alias marks no video, and puts the listed ones on record.
<1>5. CASE Store!TagAliasChanges
  BY <1>a, <1>5 DEF Store!TagAliasChanges, Store!Unlocked, Store!config, Store!stored, Store!threads,
                    StoreShape, ScoresTrue, ValuesTrue, StampsTrue, ResultTrue
<1>6. CASE Store!TagChanges
  BY <1>a, <1>6 DEF Store!TagChanges, Store!Unlocked, Store!Marked, Store!config, Store!threads, Store!hist,
                    StoreShape, ScoresTrue, ValuesTrue, StampsTrue, ResultTrue
<1>7. CASE Store!DrainStarts
  BY <1>a, <1>7 DEF Store!DrainStarts, Store!Up, Store!Unlocked, Store!config, Store!stored, Store!hist, Store!inputs,
                    StoreShape, ScoresTrue, ValuesTrue, StampsTrue, ResultTrue
\* The result written may be of the old mapping: then it is not what a resolve
\* gives now, and the video keeps the mark it was refused, or waits for one.
<1>8. CASE Store!DrainWrites
  <2> DEFINE v == made.video
  <2>1. PICK m \in Mapping :
          /\ made.score = ScoreUnder(v, m) /\ made.values = ValuesUnder(v, m)
          /\ m = mapping \/ reload \/ v \in skipped \/ v \notin active
    BY <1>a, <1>8 DEF Store!DrainWrites, ResultTrue
  <2>2. v \in Video
    BY <1>a, <1>8 DEF Store!DrainWrites, ResultTrue
  <2> HIDE DEF v
  <2>3. /\ made' = None /\ boot = "up"
        /\ UNCHANGED <<present, active, link, literal, na, alias, mapFile, mapping, order, boot, reload>>
        /\ score' = [score EXCEPT ![v] = made.score] /\ index' = [index EXCEPT ![v] = made.values]
        /\ signed' = [signed EXCEPT ![v] = link[v]]
        /\ dirty' = dirty \ {v} /\ late' = late \ {v} /\ unmarked' = unmarked \ {v}
        /\ skipped' = IF made.values = Store!Values(v) THEN skipped \ {v} ELSE skipped
    BY <1>a, <1>8 DEF Store!DrainWrites, Store!CleanAfter, Store!config, Store!inputs, v
  <2>4. StoreShape' /\ StampsTrue' /\ ResultTrue'
    BY <1>a, <2>2, <2>3 DEF StoreShape, StampsTrue, ResultTrue
  <2>5. v \notin skipped' => (made.score = Store!Score(v) /\ made.values = Store!Values(v)) \/ Owed(v)
    BY <2>1, <2>3
  <2>6. ScoresTrue'
    BY <1>a, <2>2, <2>3, <2>5 DEF StoreShape, ScoresTrue
  <2>7. ValuesTrue'
    BY <1>a, <2>2, <2>3, <2>5 DEF StoreShape, ValuesTrue
  <2> QED BY <2>3, <2>4, <2>6, <2>7
<1>9. CASE Store!DrainFails
  BY <1>a, <1>9 DEF Store!DrainFails, Store!Ends, Store!config, Store!stored, Store!hist, Store!inputs,
                    StoreShape, ScoresTrue, ValuesTrue, StampsTrue, ResultTrue
<1>10. CASE Store!Compare
  BY <1>a, <1>10 DEF Store!Compare, Store!config, Store!stored, Store!hist, Store!inputs,
                    StoreShape, ScoresTrue, ValuesTrue, StampsTrue, ResultTrue
\* A page that comes late is on record.
<1>11. CASE Store!Heal
  <2>1. /\ drain = None
        /\ UNCHANGED <<present, active, link, literal, na, alias, mapFile, mapping, order, dirty, index, signed,
                       boot, drain, made, reload, unmarked, skipped>>
        /\ score' = [score EXCEPT ![shown.video] = shown.score]
        /\ late' = IF shown.score # Store!Score(shown.video) THEN late \cup {shown.video} ELSE late
    BY <1>11 DEF Store!Heal, Store!Unlocked, Store!config, Store!inputs
  <2>2. StoreShape' /\ ValuesTrue' /\ StampsTrue' /\ ResultTrue'
    BY <1>a, <2>1 DEF StoreShape, ValuesTrue, StampsTrue, ResultTrue
  <2>3. ScoresTrue'
    BY <1>a, <2>1 DEF StoreShape, ScoresTrue
  <2> QED BY <1>a, <2>1, <2>2, <2>3
<1>12. CASE Store!EditMappingFile
  BY <1>a, <1>12 DEF Store!EditMappingFile, Store!stored, Store!hist, Store!inputs, Store!threads,
                    StoreShape, ScoresTrue, ValuesTrue, StampsTrue, ResultTrue
<1>13. CASE Store!ReloadSwaps
  BY <1>a, <1>13 DEF Store!ReloadSwaps, Store!stored, Store!hist, Store!inputs,
                    StoreShape, ScoresTrue, ValuesTrue, StampsTrue, ResultTrue
<1>14. CASE Store!ReloadMarks
  BY <1>a, <1>14 DEF Store!ReloadMarks, Store!Unlocked, Store!Marked, Store!config, Store!hist, Store!inputs,
                    StoreShape, ScoresTrue, ValuesTrue, StampsTrue, ResultTrue
<1>15. CASE Store!ReloadFails
  BY <1>a, <1>15 DEF Store!ReloadFails, Store!config, Store!stored, Store!inputs,
                    StoreShape, ScoresTrue, ValuesTrue, StampsTrue, ResultTrue
<1>16. CASE Store!Restart
  BY <1>a, <1>16 DEF Store!Restart, Store!stored, Store!inputs,
                    StoreShape, ScoresTrue, ValuesTrue, StampsTrue, ResultTrue
<1>17. CASE Store!BootMarks
  BY <1>a, <1>17 DEF Store!BootMarks, Store!Marked, Store!inputs,
                    StoreShape, ScoresTrue, ValuesTrue, StampsTrue, ResultTrue
<1>18. CASE Store!BootSkips
  BY <1>a, <1>18 DEF Store!BootSkips, Store!config, Store!stored, Store!inputs,
                    StoreShape, ScoresTrue, ValuesTrue, StampsTrue, ResultTrue
<1>19. CASE Store!DrainCompletenessInBackground
  BY <1>a, <1>19 DEF Store!DrainCompletenessInBackground, Store!config, Store!stored, Store!inputs, Store!hist,
                    StoreShape, ScoresTrue, ValuesTrue, StampsTrue, ResultTrue
<1>20. CASE UNCHANGED Store!vars
  BY <1>a, <1>20 DEF Store!vars, Store!inputs, Store!config, Store!stored, Store!threads, Store!hist,
                    StoreShape, ScoresTrue, ValuesTrue, StampsTrue, ResultTrue
<1> QED
  BY <1>1, <1>2, <1>3, <1>4, <1>5, <1>6, <1>7, <1>8, <1>9, <1>10, <1>11, <1>12, <1>13, <1>14, <1>15, <1>16,
     <1>17, <1>18, <1>19, <1>20 DEF Store!Next

\* Whatever boot, reload, drain, page and write raced, a video that waits for no
\* drain has the score, the values and the stamp a resolve gives it now, unless
\* a page came late, nothing marks what changed, or the mark was refused.
THEOREM StoreHolds == Store!Spec => []StoreTruth
<1>1. StoreInv => StoreTruth
  BY DEF StoreInv, StoreShape, ScoresTrue, ValuesTrue, StampsTrue, Owed,
         StoreTruth, Store!StoreTruth, Store!IndexTruth, Store!Up
<1> QED
  BY <1>1, StoreInit, StoreNext, PTL DEF Store!Spec

-----------------------------------------------------------------------------
(* The links of a video to its studio and people.                          *)

LinkShape ==
    /\ title = [v \in Video |-> title[v]] /\ manual = [v \in Video |-> manual[v]]
    /\ fileStudio \in [Video -> Studio \cup {None}] /\ provStudio \in [Video -> Studio \cup {None}]
    /\ pick \in [Video -> Links!Source \cup {None}]
    /\ fileCredits \in [Video -> SUBSET Links!Credit]
    /\ added \in [Video -> SUBSET Links!Credit] /\ removed \in [Video -> SUBSET Links!Credit]
    /\ studioLink \in [Video -> Studio \cup {None}]
    /\ credits \in [Video -> SUBSET Links!Credit]

\* A slot is free or at work; a decision is about the studio alone, and only
\* a decision has been through the gate.
SlotShape ==
    /\ req \in [Slot -> Links!Request \cup {None}]
    /\ \A i \in Slot : req[i] # None =>
         /\ req[i].gated \/ req[i].at = "check" => req[i].todo = {"studio"}
         /\ req[i].at = "load" => ~req[i].gated
         /\ req[i].at # "check" => req[i].src = None

\* The videos whose twins are accounted for.
Raced == {r[2] : r \in racedChecks}
Excused == ungated \cup mistitled \cup Raced
TwinsExcused == \A v, w \in Video : v # w /\ Links!Twins(v, w) => {v, w} \cap Excused # {}

\* A studio decided and not linked yet is not another video's, with the same
\* title and cast, unless one of the two is accounted for.
DecidedApart == \A i \in Slot, v, w \in Video :
    Links!Unlinked(i) /\ v = req[i].video /\ w # v /\ Links!Effective(w) = Links!Effective(v)
        /\ studioLink[w] = req[i].studio /\ Links!SameCast(credits[v], credits[w]) => {v, w} \cap Excused # {}

\* The second of two such decisions was checked while the first was not linked.
DecidedTwice == \A i, j \in Slot :
    Links!Unlinked(i) /\ Links!Unlinked(j) /\ req[i].video # req[j].video =>
        {req[i].video, req[j].video} \subseteq Raced

TwinsInv == TwinsExcused /\ DecidedApart /\ DecidedTwice

LinkInv == LinkShape /\ SlotShape /\ Links!LinksFollow /\ TwinsInv

LEMMA NoneApart == None \notin Studio /\ None \notin Links!Request
BY PartsAssumption DEF Links!NoneAssumption

\* Whatever the decision, the studio a field resolves to is one or none.
LEMMA StudioTyped ==
    ASSUME LinkShape, NEW v \in Video, NEW s \in Links!Source \cup {None}
    PROVE  Links!StudioUnder(v, s) \in Studio \cup {None}
<1> USE DEF LinkShape
<1>1. fileStudio[v] \in Studio \cup {None} /\ provStudio[v] \in Studio \cup {None}
  OBVIOUS
<1>2. CASE s = "file"
  BY <1>1, <1>2 DEF Links!StudioUnder
<1>3. CASE s # "file" /\ s = "provider"
  BY <1>1, <1>3 DEF Links!StudioUnder
<1>4. CASE s \notin {"file", "provider"} /\ s = None
  BY <1>1, <1>4 DEF Links!StudioUnder
<1>5. CASE s \notin {"file", "provider", None}
  BY <1>1, <1>5 DEF Links!StudioUnder, Links!Source
<1> QED BY <1>2, <1>3, <1>4, <1>5

LEMMA CreditsTyped == ASSUME LinkShape, NEW v \in Video PROVE Links!CreditsOf(v) \in SUBSET Links!Credit
BY DEF LinkShape, Links!CreditsOf

LEMMA RequestTyped ==
    ASSUME LinkShape, NEW v \in Video, NEW todo \in SUBSET Links!Kind, NEW at \in {"check", "load", "write"},
           NEW s \in Links!Source \cup {None}, NEW gated \in BOOLEAN
    PROVE  Links!RequestFor(v, todo, at, s, gated) \in Links!Request
BY StudioTyped, CreditsTyped DEF Links!RequestFor, Links!Request

LEMMA CastSymmetric == ASSUME NEW a, NEW b PROVE Links!SameCast(a, b) <=> Links!SameCast(b, a)
BY DEF Links!SameCast

\* A check puts every video with an unlinked decision, and its own, on record.
LEMMA CheckRecords ==
    ASSUME NEW v, NEW by, Links!Checked(v, by)
    PROVE  /\ Raced \subseteq Raced'
           /\ \A i \in Slot : Links!Unlinked(i) => {v, req[i].video} \subseteq Raced'
<1> DEFINE open == {i \in Slot : Links!Unlinked(i)}
           seen == {v} \cup {req[i].video : i \in open}
<1>1. racedChecks' = IF open = {} THEN racedChecks ELSE racedChecks \cup ({by} \X seen)
  BY DEF Links!Checked
<1>2. racedChecks \subseteq racedChecks'
  BY <1>1
<1>3. ASSUME NEW i \in Slot, Links!Unlinked(i) PROVE {v, req[i].video} \subseteq Raced'
  <2>1. {v, req[i].video} \subseteq seen /\ open # {}
    BY <1>3
  <2> HIDE DEF open, seen
  <2>2. \A x \in seen : <<by, x>> \in racedChecks'
    BY <1>1, <2>1
  <2>3. \A x \in seen : \E r \in racedChecks' : r[2] = x
    BY <2>2
  <2> QED BY <2>1, <2>3 DEF Raced
<1> QED BY <1>2, <1>3 DEF Raced

LEMMA LinkInit == Links!Init => LinkInv
<1> SUFFICES ASSUME Links!Init PROVE LinkInv
  OBVIOUS
<1>1. /\ title = [v \in Video |-> title[v]] /\ manual = [v \in Video |-> manual[v]]
      /\ fileStudio \in [Video -> Studio \cup {None}] /\ provStudio \in [Video -> Studio \cup {None}]
      /\ pick = [v \in Video |-> None] /\ pick \in [Video -> Links!Source \cup {None}]
      /\ fileCredits = [v \in Video |-> {}] /\ added = [v \in Video |-> {}] /\ removed = [v \in Video |-> {}]
      /\ studioLink = [v \in Video |-> Links!StudioUnder(v, None)] /\ credits = [v \in Video |-> {}]
      /\ req = [i \in Slot |-> None]
      /\ ungated = {v \in Video : \E w \in Video \ {v} : Links!Twins(v, w)}
  BY DEF Links!Init
<1>2. \A v \in Video : Links!StudioUnder(v, None) \in Studio \cup {None}
  <2>1. CASE None \in {"file", "provider"}
    BY <1>1, <2>1 DEF Links!StudioUnder
  <2>2. CASE None \notin {"file", "provider"}
    BY <1>1, <2>2 DEF Links!StudioUnder
  <2> QED BY <2>1, <2>2
<1>3. LinkShape
  BY <1>1, <1>2 DEF LinkShape
<1>4. SlotShape /\ DecidedApart /\ DecidedTwice
  BY <1>1 DEF SlotShape, DecidedApart, DecidedTwice, Links!Unlinked
<1>5. Links!LinksFollow
  BY <1>1 DEF Links!LinksFollow, Links!StudioOf, Links!CreditsOf
<1>6. TwinsExcused
  BY <1>1 DEF TwinsExcused, Excused
<1> QED BY <1>3, <1>4, <1>5, <1>6 DEF LinkInv, TwinsInv

\* The writes no gate sees: what each asks a slot to do.
LEMMA WriteStarts ==
    ASSUME LinkShape, SlotShape, NEW i \in Slot, NEW v \in Video, NEW todo \in SUBSET Links!Kind, todo # {},
           Links!Write(i, v, todo)
    PROVE  /\ req[i] = None
           /\ UNCHANGED <<manual, studioLink, credits, backfilled, drifted, ungated, racedChecks, mistitled>>
           /\ \E r \in Links!Request \ {None} :
                /\ req' = [req EXCEPT ![i] = r]
                /\ r.at = "load" /\ r.todo = todo /\ r.video = v /\ ~r.gated /\ r.src = None
<1> DEFINE r == Links!RequestFor(v, todo, "load", None, FALSE)
<1>1. r \in Links!Request \ {None}
  BY RequestTyped, NoneApart
<1>2. /\ req[i] = None /\ req' = [req EXCEPT ![i] = r]
      /\ UNCHANGED <<manual, studioLink, credits, backfilled, drifted, ungated, racedChecks, mistitled>>
  BY DEF Links!Write, Links!Start, Links!links, Links!hist
<1>3. r.at = "load" /\ r.todo = todo /\ r.video = v /\ ~r.gated /\ r.src = None
  BY DEF Links!RequestFor
<1> HIDE DEF r
<1> QED BY <1>1, <1>2, <1>3

\* Every action on a slot, in what it does to the inputs, the links and the slot.
LEMMA ShapesNext ==
    ASSUME LinkShape, SlotShape, [Links!Next]_(Links!vars)
    PROVE  LinkShape' /\ SlotShape'
<1> USE NoneApart
<1>1. ASSUME NEW v \in Video, NEW t \in Title, NEW o \in BOOLEAN, Links!EditTitle(v, t, o)
      PROVE  LinkShape' /\ SlotShape'
  BY <1>1 DEF Links!EditTitle, Links!links, LinkShape, SlotShape
<1>2. ASSUME NEW v \in Video, Links!ClearTitle(v) PROVE LinkShape' /\ SlotShape'
  BY <1>2 DEF Links!ClearTitle, Links!links, LinkShape, SlotShape
<1>3. ASSUME NEW v \in Video, NEW c \in Links!Credit, NEW a \in {"add", "suppress"}, NEW o \in BOOLEAN,
             Links!SetCuration(v, c, a, o)
      PROVE  LinkShape' /\ SlotShape'
  <2>1. /\ UNCHANGED <<title, manual, fileStudio, provStudio, pick, fileCredits, studioLink, req>>
        /\ \/ added' = [added EXCEPT ![v] = @ \cup {c}] /\ UNCHANGED removed
           \/ removed' = [removed EXCEPT ![v] = @ \cup {c}] /\ UNCHANGED added
        /\ \/ credits' = [credits EXCEPT ![v] = Links!ProposedPeopleLinks(v, c, a)]
           \/ credits' = credits
    BY <1>3 DEF Links!SetCuration
  <2>2. credits[v] \in SUBSET Links!Credit /\ Links!ProposedPeopleLinks(v, c, a) \in SUBSET Links!Credit
    BY DEF LinkShape, Links!ProposedPeopleLinks
  <2> QED BY <2>1, <2>2 DEF LinkShape, SlotShape
<1>4. ASSUME NEW i \in Slot, NEW v \in Video, NEW s \in Links!Source, NEW o \in BOOLEAN,
             Links!ProposeStudio(i, v, s, o)
      PROVE  LinkShape' /\ SlotShape'
  <2>1. /\ req' = [req EXCEPT ![i] = Links!RequestFor(v, {"studio"}, "check", s, ~o)]
        /\ UNCHANGED <<title, manual, fileStudio, provStudio, pick, fileCredits, added, removed, studioLink, credits>>
    BY <1>4 DEF Links!ProposeStudio, Links!Start, Links!inputs, Links!links
  <2>2. Links!RequestFor(v, {"studio"}, "check", s, ~o) \in Links!Request
    BY RequestTyped DEF Links!Kind
  <2>3. LinkShape'
    BY <2>1 DEF LinkShape
  <2>4. SlotShape'
    BY <2>1, <2>2 DEF SlotShape, Links!RequestFor
  <2> QED BY <2>3, <2>4
<1>5. ASSUME NEW i \in Slot, NEW v \in Video, Links!CommitStudio(i, v) PROVE LinkShape' /\ SlotShape'
  <2>1. req[i] \in Links!Request /\ req[i].at = "check" /\ req[i].todo = {"studio"}
    BY <1>5 DEF Links!CommitStudio, SlotShape
  <2>2. UNCHANGED <<title, manual, fileStudio, provStudio, fileCredits, added, removed, studioLink, credits>>
    BY <1>5 DEF Links!CommitStudio, Links!links
  <2>3. CASE Links!Passes(i, v)
    <3>1. /\ pick' = [pick EXCEPT ![v] = req[i].src]
          /\ req' = [req EXCEPT ![i].at = "write", ![i].src = None]
      BY <1>5, <2>3 DEF Links!CommitStudio
    <3>2. LinkShape'
      BY <2>1, <2>2, <3>1 DEF LinkShape, Links!Request
    <3>3. [[req[i] EXCEPT !.at = "write"] EXCEPT !.src = None] \in Links!Request
      BY <2>1 DEF Links!Request
    <3>4. req' = [req EXCEPT ![i] = [[req[i] EXCEPT !.at = "write"] EXCEPT !.src = None]]
      BY <3>1 DEF SlotShape
    <3>5. SlotShape'
      BY <2>1, <3>3, <3>4 DEF SlotShape, Links!Request
    <3> QED BY <3>2, <3>5
  <2>4. CASE ~Links!Passes(i, v)
    BY <1>5, <2>2, <2>4 DEF Links!CommitStudio, Links!Finish, LinkShape, SlotShape
  <2> QED BY <2>3, <2>4
\* The writes no gate sees.
<1>6. ASSUME NEW i \in Slot, NEW v \in Video, NEW todo \in SUBSET Links!Kind, todo # {}, Links!Write(i, v, todo)
      PROVE  SlotShape' /\ UNCHANGED <<manual, studioLink, credits>>
  <2>1. /\ req[i] = None /\ UNCHANGED <<manual, studioLink, credits>>
        /\ \E r \in Links!Request \ {None} :
             /\ req' = [req EXCEPT ![i] = r]
             /\ r.at = "load" /\ r.todo = todo /\ r.video = v /\ ~r.gated /\ r.src = None
    BY <1>6, WriteStarts
  <2> QED BY <2>1 DEF SlotShape
<1>7. ASSUME NEW i \in Slot, NEW v \in Video, Links!ClearStudio(i, v) PROVE LinkShape' /\ SlotShape'
  BY <1>6, <1>7 DEF Links!ClearStudio, Links!Kind, LinkShape
<1>8. ASSUME NEW i \in Slot, NEW v \in Video, NEW c \in Links!Credit, Links!ClearCuration(i, v, c)
      PROVE  LinkShape' /\ SlotShape'
  BY <1>6, <1>8 DEF Links!ClearCuration, Links!Kind, LinkShape
<1>9. ASSUME NEW i \in Slot, NEW v \in Video, NEW s \in Studio \cup {None},
             NEW cs \in {{}} \cup {{c} : c \in Links!Credit}, Links!Rescan(i, v, s, cs)
      PROVE  LinkShape' /\ SlotShape'
  <2>1. cs \in SUBSET Links!Credit
    OBVIOUS
  <2> QED BY <1>6, <1>9, <2>1 DEF Links!Rescan, Links!Kind, LinkShape
<1>10. ASSUME NEW i \in Slot, NEW v \in Video, NEW s \in Studio \cup {None}, Links!Enrich(i, v, s)
      PROVE  LinkShape' /\ SlotShape'
  BY <1>6, <1>10 DEF Links!Enrich, Links!Kind, LinkShape
<1>11. ASSUME NEW i \in Slot, Links!Load(i) PROVE LinkShape' /\ SlotShape'
  <2>1. req[i] \in Links!Request /\ req[i].at = "load"
    BY <1>11 DEF Links!Load, SlotShape
  <2> DEFINE v == req[i].video
             fresh == Links!RequestFor(v, req[i].todo, "write", pick[v], FALSE)
             loaded == [fresh EXCEPT !.src = None]
  <2>2. /\ req' = [req EXCEPT ![i] = loaded]
        /\ UNCHANGED <<title, manual, fileStudio, provStudio, pick, fileCredits, added, removed, studioLink, credits>>
    BY <1>11 DEF Links!Load, Links!inputs, Links!links
  <2>3. v \in Video /\ req[i].todo \in SUBSET Links!Kind /\ pick[v] \in Links!Source \cup {None}
    BY <2>1 DEF Links!Request, LinkShape
  <2>4. fresh \in Links!Request /\ fresh.at = "write" /\ ~fresh.gated
    <3>1. fresh \in Links!Request
      BY <2>3, RequestTyped
    <3> QED BY <3>1 DEF Links!RequestFor
  <2>5. loaded \in Links!Request /\ loaded.at = "write" /\ ~loaded.gated /\ loaded.src = None
    <3> HIDE DEF fresh
    <3> QED BY <2>4 DEF Links!Request
  <2> HIDE DEF loaded
  <2>6. SlotShape'
    BY <2>2, <2>5 DEF SlotShape
  <2> QED BY <2>2, <2>6 DEF LinkShape
\* A replacement takes its kind off the slot's list, or frees the slot.
<1>12. ASSUME NEW i \in Slot, NEW k \in Links!Kind, Links!Reconcile(i, k) PROVE SlotShape'
  <2>1. req[i] \in Links!Request /\ req[i].at = "write" /\ k \in req[i].todo
    BY <1>12 DEF Links!Reconcile, SlotShape
  <2>2. CASE req[i].todo = {k}
    BY <1>12, <2>2 DEF Links!Reconcile, Links!Done, Links!Finish, SlotShape
  <2>3. CASE req[i].todo # {k}
    <3>1. req' = [req EXCEPT ![i].todo = @ \ {k}]
      BY <1>12, <2>3 DEF Links!Reconcile, Links!Done
    <3>2. req' = [req EXCEPT ![i] = [req[i] EXCEPT !.todo = req[i].todo \ {k}]]
      BY <3>1 DEF SlotShape
    <3>3. [req[i] EXCEPT !.todo = req[i].todo \ {k}] \in Links!Request
      BY <2>1 DEF Links!Request
    <3>4. ~req[i].gated
      BY <2>1, <2>3 DEF SlotShape, Links!Request
    <3> QED BY <2>1, <3>2, <3>3, <3>4 DEF SlotShape, Links!Request
  <2> QED BY <2>2, <2>3
<1>13. ASSUME NEW i \in Slot, Links!ReconcileVideoStudios(i) PROVE LinkShape' /\ SlotShape'
  <2>1. req[i] \in Links!Request
    BY <1>13 DEF Links!ReconcileVideoStudios, Links!Reconcile, SlotShape
  <2> QED BY <1>12, <1>13, <2>1 DEF Links!ReconcileVideoStudios, Links!inputs, Links!Kind, Links!Request, LinkShape
<1>14. ASSUME NEW i \in Slot, Links!ReconcileVideoPeople(i) PROVE LinkShape' /\ SlotShape'
  <2>1. req[i] \in Links!Request
    BY <1>14 DEF Links!ReconcileVideoPeople, Links!Reconcile, SlotShape
  <2> QED BY <1>12, <1>14, <2>1 DEF Links!ReconcileVideoPeople, Links!inputs, Links!Kind, Links!Request, LinkShape
<1>15. ASSUME NEW i \in Slot, NEW k \in Links!Kind, Links!RelinkFails(i, k) PROVE LinkShape' /\ SlotShape'
  BY <1>12, <1>15 DEF Links!RelinkFails, Links!inputs, Links!links, LinkShape
<1>16. CASE Links!Restart
  <2>1. \A v \in Video : Links!StudioOf(v) \in Studio \cup {None}
    BY StudioTyped DEF LinkShape, Links!StudioOf
  <2> QED BY <1>16, <2>1 DEF Links!Restart, Links!inputs, LinkShape, SlotShape
<1>17. CASE UNCHANGED Links!vars
  BY <1>17 DEF Links!vars, Links!inputs, Links!links, LinkShape, SlotShape
<1> QED
  BY <1>1, <1>2, <1>3, <1>4, <1>5, <1>7, <1>8, <1>9, <1>10, <1>11, <1>13, <1>14, <1>15, <1>16, <1>17 DEF Links!Next

\* Every write that changes a field leaves a relink of that kind to come, and
\* what ends a relink links the field or puts the video on record.
LEMMA FollowNext ==
    ASSUME LinkShape, SlotShape, Links!LinksFollow, [Links!Next]_(Links!vars)
    PROVE  Links!LinksFollow'
<1> USE NoneApart DEF Links!LinksFollow
<1>1. ASSUME NEW v \in Video, NEW t \in Title, NEW o \in BOOLEAN, Links!EditTitle(v, t, o)
      PROVE  Links!LinksFollow'
  <2>1. UNCHANGED <<fileStudio, provStudio, pick, fileCredits, added, removed, studioLink, credits, req, drifted>>
    BY <1>1 DEF Links!EditTitle, Links!links
  <2> QED BY <2>1 DEF Links!Behind, Links!StudioOf, Links!StudioUnder, Links!CreditsOf
<1>2. ASSUME NEW v \in Video, Links!ClearTitle(v) PROVE Links!LinksFollow'
  <2>1. UNCHANGED <<fileStudio, provStudio, pick, fileCredits, added, removed, studioLink, credits, req, drifted>>
    BY <1>2 DEF Links!ClearTitle, Links!links
  <2> QED BY <2>1 DEF Links!Behind, Links!StudioOf, Links!StudioUnder, Links!CreditsOf
<1>3. ASSUME NEW v \in Video, NEW c \in Links!Credit, NEW a \in {"add", "suppress"}, NEW o \in BOOLEAN,
             Links!SetCuration(v, c, a, o)
      PROVE  Links!LinksFollow'
  <2>1. /\ UNCHANGED <<fileStudio, provStudio, pick, fileCredits, studioLink, req>>
        /\ \/ added' = [added EXCEPT ![v] = @ \cup {c}] /\ UNCHANGED removed
           \/ removed' = [removed EXCEPT ![v] = @ \cup {c}] /\ UNCHANGED added
        /\ \/ credits' = [credits EXCEPT ![v] = Links!ProposedPeopleLinks(v, c, a)]
           \/ credits' = credits
        /\ drifted' = IF credits'[v] = Links!CreditsOf(v)' THEN drifted \ {<<"people", v>>}
                                                           ELSE drifted \cup {<<"people", v>>}
    BY <1>3 DEF Links!SetCuration, Links!Drift, Links!CreditsOf
  <2>2. \A w \in Video \ {v} : credits'[w] = credits[w] /\ Links!CreditsOf(w)' = Links!CreditsOf(w)
    BY <2>1 DEF LinkShape, Links!CreditsOf
  <2>3. \A w \in Video : Links!StudioOf(w)' = Links!StudioOf(w) /\ \A k : Links!Behind(w, k)' <=> Links!Behind(w, k)
    BY <2>1 DEF Links!StudioOf, Links!StudioUnder, Links!Behind
  <2> QED BY <2>1, <2>2, <2>3
<1>4. ASSUME NEW i \in Slot, NEW v \in Video, NEW s \in Links!Source, NEW o \in BOOLEAN,
             Links!ProposeStudio(i, v, s, o)
      PROVE  Links!LinksFollow'
  <2>1. /\ req[i] = None /\ req' = [req EXCEPT ![i] = Links!RequestFor(v, {"studio"}, "check", s, ~o)]
        /\ UNCHANGED <<fileStudio, provStudio, pick, fileCredits, added, removed, studioLink, credits, drifted>>
    BY <1>4 DEF Links!ProposeStudio, Links!Start, Links!inputs, Links!links, Links!hist
  <2>2. \A w \in Video : \A k : Links!Behind(w, k) => Links!Behind(w, k)'
    BY <2>1 DEF Links!Behind, SlotShape
  <2> QED BY <2>1, <2>2 DEF Links!StudioOf, Links!StudioUnder, Links!CreditsOf
<1>5. ASSUME NEW i \in Slot, NEW v \in Video, Links!CommitStudio(i, v) PROVE Links!LinksFollow'
  <2>1. /\ req[i] \in Links!Request /\ req[i] # None /\ req[i].at = "check"
        /\ req[i].todo = {"studio"} /\ req[i].video = v
    BY <1>5 DEF Links!CommitStudio, SlotShape
  <2>2. UNCHANGED <<fileStudio, provStudio, fileCredits, added, removed, studioLink, credits, drifted>>
    BY <1>5 DEF Links!CommitStudio, Links!links
  <2>3. CASE Links!Passes(i, v)
    <3>1. /\ pick' = [pick EXCEPT ![v] = req[i].src]
          /\ req' = [req EXCEPT ![i] = [[req[i] EXCEPT !.at = "write"] EXCEPT !.src = None]]
      BY <1>5, <2>3 DEF Links!CommitStudio, SlotShape
    <3>2. [[req[i] EXCEPT !.at = "write"] EXCEPT !.src = None] \in Links!Request \ {None}
      BY <2>1 DEF Links!Request
    <3>3. \A w \in Video : \A k : Links!Behind(w, k) => Links!Behind(w, k)'
      BY <2>1, <3>1 DEF Links!Behind, SlotShape
    <3>4. Links!Behind(v, "studio")'
      BY <2>1, <3>1, <3>2 DEF Links!Behind, SlotShape, Links!Request
    <3>5. \A w \in Video : /\ w # v => Links!StudioOf(w)' = Links!StudioOf(w)
                           /\ Links!CreditsOf(w)' = Links!CreditsOf(w)
      BY <2>2, <3>1 DEF Links!StudioOf, Links!StudioUnder, Links!CreditsOf, LinkShape
    <3> QED BY <2>2, <3>3, <3>4, <3>5
  <2>4. CASE ~Links!Passes(i, v)
    <3>1. req' = [req EXCEPT ![i] = None] /\ UNCHANGED pick
      BY <1>5, <2>4 DEF Links!CommitStudio, Links!Finish
    <3>3. \A w \in Video : \A k : Links!Behind(w, k) => Links!Behind(w, k)'
      BY <2>1, <3>1 DEF Links!Behind, SlotShape
    <3> QED BY <2>2, <3>1, <3>3 DEF Links!StudioOf, Links!StudioUnder, Links!CreditsOf
  <2> QED BY <2>3, <2>4
<1>6. ASSUME NEW i \in Slot, NEW v \in Video, NEW todo \in SUBSET Links!Kind, todo # {}, Links!Write(i, v, todo)
      PROVE  /\ UNCHANGED <<studioLink, credits, drifted>>
             /\ \A w \in Video : \A k : Links!Behind(w, k) => Links!Behind(w, k)'
             /\ \A k \in todo : Links!Behind(v, k)'
  <2>1. PICK r \in Links!Request \ {None} :
          /\ req' = [req EXCEPT ![i] = r]
          /\ r.at = "load" /\ r.todo = todo /\ r.video = v
    BY <1>6, WriteStarts
  <2>2. req[i] = None /\ UNCHANGED <<studioLink, credits, drifted>>
    BY <1>6, WriteStarts
  <2> QED BY <2>1, <2>2 DEF Links!Behind, SlotShape
<1>7. ASSUME NEW i \in Slot, NEW v \in Video, Links!ClearStudio(i, v) PROVE Links!LinksFollow'
  <2>1. /\ pick' = [pick EXCEPT ![v] = None] /\ UNCHANGED <<fileStudio, provStudio, fileCredits, added, removed>>
        /\ Links!Write(i, v, {"studio"})
    BY <1>7 DEF Links!ClearStudio
  <2>2. \A w \in Video : /\ w # v => Links!StudioOf(w)' = Links!StudioOf(w)
                         /\ Links!CreditsOf(w)' = Links!CreditsOf(w)
    BY <2>1 DEF Links!StudioOf, Links!StudioUnder, Links!CreditsOf, LinkShape
  <2>3. /\ UNCHANGED <<studioLink, credits, drifted>> /\ Links!Behind(v, "studio")'
        /\ \A w \in Video : \A k : Links!Behind(w, k) => Links!Behind(w, k)'
    BY <1>6, <2>1 DEF Links!Kind
  <2> QED BY <2>2, <2>3
<1>8. ASSUME NEW i \in Slot, NEW v \in Video, NEW c \in Links!Credit, Links!ClearCuration(i, v, c)
      PROVE  Links!LinksFollow'
  <2>1. /\ \/ added' = [added EXCEPT ![v] = @ \ {c}] /\ UNCHANGED removed
           \/ removed' = [removed EXCEPT ![v] = @ \ {c}] /\ UNCHANGED added
        /\ UNCHANGED <<fileStudio, provStudio, fileCredits, pick>>
        /\ Links!Write(i, v, {"people"})
    BY <1>8 DEF Links!ClearCuration
  <2>2. \A w \in Video : /\ w # v => Links!CreditsOf(w)' = Links!CreditsOf(w)
                         /\ Links!StudioOf(w)' = Links!StudioOf(w)
    BY <2>1 DEF Links!StudioOf, Links!StudioUnder, Links!CreditsOf, LinkShape
  <2>3. /\ UNCHANGED <<studioLink, credits, drifted>> /\ Links!Behind(v, "people")'
        /\ \A w \in Video : \A k : Links!Behind(w, k) => Links!Behind(w, k)'
    BY <1>6, <2>1 DEF Links!Kind
  <2> QED BY <2>2, <2>3
<1>9. ASSUME NEW i \in Slot, NEW v \in Video,
             \/ \E s \in Studio \cup {None}, cs \in {{}} \cup {{c} : c \in Links!Credit} : Links!Rescan(i, v, s, cs)
             \/ \E s \in Studio \cup {None} : Links!Enrich(i, v, s)
      PROVE  Links!LinksFollow'
  <2>1. /\ \A w \in Video \ {v} : fileStudio'[w] = fileStudio[w] /\ provStudio'[w] = provStudio[w]
                                    /\ fileCredits'[w] = fileCredits[w]
        /\ UNCHANGED <<pick, added, removed>>
        /\ Links!Write(i, v, Links!Kind)
    BY <1>9 DEF Links!Rescan, Links!Enrich, LinkShape
  <2>2. \A w \in Video \ {v} : Links!StudioOf(w)' = Links!StudioOf(w) /\ Links!CreditsOf(w)' = Links!CreditsOf(w)
    BY <2>1 DEF Links!StudioOf, Links!StudioUnder, Links!CreditsOf
  <2>3. /\ UNCHANGED <<studioLink, credits, drifted>> /\ Links!Behind(v, "studio")' /\ Links!Behind(v, "people")'
        /\ \A w \in Video : \A k : Links!Behind(w, k) => Links!Behind(w, k)'
    BY <1>6, <2>1 DEF Links!Kind
  <2> QED BY <2>2, <2>3
<1>11. ASSUME NEW i \in Slot, Links!Load(i) PROVE Links!LinksFollow'
  <2> DEFINE v == req[i].video
             fresh == Links!RequestFor(v, req[i].todo, "write", pick[v], FALSE)
             loaded == [fresh EXCEPT !.src = None]
  <2>1. /\ req[i] \in Links!Request /\ req[i].at = "load"
        /\ req' = [req EXCEPT ![i] = loaded]
        /\ UNCHANGED <<fileStudio, provStudio, pick, fileCredits, added, removed, studioLink, credits, drifted>>
    BY <1>11 DEF Links!Load, Links!inputs, Links!links, Links!hist, SlotShape
  <2>2. v \in Video /\ req[i].todo \in SUBSET Links!Kind /\ pick[v] \in Links!Source \cup {None}
    BY <2>1 DEF Links!Request, LinkShape
  <2>3. fresh \in Links!Request
    BY <2>2, RequestTyped
  <2>4. fresh.at = "write" /\ fresh.video = v /\ fresh.todo = req[i].todo
    BY DEF Links!RequestFor
  <2>5. loaded \in Links!Request /\ loaded.at = "write" /\ loaded.video = v /\ loaded.todo = req[i].todo
    <3> HIDE DEF fresh, v
    <3> QED BY <2>3, <2>4 DEF Links!Request
  <2>6. \A w \in Video : \A k : Links!Behind(w, k) => Links!Behind(w, k)'
    <3> HIDE DEF loaded
    <3> QED BY <2>1, <2>5 DEF Links!Behind, SlotShape
  <2> QED BY <2>1, <2>6 DEF Links!StudioOf, Links!StudioUnder, Links!CreditsOf
\* What is left of a slot's list when one kind is done.
<1>12. ASSUME NEW i \in Slot, NEW k \in Links!Kind, Links!Reconcile(i, k)
      PROVE  \A w \in Video : \A l \in Links!Kind :
               <<w, l>> # <<req[i].video, k>> /\ Links!Behind(w, l) => Links!Behind(w, l)'
  <2>1. req[i] \in Links!Request /\ req[i].at = "write" /\ k \in req[i].todo
    BY <1>12 DEF Links!Reconcile, SlotShape
  <2>2. CASE req[i].todo = {k}
    <3>1. req' = [req EXCEPT ![i] = None]
      BY <1>12, <2>2 DEF Links!Reconcile, Links!Done, Links!Finish
    <3> QED BY <2>1, <2>2, <3>1 DEF Links!Behind, SlotShape
  <2>3. CASE req[i].todo # {k}
    <3>1. req' = [req EXCEPT ![i] = [req[i] EXCEPT !.todo = req[i].todo \ {k}]]
      BY <1>12, <2>3 DEF Links!Reconcile, Links!Done, SlotShape
    <3>2. [req[i] EXCEPT !.todo = req[i].todo \ {k}] \in Links!Request \ {None}
      BY <2>1 DEF Links!Request
    <3> QED BY <2>1, <3>1, <3>2 DEF Links!Behind, SlotShape, Links!Request
  <2> QED BY <2>2, <2>3
<1>13. ASSUME NEW i \in Slot, Links!ReconcileVideoStudios(i) PROVE Links!LinksFollow'
  <2> DEFINE v == req[i].video
  <2>1. /\ UNCHANGED <<fileStudio, provStudio, pick, fileCredits, added, removed, credits>>
        /\ studioLink' = [studioLink EXCEPT ![v] = req[i].studio]
        /\ drifted' = IF req[i].studio = Links!StudioOf(v) THEN drifted \ {<<"studio", v>>}
                                                           ELSE drifted \cup {<<"studio", v>>}
    BY <1>13 DEF Links!ReconcileVideoStudios, Links!inputs, Links!Drift
  <2>2. \A w \in Video : \A l \in Links!Kind : <<w, l>> # <<v, "studio">> /\ Links!Behind(w, l) => Links!Behind(w, l)'
    BY <1>12, <1>13 DEF Links!ReconcileVideoStudios, Links!Kind
  <2>3. \A w \in Video : Links!StudioOf(w)' = Links!StudioOf(w) /\ Links!CreditsOf(w)' = Links!CreditsOf(w)
    BY <2>1 DEF Links!StudioOf, Links!StudioUnder, Links!CreditsOf
  <2> HIDE DEF v
  <2> QED BY <2>1, <2>2, <2>3 DEF LinkShape, Links!Kind
<1>14. ASSUME NEW i \in Slot, Links!ReconcileVideoPeople(i) PROVE Links!LinksFollow'
  <2> DEFINE v == req[i].video
  <2>1. /\ UNCHANGED <<fileStudio, provStudio, pick, fileCredits, added, removed, studioLink>>
        /\ credits' = [credits EXCEPT ![v] = req[i].cast]
        /\ drifted' = IF req[i].cast = Links!CreditsOf(v) THEN drifted \ {<<"people", v>>}
                                                          ELSE drifted \cup {<<"people", v>>}
    BY <1>14 DEF Links!ReconcileVideoPeople, Links!inputs, Links!Drift
  <2>2. \A w \in Video : \A l \in Links!Kind : <<w, l>> # <<v, "people">> /\ Links!Behind(w, l) => Links!Behind(w, l)'
    BY <1>12, <1>14 DEF Links!ReconcileVideoPeople, Links!Kind
  <2>3. \A w \in Video : Links!StudioOf(w)' = Links!StudioOf(w) /\ Links!CreditsOf(w)' = Links!CreditsOf(w)
    BY <2>1 DEF Links!StudioOf, Links!StudioUnder, Links!CreditsOf
  <2> HIDE DEF v
  <2> QED BY <2>1, <2>2, <2>3 DEF LinkShape, Links!Kind
<1>15. ASSUME NEW i \in Slot, NEW k \in Links!Kind, Links!RelinkFails(i, k) PROVE Links!LinksFollow'
  <2>1. /\ UNCHANGED <<fileStudio, provStudio, pick, fileCredits, added, removed, studioLink, credits>>
        /\ drifted' = drifted \cup {<<k, req[i].video>>}
    BY <1>15 DEF Links!RelinkFails, Links!inputs, Links!links
  <2>2. \A w \in Video : \A l \in Links!Kind :
          <<w, l>> # <<req[i].video, k>> /\ Links!Behind(w, l) => Links!Behind(w, l)'
    BY <1>12, <1>15 DEF Links!RelinkFails
  <2>3. \A w \in Video : Links!StudioOf(w)' = Links!StudioOf(w) /\ Links!CreditsOf(w)' = Links!CreditsOf(w)
    BY <2>1 DEF Links!StudioOf, Links!StudioUnder, Links!CreditsOf
  <2> QED BY <2>1, <2>2, <2>3 DEF Links!Kind
<1>16. CASE Links!Restart
  <2>1. /\ UNCHANGED <<fileStudio, provStudio, pick, fileCredits, added, removed, credits>>
        /\ drifted' = (drifted \cup {p \in Links!Kind \X Video : Links!Behind(p[2], p[1])})
                        \ (IF Links!BackfillStudioLinks THEN {"studio"} \X Video ELSE {})
        /\ IF Links!BackfillStudioLinks THEN studioLink' = [v \in Video |-> Links!StudioOf(v)] ELSE UNCHANGED studioLink
    BY <1>16 DEF Links!Restart, Links!inputs
  <2>2. \A w \in Video : \A k \in Links!Kind : Links!Behind(w, k) =>
          <<k, w>> \in {p \in Links!Kind \X Video : Links!Behind(p[2], p[1])}
    OBVIOUS
  <2>3. \A w \in Video : Links!StudioOf(w)' = Links!StudioOf(w) /\ Links!CreditsOf(w)' = Links!CreditsOf(w)
    BY <2>1 DEF Links!StudioOf, Links!StudioUnder, Links!CreditsOf
  <2>4. \A w \in Video :
          /\ Links!BackfillStudioLinks \/ <<"studio", w>> \in drifted' \/ studioLink[w] = Links!StudioOf(w)
          /\ <<"people", w>> \in drifted' \/ credits[w] = Links!CreditsOf(w)
    BY <2>1, <2>2 DEF Links!Kind
  <2> QED BY <2>1, <2>3, <2>4
<1>17. CASE UNCHANGED Links!vars
  <2>1. UNCHANGED <<fileStudio, provStudio, pick, fileCredits, added, removed, studioLink, credits, req, drifted>>
    BY <1>17 DEF Links!vars, Links!inputs, Links!links, Links!hist
  <2> QED BY <2>1 DEF Links!Behind, Links!StudioOf, Links!StudioUnder, Links!CreditsOf
<1> HIDE DEF Links!LinksFollow
<1>10. ASSUME NEW i \in Slot, NEW v \in Video, NEW s \in Studio \cup {None},
              NEW cs \in {{}} \cup {{c} : c \in Links!Credit}, Links!Rescan(i, v, s, cs)
       PROVE  Links!LinksFollow'
  BY <1>9, <1>10
<1> QED
  BY <1>1, <1>2, <1>3, <1>4, <1>5, <1>7, <1>8, <1>9, <1>10, <1>11, <1>13, <1>14, <1>15, <1>16, <1>17 DEF Links!Next

LEMMA CastPrimed == ASSUME NEW v, NEW w
                    PROVE  Links!SameCast(credits[v], credits[w])' <=> Links!SameCast(credits'[v], credits'[w])
BY DEF Links!SameCast

\* A step that changes the title, studio or cast only of videos it puts on
\* record (X), and opens no decision.
Accounted(X) ==
    /\ X \subseteq Video /\ X \subseteq Excused' /\ Excused \subseteq Excused' /\ Raced \subseteq Raced'
    /\ \A w \in Video \ X : /\ Links!Effective(w)' = Links!Effective(w)
                            /\ studioLink'[w] = studioLink[w] /\ credits'[w] = credits[w]
    /\ \A i \in Slot : Links!Unlinked(i)' =>
           Links!Unlinked(i) /\ req'[i].video = req[i].video /\ req'[i].studio = req[i].studio

\* It makes no twins unaccounted for.
LEMMA Untouched == ASSUME SlotShape, TwinsInv, NEW X, Accounted(X) PROVE TwinsInv'
<1> USE DEF Accounted
<1>1. TwinsExcused'
  <2> SUFFICES ASSUME NEW v \in Video \ X, NEW w \in Video \ X, v # w, Links!Twins(v, w)'
               PROVE  {v, w} \cap Excused # {}
    BY DEF TwinsExcused
  <2>1. Links!Twins(v, w)
    BY CastPrimed DEF Links!Twins
  <2> QED BY <2>1 DEF TwinsInv, TwinsExcused
<1>2. DecidedApart'
  <2> SUFFICES ASSUME NEW i \in Slot, NEW v \in Video \ X, NEW w \in Video \ X,
                      Links!Unlinked(i)', v = req'[i].video, w # v,
                      Links!Effective(w)' = Links!Effective(v)', studioLink'[w] = req'[i].studio,
                      Links!SameCast(credits[v], credits[w])'
               PROVE  {v, w} \cap Excused' # {}
    BY DEF DecidedApart
  <2>1. Links!Unlinked(i) /\ v = req[i].video /\ req'[i].studio = req[i].studio
    OBVIOUS
  <2>2. Links!SameCast(credits[v], credits[w])
    BY CastPrimed
  <2> QED BY <2>1, <2>2 DEF TwinsInv, DecidedApart
<1>3. DecidedTwice'
  BY DEF TwinsInv, DecidedTwice
<1> QED BY <1>1, <1>2, <1>3 DEF TwinsInv

\* A step that checks v, puts every open decision on record, and leaves v
\* with no twin, or on record.
LEMMA CheckedApart ==
    ASSUME SlotShape, TwinsInv, NEW v \in Video, Excused \ {v} \subseteq Excused',
           \A w \in Video \ {v} : /\ Links!Effective(w)' = Links!Effective(w)
                                  /\ studioLink'[w] = studioLink[w] /\ credits'[w] = credits[w],
           UNCHANGED req, \A i \in Slot : Links!Unlinked(i) => req[i].video \in Raced',
           v \in Excused' \/ \A w \in Video \ {v} : ~Links!Twins(v, w)'
    PROVE  TwinsInv'
<1>1. TwinsExcused'
  <2> SUFFICES ASSUME NEW a \in Video, NEW b \in Video, a # b, Links!Twins(a, b)', v \notin Excused' \/ v \notin {a, b}
               PROVE  {a, b} \cap Excused' # {}
    BY DEF TwinsExcused
  <2>1. Links!Twins(b, a)'
    BY CastSymmetric, CastPrimed DEF Links!Twins
  <2>2. a # v /\ b # v
    BY <2>1
  <2>3. Links!Twins(a, b)
    BY <2>2, CastPrimed DEF Links!Twins
  <2> QED BY <2>2, <2>3 DEF TwinsInv, TwinsExcused
<1>2. \A i \in Slot : Links!Unlinked(i)' => req'[i].video \in Raced'
  BY DEF Links!Unlinked
<1>3. DecidedApart' /\ DecidedTwice'
  BY <1>2 DEF DecidedApart, DecidedTwice, Excused
<1> QED BY <1>1, <1>3 DEF TwinsInv

\* Two videos agree only as far as the gate lets them: a check finds the twin it
\* would make, and what no check sees is on record.
LEMMA TwinsNext ==
    ASSUME LinkShape, SlotShape, TwinsInv, [Links!Next]_(Links!vars)
    PROVE  TwinsInv'
<1> USE NoneApart
<1>a. None \notin Title
  BY PartsAssumption DEF Links!NoneAssumption
<1>1. ASSUME NEW v \in Video, NEW t \in Title, NEW o \in BOOLEAN, Links!EditTitle(v, t, o) PROVE TwinsInv'
  <2>1. /\ o \/ ~Links!FindTitleCollision(v, t)
        /\ manual' = [manual EXCEPT ![v] = t] /\ Links!Checked(v, "title or people")
        /\ ungated' = IF o THEN ungated \cup {v} ELSE ungated \ {v}
        /\ mistitled' = mistitled \ {v}
        /\ UNCHANGED <<title, studioLink, credits, req>>
    BY <1>1 DEF Links!EditTitle, Links!links
  <2>2. /\ \A w \in Video \ {v} : Links!Effective(w)' = Links!Effective(w)
        /\ Links!Effective(v)' = t
    BY <1>a, <2>1 DEF Links!Effective, LinkShape
  <2>3. Raced \subseteq Raced' /\ \A i \in Slot : Links!Unlinked(i) => req[i].video \in Raced'
    BY <2>1, CheckRecords
  <2>4. Excused \ {v} \subseteq Excused' /\ (o => v \in Excused')
    BY <2>1, <2>3 DEF Excused
  <2>5. ~o => \A w \in Video \ {v} : ~Links!Twins(v, w)'
    BY <2>1, <2>2, CastSymmetric, CastPrimed DEF Links!Twins, Links!FindTitleCollision, Links!Collides
  <2> QED BY <2>1, <2>2, <2>3, <2>4, <2>5, CheckedApart
<1>2. ASSUME NEW v \in Video, Links!ClearTitle(v) PROVE TwinsInv'
  <2>1. /\ manual' = [manual EXCEPT ![v] = None] /\ ungated' = ungated \cup {v}
        /\ UNCHANGED <<title, studioLink, credits, req, mistitled, racedChecks>>
    BY <1>2 DEF Links!ClearTitle, Links!links
  <2>2. \A w \in Video \ {v} : Links!Effective(w)' = Links!Effective(w)
    BY <2>1 DEF Links!Effective, LinkShape
  <2>3. {v} \subseteq Excused' /\ Excused \subseteq Excused' /\ Raced \subseteq Raced'
    BY <2>1 DEF Excused, Raced
  <2>4. \A i \in Slot : Links!Unlinked(i)' => Links!Unlinked(i)
    BY <2>1 DEF Links!Unlinked
  <2> QED
    <3>1. Accounted({v})
      BY <2>1, <2>2, <2>3, <2>4 DEF Accounted
    <3> QED BY <3>1, Untouched
<1>3. ASSUME NEW v \in Video, NEW c \in Links!Credit, NEW a \in {"add", "suppress"}, NEW o \in BOOLEAN,
             Links!SetCuration(v, c, a, o)
      PROVE  TwinsInv'
  <2> DEFINE cast == Links!ProposedPeopleLinks(v, c, a)
  <2>1. /\ o \/ ~Links!FindPeopleCollision(v, cast)
        /\ credits' = [credits EXCEPT ![v] = cast] \/ credits' = credits
        /\ UNCHANGED <<title, manual, studioLink, req>>
        /\ IF o THEN ungated' = ungated \cup {v} /\ UNCHANGED <<racedChecks, mistitled>>
                ELSE /\ ungated' = (IF credits' = credits THEN ungated ELSE ungated \ {v})
                     /\ Links!Checked(v, "title or people") /\ Links!Titled(v)
    BY <1>3 DEF Links!SetCuration
  <2> HIDE DEF cast
  <2>2. \A w \in Video : /\ Links!Effective(w)' = Links!Effective(w)
                         /\ w # v => credits'[w] = credits[w]
    BY <2>1 DEF Links!Effective, LinkShape
  <2>3. \A i \in Slot : Links!Unlinked(i)' => Links!Unlinked(i)
    BY <2>1 DEF Links!Unlinked
  <2>4. CASE o
    <3>1. {v} \subseteq Excused' /\ Excused \subseteq Excused' /\ Raced \subseteq Raced'
      BY <2>1, <2>4 DEF Excused, Raced
    <3>2. Accounted({v})
      BY <2>1, <2>2, <2>3, <3>1 DEF Accounted
    <3> QED BY <3>2, Untouched
  <2>5. CASE ~o /\ credits' = credits
    <3>1. Raced \subseteq Raced' /\ mistitled \subseteq mistitled' /\ ungated' = ungated
      BY <2>1, <2>5, CheckRecords DEF Links!Titled
    <3>2. {} \subseteq Excused' /\ Excused \subseteq Excused'
      BY <3>1 DEF Excused
    <3>3. Accounted({})
      BY <2>1, <2>2, <2>3, <2>5, <3>1, <3>2 DEF Accounted
    <3> QED BY <3>3, Untouched
  <2>6. CASE ~o /\ credits' # credits
    <3>1. Raced \subseteq Raced' /\ \A i \in Slot : Links!Unlinked(i) => req[i].video \in Raced'
      BY <2>1, <2>6, CheckRecords
    <3>2. mistitled \subseteq mistitled' /\ (title[v] = Links!Effective(v) \/ v \in mistitled')
      BY <2>1, <2>6 DEF Links!Titled
    <3>3. Excused \ {v} \subseteq Excused'
      BY <2>1, <2>6, <3>1, <3>2 DEF Excused
    <3>4. title[v] = Links!Effective(v) => \A w \in Video \ {v} : ~Links!Twins(v, w)'
      <4>1. credits'[v] = cast
        BY <2>1, <2>6 DEF LinkShape
      <4> QED BY <2>1, <2>2, <2>6, <4>1, CastSymmetric, CastPrimed
              DEF Links!Twins, Links!FindPeopleCollision, Links!Collides
    <3>5. v \in Excused' \/ title[v] = Links!Effective(v)
      BY <3>2 DEF Excused
    <3> QED BY <2>1, <2>2, <3>1, <3>3, <3>4, <3>5, CheckedApart
  <2> QED BY <2>4, <2>5, <2>6
\* A step of a slot that leaves titles, links and records alone and opens no
\* decision.
<1>4. ASSUME UNCHANGED <<title, manual, studioLink, credits>>, Excused \subseteq Excused', Raced \subseteq Raced',
             \A i \in Slot : Links!Unlinked(i)' =>
                 Links!Unlinked(i) /\ req'[i].video = req[i].video /\ req'[i].studio = req[i].studio
      PROVE  TwinsInv'
  <2>1. \A w \in Video \ {} : Links!Effective(w)' = Links!Effective(w)
    BY <1>4 DEF Links!Effective
  <2>2. Accounted({})
    BY <1>4, <2>1 DEF Accounted
  <2> QED BY <2>2, Untouched
<1>5. ASSUME NEW i \in Slot, NEW v \in Video, NEW s \in Links!Source, NEW o \in BOOLEAN,
             Links!ProposeStudio(i, v, s, o)
      PROVE  TwinsInv'
  <2>1. /\ req' = [req EXCEPT ![i] = Links!RequestFor(v, {"studio"}, "check", s, ~o)]
        /\ UNCHANGED <<title, manual, studioLink, credits, ungated, mistitled, racedChecks>>
    BY <1>5 DEF Links!ProposeStudio, Links!Start, Links!inputs, Links!links, Links!hist
  <2>2. Links!RequestFor(v, {"studio"}, "check", s, ~o).at = "check"
    BY DEF Links!RequestFor
  <2>3. \A j \in Slot : Links!Unlinked(j)' => j # i /\ Links!Unlinked(j) /\ req'[j] = req[j]
    BY <2>1, <2>2 DEF Links!Unlinked, SlotShape
  <2> QED BY <1>4, <2>1, <2>3 DEF Excused, Raced
<1>6. ASSUME NEW i \in Slot, NEW v \in Video, Links!CommitStudio(i, v) PROVE TwinsInv'
  <2>1. /\ req[i] \in Links!Request /\ req[i].at = "check" /\ req[i].video = v
        /\ UNCHANGED <<title, manual, studioLink, credits>>
    BY <1>6 DEF Links!CommitStudio, Links!links, SlotShape
  <2>2. CASE ~Links!Passes(i, v)
    <3>1. req' = [req EXCEPT ![i] = None] /\ UNCHANGED <<ungated, mistitled, racedChecks>>
      BY <1>6, <2>2 DEF Links!CommitStudio, Links!Finish
    <3>2. \A j \in Slot : Links!Unlinked(j)' => Links!Unlinked(j) /\ req'[j] = req[j]
      BY <3>1 DEF Links!Unlinked, SlotShape
    <3> QED BY <1>4, <2>1, <3>1, <3>2 DEF Excused, Raced
  <2>3. CASE Links!Passes(i, v)
    <3>1. req' = [req EXCEPT ![i] = [[req[i] EXCEPT !.at = "write"] EXCEPT !.src = None]]
      BY <1>6, <2>3 DEF Links!CommitStudio, SlotShape
    <3>2. /\ \A j \in Slot \ {i} : req'[j] = req[j] /\ (Links!Unlinked(j)' <=> Links!Unlinked(j))
          /\ req'[i].video = v /\ req'[i].studio = req[i].studio /\ (Links!Unlinked(i)' => req[i].gated)
      BY <2>1, <3>1 DEF Links!Unlinked, SlotShape, Links!Request
    <3>3. CASE ~req[i].gated
      <4>1. ungated \subseteq ungated' /\ UNCHANGED <<mistitled, racedChecks>>
        BY <1>6, <2>3, <3>3 DEF Links!CommitStudio
      <4> QED BY <1>4, <2>1, <3>2, <3>3, <4>1 DEF Excused, Raced
    \* The check is made again, under the title the files give: it sees every
    \* video that has the studio by now.
    <3>4. CASE req[i].gated
      <4>1. Links!Checked(v, "studio") /\ Links!Titled(v) /\ UNCHANGED ungated
        BY <1>6, <2>3, <3>4 DEF Links!CommitStudio
      <4>2. Raced \subseteq Raced' /\ \A j \in Slot : Links!Unlinked(j) => {v, req[j].video} \subseteq Raced'
        BY <4>1, CheckRecords
      <4>3. mistitled \subseteq mistitled' /\ (title[v] = Links!Effective(v) \/ v \in mistitled')
        BY <4>1 DEF Links!Titled
      <4>4. Excused \subseteq Excused'
        BY <4>1, <4>2, <4>3 DEF Excused
      <4>5. \A w \in Video : Links!Effective(w)' = Links!Effective(w)
        BY <2>1 DEF Links!Effective
      <4>6. TwinsExcused'
        BY <2>1, <4>4, <4>5, CastPrimed DEF TwinsInv, TwinsExcused, Links!Twins
      <4>7. DecidedTwice'
        <5> SUFFICES ASSUME NEW j \in Slot, NEW k \in Slot, Links!Unlinked(j)', Links!Unlinked(k)',
                            req'[j].video # req'[k].video
                     PROVE  {req'[j].video, req'[k].video} \subseteq Raced'
          BY DEF DecidedTwice
        <5>1. CASE j # i /\ k # i
          BY <3>2, <4>2, <5>1 DEF TwinsInv, DecidedTwice
        <5>2. CASE j = i
          BY <3>2, <4>2, <5>2
        <5>3. CASE k = i
          BY <3>2, <4>2, <5>3
        <5> QED BY <5>1, <5>2, <5>3
      <4>8. DecidedApart'
        <5> SUFFICES ASSUME NEW j \in Slot, NEW u \in Video, NEW w \in Video,
                            Links!Unlinked(j)', u = req'[j].video, w # u,
                            Links!Effective(w)' = Links!Effective(u)', studioLink'[w] = req'[j].studio,
                            Links!SameCast(credits[u], credits[w])'
                     PROVE  {u, w} \cap Excused' # {}
          BY DEF DecidedApart
        <5>0. Links!Effective(w) = Links!Effective(u) /\ studioLink[w] = req'[j].studio
              /\ Links!SameCast(credits[u], credits[w])
          BY <2>1, <4>5, CastPrimed
        <5>1. CASE j # i
          BY <3>2, <4>4, <5>0, <5>1 DEF TwinsInv, DecidedApart
        <5>2. CASE j = i
          <6>1. u = v /\ studioLink[w] = req[i].studio
            BY <3>2, <5>0, <5>2
          <6>2. ~Links!FindStudioCollision(v, req[i].studio)
            BY <2>3, <3>4 DEF Links!Passes
          <6>3. title[v] # Links!Effective(v)
            BY <5>0, <6>1, <6>2, CastSymmetric DEF Links!FindStudioCollision, Links!Collides
          <6> QED BY <4>3, <6>1, <6>3 DEF Excused
        <5> QED BY <5>1, <5>2
      <4> QED BY <4>6, <4>7, <4>8 DEF TwinsInv
    <3> QED BY <3>3, <3>4
  <2> QED BY <2>2, <2>3
<1>7. ASSUME NEW i \in Slot, NEW v \in Video, NEW todo \in SUBSET Links!Kind, todo # {}, Links!Write(i, v, todo),
             UNCHANGED title
      PROVE  TwinsInv'
  <2>1. PICK r \in Links!Request \ {None} : req' = [req EXCEPT ![i] = r] /\ r.at = "load"
    BY <1>7, WriteStarts
  <2>2. UNCHANGED <<manual, studioLink, credits, ungated, racedChecks, mistitled>>
    BY <1>7, WriteStarts
  <2>3. \A j \in Slot : Links!Unlinked(j)' => Links!Unlinked(j) /\ req'[j] = req[j]
    BY <2>1 DEF Links!Unlinked, SlotShape
  <2> QED BY <1>4, <1>7, <2>2, <2>3 DEF Excused, Raced
<1>8. ASSUME NEW i \in Slot, NEW v \in Video, Links!ClearStudio(i, v) PROVE TwinsInv'
  BY <1>7, <1>8 DEF Links!ClearStudio, Links!Kind
<1>9. ASSUME NEW i \in Slot, NEW v \in Video, NEW c \in Links!Credit, Links!ClearCuration(i, v, c) PROVE TwinsInv'
  BY <1>7, <1>9 DEF Links!ClearCuration, Links!Kind
<1>10. ASSUME NEW i \in Slot, NEW v \in Video, NEW s \in Studio \cup {None},
              NEW cs \in {{}} \cup {{c} : c \in Links!Credit}, Links!Rescan(i, v, s, cs)
       PROVE  TwinsInv'
  BY <1>7, <1>10 DEF Links!Rescan, Links!Kind
<1>11. ASSUME NEW i \in Slot, NEW v \in Video, NEW s \in Studio \cup {None}, Links!Enrich(i, v, s) PROVE TwinsInv'
  BY <1>7, <1>11 DEF Links!Enrich, Links!Kind
<1>12. ASSUME NEW i \in Slot, Links!Load(i) PROVE TwinsInv'
  <2> DEFINE fresh == Links!RequestFor(req[i].video, req[i].todo, "write", pick[req[i].video], FALSE)
             loaded == [fresh EXCEPT !.src = None]
  <2>1. /\ req' = [req EXCEPT ![i] = loaded]
        /\ UNCHANGED <<title, manual, studioLink, credits, ungated, racedChecks, mistitled>>
    BY <1>12 DEF Links!Load, Links!inputs, Links!links, Links!hist
  <2>2. ~loaded.gated
    BY DEF Links!RequestFor
  <2> HIDE DEF loaded
  <2>3. \A j \in Slot : Links!Unlinked(j)' => Links!Unlinked(j) /\ req'[j] = req[j]
    BY <2>1, <2>2 DEF Links!Unlinked, SlotShape
  <2> QED BY <1>4, <2>1, <2>3 DEF Excused, Raced
\* A decision has one kind to link, so its slot is free afterwards.
<1>13. ASSUME NEW i \in Slot, NEW k \in Links!Kind, Links!Reconcile(i, k)
       PROVE  \A j \in Slot : Links!Unlinked(j)' => j # i /\ Links!Unlinked(j) /\ req'[j] = req[j]
  <2>1. req[i] \in Links!Request /\ req[i].at = "write" /\ k \in req[i].todo /\ (req[i].gated => req[i].todo = {k})
    BY <1>13 DEF Links!Reconcile, SlotShape
  <2>2. CASE req[i].todo = {k}
    BY <1>13, <2>2 DEF Links!Reconcile, Links!Done, Links!Finish, SlotShape, Links!Unlinked
  <2>3. CASE req[i].todo # {k}
    <3>1. req' = [req EXCEPT ![i] = [req[i] EXCEPT !.todo = req[i].todo \ {k}]]
      BY <1>13, <2>3 DEF Links!Reconcile, Links!Done, SlotShape
    <3>2. ~[req[i] EXCEPT !.todo = req[i].todo \ {k}].gated
      BY <2>1, <2>3 DEF Links!Request
    <3> QED BY <3>1, <3>2 DEF SlotShape, Links!Unlinked
  <2> QED BY <2>2, <2>3
<1>14. ASSUME NEW i \in Slot, Links!ReconcileVideoStudios(i) PROVE TwinsInv'
  <2>0. req[i] \in Links!Request /\ req[i].at = "write" /\ req[i] # None
    BY <1>14 DEF Links!ReconcileVideoStudios, Links!Reconcile, SlotShape
  <2>2. PICK v \in Video : v = req[i].video
    BY <2>0 DEF Links!Request
  <2>1. /\ studioLink' = [studioLink EXCEPT ![v] = req[i].studio]
        /\ UNCHANGED <<title, manual, credits, racedChecks, mistitled>>
        /\ ungated' = IF (req[i].gated /\ req[i].studio = Links!StudioOf(v)) \/ studioLink' = studioLink
                         THEN ungated ELSE ungated \cup {v}
    BY <1>14, <2>2 DEF Links!ReconcileVideoStudios, Links!inputs
  <2>3. \A j \in Slot : Links!Unlinked(j)' => j # i /\ Links!Unlinked(j) /\ req'[j] = req[j]
    BY <1>13, <1>14 DEF Links!ReconcileVideoStudios, Links!Kind
  <2>4. Excused \subseteq Excused' /\ Raced \subseteq Raced'
    BY <2>1 DEF Excused, Raced
  <2>5. \A w \in Video : /\ Links!Effective(w)' = Links!Effective(w)
                         /\ w # v => studioLink'[w] = studioLink[w]
    BY <2>1 DEF Links!Effective, LinkShape
  <2>6. CASE ~req[i].gated \/ req[i].studio # Links!StudioOf(v)
    <3>1. studioLink' # studioLink => {v} \subseteq Excused'
      BY <2>1, <2>6 DEF Excused
    <3>2. studioLink' # studioLink => Accounted({v})
      BY <2>1, <2>2, <2>3, <2>4, <2>5, <3>1 DEF Accounted
    <3>3. studioLink' = studioLink => TwinsInv'
      BY <1>4, <2>1, <2>3, <2>4
    <3> QED BY <3>2, <3>3, Untouched
  <2>8. CASE req[i].gated
    <3>0. Links!Unlinked(i) /\ v = req[i].video /\ studioLink'[v] = req[i].studio
      BY <2>0, <2>1, <2>2, <2>8 DEF Links!Unlinked, LinkShape
    <3>1. ASSUME NEW w \in Video \ {v}, Links!Twins(v, w)' PROVE {v, w} \cap Excused # {}
      <4>1. /\ Links!Effective(w) = Links!Effective(v) /\ studioLink[w] = req[i].studio
            /\ Links!SameCast(credits[v], credits[w])
        BY <2>1, <2>2, <2>5, <3>0, <3>1, CastPrimed DEF Links!Twins
      <4> QED BY <2>2, <3>0, <4>1 DEF TwinsInv, DecidedApart
    <3>2. \A a, b \in Video : Links!Twins(a, b)' => Links!Twins(b, a)'
      BY CastSymmetric, CastPrimed DEF Links!Twins
    <3>3. \A a, b \in Video \ {v} : Links!Twins(a, b)' => Links!Twins(a, b)
      BY <2>1, <2>5, CastPrimed DEF Links!Twins
    <3>4. TwinsExcused'
      <4> SUFFICES ASSUME NEW a \in Video, NEW b \in Video, a # b, Links!Twins(a, b)'
                   PROVE  {a, b} \cap Excused # {}
        BY <2>4 DEF TwinsExcused
      <4>1. CASE a = v
        BY <3>1, <4>1
      <4>2. CASE b = v
        BY <3>1, <3>2, <4>2
      <4>3. CASE a # v /\ b # v
        BY <3>3, <4>3 DEF TwinsInv, TwinsExcused
      <4> QED BY <4>1, <4>2, <4>3
    <3>5. DecidedTwice'
      BY <2>3, <2>4 DEF TwinsInv, DecidedTwice
    <3>6. DecidedApart'
      <4> SUFFICES ASSUME NEW j \in Slot, NEW u \in Video, NEW w \in Video,
                          Links!Unlinked(j)', u = req'[j].video, w # u,
                          Links!Effective(w)' = Links!Effective(u)', studioLink'[w] = req'[j].studio,
                          Links!SameCast(credits[u], credits[w])'
                   PROVE  {u, w} \cap Excused' # {}
        BY DEF DecidedApart
      <4>1. /\ Links!Unlinked(j) /\ req'[j] = req[j]
            /\ Links!Effective(w) = Links!Effective(u) /\ Links!SameCast(credits[u], credits[w])
        BY <2>1, <2>3, <2>5, CastPrimed
      <4>2. CASE w # v
        BY <2>4, <2>5, <4>1, <4>2 DEF TwinsInv, DecidedApart
      \* The other decision for the studio just linked was checked before it.
      <4>3. CASE w = v
        <5>1. {u, v} \subseteq Raced
          BY <3>0, <4>1, <4>3 DEF TwinsInv, DecidedTwice
        <5> QED BY <2>4, <4>3, <5>1 DEF Excused
      <4> QED BY <4>2, <4>3
    <3> QED BY <3>4, <3>5, <3>6 DEF TwinsInv
  <2> QED BY <2>6, <2>8
<1>15. ASSUME NEW i \in Slot, Links!ReconcileVideoPeople(i) PROVE TwinsInv'
  <2>0. req[i] \in Links!Request /\ req[i].at = "write" /\ req[i] # None
    BY <1>15 DEF Links!ReconcileVideoPeople, Links!Reconcile, SlotShape
  <2>2. PICK v \in Video : v = req[i].video
    BY <2>0 DEF Links!Request
  <2>1. /\ credits' = [credits EXCEPT ![v] = req[i].cast]
        /\ UNCHANGED <<title, manual, studioLink, racedChecks, mistitled>>
        /\ ungated' = IF credits' = credits THEN ungated ELSE ungated \cup {v}
    BY <1>15, <2>2 DEF Links!ReconcileVideoPeople, Links!inputs
  <2>3. \A j \in Slot : Links!Unlinked(j)' => j # i /\ Links!Unlinked(j) /\ req'[j] = req[j]
    BY <1>13, <1>15 DEF Links!ReconcileVideoPeople, Links!Kind
  <2>4. Excused \subseteq Excused' /\ Raced \subseteq Raced'
    BY <2>1 DEF Excused, Raced
  <2>5. CASE credits' = credits
    BY <1>4, <2>1, <2>3, <2>4, <2>5
  <2>6. CASE credits' # credits
    <3>1. {v} \subseteq Excused'
      BY <2>1, <2>6 DEF Excused
    <3>2. \A w \in Video \ {v} : Links!Effective(w)' = Links!Effective(w) /\ credits'[w] = credits[w]
      BY <2>1 DEF Links!Effective, LinkShape
    <3>3. Accounted({v})
      BY <2>1, <2>2, <2>3, <2>4, <3>1, <3>2 DEF Accounted
    <3> QED BY <3>3, Untouched
  <2> QED BY <2>5, <2>6
<1>16. ASSUME NEW i \in Slot, NEW k \in Links!Kind, Links!RelinkFails(i, k) PROVE TwinsInv'
  <2>1. UNCHANGED <<title, manual, studioLink, credits, ungated, racedChecks, mistitled>>
    BY <1>16 DEF Links!RelinkFails, Links!inputs, Links!links
  <2>2. \A j \in Slot : Links!Unlinked(j)' => j # i /\ Links!Unlinked(j) /\ req'[j] = req[j]
    BY <1>13, <1>16 DEF Links!RelinkFails
  <2> QED BY <1>4, <2>1, <2>2 DEF Excused, Raced
\* A backfill links studios only where none was linked, and puts them on record.
<1>17. CASE Links!Restart
  <2> DEFINE X == {v \in Video : studioLink'[v] # studioLink[v]}
  <2>1. UNCHANGED <<title, manual, credits, racedChecks, mistitled>> /\ req' = [i \in Slot |-> None]
    BY <1>17 DEF Links!Restart, Links!inputs
  <2>2. X \subseteq ungated' /\ ungated \subseteq ungated'
    BY <1>17 DEF Links!Restart, Links!BackfillStudioLinks, LinkShape
  <2>3. X \subseteq Excused' /\ Excused \subseteq Excused' /\ Raced \subseteq Raced'
    BY <2>1, <2>2 DEF Excused, Raced
  <2>4. X \in SUBSET Video /\ \A w \in Video \ X : studioLink'[w] = studioLink[w]
    OBVIOUS
  <2> HIDE DEF X
  <2>5. \A w \in Video : Links!Effective(w)' = Links!Effective(w)
    BY <2>1 DEF Links!Effective
  <2>6. \A i \in Slot : ~Links!Unlinked(i)'
    BY <2>1 DEF Links!Unlinked
  <2>7. Accounted(X)
    BY <2>1, <2>3, <2>4, <2>5, <2>6 DEF Accounted
  <2> QED BY <2>7, Untouched
<1>18. CASE UNCHANGED Links!vars
  <2>1. UNCHANGED <<title, manual, studioLink, credits, req, ungated, racedChecks, mistitled>>
    BY <1>18 DEF Links!vars, Links!inputs, Links!links, Links!hist
  <2>2. \A i \in Slot : Links!Unlinked(i)' => Links!Unlinked(i)
    BY <2>1 DEF Links!Unlinked
  <2> QED BY <1>4, <2>1, <2>2 DEF Excused, Raced
<1> QED
  BY <1>1, <1>2, <1>3, <1>5, <1>6, <1>8, <1>9, <1>10, <1>11, <1>12, <1>14, <1>15, <1>16, <1>17, <1>18 DEF Links!Next

\* At rest the studio and credits linked are those the fields show, and two
\* videos agree only by a change that was forced, that no gate sees, or whose
\* check missed another: for every set of videos, titles, people and slots.
THEOREM LinksHold == Links!Spec => []LinksFollow
<1>1. LinkInv /\ [Links!Next]_(Links!vars) => LinkInv'
  BY ShapesNext, FollowNext, TwinsNext DEF LinkInv
<1>2. LinkInv => LinksFollow
  BY DEF LinkInv, LinksFollow, TwinsInv, TwinsExcused, Excused, Raced, Links!TwinsAreForced
<1> QED
  BY <1>1, <1>2, LinkInit, PTL DEF Links!Spec
-----------------------------------------------------------------------------
(* The books of tag writes.                                                *)

Used == 1 .. lastId
KeyOf(i) == IF past[i].batch = None THEN <<"job", i>> ELSE past[i].batch
Ran(i) == [job |-> i, batch |-> past[i].batch] \in runs

\* What the tables and files hold.
BookShape ==
    /\ tags \in [Video -> SUBSET Tag] /\ tagLink \in [Video -> [Tag -> Writes!Source]]
    /\ suppressed \in [Video -> SUBSET Tag] /\ silenced \subseteq Tag
    /\ snaps \subseteq [batch : Writes!Key, video : Video, tags : SUBSET Tag]
    /\ ledger \in [Video -> (SUBSET Tag) \cup {None}]
    /\ runs \subseteq [job : Writes!Id, batch : Writes!Key \cup {None}]
    /\ reading \in [Video -> (SUBSET Tag) \cup {None}]
    /\ events \in 0 .. MaxEvent

Step == {"snapshot", "write", "audit", "promote", "reread", "record", "finish"}
Holding == [id : Writes!Id, ok : BOOLEAN, batch : Writes!Key \cup {None}, step : Step]
Made == [video : Video, batch : Writes!Key \cup {None}]

\* What the queue, its workers and their history hold: a worker has a running job of its
\* video, a row and its history agree, and nothing is kept of an id not handed out.
JobShape ==
    /\ lastId \in 0 .. MaxJob
    /\ queue \in [Writes!Id -> Writes!Row \cup {None}]
    /\ work \in [Video -> Holding \cup {None}]
    /\ \A v \in Video : work[v] # None =>
          work[v].id \in Writes!Rows /\ queue[work[v].id].status = "running" /\ queue[work[v].id].video = v
    /\ past \in [Writes!Id -> Made \cup {None}]
    /\ first \in [Writes!Id -> (SUBSET Tag) \cup {None}]
    /\ missed \subseteq Writes!Id /\ landed \subseteq Writes!Id /\ unlogged \subseteq Video
    /\ \A i \in Used : past[i] \in Made
    /\ \A i \in Writes!Rows :
          i \in Used /\ past[i].video = queue[i].video /\ past[i].batch = queue[i].batch
    /\ \A i \in Writes!Id \ Used : past[i] = None /\ first[i] = None /\ i \notin missed \cup landed

WriteShape == BookShape /\ JobShape

\* A batch is named by an id handed out, and has one job for each of its videos.
Batched ==
    \A i \in Used : past[i].batch # None =>
        /\ \E k \in Used : past[i].batch = <<"batch", k>>
        /\ \A j \in Used : (j # i /\ past[j].batch = past[i].batch) => past[j].video # past[i].video

\* Every snapshot was taken for a job that came to the file, and a job that did has one
\* unless taking it failed.
Snapped ==
    /\ \A s \in snaps : \E i \in Used : first[i] # None /\ s.batch = KeyOf(i) /\ s.video = past[i].video
    /\ \A i \in Used : (first[i] # None /\ i \notin missed) =>
          \E s \in snaps : s.batch = KeyOf(i) /\ s.video = past[i].video

\* A ledger that disagrees with its file has a job still to run that wrote the file, or
\* is excused; so has a worker past its audit.
Audited ==
    \A v \in Video :
        /\ Writes!At(v, "audit") => tags[v] = Writes!Job(v).tags /\ work[v].id \in landed
        /\ (/\ work[v] # None /\ work[v].step \in {"promote", "reread", "record", "finish"}
            /\ work[v].id \in landed) => v \in unlogged
        /\ (ledger[v] # None /\ v \notin unlogged /\ ledger[v] # tags[v]) =>
              \E i \in Writes!Rows : queue[i].video = v /\ queue[i].status # "failed" /\ i \in landed

\* A job of a batch that is over has its run, filed under the batch its worker kept.
RunsKept ==
    /\ \A i \in Used :
          (past[i].batch # None /\ (i \notin Writes!Rows \/ queue[i].status = "failed")) => Ran(i)
    /\ \A v \in Video : work[v] # None =>
          /\ past[work[v].id].batch # None => work[v].batch = past[work[v].id].batch
          /\ work[v].step = "finish" => [job |-> work[v].id, batch |-> work[v].batch] \in runs

\* What half a poll read is still true: a job not left when it looked has its run.
Polled ==
    poll # None =>
        /\ \E k \in Used : poll.batch = <<"batch", k>>
        /\ \A i \in Used : past[i].batch = poll.batch => i \in poll.left \/ Ran(i)

WriteInv ==
    /\ WriteShape /\ Batched /\ Snapped /\ Writes!SnapshotPrior
    /\ Audited /\ Writes!RemovedStaysOff /\ RunsKept /\ Polled

LEMMA WriteApart ==
    /\ \A r \in Writes!Row : r # None
    /\ \A k \in Writes!Key : k # None
    /\ \A T \in SUBSET Tag : T # None
BY PartsAssumption DEF Writes!NothingAssumption

LEMMA StartTyped == Scanned \in [Video -> SUBSET Tag] /\ MaxJob \in Nat /\ MaxEvent \in Nat
BY PartsAssumption DEF Writes!StartAssumption, Writes!BoundsAssumption

LEMMA WriteTyped == WriteShape => Writes!TypeOK
BY DEF WriteShape, BookShape, JobShape, Holding, Writes!TypeOK, Writes!Job

LEMMA UsedIds == JobShape => lastId \in Nat /\ Used \subseteq Writes!Id /\ Writes!Rows \subseteq Used
BY StartTyped DEF JobShape, Used, Writes!Id, Writes!Rows

LEMMA RowTyped ==
    ASSUME JobShape, NEW i \in Writes!Rows
    PROVE  /\ i \in Used /\ i \in Writes!Id /\ queue[i] \in Writes!Row
           /\ queue[i].video \in Video /\ queue[i].tags \in SUBSET Tag
           /\ queue[i].batch \in Writes!Key \cup {None}
           /\ queue[i].status \in {"pending", "running", "failed"}
BY DEF JobShape, Writes!Rows, Writes!Row

LEMMA WorkTyped ==
    ASSUME JobShape, NEW v \in Video, work[v] # None
    PROVE  /\ work[v].id \in Writes!Rows /\ queue[work[v].id].status = "running"
           /\ queue[work[v].id].video = v /\ work[v].batch \in Writes!Key \cup {None}
           /\ work[v] \in Holding /\ work[v].id \in Used
BY DEF JobShape, Holding

LEMMA AtTyped ==
    ASSUME JobShape, NEW v \in Video, NEW step, Writes!At(v, step)
    PROVE  /\ Writes!Mine(v) = work[v].id /\ work[v].id \in Writes!Rows /\ work[v].id \in Writes!Id
           /\ work[v].id \in Used /\ Writes!Job(v) = queue[work[v].id]
           /\ Writes!Job(v).status = "running" /\ Writes!Job(v).video = v /\ Writes!Job(v).tags \in SUBSET Tag
           /\ work[v] \in Holding /\ work[v].batch \in Writes!Key \cup {None} /\ work[v].step = step
           /\ Writes!Job(v).batch \in Writes!Key \cup {None}
BY WorkTyped, RowTyped, UsedIds DEF Writes!At, Writes!Mine, Writes!Job

LEMMA RelinkedTyped ==
    ASSUME BookShape, NEW v \in Video, NEW F \in SUBSET Tag
    PROVE  Writes!Relinked(v, F) \in [Video -> [Tag -> Writes!Source]]
BY DEF BookShape, Writes!Relinked, Writes!Source

LEMMA WriteInit == Writes!Init => WriteInv
<1> SUFFICES ASSUME Writes!Init PROVE WriteInv
  OBVIOUS
<1> USE StartTyped DEF Writes!Init
<1>1. Used = {} /\ Writes!Rows = {} /\ lastId \in Nat
  BY DEF Used, Writes!Rows
<1>2. BookShape
  BY DEF BookShape, Writes!Source
<1>3. JobShape
  <2>1. /\ lastId \in 0 .. MaxJob /\ queue \in [Writes!Id -> Writes!Row \cup {None}]
        /\ work \in [Video -> Holding \cup {None}] /\ \A v \in Video : work[v] = None
    OBVIOUS
  <2>2. /\ past \in [Writes!Id -> Made \cup {None}] /\ \A i \in Writes!Id : past[i] = None /\ first[i] = None
        /\ first \in [Writes!Id -> (SUBSET Tag) \cup {None}]
        /\ missed = {} /\ landed = {} /\ unlogged = {}
    OBVIOUS
  <2> QED
    BY <1>1, <2>1, <2>2 DEF JobShape
<1>4. Batched /\ Snapped /\ Polled /\ Writes!RemovedStaysOff /\ Writes!SnapshotPrior
  BY <1>1 DEF Batched, Snapped, Polled, Writes!RemovedStaysOff, Writes!SnapshotPrior
<1>5. Audited /\ RunsKept
  BY <1>1 DEF Audited, RunsKept, Writes!At
<1> QED
  BY <1>2, <1>3, <1>4, <1>5 DEF WriteInv, WriteShape

\* What a tag sync inserts: jobs of different videos, under a key of their own.
LEMMA Synced ==
    ASSUME NEW T \in SUBSET Tag, Writes!EnqueueMany(T)
    PROVE  \E last \in lastId + 1 .. MaxJob : \E of \in [lastId + 1 .. last -> Video] :
              /\ \A i, j \in lastId + 1 .. last : i # j => of[i] # of[j]
              /\ queue' = [i \in Writes!Id |-> IF i \in lastId + 1 .. last
                      THEN [video |-> of[i], tags |-> Writes!GenreWritebackValues(of[i]),
                            batch |-> <<"batch", lastId + 1>>, status |-> "pending"] ELSE queue[i]]
              /\ past' = [i \in Writes!Id |-> IF i \in lastId + 1 .. last
                      THEN [video |-> of[i], batch |-> <<"batch", lastId + 1>>] ELSE past[i]]
              /\ lastId' = last
              /\ UNCHANGED <<work, first, missed, landed, unlogged>>
<1> DEFINE V == {v \in Video : \E t \in T : tagLink[v][t] # "none"}
           key == <<"batch", lastId + 1>>
<1>1. PICK last \in lastId + 1 .. MaxJob :
         LET of == CHOOSE f \in Writes!Bijection(lastId + 1 .. last, V) : TRUE IN
         /\ Writes!ExistsBijection(lastId + 1 .. last, V)
         /\ queue' = [i \in Writes!Id |-> IF i \in lastId + 1 .. last
                 THEN [video |-> of[i], tags |-> Writes!GenreWritebackValues(of[i]),
                       batch |-> key, status |-> "pending"] ELSE queue[i]]
         /\ past' = [i \in Writes!Id |-> IF i \in lastId + 1 .. last THEN [video |-> of[i], batch |-> key]
                                                                     ELSE past[i]]
         /\ lastId' = last
  BY DEF Writes!EnqueueMany
<1> DEFINE of == CHOOSE f \in Writes!Bijection(lastId + 1 .. last, V) : TRUE
<1>2. of \in Writes!Bijection(lastId + 1 .. last, V)
  BY <1>1 DEF Writes!ExistsBijection
<1>3. of \in [lastId + 1 .. last -> Video] /\ \A i, j \in lastId + 1 .. last : i # j => of[i] # of[j]
  <2>1. of \in [lastId + 1 .. last -> V] /\ V \subseteq Video
    BY <1>2 DEF Writes!Bijection, Writes!Injection
  <2>2. \A i, j \in lastId + 1 .. last : i # j => of[i] # of[j]
    BY <1>2 DEF Writes!Bijection, Writes!Injection, Writes!IsInjective
  <2> HIDE DEF of
  <2> QED
    BY <2>1, <2>2
<1>4. UNCHANGED <<work, first, missed, landed, unlogged>>
  BY DEF Writes!EnqueueMany
<1>5. /\ queue' = [i \in Writes!Id |-> IF i \in lastId + 1 .. last
               THEN [video |-> of[i], tags |-> Writes!GenreWritebackValues(of[i]),
                     batch |-> key, status |-> "pending"] ELSE queue[i]]
      /\ past' = [i \in Writes!Id |-> IF i \in lastId + 1 .. last THEN [video |-> of[i], batch |-> key]
                                                                  ELSE past[i]]
      /\ lastId' = last
  BY <1>1
<1> HIDE DEF of
<1> QED
  BY <1>3, <1>4, <1>5

\* A step of the books: what is written is tags, and a key of the batch or the job.
LEMMA BookNext == WriteShape /\ [Writes!Next]_(Writes!vars) => BookShape'
<1> SUFFICES ASSUME WriteShape, [Writes!Next]_(Writes!vars) PROVE BookShape'
  OBVIOUS
<1>0. BookShape /\ JobShape
  BY DEF WriteShape
<1> USE <1>0, StartTyped DEF BookShape, Writes!tags, Writes!books, Writes!Event
<1>1. CASE UNCHANGED Writes!vars
  BY <1>1 DEF Writes!vars
<1>2. ASSUME NEW v \in Video, Writes!Decide(v) PROVE BookShape'
  <2>1. PICK t \in Tag : Writes!AttachTagToVideo(v, t) \/ Writes!DetachTagFromVideo(v, t)
    BY <1>2 DEF Writes!Decide
  <2>2. CASE Writes!AttachTagToVideo(v, t)
    BY <2>2 DEF Writes!AttachTagToVideo, Writes!Source
  <2>3. CASE Writes!DetachTagFromVideo(v, t)
    BY <2>3 DEF Writes!DetachTagFromVideo, Writes!Source
  <2> QED
    BY <2>1, <2>2, <2>3
<1>3. ASSUME NEW t \in Tag, Writes!SetTagWritebackEnabled(t) PROVE BookShape'
  BY <1>3 DEF Writes!SetTagWritebackEnabled
<1>4. ASSUME NEW v \in Video, Writes!RefreshRead(v) \/ Writes!RefreshStore(v) PROVE BookShape'
  <2>1. CASE Writes!RefreshRead(v)
    BY <2>1 DEF Writes!RefreshRead
  <2>2. CASE Writes!RefreshStore(v)
    <3>1. reading[v] \in SUBSET Tag
      BY <2>2 DEF Writes!RefreshStore
    <3>2. tagLink' \in [Video -> [Tag -> Writes!Source]]
      BY <2>2, <3>1, RelinkedTyped DEF Writes!RefreshStore
    <3> QED
      BY <2>2, <3>2 DEF Writes!RefreshStore
  <2> QED
    BY <1>4, <2>1, <2>2
<1>5. ASSUME NEW v \in Video, Writes!Enqueue(v) PROVE BookShape'
  BY <1>5 DEF Writes!Enqueue, Writes!Insert, Writes!FreshId, Writes!GenreWritebackValues, Writes!Row, Writes!Id
<1>6. ASSUME NEW s \in snaps, Writes!Revert(s) PROVE BookShape'
  BY <1>6 DEF Writes!Revert, Writes!Insert, Writes!FreshId, Writes!Row, Writes!Id
<1>7. ASSUME NEW T \in SUBSET Tag, Writes!EnqueueMany(T) PROVE BookShape'
  BY <1>7 DEF Writes!EnqueueMany, Writes!GenreWritebackValues, Writes!Row, Writes!Id, Writes!Key, 
     ExistsBijection, Bijection, Injection, Surjection, IsInjective
<1>8. ASSUME NEW v \in Video, Writes!RetryFailed(v) \/ Writes!DismissFailed(v) PROVE BookShape'
  BY <1>8 DEF Writes!RetryFailed, Writes!DismissFailed, Writes!Of, Writes!Row
<1>9. ASSUME NEW v \in Video, Writes!Claim(v) PROVE BookShape'
  BY <1>9 DEF Writes!Claim, Writes!Of, Writes!Row
<1>10. ASSUME NEW v \in Video, Writes!ProcessNothing(v) \/ Writes!WriteFails(v) PROVE BookShape'
  BY <1>10 DEF Writes!ProcessNothing, Writes!WriteFails, Writes!Unwritten
<1>11. ASSUME NEW v \in Video, Writes!SnapshotBeforeWrite(v) PROVE BookShape'
  <2>1. Writes!At(v, "snapshot")
    BY <1>11 DEF Writes!SnapshotBeforeWrite
  <2>2. Writes!SnapshotBatch(Writes!Mine(v)) \in Writes!Key
    BY <2>1, AtTyped, WriteApart DEF Writes!SnapshotBatch, Writes!Key, Writes!Job
  <2>3. snaps' \subseteq [batch : Writes!Key, video : Video, tags : SUBSET Tag]
    BY <1>11, <2>2 DEF Writes!SnapshotBeforeWrite, Writes!Snapshot
  <2> QED
    BY <1>11, <2>3 DEF Writes!SnapshotBeforeWrite
<1>12. ASSUME NEW v \in Video, Writes!SnapshotFails(v) PROVE BookShape'
  BY <1>12 DEF Writes!SnapshotFails, Writes!BatchKept, Writes!Reached
<1>13. ASSUME NEW v \in Video, Writes!WriteBatch(v) PROVE BookShape'
  BY <1>13, AtTyped DEF Writes!WriteBatch
<1>14. ASSUME NEW v \in Video, Writes!InsertWriteback(v) PROVE BookShape'
  BY <1>14, AtTyped DEF Writes!InsertWriteback
<1>15. ASSUME NEW v \in Video, Writes!PromoteIgnoredFileTags(v) \/ Writes!PostWrite(v) PROVE BookShape'
  <2>1. CASE Writes!PromoteIgnoredFileTags(v)
    <3>1. tagLink' \in [Video -> [Tag -> Writes!Source]]
      BY <2>1 DEF Writes!PromoteIgnoredFileTags, Writes!Source
    <3> QED
      BY <2>1, <3>1 DEF Writes!PromoteIgnoredFileTags
  <2>2. CASE Writes!PostWrite(v)
    <3>1. tags[v] \in SUBSET Tag
      OBVIOUS
    <3>2. tagLink' \in [Video -> [Tag -> Writes!Source]]
      BY <2>2, <3>1, RelinkedTyped DEF Writes!PostWrite
    <3> QED
      BY <2>2, <3>2 DEF Writes!PostWrite
  <2> QED
    BY <1>15, <2>1, <2>2
<1>16. ASSUME NEW v \in Video, Writes!RecordJobRun(v) PROVE BookShape'
  BY <1>16, AtTyped DEF Writes!RecordJobRun
<1>17. ASSUME NEW v \in Video, Writes!FinishWriteback(v) PROVE BookShape'
  BY <1>17 DEF Writes!FinishWriteback, Writes!Row
<1>18. ASSUME Writes!Restart PROVE BookShape'
  BY <1>18 DEF Writes!Restart, Writes!Recovered, Writes!Row
<1>19. ASSUME (\E b \in Writes!Batches : Writes!PollQueue(b)) \/ Writes!PollRuns PROVE BookShape'
  BY <1>19 DEF Writes!PollQueue, Writes!PollRuns
<1> QED
  BY <1>1, <1>2, <1>3, <1>4, <1>5, <1>6, <1>7, <1>8, <1>9, <1>10, <1>11, <1>12, <1>13, <1>14, <1>15, <1>16,
     <1>17, <1>18, <1>19 DEF Writes!Next, Writes!Process

\* Claiming and finishing change the status of the worker's own row; the rows of other
\* workers are other rows, because a row is of one video.
LEMMA JobNext == WriteShape /\ [Writes!Next]_(Writes!vars) => JobShape'
<1> SUFFICES ASSUME WriteShape, [Writes!Next]_(Writes!vars) PROVE JobShape'
  OBVIOUS
<1>0. BookShape /\ JobShape
  BY DEF WriteShape
<1> USE <1>0, UsedIds DEF Writes!hist, Used
<1>1. ASSUME UNCHANGED <<queue, lastId, work, past, first, missed, landed, unlogged>> PROVE JobShape'
  BY <1>1 DEF JobShape, Writes!Rows
<1>2. ASSUME NEW v \in Video, Writes!Decide(v) PROVE JobShape'
  BY <1>1, <1>2 DEF Writes!Decide, Writes!AttachTagToVideo, Writes!DetachTagFromVideo
<1>3. ASSUME NEW t \in Tag, Writes!SetTagWritebackEnabled(t) PROVE JobShape'
  BY <1>1, <1>3 DEF Writes!SetTagWritebackEnabled
<1>4. ASSUME NEW v \in Video, Writes!RefreshRead(v) \/ Writes!RefreshStore(v) PROVE JobShape'
  BY <1>1, <1>4 DEF Writes!RefreshRead, Writes!RefreshStore
<1>5. ASSUME NEW i \in Writes!FreshId, NEW v \in Video, NEW T \in SUBSET Tag,
             Writes!Insert(i, v, T, None), UNCHANGED work
      PROVE  JobShape'
  <2> DEFINE row == [video |-> v, tags |-> T, batch |-> None, status |-> "pending"]
  <2>1. /\ i = lastId + 1 /\ i \in Writes!Id /\ lastId' = i /\ i \notin Used /\ i \notin Writes!Rows
        /\ i \in 0 .. MaxJob
    BY <1>5, StartTyped DEF Writes!Insert, Writes!FreshId, Writes!Id, JobShape
  <2>2. row \in Writes!Row /\ row # None /\ [video |-> v, batch |-> None] \in Made
    BY WriteApart DEF Writes!Row, Made
  <2>3. /\ queue' = [queue EXCEPT ![i] = row] /\ past' = [past EXCEPT ![i] = [video |-> v, batch |-> None]]
        /\ first' = [first EXCEPT ![i] = None] /\ missed' = missed \ {i} /\ landed' = landed \ {i}
        /\ unlogged' = unlogged
    BY <1>5 DEF Writes!Insert
  <2>4. Used' = Used \cup {i} /\ Writes!Rows' = Writes!Rows \cup {i}
    BY <2>1, <2>2, <2>3 DEF JobShape, Writes!Rows
  <2>5. /\ lastId' \in 0 .. MaxJob /\ queue' \in [Writes!Id -> Writes!Row \cup {None}]
        /\ past' \in [Writes!Id -> Made \cup {None}] /\ first' \in [Writes!Id -> (SUBSET Tag) \cup {None}]
        /\ missed' \subseteq Writes!Id /\ landed' \subseteq Writes!Id /\ unlogged' \subseteq Video
        /\ work' \in [Video -> Holding \cup {None}]
    BY <1>5, <2>1, <2>2, <2>3 DEF JobShape
  <2>6. \A w \in Video : work'[w] # None =>
           work'[w].id \in Writes!Rows' /\ queue'[work'[w].id].status = "running" /\ queue'[work'[w].id].video = w
    BY <1>5, <2>1, <2>3, <2>4 DEF JobShape, Writes!Rows
  <2>7. /\ \A j \in Used' : past'[j] \in Made
        /\ \A j \in Writes!Rows' : j \in Used' /\ past'[j].video = queue'[j].video /\ past'[j].batch = queue'[j].batch
        /\ \A j \in Writes!Id \ Used' : past'[j] = None /\ first'[j] = None /\ j \notin missed' \cup landed'
    BY <2>1, <2>2, <2>3, <2>4 DEF JobShape
  <2> QED
    BY <2>5, <2>6, <2>7 DEF JobShape, Writes!Id
<1>6. ASSUME NEW v \in Video, Writes!Enqueue(v) PROVE JobShape'
  <2>1. Writes!GenreWritebackValues(v) \in SUBSET Tag
    BY DEF Writes!GenreWritebackValues
  <2> QED
    BY <1>5, <1>6, <2>1 DEF Writes!Enqueue
<1>7. ASSUME NEW s \in snaps, Writes!Revert(s) PROVE JobShape'
  <2>1. s.video \in Video /\ s.tags \in SUBSET Tag
    BY DEF BookShape
  <2> QED
    BY <1>5, <1>7, <2>1 DEF Writes!Revert
<1>8. ASSUME NEW T \in SUBSET Tag, Writes!EnqueueMany(T) PROVE JobShape'
  <2> DEFINE key == <<"batch", lastId + 1>>
  <2>1. PICK last \in lastId + 1 .. MaxJob : \E of \in [lastId + 1 .. last -> Video] :
           /\ queue' = [i \in Writes!Id |-> IF i \in lastId + 1 .. last
                   THEN [video |-> of[i], tags |-> Writes!GenreWritebackValues(of[i]),
                         batch |-> key, status |-> "pending"] ELSE queue[i]]
           /\ past' = [i \in Writes!Id |-> IF i \in lastId + 1 .. last THEN [video |-> of[i], batch |-> key]
                                                                       ELSE past[i]]
           /\ lastId' = last
           /\ UNCHANGED <<work, first, missed, landed, unlogged>>
    BY <1>8, Synced
  <2> PICK of \in [lastId + 1 .. last -> Video] :
           /\ queue' = [i \in Writes!Id |-> IF i \in lastId + 1 .. last
                   THEN [video |-> of[i], tags |-> Writes!GenreWritebackValues(of[i]),
                         batch |-> key, status |-> "pending"] ELSE queue[i]]
           /\ past' = [i \in Writes!Id |-> IF i \in lastId + 1 .. last THEN [video |-> of[i], batch |-> key]
                                                                       ELSE past[i]]
           /\ lastId' = last
           /\ UNCHANGED <<work, first, missed, landed, unlogged>>
    BY <2>1
  <2> DEFINE New == lastId + 1 .. last
             row(i) == [video |-> of[i], tags |-> Writes!GenreWritebackValues(of[i]),
                        batch |-> key, status |-> "pending"]
  <2>2. /\ last \in 0 .. MaxJob /\ New \subseteq Writes!Id /\ New \cap Used = {} /\ Used' = Used \cup New
        /\ key \in Writes!Key
    BY <2>1, StartTyped DEF Writes!Id, Writes!Key
  <2>3. \A i \in New : row(i) \in Writes!Row /\ row(i) # None /\ [video |-> of[i], batch |-> key] \in Made
    <3>1. \A i \in New : of[i] \in Video /\ Writes!GenreWritebackValues(of[i]) \in SUBSET Tag
      BY DEF Writes!GenreWritebackValues
    <3> QED
      BY <2>2, <3>1, WriteApart DEF Writes!Row, Made
  <2>4. /\ \A i \in New : queue'[i] = row(i) /\ past'[i] = [video |-> of[i], batch |-> key]
        /\ \A i \in Writes!Id \ New : queue'[i] = queue[i] /\ past'[i] = past[i]
    BY <2>1, <2>2
  <2>5. Writes!Rows' = Writes!Rows \cup New
    BY <2>2, <2>3, <2>4 DEF Writes!Rows
  <2>6. /\ queue' \in [Writes!Id -> Writes!Row \cup {None}] /\ past' \in [Writes!Id -> Made \cup {None}]
    BY <2>1, <2>2, <2>3, <2>4 DEF JobShape
  <2>7. \A w \in Video : work'[w] # None =>
           work'[w].id \in Writes!Rows' /\ queue'[work'[w].id].status = "running" /\ queue'[work'[w].id].video = w
    BY <2>1, <2>2, <2>4, <2>5 DEF JobShape, Writes!Rows
  <2>8. /\ \A j \in Used' : past'[j] \in Made
        /\ \A j \in Writes!Rows' : j \in Used' /\ past'[j].video = queue'[j].video /\ past'[j].batch = queue'[j].batch
        /\ \A j \in Writes!Id \ Used' : past'[j] = None /\ first'[j] = None /\ j \notin missed' \cup landed'
    <3>1. \A j \in Used : j \in Writes!Id \ New
      BY <2>2
    <3> QED
      BY <2>1, <2>2, <2>3, <2>4, <2>5, <3>1 DEF JobShape
  <2> QED
    BY <2>1, <2>2, <2>6, <2>7, <2>8 DEF JobShape, Writes!Id
\* Rows that change only their status, and workers that keep the row of their video running.
<1>9. ASSUME UNCHANGED <<lastId, past, first, missed, landed, unlogged>>,
             queue' \in [Writes!Id -> Writes!Row \cup {None}],
             work' \in [Video -> Holding \cup {None}],
             \A i \in Writes!Id : queue'[i] # None => 
                i \in Writes!Rows /\ queue'[i].video = queue[i].video /\ queue'[i].batch = queue[i].batch,
             \A w \in Video : work'[w] # None =>
                /\ work'[w].id \in Writes!Rows' /\ queue'[work'[w].id].status = "running"
                /\ queue'[work'[w].id].video = w
      PROVE  JobShape'
  BY <1>9 DEF JobShape, Writes!Rows
<1>10. ASSUME NEW v \in Video, Writes!RetryFailed(v) \/ Writes!DismissFailed(v) PROVE JobShape'
  <2>1. UNCHANGED <<lastId, work, past, first, missed, landed, unlogged>>
    BY <1>10 DEF Writes!RetryFailed, Writes!DismissFailed
  <2>2. \A i \in Writes!Id :
           \/ queue'[i] = queue[i]
           \/ i \in Writes!Rows /\ queue[i].status = "failed" /\ queue'[i] = [queue[i] EXCEPT !.status = "pending"]
           \/ i \in Writes!Rows /\ queue[i].status = "failed" /\ queue'[i] = None
    BY <1>10 DEF Writes!RetryFailed, Writes!DismissFailed, Writes!Of
  <2>3. \A i \in Writes!Rows : LET r == [queue[i] EXCEPT !.status = "pending"] IN
           r \in Writes!Row /\ r.video = queue[i].video /\ r.batch = queue[i].batch
    BY RowTyped DEF Writes!Row
  <2>4. queue' \in [Writes!Id -> Writes!Row \cup {None}]
    <3>1. queue' = [i \in Writes!Id |-> queue'[i]]
      BY <1>10 DEF Writes!RetryFailed, Writes!DismissFailed
    <3> QED
      BY <2>2, <2>3, <3>1 DEF JobShape
  <2>5. \A i \in Writes!Id : queue'[i] # None =>
           i \in Writes!Rows /\ queue'[i].video = queue[i].video /\ queue'[i].batch = queue[i].batch
    BY <2>2, <2>3 DEF Writes!Rows
  <2>6. \A w \in Video : work'[w] # None =>
           work'[w].id \in Writes!Rows' /\ queue'[work'[w].id].status = "running" /\ queue'[work'[w].id].video = w
    BY <2>1, <2>2, WorkTyped, RowTyped DEF Writes!Rows
  <2> QED
    BY <1>9, <2>1, <2>4, <2>5, <2>6 DEF JobShape
<1>11. ASSUME NEW v \in Video, Writes!Claim(v) PROVE JobShape'
  <2>1. PICK i \in Writes!Rows :
           /\ queue[i].video = v /\ queue[i].status = "pending"
           /\ queue' = [queue EXCEPT ![i].status = "running"]
           /\ work' = [work EXCEPT ![v] = [id |-> i, step |-> "snapshot", ok |-> TRUE, batch |-> queue[i].batch]]
    BY <1>11 DEF Writes!Claim, Writes!Of
  <2>2. UNCHANGED <<lastId, past, first, missed, landed, unlogged>>
    BY <1>11 DEF Writes!Claim
  <2>3. LET r == [queue[i] EXCEPT !.status = "running"] IN
           r \in Writes!Row /\ r # None /\ r.video = v /\ r.batch = queue[i].batch /\ r.status = "running"
    BY <2>1, RowTyped, WriteApart DEF Writes!Row
  <2>4. queue' = [queue EXCEPT ![i] = [queue[i] EXCEPT !.status = "running"]] /\ i \in Writes!Id
    BY <2>1, RowTyped
  <2>5. queue' \in [Writes!Id -> Writes!Row \cup {None}]
    BY <2>3, <2>4 DEF JobShape
  <2>6. \A j \in Writes!Id : queue'[j] # None =>
           j \in Writes!Rows /\ queue'[j].video = queue[j].video /\ queue'[j].batch = queue[j].batch
    BY <2>1, <2>3, <2>4 DEF Writes!Rows, JobShape
  <2>7. [id |-> i, step |-> "snapshot", ok |-> TRUE, batch |-> queue[i].batch] \in Holding
    BY <2>4, RowTyped DEF Holding, Step
  <2>8. work' \in [Video -> Holding \cup {None}]
    BY <2>1, <2>7 DEF JobShape
  <2>9. \A w \in Video : work'[w] # None =>
           work'[w].id \in Writes!Rows' /\ queue'[work'[w].id].status = "running" /\ queue'[work'[w].id].video = w
    <3>1. i \in Writes!Rows' /\ queue'[i].status = "running" /\ queue'[i].video = v
      BY <2>3, <2>4 DEF Writes!Rows, JobShape
    <3>2. ASSUME NEW w \in Video, w # v, work'[w] # None
          PROVE  work'[w].id \in Writes!Rows' /\ queue'[work'[w].id].status = "running" /\ queue'[work'[w].id].video = w
      <4>1. work'[w] = work[w]
        BY <2>1, <3>2 DEF JobShape
      <4>2. work[w].id # i /\ work[w].id \in Writes!Rows
        BY <2>1, <3>2, <4>1, WorkTyped
      <4>3. queue'[work[w].id] = queue[work[w].id]
        BY <2>4, <4>2 DEF JobShape, Writes!Rows
      <4> QED
        BY <3>2, <4>1, <4>2, <4>3, WorkTyped DEF Writes!Rows
    <3> QED
      BY <2>1, <3>1, <3>2 DEF JobShape
  <2> QED
    BY <1>9, <2>2, <2>5, <2>6, <2>8, <2>9
\* A worker that goes on keeps its row; its history may gain a first sight, a missed
\* snapshot or a landed write.
<1>12. ASSUME NEW v \in Video, work[v] # None, UNCHANGED <<queue, lastId, past>>,
              work' \in [Video -> Holding \cup {None}],
              \A w \in Video : work'[w] # None => work[w] # None /\ work'[w].id = work[w].id,
              \/ UNCHANGED first
              \/ first' = [first EXCEPT ![work[v].id] = IF @ = None THEN tags[v] ELSE @],
              missed' \in {missed, missed \cup {work[v].id}},
              landed' \in {landed, landed \cup {work[v].id}, landed \ {work[v].id}},
              unlogged' \in {unlogged, unlogged \cup {v}, unlogged \ {v}}
      PROVE  JobShape'
  <2>1. work[v].id \in Used /\ work[v].id \in Writes!Id /\ tags[v] \in SUBSET Tag
    BY <1>12, WorkTyped DEF BookShape
  <2>2. first' \in [Writes!Id -> (SUBSET Tag) \cup {None}] /\ \A i \in Writes!Id \ Used : first'[i] = first[i]
    BY <1>12, <2>1 DEF JobShape
  <2>3. /\ missed' \subseteq Writes!Id /\ landed' \subseteq Writes!Id /\ unlogged' \subseteq Video
        /\ \A i \in Writes!Id \ Used : i \notin missed' \cup landed'
    BY <1>12, <2>1 DEF JobShape
  <2>4. \A w \in Video : work'[w] # None =>
           work'[w].id \in Writes!Rows' /\ queue'[work'[w].id].status = "running" /\ queue'[work'[w].id].video = w
    BY <1>12, WorkTyped DEF Writes!Rows
  <2> QED
    BY <1>12, <2>2, <2>3, <2>4 DEF JobShape, Writes!Rows
<1>13. ASSUME NEW v \in Video, NEW step, Writes!At(v, step),
              NEW batch \in Writes!Key \cup {None}, NEW to \in Step, NEW ok \in BOOLEAN,
              \/ work' = [work EXCEPT ![v].step = to]
              \/ work' = [work EXCEPT ![v].step = to, ![v].batch = batch]
              \/ work' = [work EXCEPT ![v].step = to, ![v].ok = ok]
       PROVE  /\ work[v] # None /\ work' \in [Video -> Holding \cup {None}]
              /\ \A w \in Video : work'[w] # None => work[w] # None /\ work'[w].id = work[w].id
  BY <1>13, AtTyped DEF JobShape, Holding, Writes!At
<1>14. ASSUME NEW v \in Video, Writes!ProcessNothing(v) PROVE JobShape'
  <2>1. Writes!At(v, "snapshot") /\ work' = [work EXCEPT ![v].step = "record"] /\ "record" \in Step
    BY <1>14 DEF Writes!ProcessNothing, Writes!Goto, Step
  <2> QED
    BY <1>12, <1>13, <1>14, <2>1 DEF Writes!ProcessNothing, Writes!Unwritten
<1>15. ASSUME NEW v \in Video, Writes!WriteFails(v) PROVE JobShape'
  <2>1. /\ Writes!At(v, "write") /\ work' = [work EXCEPT ![v].step = "record", ![v].ok = FALSE]
        /\ "record" \in Step
    BY <1>15 DEF Writes!WriteFails, Step
  <2> QED
    BY <1>12, <1>13, <1>15, <2>1 DEF Writes!WriteFails, Writes!Unwritten
<1>16. ASSUME NEW v \in Video, Writes!SnapshotBeforeWrite(v) PROVE JobShape'
  <2> DEFINE b == Writes!SnapshotBatch(Writes!Mine(v))
  <2>1. Writes!At(v, "snapshot") /\ work' = [work EXCEPT ![v].step = "write", ![v].batch = b] /\ "write" \in Step
    BY <1>16 DEF Writes!SnapshotBeforeWrite, Step
  <2>2. b \in Writes!Key \cup {None} /\ Writes!Mine(v) = work[v].id
    BY <2>1, AtTyped, WriteApart DEF Writes!SnapshotBatch, Writes!Key, Writes!Job
  <2> QED
    BY <1>12, <1>13, <1>16, <2>1, <2>2 DEF Writes!SnapshotBeforeWrite, Writes!Reached
<1>17. ASSUME NEW v \in Video, Writes!SnapshotFails(v) PROVE JobShape'
  <2>1. /\ Writes!At(v, "snapshot") /\ work' = [work EXCEPT ![v].step = "write", ![v].batch = work[v].batch]
        /\ "write" \in Step
    BY <1>17 DEF Writes!SnapshotFails, Writes!BatchKept, Step
  <2>2. work[v].batch \in Writes!Key \cup {None} /\ Writes!Mine(v) = work[v].id
    BY <2>1, AtTyped
  <2> QED
    <3>1. /\ work[v] # None /\ work' \in [Video -> Holding \cup {None}]
          /\ \A w \in Video : work'[w] # None => work[w] # None /\ work'[w].id = work[w].id
      BY <1>13, <2>1, <2>2
    <3>2. /\ UNCHANGED <<queue, lastId, past, landed, unlogged>>
          /\ first' = [first EXCEPT ![work[v].id] = IF @ = None THEN tags[v] ELSE @]
          /\ missed' = missed \cup {work[v].id}
      BY <1>17, <2>2 DEF Writes!SnapshotFails, Writes!Reached
    <3> QED
      BY <1>12, <3>1, <3>2
<1>18. ASSUME NEW v \in Video, Writes!WriteBatch(v) PROVE JobShape'
  <2>1. /\ Writes!At(v, "write") /\ work' = [work EXCEPT ![v].step = "audit"] /\ "audit" \in Step
        /\ Writes!Mine(v) = work[v].id
    BY <1>18, AtTyped DEF Writes!WriteBatch, Writes!Goto, Step
  <2> QED
    BY <1>12, <1>13, <1>18, <2>1 DEF Writes!WriteBatch
<1>19. ASSUME NEW v \in Video, Writes!InsertWriteback(v) PROVE JobShape'
  <2>1. /\ Writes!At(v, "audit") /\ work' = [work EXCEPT ![v].step = "promote"] /\ "promote" \in Step
        /\ Writes!Mine(v) = work[v].id
    BY <1>19, AtTyped DEF Writes!InsertWriteback, Writes!Goto, Step
  <2> QED
    BY <1>12, <1>13, <1>19, <2>1 DEF Writes!InsertWriteback
<1>20. ASSUME NEW v \in Video, Writes!PromoteIgnoredFileTags(v) PROVE JobShape'
  <2>1. Writes!At(v, "promote") /\ work' = [work EXCEPT ![v].step = "reread"] /\ "reread" \in Step
    BY <1>20 DEF Writes!PromoteIgnoredFileTags, Writes!Goto, Step
  <2> QED
    BY <1>12, <1>13, <1>20, <2>1 DEF Writes!PromoteIgnoredFileTags
<1>21. ASSUME NEW v \in Video, Writes!PostWrite(v) PROVE JobShape'
  <2>1. Writes!At(v, "reread") /\ work' = [work EXCEPT ![v].step = "record"] /\ "record" \in Step
    BY <1>21 DEF Writes!PostWrite, Writes!Goto, Step
  <2> QED
    BY <1>12, <1>13, <1>21, <2>1 DEF Writes!PostWrite
<1>22. ASSUME NEW v \in Video, Writes!RecordJobRun(v) PROVE JobShape'
  <2>1. Writes!At(v, "record") /\ work' = [work EXCEPT ![v].step = "finish"] /\ "finish" \in Step
    BY <1>22 DEF Writes!RecordJobRun, Writes!Goto, Step
  <2> QED
    BY <1>12, <1>13, <1>22, <2>1 DEF Writes!RecordJobRun
<1>23. ASSUME NEW v \in Video, Writes!FinishWriteback(v) PROVE JobShape'
  <2> DEFINE i == work[v].id
             row == IF work[v].ok THEN None ELSE [queue[i] EXCEPT !.status = "failed"]
  <2>1. /\ Writes!At(v, "finish") /\ queue' = [queue EXCEPT ![i] = row] /\ work' = [work EXCEPT ![v] = None]
        /\ UNCHANGED <<lastId, past, first, missed, landed, unlogged>>
    BY <1>23 DEF Writes!FinishWriteback, Writes!Mine
  <2>2. i \in Writes!Rows /\ i \in Writes!Id /\ queue[i].video = v
    BY <2>1, AtTyped, WorkTyped DEF Writes!At
  <2>3. row \in Writes!Row \cup {None} /\ (row # None => row.video = queue[i].video /\ row.batch = queue[i].batch)
    BY <2>2, RowTyped DEF Writes!Row
  <2>4. /\ queue' \in [Writes!Id -> Writes!Row \cup {None}] /\ work' \in [Video -> Holding \cup {None}]
    BY <2>1, <2>2, <2>3 DEF JobShape
  <2>5. \A j \in Writes!Id : queue'[j] # None =>
           j \in Writes!Rows /\ queue'[j].video = queue[j].video /\ queue'[j].batch = queue[j].batch
    BY <2>1, <2>2, <2>3 DEF JobShape, Writes!Rows
  <2>6. ASSUME NEW w \in Video, work'[w] # None
        PROVE  /\ work'[w].id \in Writes!Rows' /\ queue'[work'[w].id].status = "running"
               /\ queue'[work'[w].id].video = w
    <3>1. w # v /\ work'[w] = work[w]
      BY <2>1, <2>6 DEF JobShape
    <3>2. work[w].id # i /\ work[w].id \in Writes!Rows /\ work[w].id \in Writes!Id
      BY <2>2, <2>6, <3>1, WorkTyped
    <3>3. queue'[work[w].id] = queue[work[w].id]
      BY <2>1, <3>2 DEF JobShape
    <3> QED
      BY <2>6, <3>1, <3>2, <3>3, WorkTyped DEF Writes!Rows
  <2> QED
    BY <1>9, <2>1, <2>4, <2>5, <2>6
<1>24. ASSUME Writes!Restart PROVE JobShape'
  <2>1. /\ queue' = [i \in Writes!Id |-> IF i \in Writes!Rows THEN Writes!Recovered(queue[i]) ELSE None]
        /\ work' = [v \in Video |-> None] /\ UNCHANGED <<lastId, past, first, missed, landed, unlogged>>
    BY <1>24 DEF Writes!Restart
  <2>2. \A i \in Writes!Rows : LET r == Writes!Recovered(queue[i]) IN
           r \in Writes!Row /\ r.video = queue[i].video /\ r.batch = queue[i].batch
    BY RowTyped DEF Writes!Recovered, Writes!Row
  <2>3. queue' \in [Writes!Id -> Writes!Row \cup {None}] /\ work' \in [Video -> Holding \cup {None}]
    BY <2>1, <2>2
  <2>4. \A i \in Writes!Id : queue'[i] # None =>
           i \in Writes!Rows /\ queue'[i].video = queue[i].video /\ queue'[i].batch = queue[i].batch
    BY <2>1, <2>2
  <2> QED
    BY <1>9, <2>1, <2>3, <2>4
<1>25. ASSUME (\E b \in Writes!Batches : Writes!PollQueue(b)) \/ Writes!PollRuns PROVE JobShape'
  BY <1>1, <1>25 DEF Writes!PollQueue, Writes!PollRuns
<1>26. CASE UNCHANGED Writes!vars
  BY <1>1, <1>26 DEF Writes!vars
<1> QED
  BY <1>2, <1>3, <1>4, <1>6, <1>7, <1>8, <1>10, <1>11, <1>14, <1>15, <1>16, <1>17, <1>18, <1>19, <1>20, <1>21,
     <1>22, <1>23, <1>24, <1>25, <1>26 DEF Writes!Next, Writes!Process

\* New jobs: what is known of the old ones stays, and the new ones wait, unseen, each for
\* a video of its own if they make a batch.
Grown ==
    /\ lastId' \in Nat /\ lastId < lastId'
    /\ \A i \in Used : /\ queue'[i] = queue[i] /\ past'[i] = past[i] /\ first'[i] = first[i]
                       /\ (i \in missed' <=> i \in missed) /\ (i \in landed' <=> i \in landed)
    /\ \A i \in Used' \ Used : /\ i \in Writes!Rows' /\ queue'[i].status = "pending" /\ first'[i] = None
                               /\ past'[i].batch \in {None, <<"batch", lastId + 1>>}
                               /\ \A j \in Used' \ Used :
                                     (i # j /\ past'[i].batch # None) => past'[i].video # past'[j].video
    /\ UNCHANGED <<work, tags, tagLink, suppressed, silenced, snaps, ledger, runs, reading, poll, unlogged>>

LEMMA Growth ==
    ASSUME WriteShape,
           \/ \E v \in Video : Writes!Enqueue(v)
           \/ \E s \in snaps : Writes!Revert(s)
           \/ \E T \in SUBSET Tag : Writes!EnqueueMany(T)
    PROVE  Grown
<1>0. BookShape /\ JobShape /\ lastId \in Nat /\ Used \subseteq Writes!Id
  BY UsedIds DEF WriteShape
<1> USE DEF Writes!tags, Writes!books, Used
<1>1. ASSUME NEW i \in Writes!FreshId, NEW v \in Video, NEW T \in SUBSET Tag, Writes!Insert(i, v, T, None),
             UNCHANGED <<work, Writes!tags, Writes!books, reading, poll>>
      PROVE  Grown
  <2> DEFINE row == [video |-> v, tags |-> T, batch |-> None, status |-> "pending"]
  <2>1. i = lastId + 1 /\ i \in Writes!Id /\ lastId' = i
    BY <1>0, <1>1, StartTyped DEF Writes!Insert, Writes!FreshId, Writes!Id
  <2>2. row \in Writes!Row /\ row # None
    BY WriteApart DEF Writes!Row
  <2>3. /\ queue' = [queue EXCEPT ![i] = row] /\ past' = [past EXCEPT ![i] = [video |-> v, batch |-> None]]
        /\ first' = [first EXCEPT ![i] = None] /\ missed' = missed \ {i} /\ landed' = landed \ {i}
        /\ unlogged' = unlogged
    BY <1>1 DEF Writes!Insert
  <2>4. Used' \ Used = {i} /\ i \notin Used
    BY <1>0, <2>1
  <2>5. queue'[i] = row /\ past'[i] = [video |-> v, batch |-> None] /\ first'[i] = None
    BY <1>0, <2>1, <2>3 DEF JobShape
  <2>6. i \in Writes!Rows' /\ queue'[i].status = "pending" /\ past'[i].batch = None
    BY <2>1, <2>2, <2>5 DEF Writes!Rows
  <2>7. \A j \in Used : /\ queue'[j] = queue[j] /\ past'[j] = past[j] /\ first'[j] = first[j]
                        /\ (j \in missed' <=> j \in missed) /\ (j \in landed' <=> j \in landed)
    BY <1>0, <2>3, <2>4 DEF JobShape
  <2> QED
    BY <1>0, <1>1, <2>1, <2>3, <2>4, <2>5, <2>6, <2>7 DEF Grown
<1>2. ASSUME NEW v \in Video, Writes!Enqueue(v) PROVE Grown
  <2>1. Writes!GenreWritebackValues(v) \in SUBSET Tag
    BY DEF Writes!GenreWritebackValues
  <2> QED
    BY <1>1, <1>2, <2>1 DEF Writes!Enqueue
<1>3. ASSUME NEW s \in snaps, Writes!Revert(s) PROVE Grown
  <2>1. s.video \in Video /\ s.tags \in SUBSET Tag
    BY <1>0 DEF BookShape
  <2> QED
    BY <1>1, <1>3, <2>1 DEF Writes!Revert
<1>4. ASSUME NEW T \in SUBSET Tag, Writes!EnqueueMany(T) PROVE Grown
  <2> DEFINE key == <<"batch", lastId + 1>>
             row(of, i) == [video |-> of[i], tags |-> Writes!GenreWritebackValues(of[i]),
                            batch |-> key, status |-> "pending"]
  <2>1. PICK last \in lastId + 1 .. MaxJob : \E of \in [lastId + 1 .. last -> Video] :
              /\ \A i, j \in lastId + 1 .. last : i # j => of[i] # of[j]
              /\ queue' = [i \in Writes!Id |-> IF i \in lastId + 1 .. last THEN row(of, i) ELSE queue[i]]
              /\ past' = [i \in Writes!Id |-> IF i \in lastId + 1 .. last
                      THEN [video |-> of[i], batch |-> key] ELSE past[i]]
              /\ lastId' = last
              /\ UNCHANGED <<work, first, missed, landed, unlogged>>
    BY <1>4, Synced
  <2>2. PICK of \in [lastId + 1 .. last -> Video] :
              /\ \A i, j \in lastId + 1 .. last : i # j => of[i] # of[j]
              /\ queue' = [i \in Writes!Id |-> IF i \in lastId + 1 .. last THEN row(of, i) ELSE queue[i]]
              /\ past' = [i \in Writes!Id |-> IF i \in lastId + 1 .. last
                      THEN [video |-> of[i], batch |-> key] ELSE past[i]]
              /\ lastId' = last
              /\ UNCHANGED <<work, first, missed, landed, unlogged>>
    BY <2>1
  <2>3. /\ lastId' \in Nat /\ lastId < lastId' /\ Used' \ Used = lastId + 1 .. last
        /\ lastId + 1 .. last \subseteq Writes!Id
    BY <1>0, <2>2, StartTyped DEF Writes!Id
  <2>4. \A i \in lastId + 1 .. last : row(of, i) \in Writes!Row
    <3>1. \A i \in lastId + 1 .. last : of[i] \in Video /\ Writes!GenreWritebackValues(of[i]) \in SUBSET Tag
      BY DEF Writes!GenreWritebackValues
    <3>2. key \in Writes!Key
      BY <1>0, <2>3, StartTyped DEF Writes!Key, Writes!Id
    <3> QED
      BY <3>1, <3>2 DEF Writes!Row
  <2>5. \A i \in lastId + 1 .. last :
           /\ queue'[i] = row(of, i) /\ past'[i] = [video |-> of[i], batch |-> key]
           /\ queue'[i] # None /\ queue'[i].status = "pending" /\ i \in Writes!Id /\ i \notin Used
    BY <1>0, <2>2, <2>3, <2>4, WriteApart
  <2>6. \A i \in lastId + 1 .. last : first'[i] = None
    BY <1>0, <2>2, <2>5 DEF JobShape
  <2>7. \A i \in Used : queue'[i] = queue[i] /\ past'[i] = past[i]
    BY <1>0, <2>2
  <2>8. UNCHANGED <<tags, tagLink, suppressed, silenced, snaps, ledger, runs, reading, poll>>
    BY <1>4 DEF Writes!EnqueueMany
  <2>9. \A i, j \in lastId + 1 .. last : i # j => past'[i].video # past'[j].video
    BY <2>2, <2>5
  <2>10. \A i \in lastId + 1 .. last : i \in Writes!Rows' /\ past'[i].batch = key
    <3>1. ASSUME NEW i \in lastId + 1 .. last PROVE past'[i].batch = key
      <4>1. past'[i] = [video |-> of[i], batch |-> key]
        BY <2>5
      <4> QED
        BY <4>1
    <3>2. \A i \in lastId + 1 .. last : queue'[i] # None /\ i \in Writes!Id
      BY <2>5
    <3>3. Writes!Rows' = {i \in Writes!Id : queue'[i] # None}
      BY DEF Writes!Rows, Writes!Id
    <3> QED
      BY <3>1, <3>2, <3>3
  <2> QED
    BY <2>2, <2>3, <2>5, <2>6, <2>7, <2>8, <2>9, <2>10 DEF Grown
<1> QED
  BY <1>2, <1>3, <1>4

\* The books of the snapshots and the history they are compared with.
LEMMA BatchedNext == WriteShape /\ Batched /\ [Writes!Next]_(Writes!vars) => Batched'
<1> SUFFICES ASSUME WriteShape, Batched, [Writes!Next]_(Writes!vars) PROVE Batched'
  OBVIOUS
<1>0. lastId \in Nat /\ JobShape
  BY UsedIds DEF WriteShape
<1>1. ASSUME UNCHANGED <<lastId, past>> PROVE Batched'
  BY <1>1 DEF Batched, Used
<1>2. ASSUME Grown PROVE Batched'
  <2>1. lastId' \in Nat /\ lastId < lastId' /\ lastId + 1 \in Used' \ Used /\ Used \subseteq Used'
    BY <1>0, <1>2 DEF Grown, Used
  <2>2. \A i \in Used : past[i].batch # <<"batch", lastId + 1>> /\ past'[i] = past[i]
    <3>1. \A i \in Used : past[i].batch # None => \E k \in Used : past[i].batch = <<"batch", k>>
      BY DEF Batched
    <3>2. \A k \in Used : k # lastId + 1
      BY <1>0 DEF Used
    <3>3. <<"batch", lastId + 1>> # None
      <4>1. lastId + 1 \in Writes!Id
        <5>1. JobShape'
          BY JobNext
        <5>2. lastId' \in 0 .. MaxJob
          BY <5>1 DEF JobShape
        <5> QED
          BY <1>0, <2>1, <5>2, StartTyped DEF Writes!Id
      <4> QED
        BY <4>1, WriteApart DEF Writes!Key
    <3>4. ASSUME NEW i \in Used PROVE past[i].batch # <<"batch", lastId + 1>>
      <4>1. CASE past[i].batch = None
        BY <3>3, <4>1
      <4>2. CASE past[i].batch # None
        <5>1. PICK k \in Used : past[i].batch = <<"batch", k>>
          BY <3>1, <4>2
        <5> QED
          BY <3>2, <5>1
      <4> QED
        BY <4>1, <4>2
    <3> QED
      BY <1>2, <3>4 DEF Grown
  <2>3. ASSUME NEW i \in Used', past'[i].batch # None PROVE \E k \in Used' : past'[i].batch = <<"batch", k>>
    <3>1. CASE i \in Used
      BY <2>1, <2>2, <2>3, <3>1 DEF Batched
    <3>2. CASE i \in Used' \ Used
      BY <1>2, <2>1, <2>3, <3>2 DEF Grown
    <3> QED
      BY <3>1, <3>2
  <2>4. ASSUME NEW i \in Used', NEW j \in Used', past'[i].batch # None, j # i, past'[j].batch = past'[i].batch
        PROVE  past'[j].video # past'[i].video
    <3>1. CASE i \in Used /\ j \in Used
      BY <2>2, <2>4, <3>1 DEF Batched
    <3>2. CASE i \in Used' \ Used /\ j \in Used' \ Used
      BY <1>2, <2>4, <3>2 DEF Grown
    <3>3. CASE (i \in Used /\ j \in Used' \ Used) \/ (i \in Used' \ Used /\ j \in Used)
      BY <1>2, <2>2, <2>4, <3>3 DEF Grown
    <3> QED
      BY <3>1, <3>2, <3>3
  <2> QED
    BY <2>3, <2>4 DEF Batched
<1>3. CASE \/ \E v \in Video : Writes!Enqueue(v)
           \/ \E s \in snaps : Writes!Revert(s)
           \/ \E T \in SUBSET Tag : Writes!EnqueueMany(T)
  BY <1>2, <1>3, Growth
<1>4. CASE UNCHANGED Writes!vars
  BY <1>1, <1>4 DEF Writes!vars, Writes!hist
<1>5. ASSUME NEW v \in Video, Writes!Decide(v) \/ Writes!RefreshRead(v) \/ Writes!RefreshStore(v)
      PROVE  Batched'
  BY <1>1, <1>5 DEF Writes!Decide, Writes!AttachTagToVideo, Writes!DetachTagFromVideo, Writes!RefreshRead,
     Writes!RefreshStore, Writes!hist
<1>6. ASSUME NEW v \in Video, Writes!RetryFailed(v) \/ Writes!DismissFailed(v) PROVE Batched'
  BY <1>1, <1>6 DEF Writes!RetryFailed, Writes!DismissFailed, Writes!hist
<1>7. ASSUME NEW v \in Video, Writes!Process(v) PROVE Batched'
  BY <1>1, <1>7 DEF Writes!Process, Writes!hist, Writes!Claim, Writes!ProcessNothing, Writes!SnapshotBeforeWrite,
     Writes!SnapshotFails, Writes!WriteBatch, Writes!WriteFails, Writes!InsertWriteback,
     Writes!PromoteIgnoredFileTags, Writes!PostWrite, Writes!RecordJobRun, Writes!FinishWriteback
<1>8. CASE (\E t \in Tag : Writes!SetTagWritebackEnabled(t)) \/ Writes!Restart \/ Writes!PollRuns
           \/ (\E b \in Writes!Batches : Writes!PollQueue(b))
  BY <1>1, <1>8 DEF Writes!SetTagWritebackEnabled, Writes!Restart, Writes!PollRuns, Writes!PollQueue, Writes!hist
<1> QED
  BY <1>3, <1>4, <1>5, <1>6, <1>7, <1>8 DEF Writes!Next

\* Two jobs of one video have different keys.
LEMMA KeysApart ==
    ASSUME Batched, NEW i \in Used, NEW j \in Used, KeyOf(i) = KeyOf(j), past[i].video = past[j].video
    PROVE  i = j
<1>1. CASE past[i].batch = None /\ past[j].batch = None
  BY <1>1 DEF KeyOf
<1>2. CASE past[i].batch # None /\ past[j].batch # None
  BY <1>2 DEF KeyOf, Batched
<1>3. CASE \/ past[i].batch # None /\ past[j].batch = None
           \/ past[i].batch = None /\ past[j].batch # None
  <2>1. \A k \in Used : past[k].batch # None => \E l \in Used : past[k].batch = <<"batch", l>>
    BY DEF Batched
  <2>2. \A k, l : <<"batch", k>> # <<"job", l>>
    OBVIOUS
  <2> QED
    BY <1>3, <2>1, <2>2 DEF KeyOf
<1> QED
  BY <1>1, <1>2, <1>3

SnapInv == Snapped /\ Writes!SnapshotPrior

\* A snapshot is new only when the job is seen for the first time: an older one of the
\* same key and video is the job's own.
LEMMA SnapNext == WriteShape /\ Batched /\ SnapInv /\ [Writes!Next]_(Writes!vars) => SnapInv'
<1> SUFFICES ASSUME WriteShape, Batched, SnapInv, [Writes!Next]_(Writes!vars) PROVE SnapInv'
  OBVIOUS
<1>0. lastId \in Nat /\ JobShape /\ BookShape /\ Used \subseteq Writes!Id
  BY UsedIds DEF WriteShape
\* SnapshotPrior only speaks of ids handed out, and by their keys.
<1>1. /\ \A i \in Writes!Id \ Used : first[i] = None
      /\ \A i \in Used, s \in snaps :
            (first[i] # None /\ i \notin missed /\ s.video = past[i].video /\ s.batch = KeyOf(i)) => s.tags = first[i]
  BY <1>0 DEF SnapInv, Writes!SnapshotPrior, KeyOf, JobShape
<1>2. ASSUME \A i \in Used', s \in snaps' :
                (first'[i] # None /\ i \notin missed' /\ s.video = past'[i].video /\ s.batch = KeyOf(i)')
                    => s.tags = first'[i]
      PROVE  Writes!SnapshotPrior'
  <2>1. JobShape'
    BY JobNext
  <2>2. \A i \in Writes!Id \ Used' : first'[i] = None
    BY <2>1 DEF JobShape
  <2> QED
    BY <1>2, <2>2 DEF Writes!SnapshotPrior, KeyOf
<1>3. ASSUME UNCHANGED <<lastId, past, first, missed, snaps>> PROVE SnapInv'
  BY <1>3 DEF SnapInv, Snapped, Writes!SnapshotPrior, Used, KeyOf
<1>4. ASSUME Grown PROVE SnapInv'
  <2>1. /\ Used \subseteq Used' /\ snaps' = snaps
        /\ \A i \in Used : past'[i] = past[i] /\ first'[i] = first[i] /\ (i \in missed' <=> i \in missed)
                           /\ KeyOf(i)' = KeyOf(i)
        /\ \A i \in Used' \ Used : first'[i] = None
    BY <1>0, <1>4 DEF Grown, Used, KeyOf
  <2>2. Snapped'
    BY <2>1 DEF SnapInv, Snapped
  <2> QED
    BY <1>1, <1>2, <2>1, <2>2 DEF SnapInv
<1>5. ASSUME NEW v \in Video, Writes!SnapshotBeforeWrite(v) PROVE SnapInv'
  <2> DEFINE m == work[v].id
             new == [batch |-> KeyOf(m), video |-> v, tags |-> tags[v]]
  <2>1. m \in Used /\ past[m].video = v /\ past[m].batch = queue[m].batch
    BY <1>0, <1>5, AtTyped DEF Writes!SnapshotBeforeWrite, JobShape, Writes!Job
  <2>2. Writes!SnapshotBatch(Writes!Mine(v)) = KeyOf(m)
    BY <2>1 DEF Writes!SnapshotBatch, Writes!Mine, KeyOf
  <2>3. /\ snaps' = IF \E s \in snaps : s.batch = KeyOf(m) /\ s.video = v THEN snaps ELSE snaps \cup {new}
        /\ first' = [first EXCEPT ![m] = IF @ = None THEN tags[v] ELSE @]
        /\ UNCHANGED <<lastId, past, missed>>
    BY <1>5, <2>2 DEF Writes!SnapshotBeforeWrite, Writes!Snapshot, Writes!Reached, Writes!Mine
  <2>4. /\ Used' = Used /\ \A i : KeyOf(i)' = KeyOf(i) /\ past'[i] = past[i]
        /\ \A i \in Used : i # m => first'[i] = first[i]
        /\ first'[m] = IF first[m] = None THEN tags[v] ELSE first[m]
        /\ tags[v] # None /\ first'[m] # None
    <3>1. tags[v] # None
      BY <1>0, WriteApart DEF BookShape
    <3> QED
      BY <1>0, <2>1, <2>3, <3>1 DEF Used, KeyOf, JobShape
  <2>5. \E s \in snaps' : s.batch = KeyOf(m) /\ s.video = v
    <3>1. CASE \E s \in snaps : s.batch = KeyOf(m) /\ s.video = v
      BY <2>3, <3>1
    <3>2. CASE ~\E s \in snaps : s.batch = KeyOf(m) /\ s.video = v
      <4>1. new \in snaps' /\ new.batch = KeyOf(m) /\ new.video = v
        BY <2>3, <3>2
      <4> QED
        BY <4>1
    <3> QED
      BY <3>1, <3>2
  \* A snapshot kept before is the job's, and the job had been seen.
  <2>6. ASSUME NEW s \in snaps, s.batch = KeyOf(m), s.video = v PROVE first[m] # None
    <3>1. PICK i \in Used : first[i] # None /\ s.batch = KeyOf(i) /\ s.video = past[i].video
      BY DEF SnapInv, Snapped
    <3> QED
      BY <2>1, <2>6, <3>1, KeysApart
  <2>7. Snapped'
    <3>1. ASSUME NEW s \in snaps'
          PROVE  \E i \in Used : first'[i] # None /\ s.batch = KeyOf(i) /\ s.video = past[i].video
      <4>1. CASE s \in snaps
        <5>1. PICK i \in Used : first[i] # None /\ s.batch = KeyOf(i) /\ s.video = past[i].video
          BY <4>1 DEF SnapInv, Snapped
        <5> QED
          BY <2>4, <5>1
      <4>2. CASE s = new
        BY <2>1, <2>4, <4>2
      <4> QED
        BY <2>3, <4>1, <4>2
    <3>2. ASSUME NEW i \in Used, first'[i] # None, i \notin missed
          PROVE  \E s \in snaps' : s.batch = KeyOf(i) /\ s.video = past[i].video
      <4>1. CASE i = m
        BY <2>1, <2>5, <4>1
      <4>2. CASE i # m
        <5>1. PICK s \in snaps : s.batch = KeyOf(i) /\ s.video = past[i].video
          BY <2>4, <3>2, <4>2 DEF SnapInv, Snapped
        <5> QED
          BY <2>3, <5>1
      <4> QED
        BY <4>1, <4>2
    <3> QED
      BY <2>3, <2>4, <3>1, <3>2 DEF Snapped
  <2>8. ASSUME NEW i \in Used, NEW s \in snaps', first'[i] # None, i \notin missed, s.video = past[i].video,
               s.batch = KeyOf(i)
        PROVE  s.tags = first'[i]
    <3>1. CASE s \in snaps /\ i # m
      BY <1>1, <2>4, <2>8, <3>1
    <3>2. CASE s \in snaps /\ i = m
      BY <1>1, <2>1, <2>4, <2>6, <2>8, <3>2
    <3>3. CASE s \notin snaps
      <4>1. s = new /\ \A r \in snaps : ~(r.batch = KeyOf(m) /\ r.video = v)
        BY <2>3, <3>3
      <4>2. i = m
        BY <2>1, <2>8, <4>1, KeysApart
      <4>3. first[m] = None \/ m \in missed
        BY <2>1, <4>1 DEF SnapInv, Snapped
      <4> QED
        BY <2>4, <2>8, <4>1, <4>2, <4>3
    <3> QED
      BY <3>1, <3>2, <3>3
  <2> QED
    BY <1>2, <2>3, <2>4, <2>7, <2>8 DEF SnapInv
<1>6. ASSUME NEW v \in Video, Writes!SnapshotFails(v) PROVE SnapInv'
  <2> DEFINE m == work[v].id
  <2>1. m \in Used /\ tags[v] # None
    BY <1>0, <1>6, AtTyped, WriteApart DEF Writes!SnapshotFails, BookShape
  <2>2. /\ first' = [first EXCEPT ![m] = IF @ = None THEN tags[v] ELSE @]
        /\ missed' = missed \cup {m} /\ UNCHANGED <<lastId, past, snaps>>
    BY <1>6 DEF Writes!SnapshotFails, Writes!Reached, Writes!Mine, Writes!books
  <2>3. /\ Used' = Used /\ \A i : KeyOf(i)' = KeyOf(i) /\ past'[i] = past[i]
        /\ \A i \in Used : (i # m => first'[i] = first[i]) /\ (first[i] # None => first'[i] # None)
    BY <1>0, <2>1, <2>2 DEF Used, KeyOf, JobShape
  <2>4. Snapped'
    <3>1. ASSUME NEW s \in snaps PROVE \E i \in Used : first'[i] # None /\ s.batch = KeyOf(i) /\ s.video = past[i].video
      <4>1. PICK i \in Used : first[i] # None /\ s.batch = KeyOf(i) /\ s.video = past[i].video
        BY DEF SnapInv, Snapped
      <4> QED
        BY <2>3, <4>1
    <3>2. \A i \in Used : (first'[i] # None /\ i \notin missed') =>
             \E s \in snaps : s.batch = KeyOf(i) /\ s.video = past[i].video
      BY <2>2, <2>3 DEF SnapInv, Snapped
    <3> QED
      BY <2>2, <2>3, <3>1, <3>2 DEF Snapped
  <2> QED
    BY <1>1, <1>2, <2>2, <2>3, <2>4 DEF SnapInv
<1>7. CASE \/ \E v \in Video : Writes!Enqueue(v)
           \/ \E s \in snaps : Writes!Revert(s)
           \/ \E T \in SUBSET Tag : Writes!EnqueueMany(T)
  BY <1>4, <1>7, Growth
<1>8. CASE UNCHANGED Writes!vars
  BY <1>3, <1>8 DEF Writes!vars, Writes!hist, Writes!books
<1>9. ASSUME NEW v \in Video, Writes!Decide(v) \/ Writes!RefreshRead(v) \/ Writes!RefreshStore(v)
      PROVE  SnapInv'
  BY <1>3, <1>9 DEF Writes!Decide, Writes!AttachTagToVideo, Writes!DetachTagFromVideo, Writes!RefreshRead,
     Writes!RefreshStore, Writes!hist, Writes!books
<1>10. ASSUME NEW v \in Video, Writes!RetryFailed(v) \/ Writes!DismissFailed(v) PROVE SnapInv'
  BY <1>3, <1>10 DEF Writes!RetryFailed, Writes!DismissFailed, Writes!hist, Writes!books
<1>11. ASSUME NEW v \in Video, Writes!Process(v) PROVE SnapInv'
  BY <1>3, <1>5, <1>6, <1>11 DEF Writes!Process, Writes!hist, Writes!books, Writes!Claim, Writes!ProcessNothing,
     Writes!WriteBatch, Writes!WriteFails, Writes!InsertWriteback,
     Writes!PromoteIgnoredFileTags, Writes!PostWrite, Writes!RecordJobRun, Writes!FinishWriteback
<1>12. CASE (\E t \in Tag : Writes!SetTagWritebackEnabled(t)) \/ Writes!Restart \/ Writes!PollRuns
            \/ (\E b \in Writes!Batches : Writes!PollQueue(b))
  BY <1>3, <1>12 DEF Writes!SetTagWritebackEnabled, Writes!Restart, Writes!PollRuns, Writes!PollQueue, Writes!hist,
     Writes!books
<1> QED
  BY <1>7, <1>8, <1>9, <1>10, <1>11, <1>12 DEF Writes!Next

Late == {"promote", "reread", "record", "finish"}
AuditedAt(v) ==
    /\ Writes!At(v, "audit") => tags[v] = Writes!Job(v).tags /\ work[v].id \in landed
    /\ (work[v] # None /\ work[v].step \in Late /\ work[v].id \in landed) => v \in unlogged
    /\ (ledger[v] # None /\ v \notin unlogged /\ ledger[v] # tags[v]) =>
          \E i \in Writes!Rows : queue[i].video = v /\ queue[i].status # "failed" /\ i \in landed

\* A step of another video, or one that leaves the file and the ledger of a video alone
\* and every job of it that may still run.
Aside(w) ==
    /\ tags'[w] = tags[w] /\ ledger'[w] = ledger[w] /\ (w \in unlogged' <=> w \in unlogged)
    /\ \/ work'[w] = work[w] /\ (work[w] # None => /\ queue'[work[w].id].tags = queue[work[w].id].tags
                                                    /\ (work[w].id \in landed' <=> work[w].id \in landed))
       \/ work'[w] = None \/ work'[w].step \in {"snapshot", "write"}
    /\ \A i \in Writes!Rows : (queue[i].video = w /\ queue[i].status # "failed" /\ i \in landed) =>
          i \in Writes!Rows' /\ queue'[i].video = w /\ queue'[i].status # "failed" /\ i \in landed'

LEMMA AsideKeeps == ASSUME NEW w \in Video, AuditedAt(w), Aside(w) PROVE AuditedAt(w)'
<1>1. (ledger'[w] # None /\ w \notin unlogged' /\ ledger'[w] # tags'[w]) =>
         \E i \in Writes!Rows' : queue'[i].video = w /\ queue'[i].status # "failed" /\ i \in landed'
  BY DEF AuditedAt, Aside
<1>2. Writes!At(w, "audit")' => tags'[w] = Writes!Job(w)'.tags /\ work'[w].id \in landed'
  BY DEF AuditedAt, Aside, Writes!At, Writes!Job
<1>3. (work'[w] # None /\ work'[w].step \in Late /\ work'[w].id \in landed') => w \in unlogged'
  BY DEF AuditedAt, Aside, Late
<1> QED
  BY <1>1, <1>2, <1>3 DEF AuditedAt

\* What a step of the worker of v does to the books is about v's own job.
LEMMA OthersAside ==
    ASSUME WriteShape, NEW v \in Video, NEW w \in Video, w # v,
           \/ Writes!ProcessNothing(v) \/ Writes!WriteFails(v) \/ Writes!WriteBatch(v)
           \/ Writes!InsertWriteback(v) \/ Writes!FinishWriteback(v)
    PROVE  Aside(w)
<1>0. JobShape /\ BookShape
  BY DEF WriteShape
<1>1. /\ work[v] # None /\ Writes!Mine(v) = work[v].id /\ work[v].id \in Writes!Rows
      /\ queue[work[v].id].video = v /\ work[v].id \in Writes!Id
  BY <1>0, AtTyped, WorkTyped DEF Writes!ProcessNothing, Writes!WriteFails, Writes!WriteBatch,
     Writes!InsertWriteback, Writes!FinishWriteback, Writes!At
<1>2. /\ tags'[w] = tags[w] /\ ledger'[w] = ledger[w] /\ (w \in unlogged' <=> w \in unlogged)
      /\ work'[w] = work[w]
      /\ \A i \in Writes!Id : i # work[v].id => queue'[i] = queue[i] /\ (i \in landed' <=> i \in landed)
  BY <1>0, <1>1 DEF JobShape, BookShape, Writes!ProcessNothing, Writes!WriteFails, Writes!WriteBatch, Writes!Goto,
     Writes!InsertWriteback, Writes!FinishWriteback, Writes!Unwritten, Writes!tags, Writes!books, Writes!hist
<1>3. work[w] # None => work[w].id # work[v].id /\ work[w].id \in Writes!Id
  BY <1>0, <1>1, WorkTyped, RowTyped
<1>4. \A i \in Writes!Rows : queue[i].video = w => i # work[v].id /\ i \in Writes!Id
  BY <1>0, <1>1, RowTyped
<1> QED
  BY <1>2, <1>3, <1>4 DEF Aside, Writes!Rows

LEMMA AuditedNext == WriteShape /\ Audited /\ [Writes!Next]_(Writes!vars) => Audited'
<1> SUFFICES ASSUME WriteShape, Audited, [Writes!Next]_(Writes!vars) PROVE Audited'
  OBVIOUS
<1>0. JobShape /\ BookShape /\ Used \subseteq Writes!Id /\ Writes!Rows \subseteq Used
  BY UsedIds DEF WriteShape
<1>a. \A w \in Video : AuditedAt(w)
  BY DEF Audited, AuditedAt, Late
<1>b. ASSUME \A w \in Video : AuditedAt(w)' PROVE Audited'
  BY <1>b DEF Audited, AuditedAt, Late
<1>1. ASSUME \A w \in Video : Aside(w) PROVE Audited'
  BY <1>a, <1>b, <1>1, AsideKeeps
<1>2. ASSUME UNCHANGED <<queue, work, tags, ledger, landed, unlogged>> PROVE Audited'
  BY <1>2 DEF Audited, Writes!At, Writes!Job, Writes!Rows
<1>3. ASSUME Grown PROVE Audited'
  <2> SUFFICES ASSUME NEW w \in Video PROVE Aside(w)
    BY <1>1
  <2>1. \A i \in Writes!Rows : i \in Used /\ i \in Writes!Id /\ i \in Writes!Rows'
    BY <1>0, <1>3 DEF Grown, Writes!Rows
  <2>2. work[w] # None => work[w].id \in Used
    BY <1>0, WorkTyped
  <2> QED
    BY <1>3, <2>1, <2>2 DEF Grown, Aside
<1>4. ASSUME NEW v \in Video, Writes!RetryFailed(v) \/ Writes!DismissFailed(v) PROVE Audited'
  <2> SUFFICES ASSUME NEW w \in Video PROVE Aside(w)
    BY <1>1
  <2>1. UNCHANGED <<work, tags, ledger, landed, unlogged>>
    BY <1>4 DEF Writes!RetryFailed, Writes!DismissFailed, Writes!tags, Writes!books, Writes!hist
  <2>2. \A i \in Writes!Rows : queue[i].status # "failed" => queue'[i] = queue[i] /\ i \in Writes!Rows'
    BY <1>4 DEF Writes!RetryFailed, Writes!DismissFailed, Writes!Of, Writes!Rows
  <2>3. work[w] # None => work[w].id \in Writes!Rows /\ queue[work[w].id].status # "failed"
    BY <1>0, WorkTyped
  <2> QED
    BY <2>1, <2>2, <2>3 DEF Aside
<1>5. ASSUME NEW v \in Video, Writes!Claim(v) PROVE Audited'
  <2> SUFFICES ASSUME NEW w \in Video PROVE Aside(w)
    BY <1>1
  <2>1. PICK i \in Writes!Rows : /\ queue[i].video = v /\ queue[i].status = "pending"
           /\ queue' = [queue EXCEPT ![i].status = "running"]
           /\ work' = [work EXCEPT ![v] = [id |-> i, step |-> "snapshot", ok |-> TRUE, batch |-> queue[i].batch]]
    BY <1>5 DEF Writes!Claim, Writes!Of
  <2>2. UNCHANGED <<tags, ledger, landed, unlogged>>
    BY <1>5 DEF Writes!Claim, Writes!tags, Writes!books, Writes!hist
  <2>3. i \in Writes!Id /\ queue[i] \in Writes!Row
    BY <1>0, RowTyped
  <2>4. LET r == [queue[i] EXCEPT !.status = "running"] IN
           /\ queue'[i] = r /\ r \in Writes!Row /\ r # None
           /\ r.video = queue[i].video /\ r.tags = queue[i].tags /\ r.status = "running"
    BY <1>0, <2>1, <2>3, WriteApart DEF JobShape, Writes!Row
  <2>5. \A j \in Writes!Rows : /\ j \in Writes!Rows' /\ queue'[j].video = queue[j].video
           /\ queue'[j].tags = queue[j].tags /\ (queue[j].status # "failed" => queue'[j].status # "failed")
    <3>1. \A j \in Writes!Id : j # i => queue'[j] = queue[j]
      BY <1>0, <2>1 DEF JobShape
    <3> QED
      BY <2>3, <2>4, <3>1 DEF Writes!Rows
  <2>6. work'[w] = work[w] \/ work'[w].step \in {"snapshot", "write"}
    BY <1>0, <2>1 DEF JobShape
  <2>7. work[w] # None => work[w].id \in Writes!Rows
    BY <1>0, WorkTyped
  <2> QED
    BY <2>2, <2>5, <2>6, <2>7 DEF Aside
<1>6. ASSUME NEW v \in Video, Writes!SnapshotBeforeWrite(v) \/ Writes!SnapshotFails(v) PROVE Audited'
  <2> SUFFICES ASSUME NEW w \in Video PROVE Aside(w)
    BY <1>1
  <2>1. UNCHANGED <<queue, tags, ledger, landed, unlogged>>
    BY <1>6 DEF Writes!SnapshotBeforeWrite, Writes!SnapshotFails, Writes!tags, Writes!books
  <2>2. work'[w] = work[w] \/ work'[w].step \in {"snapshot", "write"}
    <3>1. w # v => work'[w] = work[w]
      BY <1>0, <1>6 DEF Writes!SnapshotBeforeWrite, Writes!SnapshotFails, JobShape
    <3>2. work'[v].step = "write"
      <4>1. work[v] \in Holding
        BY <1>0, <1>6, AtTyped DEF Writes!SnapshotBeforeWrite, Writes!SnapshotFails
      <4> QED
        BY <1>0, <1>6, <4>1 DEF Writes!SnapshotBeforeWrite, Writes!SnapshotFails, JobShape, Holding
    <3> QED
      BY <3>1, <3>2
  <2> QED
    BY <2>1, <2>2 DEF Aside, Writes!Rows
<1>7. ASSUME NEW v \in Video, AuditedAt(v)',
             \/ Writes!ProcessNothing(v) \/ Writes!WriteFails(v) \/ Writes!WriteBatch(v)
             \/ Writes!InsertWriteback(v) \/ Writes!FinishWriteback(v)
      PROVE  Audited'
  <2> SUFFICES ASSUME NEW w \in Video PROVE AuditedAt(w)'
    BY <1>b
  <2>1. CASE w = v
    BY <1>7, <2>1
  <2>2. CASE w # v
    BY <1>7, <1>a, <2>2, OthersAside, AsideKeeps
  <2> QED
    BY <2>1, <2>2
\* The next attempt did not write: if an earlier one did, the video is excused.
<1>8. ASSUME NEW v \in Video, Writes!ProcessNothing(v) \/ Writes!WriteFails(v) PROVE Audited'
  <2>1. work[v] \in Holding /\ AuditedAt(v) /\ Writes!Mine(v) = work[v].id
    BY <1>0, <1>8, <1>a, AtTyped DEF Writes!ProcessNothing, Writes!WriteFails
  <2>2. work'[v] # None => work'[v].step = "record" /\ work'[v].id = work[v].id
    BY <1>0, <1>8, <2>1 DEF Writes!ProcessNothing, Writes!WriteFails, Writes!Goto, JobShape, Holding
  <2>3. /\ UNCHANGED <<queue, tags, ledger, landed>>
        /\ unlogged' = IF work[v].id \in landed THEN unlogged \cup {v} ELSE unlogged
    BY <1>8, <2>1 DEF Writes!ProcessNothing, Writes!WriteFails, Writes!Unwritten, Writes!tags, Writes!books
  <2>4. ~Writes!At(v, "audit")'
    BY <2>2 DEF Writes!At
  <2>5. AuditedAt(v)'
    BY <2>1, <2>2, <2>3, <2>4 DEF AuditedAt, Writes!Rows
  <2> QED
    BY <1>7, <1>8, <2>5
<1>9. ASSUME NEW v \in Video, Writes!WriteBatch(v) PROVE Audited'
  <2> DEFINE m == work[v].id
  <2>1. /\ work[v] \in Holding /\ Writes!Mine(v) = m /\ m \in Writes!Rows /\ queue[m].video = v
        /\ queue[m].status = "running" /\ Writes!Job(v) = queue[m]
    BY <1>0, <1>9, AtTyped, WorkTyped DEF Writes!WriteBatch, Writes!At
  <2>2. /\ UNCHANGED <<queue, ledger, unlogged>> /\ landed' = landed \cup {m} /\ tags'[v] = queue[m].tags
    BY <1>0, <1>9, <2>1 DEF Writes!WriteBatch, Writes!books, BookShape
  <2>3. work'[v].id = m /\ work'[v].step = "audit"
    BY <1>0, <1>9, <2>1 DEF Writes!WriteBatch, Writes!Goto, JobShape, Holding
  <2>4. m \in Writes!Rows' /\ queue'[m].video = v /\ queue'[m].status # "failed" /\ m \in landed'
    BY <2>1, <2>2 DEF Writes!Rows
  <2>5. Writes!Job(v)' = queue[m]
    BY <2>2, <2>3 DEF Writes!Job
  <2>6. AuditedAt(v)'
    BY <2>2, <2>3, <2>4, <2>5 DEF AuditedAt, Late
  <2> QED
    BY <1>7, <1>9, <2>6
<1>10. ASSUME NEW v \in Video, Writes!InsertWriteback(v) PROVE Audited'
  <2>1. /\ work[v] \in Holding /\ Writes!Mine(v) = work[v].id /\ AuditedAt(v) /\ Writes!At(v, "audit")
    BY <1>0, <1>10, <1>a, AtTyped DEF Writes!InsertWriteback
  <2>2. /\ UNCHANGED <<queue, tags>> /\ landed' = landed \ {work[v].id} /\ ledger'[v] = tags[v]
    BY <1>0, <1>10, <2>1 DEF Writes!InsertWriteback, Writes!tags, BookShape, AuditedAt
  <2>3. work'[v].id = work[v].id /\ work'[v].step = "promote"
    BY <1>0, <1>10, <2>1 DEF Writes!InsertWriteback, Writes!Goto, JobShape, Holding
  <2>4. AuditedAt(v)'
    BY <2>2, <2>3 DEF AuditedAt, Writes!At
  <2> QED
    BY <1>7, <1>10, <2>4
\* The job that is over did not leave the file ahead of the ledger, or the video is excused.
<1>11. ASSUME NEW v \in Video, Writes!FinishWriteback(v) PROVE Audited'
  <2>1. /\ work[v] \in Holding /\ work[v] # None /\ Writes!Mine(v) = work[v].id /\ AuditedAt(v)
        /\ work[v].step = "finish" /\ work[v].id \in Writes!Id
    BY <1>0, <1>11, <1>a, AtTyped DEF Writes!FinishWriteback, Writes!At
  <2>2. /\ UNCHANGED <<tags, ledger, landed, unlogged>> /\ work'[v] = None
        /\ \A i \in Writes!Id : i # work[v].id => queue'[i] = queue[i]
    BY <1>0, <1>11, <2>1 DEF Writes!FinishWriteback, Writes!tags, Writes!books, Writes!hist, JobShape
  <2>3. work[v].id \in landed => v \in unlogged
    BY <2>1 DEF AuditedAt, Late
  <2>4. AuditedAt(v)'
    <3>1. ASSUME ledger'[v] # None, v \notin unlogged', ledger'[v] # tags'[v]
          PROVE  \E i \in Writes!Rows' : queue'[i].video = v /\ queue'[i].status # "failed" /\ i \in landed'
      <4>1. PICK i \in Writes!Rows : queue[i].video = v /\ queue[i].status # "failed" /\ i \in landed
        BY <2>1, <2>2, <3>1 DEF AuditedAt
      <4>2. i # work[v].id /\ i \in Writes!Id
        BY <2>2, <2>3, <3>1, <4>1, <1>0
      <4>3. i \in Writes!Rows'
        BY <2>2, <4>1, <4>2 DEF Writes!Rows
      <4> QED
        BY <2>2, <4>1, <4>2, <4>3
    <3> QED
      BY <2>2, <3>1 DEF AuditedAt, Writes!At
  <2> QED
    BY <1>7, <1>11, <2>4
\* Past its audit a worker has the file in the ledger, or the video is excused.
<1>12. ASSUME NEW v \in Video,
              Writes!PromoteIgnoredFileTags(v) \/ Writes!PostWrite(v) \/ Writes!RecordJobRun(v)
       PROVE  Audited'
  <2>1. work[v] \in Holding /\ work[v] # None /\ work[v].step \in Late
    BY <1>0, <1>12, AtTyped DEF Writes!PromoteIgnoredFileTags, Writes!PostWrite, Writes!RecordJobRun, Writes!At, Late
  <2>2. UNCHANGED <<queue, tags, ledger, landed, unlogged>>
    BY <1>12 DEF Writes!PromoteIgnoredFileTags, Writes!PostWrite, Writes!RecordJobRun, Writes!books, Writes!hist,
       Writes!tags
  <2>3. work'[v].id = work[v].id /\ work'[v].step \in Late /\ \A w \in Video : w # v => work'[w] = work[w]
    BY <1>0, <1>12, <2>1 DEF Writes!PromoteIgnoredFileTags, Writes!PostWrite, Writes!RecordJobRun, Writes!Goto,
       JobShape, Holding, Late
  <2>4. ASSUME NEW w \in Video PROVE AuditedAt(w)'
    <3>1. CASE w = v
      BY <1>a, <2>1, <2>2, <2>3, <3>1 DEF AuditedAt, Writes!At, Writes!Rows, Late
    <3>2. CASE w # v
      BY <1>a, <2>2, <2>3, <3>2 DEF AuditedAt, Writes!At, Writes!Job, Writes!Rows
    <3> QED
      BY <3>1, <3>2
  <2> QED
    BY <1>b, <2>4
<1>13. ASSUME Writes!Restart PROVE Audited'
  <2> SUFFICES ASSUME NEW w \in Video PROVE Aside(w)
    BY <1>1
  <2>1. /\ queue' = [i \in Writes!Id |-> IF i \in Writes!Rows THEN Writes!Recovered(queue[i]) ELSE None]
        /\ work' = [v \in Video |-> None] /\ UNCHANGED <<tags, ledger, landed, unlogged>>
    BY <1>13 DEF Writes!Restart, Writes!tags, Writes!books, Writes!hist
  <2>2. \A i \in Writes!Rows : LET r == Writes!Recovered(queue[i]) IN
           r # None /\ r.video = queue[i].video /\ (queue[i].status # "failed" => r.status # "failed")
    <3>1. ASSUME NEW i \in Writes!Rows PROVE Writes!Recovered(queue[i]) \in Writes!Row
      BY <1>0, RowTyped DEF Writes!Recovered, Writes!Row
    <3> QED
      BY <1>0, <3>1, RowTyped, WriteApart DEF Writes!Recovered, Writes!Row
  <2>3. \A i \in Writes!Rows : i \in Writes!Rows' /\ queue'[i] = Writes!Recovered(queue[i])
    BY <1>0, <2>1, <2>2 DEF Writes!Rows
  <2>4. work'[w] = None
    BY <2>1
  <2> QED
    BY <2>1, <2>2, <2>3, <2>4 DEF Aside
<1>14. CASE \/ \E v \in Video : Writes!Enqueue(v)
            \/ \E s \in snaps : Writes!Revert(s)
            \/ \E T \in SUBSET Tag : Writes!EnqueueMany(T)
  BY <1>3, <1>14, Growth
<1>15. CASE UNCHANGED Writes!vars
  BY <1>2, <1>15 DEF Writes!vars, Writes!hist, Writes!books, Writes!tags
<1>16. ASSUME NEW v \in Video, Writes!Decide(v) \/ Writes!RefreshRead(v) \/ Writes!RefreshStore(v)
       PROVE  Audited'
  BY <1>2, <1>16 DEF Writes!Decide, Writes!AttachTagToVideo, Writes!DetachTagFromVideo, Writes!RefreshRead,
     Writes!RefreshStore, Writes!hist, Writes!books, Writes!tags
<1>17. CASE (\E t \in Tag : Writes!SetTagWritebackEnabled(t)) \/ Writes!PollRuns
            \/ (\E b \in Writes!Batches : Writes!PollQueue(b))
  BY <1>2, <1>17 DEF Writes!SetTagWritebackEnabled, Writes!PollRuns, Writes!PollQueue, Writes!hist,
     Writes!books, Writes!tags
<1> QED
  BY <1>4, <1>5, <1>6, <1>8, <1>9, <1>10, <1>11, <1>12, <1>13, <1>14, <1>15, <1>16, <1>17
     DEF Writes!Next, Writes!Process

LEMMA RemovedNext == WriteShape /\ Writes!RemovedStaysOff /\ [Writes!Next]_(Writes!vars) => Writes!RemovedStaysOff'
<1> SUFFICES ASSUME WriteShape, Writes!RemovedStaysOff, [Writes!Next]_(Writes!vars) PROVE Writes!RemovedStaysOff'
  OBVIOUS
<1>0. BookShape
  BY DEF WriteShape
<1>1. ASSUME UNCHANGED <<suppressed, tagLink>> PROVE Writes!RemovedStaysOff'
  BY <1>1 DEF Writes!RemovedStaysOff
\* A link that was off stays off.
<1>2. ASSUME UNCHANGED suppressed, \A v \in Video : \A t \in suppressed[v] : tagLink[v][t] = "none" => tagLink'[v][t] = "none"
      PROVE  Writes!RemovedStaysOff'
  BY <1>2 DEF Writes!RemovedStaysOff
<1>3. ASSUME NEW v \in Video, NEW F, tagLink' = Writes!Relinked(v, F), UNCHANGED suppressed
      PROVE  Writes!RemovedStaysOff'
  <2>1. \A w \in Video : \A t \in suppressed[w] : t \in Tag
    BY <1>0 DEF BookShape
  <2>2. \A w \in Video, t \in Tag : (t \in suppressed[w] /\ tagLink[w][t] = "none") => tagLink'[w][t] = "none"
    BY <1>0, <1>3 DEF BookShape, Writes!Relinked
  <2> QED
    BY <1>2, <1>3, <2>1, <2>2
<1>4. ASSUME NEW v \in Video, Writes!Decide(v) PROVE Writes!RemovedStaysOff'
  <2>1. PICK t \in Tag : Writes!AttachTagToVideo(v, t) \/ Writes!DetachTagFromVideo(v, t)
    BY <1>4 DEF Writes!Decide
  <2>2. CASE Writes!AttachTagToVideo(v, t)
    BY <1>0, <2>2 DEF Writes!AttachTagToVideo, Writes!RemovedStaysOff, BookShape
  <2>3. CASE Writes!DetachTagFromVideo(v, t)
    BY <1>0, <2>3 DEF Writes!DetachTagFromVideo, Writes!RemovedStaysOff, BookShape
  <2> QED
    BY <2>1, <2>2, <2>3
<1>5. ASSUME NEW v \in Video, Writes!PromoteIgnoredFileTags(v) PROVE Writes!RemovedStaysOff'
  <2>1. /\ tagLink' = [tagLink EXCEPT ![v] = [t \in Tag |-> IF t \in silenced /\ @[t] = "file" THEN "own" ELSE @[t]]]
        /\ UNCHANGED suppressed
    BY <1>5 DEF Writes!PromoteIgnoredFileTags
  <2>2. \A w \in Video, t \in Tag : tagLink[w][t] = "none" => tagLink'[w][t] = "none"
    BY <1>0, <2>1 DEF BookShape
  <2> QED
    BY <1>0, <1>2, <2>1, <2>2 DEF BookShape
<1>6. ASSUME NEW v \in Video, Writes!RefreshStore(v) \/ Writes!PostWrite(v) PROVE Writes!RemovedStaysOff'
  BY <1>3, <1>6 DEF Writes!RefreshStore, Writes!PostWrite
<1>7. CASE \/ \E v \in Video : Writes!Enqueue(v)
           \/ \E s \in snaps : Writes!Revert(s)
           \/ \E T \in SUBSET Tag : Writes!EnqueueMany(T)
  BY <1>1, <1>7, Growth DEF Grown
<1>8. CASE UNCHANGED Writes!vars
  BY <1>1, <1>8 DEF Writes!vars, Writes!tags
<1>9. ASSUME NEW v \in Video, Writes!RefreshRead(v) \/ Writes!RetryFailed(v) \/ Writes!DismissFailed(v)
      PROVE  Writes!RemovedStaysOff'
  BY <1>1, <1>9 DEF Writes!RefreshRead, Writes!RetryFailed, Writes!DismissFailed, Writes!tags
<1>10. ASSUME NEW v \in Video, Writes!Process(v) PROVE Writes!RemovedStaysOff'
  BY <1>1, <1>5, <1>6, <1>10 DEF Writes!Process, Writes!tags, Writes!Claim, Writes!ProcessNothing,
     Writes!SnapshotBeforeWrite, Writes!SnapshotFails, Writes!WriteBatch, Writes!WriteFails,
     Writes!InsertWriteback, Writes!RecordJobRun, Writes!FinishWriteback
<1>11. CASE (\E t \in Tag : Writes!SetTagWritebackEnabled(t)) \/ Writes!Restart \/ Writes!PollRuns
            \/ (\E b \in Writes!Batches : Writes!PollQueue(b))
  BY <1>1, <1>11 DEF Writes!SetTagWritebackEnabled, Writes!Restart, Writes!PollRuns, Writes!PollQueue, Writes!tags
<1> QED
  BY <1>4, <1>6, <1>7, <1>8, <1>9, <1>10, <1>11 DEF Writes!Next

RunInv == RunsKept /\ Polled

\* Runs are only added, and a job is over only after its run was.
LEMMA RunNext == WriteShape /\ Batched /\ RunInv /\ [Writes!Next]_(Writes!vars) => RunInv'
<1> SUFFICES ASSUME WriteShape, Batched, RunInv, [Writes!Next]_(Writes!vars) PROVE RunInv'
  OBVIOUS
<1>0. JobShape /\ BookShape /\ Used \subseteq Writes!Id /\ Writes!Rows \subseteq Used /\ lastId \in Nat
  BY UsedIds DEF WriteShape
<1>1. ASSUME UNCHANGED <<lastId, past>>, runs \subseteq runs' PROVE \A i \in Used : Ran(i) => Ran(i)'
  BY <1>1 DEF Ran
<1>2. ASSUME UNCHANGED <<lastId, past>>, runs \subseteq runs',
             poll' = poll \/ poll' = None,
             \A i \in Writes!Rows : (queue[i].status # "failed") =>
                 (i \in Writes!Rows' /\ queue'[i].status # "failed") \/ (past[i].batch # None => Ran(i)'),
             \A w \in Video : work'[w] # None =>
                 /\ past[work'[w].id].batch # None => work'[w].batch = past[work'[w].id].batch
                 /\ work'[w].step = "finish" => [job |-> work'[w].id, batch |-> work'[w].batch] \in runs'
      PROVE  RunInv'
  <2>1. Used' = Used
    BY <1>2 DEF Used
  <2>2. RunsKept'
    BY <1>1, <1>2, <2>1 DEF RunInv, RunsKept
  <2>3. Polled'
    <3>1. CASE poll' = None
      BY <3>1 DEF Polled
    <3>2. CASE poll' = poll
      BY <1>1, <1>2, <2>1, <3>2 DEF RunInv, Polled
    <3> QED
      BY <1>2, <3>1, <3>2
  <2> QED
    BY <2>2, <2>3 DEF RunInv
<1>3. \A w \in Video : work[w] # None =>
         /\ past[work[w].id].batch # None => work[w].batch = past[work[w].id].batch
         /\ work[w].step = "finish" => [job |-> work[w].id, batch |-> work[w].batch] \in runs
  BY DEF RunInv, RunsKept
<1>4. ASSUME UNCHANGED <<lastId, past, queue, work, runs>>, poll' = poll \/ poll' = None PROVE RunInv'
  BY <1>2, <1>3, <1>4 DEF Writes!Rows
<1>5. ASSUME Grown PROVE RunInv'
  <2>1. /\ Used \subseteq Used' /\ UNCHANGED <<work, runs, poll>>
        /\ \A i \in Used : queue'[i] = queue[i] /\ past'[i] = past[i] /\ (Ran(i) => Ran(i)')
        /\ \A i \in Used : i \in Writes!Rows => i \in Writes!Rows'
        /\ \A i \in Used' \ Used : i \in Writes!Rows' /\ queue'[i].status = "pending"
    BY <1>0, <1>5 DEF Grown, Used, Ran, Writes!Rows
  <2>2. RunsKept'
    <3>1. \A i \in Used' : (past'[i].batch # None /\ (i \notin Writes!Rows' \/ queue'[i].status = "failed")) => Ran(i)'
      BY <2>1 DEF RunInv, RunsKept
    <3>2. \A v \in Video : work[v] # None => work[v].id \in Used
      BY <1>0, WorkTyped
    <3> QED
      BY <1>3, <2>1, <3>1, <3>2 DEF RunsKept
  <2>3. Polled'
    <3> SUFFICES ASSUME poll # None
                 PROVE  /\ \E k \in Used' : poll.batch = <<"batch", k>>
                        /\ \A i \in Used' : past'[i].batch = poll.batch => i \in poll.left \/ Ran(i)'
      BY <2>1 DEF Polled
    <3>1. PICK k \in Used : poll.batch = <<"batch", k>>
      BY DEF RunInv, Polled
    <3>2. ASSUME NEW i \in Used', past'[i].batch = poll.batch PROVE i \in poll.left \/ Ran(i)'
      <4>1. CASE i \in Used
        BY <2>1, <3>2, <4>1 DEF RunInv, Polled
      <4>2. CASE i \in Used' \ Used
        <5>1. past'[i].batch \in {None, <<"batch", lastId + 1>>}
          BY <1>5, <4>2 DEF Grown
        <5>2. k # lastId + 1 /\ k \in Writes!Id
          BY <1>0 DEF Used
        <5>3. <<"batch", k>> # None /\ <<"batch", k>> # <<"batch", lastId + 1>>
          BY <5>2, WriteApart DEF Writes!Key
        <5> QED
          BY <3>1, <3>2, <5>1, <5>3
      <4> QED
        BY <4>1, <4>2
    <3> QED
      BY <2>1, <3>1, <3>2
  <2> QED
    BY <2>2, <2>3 DEF RunInv
<1>6. ASSUME NEW v \in Video, Writes!RetryFailed(v) \/ Writes!DismissFailed(v) PROVE RunInv'
  <2>1. UNCHANGED <<lastId, past, work, runs, poll>>
    BY <1>6 DEF Writes!RetryFailed, Writes!DismissFailed, Writes!books, Writes!hist
  <2>2. \A i \in Writes!Rows : queue[i].status # "failed" => queue'[i] = queue[i] /\ i \in Writes!Rows'
    BY <1>6 DEF Writes!RetryFailed, Writes!DismissFailed, Writes!Of, Writes!Rows
  <2> QED
    BY <1>2, <1>3, <2>1, <2>2
<1>7. ASSUME NEW v \in Video, Writes!Claim(v) PROVE RunInv'
  <2>1. PICK i \in Writes!Rows : /\ queue[i].video = v /\ queue[i].status = "pending"
           /\ queue' = [queue EXCEPT ![i].status = "running"]
           /\ work' = [work EXCEPT ![v] = [id |-> i, step |-> "snapshot", ok |-> TRUE, batch |-> queue[i].batch]]
    BY <1>7 DEF Writes!Claim, Writes!Of
  <2>2. UNCHANGED <<lastId, past, runs, poll>>
    BY <1>7 DEF Writes!Claim, Writes!books, Writes!hist
  <2>3. i \in Writes!Id /\ queue[i] \in Writes!Row /\ past[i].batch = queue[i].batch
    BY <1>0, RowTyped DEF JobShape
  <2>4. LET r == [queue[i] EXCEPT !.status = "running"] IN
           queue'[i] = r /\ r \in Writes!Row /\ r # None /\ r.status = "running"
    BY <1>0, <2>1, <2>3, WriteApart DEF JobShape, Writes!Row
  <2>5. \A j \in Writes!Rows : queue[j].status # "failed" => j \in Writes!Rows' /\ queue'[j].status # "failed"
    <3>1. \A j \in Writes!Id : j # i => queue'[j] = queue[j]
      BY <1>0, <2>1 DEF JobShape
    <3> QED
      BY <2>3, <2>4, <3>1 DEF Writes!Rows
  <2>6. ASSUME NEW w \in Video, work'[w] # None
        PROVE  /\ past[work'[w].id].batch # None => work'[w].batch = past[work'[w].id].batch
               /\ work'[w].step = "finish" => [job |-> work'[w].id, batch |-> work'[w].batch] \in runs'
    <3>1. CASE w = v
      BY <1>0, <2>1, <2>3, <3>1 DEF JobShape
    <3>2. CASE w # v
      BY <1>0, <1>3, <2>1, <2>2, <2>6, <3>2 DEF JobShape
    <3> QED
      BY <3>1, <3>2
  <2> QED
    BY <1>2, <2>2, <2>5, <2>6
\* A worker that goes on, to a step before the last.
<1>8. ASSUME NEW v \in Video, work[v] # None, UNCHANGED <<lastId, past, queue, runs, poll>>,
             \A w \in Video : w # v => work'[w] = work[w],
             work'[v].id = work[v].id, work'[v].step # "finish",
             work'[v].batch \in {work[v].batch, Writes!SnapshotBatch(work[v].id)}
      PROVE  RunInv'
  <2>1. past[work[v].id].batch # None => Writes!SnapshotBatch(work[v].id) = past[work[v].id].batch
    <3>1. past[work[v].id].batch = queue[work[v].id].batch
      BY <1>0, <1>8, WorkTyped DEF JobShape
    <3> QED
      BY <3>1 DEF Writes!SnapshotBatch
  <2>2. ASSUME NEW w \in Video, work'[w] # None
        PROVE  /\ past[work'[w].id].batch # None => work'[w].batch = past[work'[w].id].batch
               /\ work'[w].step = "finish" => [job |-> work'[w].id, batch |-> work'[w].batch] \in runs'
    <3>1. CASE w = v
      BY <1>3, <1>8, <2>1, <3>1
    <3>2. CASE w # v
      BY <1>3, <1>8, <2>2, <3>2
    <3> QED
      BY <3>1, <3>2
  <2> QED
    BY <1>2, <1>8, <2>2 DEF Writes!Rows
<1>9. ASSUME NEW v \in Video,
             \/ Writes!ProcessNothing(v) \/ Writes!WriteFails(v) \/ Writes!WriteBatch(v) \/ Writes!InsertWriteback(v)
             \/ Writes!PromoteIgnoredFileTags(v) \/ Writes!PostWrite(v)
             \/ Writes!SnapshotBeforeWrite(v) \/ Writes!SnapshotFails(v)
      PROVE  RunInv'
  <2>1. work[v] # None /\ work[v] \in Holding /\ Writes!Mine(v) = work[v].id
    BY <1>0, <1>9, AtTyped DEF Writes!ProcessNothing, Writes!WriteFails, Writes!WriteBatch, Writes!InsertWriteback,
       Writes!PromoteIgnoredFileTags, Writes!PostWrite, Writes!SnapshotBeforeWrite, Writes!SnapshotFails, Writes!At
  <2>2. UNCHANGED <<lastId, past, queue, runs, poll>>
    BY <1>9 DEF Writes!ProcessNothing, Writes!WriteFails, Writes!WriteBatch, Writes!InsertWriteback,
       Writes!PromoteIgnoredFileTags, Writes!PostWrite, Writes!SnapshotBeforeWrite, Writes!SnapshotFails,
       Writes!books, Writes!hist
  <2>3. /\ \A w \in Video : w # v => work'[w] = work[w]
        /\ work'[v].id = work[v].id /\ work'[v].step # "finish"
        /\ work'[v].batch \in {work[v].batch, Writes!SnapshotBatch(work[v].id)}
    <3>1. CASE Writes!ProcessNothing(v) \/ Writes!WriteFails(v) \/ Writes!WriteBatch(v) \/ Writes!InsertWriteback(v)
               \/ Writes!PromoteIgnoredFileTags(v) \/ Writes!PostWrite(v)
      BY <1>0, <2>1, <3>1 DEF JobShape, Holding, Writes!ProcessNothing, Writes!WriteFails, Writes!WriteBatch,
         Writes!InsertWriteback, Writes!PromoteIgnoredFileTags, Writes!PostWrite, Writes!Goto
    <3>2. CASE Writes!SnapshotBeforeWrite(v) \/ Writes!SnapshotFails(v)
      BY <1>0, <2>1, <3>2 DEF JobShape, Holding, Writes!SnapshotBeforeWrite, Writes!SnapshotFails, Writes!BatchKept
    <3> QED
      BY <1>9, <3>1, <3>2
  <2> QED
    BY <1>8, <2>1, <2>2, <2>3
<1>10. ASSUME NEW v \in Video, Writes!RecordJobRun(v) PROVE RunInv'
  <2>1. work[v] # None /\ work[v] \in Holding /\ Writes!Mine(v) = work[v].id
    BY <1>0, <1>10, AtTyped DEF Writes!RecordJobRun, Writes!At
  <2>2. /\ UNCHANGED <<lastId, past, queue, poll>>
        /\ runs' = runs \cup {[job |-> work[v].id, batch |-> work[v].batch]}
    BY <1>10, <2>1 DEF Writes!RecordJobRun, Writes!hist
  <2>3. /\ \A w \in Video : w # v => work'[w] = work[w]
        /\ work'[v].id = work[v].id /\ work'[v].batch = work[v].batch
    BY <1>0, <1>10, <2>1 DEF Writes!RecordJobRun, Writes!Goto, JobShape, Holding
  <2>4. ASSUME NEW w \in Video, work'[w] # None
        PROVE  /\ past[work'[w].id].batch # None => work'[w].batch = past[work'[w].id].batch
               /\ work'[w].step = "finish" => [job |-> work'[w].id, batch |-> work'[w].batch] \in runs'
    <3>1. CASE w = v
      BY <1>3, <2>1, <2>2, <2>3, <3>1
    <3>2. CASE w # v
      BY <1>3, <2>2, <2>3, <2>4, <3>2
    <3> QED
      BY <3>1, <3>2
  <2> QED
    BY <1>2, <2>2, <2>4 DEF Writes!Rows
<1>11. ASSUME NEW v \in Video, Writes!FinishWriteback(v) PROVE RunInv'
  <2>1. /\ work[v] # None /\ Writes!Mine(v) = work[v].id /\ work[v].step = "finish" /\ work[v].id \in Writes!Id
        /\ work[v].id \in Used
    BY <1>0, <1>11, AtTyped DEF Writes!FinishWriteback, Writes!At
  <2>2. /\ UNCHANGED <<lastId, past, runs, poll>> /\ work'[v] = None
        /\ \A w \in Video : w # v => work'[w] = work[w]
        /\ \A i \in Writes!Id : i # work[v].id => queue'[i] = queue[i]
    BY <1>0, <1>11, <2>1 DEF Writes!FinishWriteback, Writes!books, Writes!hist, JobShape
  <2> PICK m \in Used : m = work[v].id
    BY <2>1
  <2>3. past[m].batch # None => Ran(m)'
    BY <1>3, <2>1, <2>2 DEF Ran
  <2>4. \A i \in Writes!Rows : (queue[i].status # "failed") =>
           (i \in Writes!Rows' /\ queue'[i].status # "failed") \/ (past[i].batch # None => Ran(i)')
    BY <2>2, <2>3 DEF Writes!Rows
  <2>5. \A w \in Video : work'[w] # None =>
           /\ past[work'[w].id].batch # None => work'[w].batch = past[work'[w].id].batch
           /\ work'[w].step = "finish" => [job |-> work'[w].id, batch |-> work'[w].batch] \in runs'
    BY <1>3, <2>2
  <2> QED
    BY <1>2, <2>2, <2>4, <2>5
<1>12. ASSUME Writes!Restart PROVE RunInv'
  <2>1. /\ queue' = [i \in Writes!Id |-> IF i \in Writes!Rows THEN Writes!Recovered(queue[i]) ELSE None]
        /\ work' = [v \in Video |-> None] /\ poll' = None /\ UNCHANGED <<lastId, past, runs>>
    BY <1>12 DEF Writes!Restart, Writes!books, Writes!hist
  <2>2. \A i \in Writes!Rows : /\ Writes!Recovered(queue[i]) # None
           /\ (queue[i].status # "failed" => Writes!Recovered(queue[i]).status # "failed")
    <3>1. ASSUME NEW i \in Writes!Rows PROVE Writes!Recovered(queue[i]) \in Writes!Row
      BY <1>0, RowTyped DEF Writes!Recovered, Writes!Row
    <3> QED
      BY <1>0, <3>1, RowTyped, WriteApart DEF Writes!Recovered, Writes!Row
  <2>3. \A i \in Writes!Rows : i \in Writes!Rows' /\ queue'[i] = Writes!Recovered(queue[i])
    BY <1>0, <2>1, <2>2 DEF Writes!Rows
  <2> QED
    BY <1>2, <2>1, <2>2, <2>3
<1>13. ASSUME NEW b \in Writes!Batches, Writes!PollQueue(b) PROVE RunInv'
  <2>1. /\ poll' = [batch |-> b, left |-> {i \in Writes!Rows : queue[i].batch = b /\ queue[i].status # "failed"}]
        /\ UNCHANGED <<queue, lastId, work, past, runs>>
    BY <1>13 DEF Writes!PollQueue, Writes!books, Writes!hist
  <2>2. PICK i \in Writes!Id : past[i] # None /\ b = past[i].batch /\ b # None
    BY <1>13 DEF Writes!Batches
  <2>3. \E k \in Used : b = <<"batch", k>>
    <3>1. i \in Used
      BY <1>0, <2>2 DEF JobShape
    <3> QED
      BY <2>2, <3>1 DEF Batched
  <2>4. ASSUME NEW j \in Used, past[j].batch = b PROVE j \in poll'.left \/ Ran(j)
    <3>1. CASE j \in Writes!Rows /\ queue[j].status # "failed"
      BY <1>0, <2>1, <2>4, <3>1 DEF JobShape
    <3>2. CASE j \notin Writes!Rows \/ queue[j].status = "failed"
      BY <2>2, <2>4, <3>2 DEF RunInv, RunsKept
    <3> QED
      BY <3>1, <3>2
  <2>5. Polled'
    <3>1. poll'.batch = b /\ Used' = Used /\ \A j : Ran(j)' = Ran(j)
      BY <2>1 DEF Used, Ran
    <3> QED
      BY <2>1, <2>3, <2>4, <3>1 DEF Polled
  <2>6. RunsKept'
    BY <2>1 DEF RunInv, RunsKept, Used, Ran, Writes!Rows
  <2> QED
    BY <2>5, <2>6 DEF RunInv
<1>14. CASE \/ \E v \in Video : Writes!Enqueue(v)
            \/ \E s \in snaps : Writes!Revert(s)
            \/ \E T \in SUBSET Tag : Writes!EnqueueMany(T)
  BY <1>5, <1>14, Growth
<1>15. CASE UNCHANGED Writes!vars
  BY <1>4, <1>15 DEF Writes!vars, Writes!hist, Writes!books
<1>16. ASSUME NEW v \in Video, Writes!Decide(v) \/ Writes!RefreshRead(v) \/ Writes!RefreshStore(v)
       PROVE  RunInv'
  BY <1>4, <1>16 DEF Writes!Decide, Writes!AttachTagToVideo, Writes!DetachTagFromVideo, Writes!RefreshRead,
     Writes!RefreshStore, Writes!hist, Writes!books
<1>17. CASE (\E t \in Tag : Writes!SetTagWritebackEnabled(t)) \/ Writes!PollRuns
  BY <1>4, <1>17 DEF Writes!SetTagWritebackEnabled, Writes!PollRuns, Writes!hist, Writes!books
<1> QED
  BY <1>6, <1>7, <1>9, <1>10, <1>11, <1>12, <1>13, <1>14, <1>15, <1>16, <1>17 DEF Writes!Next, Writes!Process

\* A poll that ends with nothing left has, in what it still holds, the runs.
LEMMA PollStep ==
    WriteInv => \A b \in Writes!Batches : (Writes!PollRuns /\ poll.batch = b /\ poll.left = {}) =>
                    \A i \in Writes!InBatch(b) : [job |-> i, batch |-> b] \in runs
<1> SUFFICES ASSUME WriteInv, NEW b \in Writes!Batches, Writes!PollRuns, poll.batch = b, poll.left = {},
                    NEW i \in Writes!InBatch(b)
             PROVE  [job |-> i, batch |-> b] \in runs
  OBVIOUS
<1>1. i \in Writes!Id /\ past[i] # None /\ past[i].batch = b
  BY DEF Writes!InBatch
<1>2. i \in Used
  BY <1>1 DEF WriteInv, WriteShape, JobShape
<1> QED
  BY <1>1, <1>2 DEF WriteInv, Polled, Writes!PollRuns, Ran

LEMMA LedgerTrue == WriteInv => Writes!LedgerMatches
BY DEF WriteInv, Audited, Writes!LedgerMatches

\* The books of tag writes: the snapshot of a write is the file before the job first came
\* to it, a video at rest has its file's tags in the ledger, what the owner removed stays
\* off, and a poll that finds nothing left has counted every run (writequeue.go process).
THEOREM WritesHold == Writes!Spec => WritesAccounted
<1>1. Writes!Init => WriteInv
  BY WriteInit
<1>2. WriteInv /\ [Writes!Next]_(Writes!vars) => WriteInv'
  BY BookNext, JobNext, BatchedNext, SnapNext, AuditedNext, RemovedNext, RunNext
     DEF WriteInv, WriteShape, SnapInv, RunInv
<1>3. WriteInv => /\ Writes!TypeOK /\ Writes!SnapshotPrior /\ Writes!LedgerMatches /\ Writes!RemovedStaysOff
  BY WriteTyped, LedgerTrue DEF WriteInv
<1>4. WriteInv /\ [Writes!Next]_(Writes!vars) =>
         [\A b \in Writes!Batches : (Writes!PollRuns /\ poll.batch = b /\ poll.left = {}) =>
             \A i \in Writes!InBatch(b) : [job |-> i, batch |-> b] \in runs]_(Writes!vars)
  BY PollStep
<1> QED
  BY <1>1, <1>2, <1>3, <1>4, PTL DEF Writes!Spec, WritesAccounted, Writes!PollComplete
=============================================================================
