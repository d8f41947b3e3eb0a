--------------------------- MODULE Identity_proofs ---------------------------
(***************************************************************************)
(* What the registry keeps to, for any number of entities, names, provider *)
(* ids and videos: every name is one entity's, the tags are a forest,      *)
(* references name who lives, what is alike is asked about, and a pair     *)
(* kept apart stays so.                                                    *)
(*                                                                         *)
(* The operations are operators on the tables, so most lemmas are about    *)
(* those: creating, linking, crediting, taking away, merging and sweeping  *)
(* each keep the tables whole (Whole) and leave known of what there was.   *)
(* A set of names is committed by a function over its order, and a lemma   *)
(* about that function is proved by going to the first step that fails.    *)
(*                                                                         *)
(* The inductive invariant IInv adds to the properties what their upkeep   *)
(* rests on: that only what has no link waits to be swept (Rested), that   *)
(* each name a rescan saw leads to an entity its video is linked to        *)
(* (Settled), that two claimants of a provider id are asked about until    *)
(* one is lost (Contest), and what an id being attached was read from      *)
(* (Claim).                                                                *)
(*                                                                         *)
(* The last part is about the tags and categories of Taxonomy (TagsHold).  *)
(***************************************************************************)
EXTENDS MCIdentity, FiniteSetTheorems, WellFoundedInduction, TLAPS

(***************************************************************************)
(* The tables, and what every operation keeps of them.                     *)
(***************************************************************************)
Row == [of : Id \cup {None}, src : {"owner", "provider"}]
DB == [name : [Id -> Name \cup {NoName}], alias : [Name -> Row],
       parent : [Id -> Id \cup {None}], top : Nat,
       link : [Video -> [Id -> {"none", "file", "manual"}]],
       weak : SUBSET Pair, shared : SUBSET Pair, keep : SUBSET Pair,
       ext : [Ext -> Id \cup {None}], memo : [Id -> Ext \cup {NoExt}],
       stamp : [Id -> {"none", "fresh", "old"}],
       suppressed : SUBSET (Id \X Name), denied : SUBSET Name]

\* No name has two entities, no pair is both asked about and settled, and what is
\* recorded of an entity goes with it.
Unique(d) == \A e, f \in Live(d) : d.name[e] = d.name[f] => e = f
Apart(d) == d.weak \cap d.shared = {} /\ Queue(d) \cap d.keep = {}
Recorded(d) ==
    /\ d.suppressed \subseteq Live(d) \X Name
    /\ \A e \in Id \ Live(d) : d.memo[e] = NoExt
    /\ \A n \in Name : d.alias[n].src = "provider" => d.alias[n].of \in Live(d)
Handed(d) == kind = "studio" => \A e \in Live(d) : e <= d.top
Tree(d) ==
    \A e \in Id : d.parent[e] # None =>
        kind = "tag" /\ {e, d.parent[e]} \subseteq Live(d) /\ e \notin Ancestors(d, e)

Whole(d) == d \in DB /\ Unique(d) /\ Apart(d) /\ Recorded(d) /\ Handed(d) /\ Tree(d)

LEMMA Constants ==
    /\ MaxId \in Nat /\ None \notin Id /\ NoName \notin Name /\ NoExt \notin Ext
    /\ Unowned \in Row /\ Unowned.of = None /\ Unowned.src = "owner"
  BY IdentityAssumption, NamesAssumption DEF None, Id, Row, Unowned

\* A change of the tables that leaves the names alone.
LEMMA SameNames ==
    ASSUME NEW d, NEW d2, d2.name = d.name
    PROVE  Live(d2) = Live(d)
  BY DEF Live


LEMMA SetWeak ==
    ASSUME NEW d \in DB, NEW W \in SUBSET Pair
    PROVE  LET d2 == [d EXCEPT !.weak = W]
           IN  /\ d2 \in DB
               /\ d2.weak = W
               /\ d2.name = d.name /\ d2.alias = d.alias /\ d2.parent = d.parent /\ d2.top = d.top
               /\ d2.link = d.link /\ d2.shared = d.shared /\ d2.keep = d.keep /\ d2.ext = d.ext
               /\ d2.memo = d.memo /\ d2.stamp = d.stamp /\ d2.suppressed = d.suppressed
               /\ d2.denied = d.denied
  BY DEF DB

\* The pairs a look at the name n of entity e finds.
Found(d, e, n) ==
    {p \in Pair \ (d.keep \cup d.shared) :
        /\ e \in p
        /\ \E o \in p \ {e} : \E m \in Forms(d, o) : Near(n, m)}

LEMMA FlagIs ==
    ASSUME NEW d \in DB, NEW e \in Id, NEW n \in Name
    PROVE  LET d2 == Flag(d, e, n)
           IN  /\ d2 \in DB
               /\ d2.weak = d.weak \cup Found(d, e, n)
               /\ d2.name = d.name /\ d2.alias = d.alias /\ d2.parent = d.parent /\ d2.top = d.top
               /\ d2.link = d.link /\ d2.shared = d.shared /\ d2.keep = d.keep /\ d2.ext = d.ext
               /\ d2.memo = d.memo /\ d2.stamp = d.stamp /\ d2.suppressed = d.suppressed
               /\ d2.denied = d.denied
<1>1. d.weak \cup Found(d, e, n) \in SUBSET Pair
  BY DEF Found, DB
<1>2. Flag(d, e, n) = [d EXCEPT !.weak = d.weak \cup Found(d, e, n)]
  BY DEF Flag, Found
<1> QED
  BY <1>1, <1>2, SetWeak

LEMMA AliasIs ==
    ASSUME NEW d \in DB, NEW n \in Name, NEW r \in Row
    PROVE  LET d2 == SetAlias(d, n, r)
           IN  /\ d2 \in DB
               /\ d2.alias = [m \in Name |-> IF m = n THEN r ELSE d.alias[m]]
               /\ d2.name = d.name /\ d2.parent = d.parent /\ d2.top = d.top
               /\ d2.link = d.link /\ d2.weak = d.weak /\ d2.shared = d.shared
               /\ d2.keep = d.keep /\ d2.ext = d.ext
               /\ d2.memo = d.memo /\ d2.stamp = d.stamp /\ d2.suppressed = d.suppressed
               /\ d2.denied = d.denied
<1> DEFINE A == [m \in Name |-> IF m = n THEN r ELSE d.alias[m]]
<1>1. A \in [Name -> Row]
  BY DEF DB
<1>2. SetAlias(d, n, r) = [d EXCEPT !.alias = A]
  BY DEF SetAlias
<1> HIDE DEF A
<1>3. QED
  BY <1>1, <1>2 DEF DB, A

\* What d has and d2 has besides: aliases of e where nobody had one, of the names in N.
Gains(d, d2, e, N) ==
    \A m \in Name : \/ d2.alias[m] = d.alias[m]
                    \/ m \in N /\ d.alias[m].of = None
                       /\ d2.alias[m].of = e /\ d2.alias[m] \in Row

\* All but the aliases.
ButAliases(d, d2) ==
    /\ d2.name = d.name /\ d2.parent = d.parent /\ d2.top = d.top
    /\ d2.link = d.link /\ d2.weak = d.weak /\ d2.shared = d.shared
    /\ d2.keep = d.keep /\ d2.ext = d.ext
    /\ d2.memo = d.memo /\ d2.stamp = d.stamp /\ d2.suppressed = d.suppressed
    /\ d2.denied = d.denied

LEMMA AddAliasIs ==
    ASSUME NEW d \in DB, NEW e \in Id, NEW n \in Name, NEW source \in {"owner", "provider"}
    PROVE  LET d2 == AddAlias(d, e, n, source)
           IN  /\ d2 \in DB /\ ButAliases(d, d2) /\ Gains(d, d2, e, {n})
               /\ d.alias[n].of # None => d2 = d
               /\ d.alias[n].of = None => d2.alias[n] = [of |-> e, src |-> source]
               /\ \A m \in Name \ {n} : d2.alias[m] = d.alias[m]
<1>1. [of |-> e, src |-> source] \in Row
  BY DEF Row
<1>2. CASE d.alias[n].of # None
  BY <1>2 DEF AddAlias, ButAliases, Gains
<1>3. CASE d.alias[n].of = None
  <2> DEFINE r == [of |-> e, src |-> source]
             d2 == SetAlias(d, n, r)
  <2>1. AddAlias(d, e, n, source) = d2
    BY <1>3 DEF AddAlias
  <2>2. d2 \in DB /\ ButAliases(d, d2) /\ d2.alias = [m \in Name |-> IF m = n THEN r ELSE d.alias[m]]
    BY <1>1, AliasIs DEF ButAliases
  <2>3. d2.alias[n] = r /\ \A m \in Name \ {n} : d2.alias[m] = d.alias[m]
    BY <2>2
  <2>4. r.of = e
    OBVIOUS
  <2> HIDE DEF d2, r
  <2>5. Gains(d, d2, e, {n})
    BY <1>1, <1>3, <2>3, <2>4 DEF Gains, r
  <2> QED
    BY <1>3, <2>1, <2>2, <2>3, <2>5 DEF r
<1> QED
  BY <1>2, <1>3

LEMMA AddDashedIs ==
    ASSUME NEW d \in DB, NEW e \in Id, NEW n \in Name
    PROVE  LET d2 == AddDashed(d, e, n)
           IN  /\ d2 \in DB /\ ButAliases(d, d2)
               /\ \A m \in Name :
                     \/ d2.alias[m] = d.alias[m]
                     \/ /\ m = Dash[n] /\ Loose[m] = Loose[n] /\ Conflict(d, e, m) = {}
                        /\ d.alias[m].of = None /\ d2.alias[m] = [of |-> e, src |-> "owner"]
<1>1. CASE \/ kind # "tag" \/ Dash[n] = NoName
           \/ Dash[n] \in d.denied \/ Conflict(d, e, Dash[n]) # {}
  BY <1>1 DEF AddDashed, ButAliases
<1>2. CASE ~(\/ kind # "tag" \/ Dash[n] = NoName
             \/ Dash[n] \in d.denied \/ Conflict(d, e, Dash[n]) # {})
  <2>1. AddDashed(d, e, n) = AddAlias(d, e, Dash[n], "owner")
    BY <1>2 DEF AddDashed
  <2>2. Dash[n] \in Name /\ Loose[Dash[n]] = Loose[n] /\ Conflict(d, e, Dash[n]) = {}
    BY <1>2, NamesAssumption
  <2> DEFINE d2 == AddAlias(d, e, Dash[n], "owner")
  <2>3. /\ d2 \in DB /\ ButAliases(d, d2)
        /\ d.alias[Dash[n]].of # None => d2 = d
        /\ d.alias[Dash[n]].of = None => d2.alias[Dash[n]] = [of |-> e, src |-> "owner"]
        /\ \A m \in Name \ {Dash[n]} : d2.alias[m] = d.alias[m]
    BY <2>2, AddAliasIs
  <2> HIDE DEF d2
  <2> QED
    BY <2>1, <2>2, <2>3 DEF d2
<1> QED
  BY <1>1, <1>2

\* The largest of a set of ids.
LEMMA MaxIs ==
    ASSUME NEW S \in SUBSET (0 .. MaxId), S # {}
    PROVE  Max(S) \in S /\ \A y \in S : Max(S) >= y
<1> DEFINE R == OpToRel(<, Nat)
           T == {MaxId - y : y \in S}
<1>1. IsWellFoundedOn(R, Nat)
  BY NatLessThanWellFounded DEF OpToRel
<1>2. T \in SUBSET Nat /\ T # {}
  <2>1. \A y \in S : MaxId - y \in Nat
    BY Constants
  <2> QED
    BY <2>1
<1>3. PICK z \in T : \A y \in T : ~(<<y, z>> \in R)
  BY <1>1, <1>2, WFMin
<1>4. PICK x \in S : z = MaxId - x
  BY <1>3
<1>5. ASSUME NEW y \in S PROVE x >= y
  <2>1. ~(MaxId - y < z)
    BY <1>2, <1>3 DEF OpToRel
  <2> QED
    BY <1>4, <2>1, Constants
<1> QED
  BY <1>5 DEF Max

LEMMA NextIdFresh ==
    ASSUME NEW d \in DB, Handed(d)
    PROVE  /\ NextId(d) \in Nat \ {0} /\ NextId(d) \notin Live(d)
           /\ \A e \in Live(d) : e < NextId(d)
<1>1. \A e \in Live(d) : e \in Nat /\ 1 <= e /\ e <= MaxId
  BY DEF Live, Id
<1>2. PICK top \in Nat : NextId(d) = 1 + top /\ \A e \in Live(d) : e <= top
  <2>1. CASE kind = "studio"
    <3>1. d.top \in Nat
      BY DEF DB
    <3> QED
      BY <2>1, <3>1 DEF NextId, Handed
  <2>2. CASE kind # "studio"
    <3> DEFINE S == Live(d) \cup {0}
    <3>1. MaxId \in Nat
      BY Constants
    <3>2. \A e \in S : e \in 0 .. MaxId
      BY <1>1, <3>1
    <3>3. S \in SUBSET (0 .. MaxId) /\ S # {}
      BY <3>2
    <3>4. Max(S) \in S /\ \A y \in S : Max(S) >= y
      BY <3>3, MaxIs
    <3>5. NextId(d) = 1 + Max(S)
      BY <2>2 DEF NextId
    <3>6. \A e \in Live(d) : Max(S) >= e
      BY <3>4
    <3>7. Max(S) \in Nat
      BY <3>2, <3>4
    <3> HIDE DEF S
    <3> QED
      BY <1>1, <3>5, <3>6, <3>7
  <2> QED
    BY <2>1, <2>2
<1> QED
  BY <1>1, <1>2

LEMMA PairIs ==
    /\ \A p \in Pair : p \subseteq Id
    /\ \A p \in Pair : \A a, b \in p : a # b => p = {a, b}
    /\ \A a, b \in Id : a # b => {a, b} \in Pair
<1>1. ASSUME NEW p \in Pair, NEW a \in p, NEW b \in p, a # b PROVE p = {a, b}
  <2>1. IsFiniteSet(Id)
    BY FS_Interval, Constants DEF Id
  <2>2. IsFiniteSet(p) /\ Cardinality(p) = 2
    BY <2>1, FS_Subset DEF Pair
  <2>3. IsFiniteSet(p \ {a}) /\ Cardinality(p \ {a}) = 1
    BY <2>2, FS_RemoveElement
  <2>4. PICK c : p \ {a} = {c}
    BY <2>3, FS_Singleton
  <2> QED
    BY <1>1, <2>4
<1>2. ASSUME NEW a \in Id, NEW b \in Id, a # b PROVE {a, b} \in Pair
  <2>1. IsFiniteSet({a}) /\ Cardinality({a}) = 1
    BY FS_Singleton
  <2>2. Cardinality({a} \cup {b}) = 2
    BY <1>2, <2>1, FS_AddElement
  <2>3. {a} \cup {b} = {a, b}
    OBVIOUS
  <2> QED
    BY <2>2, <2>3 DEF Pair
<1> QED
  BY <1>1, <1>2 DEF Pair

LEMMA LookupIs ==
    ASSUME NEW d \in DB, Unique(d), NEW n \in Name
    PROVE  /\ \A e \in Live(d) : d.name[e] = n => Lookup(d, n) = e
           /\ (\A e \in Live(d) : d.name[e] # n) => Lookup(d, n) = d.alias[n].of
           /\ Lookup(d, n) \in Id \cup {None}
           /\ Lookup(d, n) # None => n \in Forms(d, Lookup(d, n))
           /\ Lookup(d, n) = None => /\ d.alias[n].of = None
                                     /\ \A e \in Live(d) : d.name[e] # n
<1>1. Live(d) \subseteq Id /\ None \notin Live(d) /\ d.alias[n].of \in Id \cup {None}
  BY Constants DEF Live, DB, Row
<1>2. ASSUME NEW e \in Live(d), d.name[e] = n PROVE Lookup(d, n) = e
  BY <1>2 DEF Lookup, Unique
<1>3. (\A e \in Live(d) : d.name[e] # n) => Lookup(d, n) = d.alias[n].of
  BY DEF Lookup
<1>4. CASE \E e \in Live(d) : d.name[e] = n
  <2>1. PICK e \in Live(d) : d.name[e] = n
    BY <1>4
  <2>2. Lookup(d, n) = e
    BY <1>2, <2>1
  <2> QED
    BY <1>1, <1>2, <1>3, <2>1, <2>2 DEF Forms
<1>5. CASE \A e \in Live(d) : d.name[e] # n
  BY <1>1, <1>2, <1>3, <1>5 DEF Forms
<1> QED
  BY <1>4, <1>5

\* Equal names and aliases, equal names that lead to an entity.
LEMMA SameForms ==
    ASSUME NEW d, NEW d2, d2.name = d.name, d2.alias = d.alias
    PROVE  /\ Live(d2) = Live(d)
           /\ \A e : Forms(d2, e) = Forms(d, e)
           /\ \A n : Lookup(d2, n) = Lookup(d, n)
           /\ \A e, n : Conflict(d2, e, n) = Conflict(d, e, n)
           /\ \A e, f : Alike(d2, e, f) = Alike(d, e, f)
<1>1. Live(d2) = Live(d)
  BY DEF Live
<1>2. \A e : Forms(d2, e) = Forms(d, e)
  BY <1>1 DEF Forms
<1>3. \A n : Lookup(d2, n) = Lookup(d, n)
  BY <1>1 DEF Lookup
<1> QED
  BY <1>1, <1>2, <1>3 DEF Conflict, Alike

\* The queue, the aliases and the ids name who lives, or who was missed; a name is one
\* entity's unless it was shadowed; what is alike is asked about.
Living(d, missed) ==
    /\ UNION Queue(d) \subseteq Live(d) \cup missed
    /\ \A n \in Name : d.alias[n].of \in Live(d) \cup missed \cup {None}
    /\ \A x \in Ext : d.ext[x] \in Live(d) \cup missed \cup {None}
Unshadowed(d, hid) ==
    \A e \in Live(d) : d.name[e] \notin hid => d.alias[d.name[e]].of \in {None, e}
Told(d, exempt, hid) ==
    hid = {} => \A e, f \in Id \ exempt :
                    e # f /\ Alike(d, e, f) => {e, f} \in d.keep \cup Queue(d)
Held(d) == Whole(d) /\ Living(d, stray) /\ Unshadowed(d, shadowed) /\ Told(d, excuse, shadowed)

LEMMA FormsLive ==
    ASSUME NEW d \in DB, NEW missed, Living(d, missed), NEW e \in Id, NEW n \in Forms(d, e)
    PROVE  e \in Live(d) \cup missed
  BY Constants DEF Forms, Living, Live

\* A name that leads nowhere gets an entity of its own, with the next id.
LEMMA CreatedIs ==
    ASSUME NEW d, Whole(d), NEW n \in Name, Lookup(d, n) = None, NextId(d) \in Id
    PROVE  LET e == NextId(d)
               d2 == Created(d, n)
           IN  /\ d2 \in DB /\ e \notin Live(d)
               /\ d2.name = [d.name EXCEPT ![e] = n] /\ Live(d2) = Live(d) \cup {e}
               /\ d2.parent = d.parent /\ d2.top = e /\ d2.link = d.link /\ d2.shared = d.shared
               /\ d2.keep = d.keep /\ d2.ext = d.ext /\ d2.memo = d.memo
               /\ d2.suppressed = d.suppressed /\ d2.denied = d.denied
               /\ \A m \in Name :
                     \/ d2.alias[m] = d.alias[m]
                     \/ /\ Loose[m] = Loose[n] /\ \A f \in Id \ {e} : m \notin Forms(d, f)
                        /\ d.alias[m].of = None /\ d2.alias[m] = [of |-> e, src |-> "owner"]
               /\ d.weak \subseteq d2.weak
               /\ \A p \in d2.weak \ d.weak :
                     /\ p \in Pair \ (d.keep \cup d.shared)
                     /\ \E o \in Id \ {e} : p = {e, o} /\ Forms(d, o) # {}
               /\ \A o \in Id \ {e} : \A m \in Forms(d, o) :
                     Near(n, m) => {e, o} \in d.keep \cup d.shared \cup d2.weak
<1> DEFINE e == NextId(d)
           st == IF kind = "tag" THEN "fresh" ELSE "none"
           d1 == [d EXCEPT !.name[e] = n, !.parent[e] = None, !.top = e, !.stamp[e] = st]
           d3 == Flag(d1, e, n)
           d2 == AddDashed(d3, e, n)
<1>1. d \in DB /\ Handed(d) /\ Unique(d) /\ Tree(d)
  BY DEF Whole
<1>2. e \in Id /\ e \in Nat /\ e \notin Live(d)
  BY <1>1, NextIdFresh
<1>3. Created(d, n) = d2
  BY DEF Created
<1>4. st \in {"none", "fresh", "old"}
  OBVIOUS
<1>5. /\ d1 \in DB
      /\ d1.name = [d.name EXCEPT ![e] = n] /\ d1.parent = [d.parent EXCEPT ![e] = None]
      /\ d1.top = e /\ d1.link = d.link /\ d1.shared = d.shared /\ d1.weak = d.weak
      /\ d1.keep = d.keep /\ d1.ext = d.ext /\ d1.memo = d.memo /\ d1.alias = d.alias
      /\ d1.suppressed = d.suppressed /\ d1.denied = d.denied
  <2> HIDE DEF st, e
  <2> QED
    BY <1>1, <1>2, <1>4 DEF DB
<1>6. d.parent[e] = None /\ d1.parent = d.parent
  BY <1>1, <1>2, <1>5 DEF Tree, DB
<1>7. Live(d1) = Live(d) \cup {e}
  BY <1>1, <1>2, <1>5, Constants DEF Live, DB
<1>8. \A o \in Id \ {e} : Forms(d1, o) = Forms(d, o)
  BY <1>1, <1>2, <1>5, <1>7 DEF Forms, DB
<1>9. /\ d3 \in DB /\ d3.weak = d1.weak \cup Found(d1, e, n)
      /\ d3.name = d1.name /\ d3.alias = d1.alias /\ d3.parent = d1.parent /\ d3.top = d1.top
      /\ d3.link = d1.link /\ d3.shared = d1.shared /\ d3.keep = d1.keep /\ d3.ext = d1.ext
      /\ d3.memo = d1.memo /\ d3.suppressed = d1.suppressed /\ d3.denied = d1.denied
  <2> HIDE DEF d1, e
  <2> QED
    BY <1>2, <1>5, FlagIs
<1>10. /\ d2 \in DB /\ ButAliases(d3, d2)
       /\ \A m \in Name :
             \/ d2.alias[m] = d3.alias[m]
             \/ /\ m = Dash[n] /\ Loose[m] = Loose[n] /\ Conflict(d3, e, m) = {}
                /\ d3.alias[m].of = None /\ d2.alias[m] = [of |-> e, src |-> "owner"]
  <2> HIDE DEF d3, e
  <2> QED
    BY <1>2, <1>9, AddDashedIs
<1>11. \A o \in Id \ {e} : Forms(d3, o) = Forms(d, o)
  <2> HIDE DEF d1, d3, e
  <2> QED
    BY <1>8, <1>9, SameForms
<1>12. Live(d2) = Live(d) \cup {e}
  <2> HIDE DEF d1, d2, d3, e
  <2> QED
    BY <1>7, <1>9, <1>10, SameNames DEF ButAliases
<1> HIDE DEF d1, d2, d3, e
<1>13. \A p \in d2.weak \ d.weak :
          /\ p \in Pair \ (d.keep \cup d.shared)
          /\ \E o \in Id \ {e} : p = {e, o} /\ Forms(d, o) # {}
  <2> SUFFICES ASSUME NEW p \in d2.weak \ d.weak
               PROVE  /\ p \in Pair \ (d.keep \cup d.shared)
                      /\ \E o \in Id \ {e} : p = {e, o} /\ Forms(d, o) # {}
    OBVIOUS
  <2>1. p \in Found(d1, e, n)
    BY <1>5, <1>9, <1>10 DEF ButAliases
  <2>2. p \in Pair \ (d.keep \cup d.shared) /\ e \in p
    BY <1>5, <2>1 DEF Found
  <2>3. PICK o \in p \ {e} : \E m \in Forms(d1, o) : Near(n, m)
    BY <2>1 DEF Found
  <2>4. o \in Id \ {e} /\ p = {e, o}
    BY <2>2, <2>3, PairIs
  <2> QED
    BY <1>8, <2>2, <2>3, <2>4
<1>14. \A o \in Id \ {e} : \A m \in Forms(d, o) :
          Near(n, m) => {e, o} \in d.keep \cup d.shared \cup d2.weak
  <2> SUFFICES ASSUME NEW o \in Id \ {e}, NEW m \in Forms(d, o), Near(n, m),
                      {e, o} \notin d.keep \cup d.shared
               PROVE  {e, o} \in d2.weak
    OBVIOUS
  <2>1. {e, o} \in Pair
    BY <1>2, PairIs
  <2>2. {e, o} \in Found(d1, e, n)
    BY <1>5, <1>8, <2>1 DEF Found
  <2> QED
    BY <1>9, <1>10, <2>2 DEF ButAliases
<1>15. ASSUME NEW m \in Name, Conflict(d3, e, m) = {} PROVE \A f \in Id \ {e} : m \notin Forms(d, f)
  BY <1>11, <1>15 DEF Conflict
<1> QED
  <2>1. /\ d2.name = [d.name EXCEPT ![e] = n] /\ d2.parent = d.parent /\ d2.top = e
        /\ d2.link = d.link /\ d2.shared = d.shared
        /\ d2.keep = d.keep /\ d2.ext = d.ext /\ d2.memo = d.memo
        /\ d2.suppressed = d.suppressed /\ d2.denied = d.denied
        /\ d.weak \subseteq d2.weak
    BY <1>5, <1>6, <1>9, <1>10 DEF ButAliases
  <2>2. \A m \in Name :
           \/ d2.alias[m] = d.alias[m]
           \/ /\ Loose[m] = Loose[n] /\ \A f \in Id \ {e} : m \notin Forms(d, f)
              /\ d.alias[m].of = None /\ d2.alias[m] = [of |-> e, src |-> "owner"]
    BY <1>5, <1>9, <1>10, <1>15
  <2> QED
    BY <1>2, <1>3, <1>10, <1>12, <1>13, <1>14, <2>1, <2>2 DEF e

\* One entity may gain the name n and its spellings, and is then asked about if the names
\* like n are: hid and ex are who is hidden and exempt before, hid2 and ex2 after.
Gaining(d, d2, e, n, ex, ex2, hid, hid2) ==
    /\ hid2 = {} => hid = {}
    /\ \A a \in Id \ ex2 : Forms(d2, a) # {} => a \notin ex
    /\ \A a, b \in Id \ ex2 :
          /\ a # b /\ Forms(d2, a) # {} /\ Forms(d2, b) # {}
          /\ {a, b} \in d.keep \cup Queue(d)
          => {a, b} \in d2.keep \cup Queue(d2)
    /\ \A o \in Id \ {e} : Forms(d2, o) \subseteq Forms(d, o)
    /\ hid2 = {} /\ e \notin ex2 =>
          \/ Forms(d2, e) \subseteq Forms(d, e)
          \/ /\ \A m \in Forms(d2, e) : m \in Forms(d, e) \/ Loose[m] = Loose[n]
             /\ \A o \in Id \ ({e} \cup ex2) : \A m \in Forms(d2, o) :
                   m # n /\ (Near(n, m) => {e, o} \in d2.keep \cup Queue(d2))

LEMMA ToldStays ==
    ASSUME NEW d, NEW d2, NEW e \in Id, NEW n \in Name, NEW ex, NEW ex2, NEW hid, NEW hid2,
           Told(d, ex, hid), Gaining(d, d2, e, n, ex, ex2, hid, hid2)
    PROVE  Told(d2, ex2, hid2)
<1> USE DEF Gaining
<1> SUFFICES ASSUME hid2 = {},
                    NEW a \in Id \ ex2, NEW b \in Id \ ex2, a # b,
                    NEW m \in Forms(d2, a), NEW k \in Forms(d2, b), Near(m, k)
             PROVE  {a, b} \in d2.keep \cup Queue(d2)
  BY DEF Told, Alike
<1>1. m # k /\ Loose[m] = Loose[k]
  BY DEF Near
<1>2. ASSUME m \in Forms(d, a), k \in Forms(d, b) PROVE {a, b} \in d2.keep \cup Queue(d2)
  <2>1. Alike(d, a, b)
    BY <1>2 DEF Alike
  <2>2. a \in Id \ ex /\ b \in Id \ ex
    OBVIOUS
  <2>3. {a, b} \in d.keep \cup Queue(d)
    BY <2>1, <2>2 DEF Told
  <2> QED
    BY <2>3
<1>3. CASE a = e /\ m \notin Forms(d, a)
  <2>1. k \in Forms(d, b) /\ Loose[m] = Loose[n] /\ k # n
    BY <1>3
  <2>2. Near(n, k)
    BY <1>1, <2>1 DEF Near
  <2> QED
    BY <1>3, <2>2
<1>4. CASE b = e /\ k \notin Forms(d, b)
  <2>1. m \in Forms(d, a) /\ Loose[k] = Loose[n] /\ m # n
    BY <1>4
  <2>2. Near(n, m)
    BY <1>1, <2>1 DEF Near
  <2>3. {e, a} \in d2.keep \cup Queue(d2)
    BY <1>4, <2>2
  <2>4. {e, a} = {a, b}
    BY <1>4
  <2> QED
    BY <2>3, <2>4
<1> QED
  BY <1>2, <1>3, <1>4

\* What a credit, a rescan or an owner's new tag keeps of the tables.
Grown(d, d2) ==
    /\ Live(d) \subseteq Live(d2) /\ \A e \in Live(d) : d2.name[e] = d.name[e]
    /\ d2.parent = d.parent /\ d2.shared = d.shared /\ d2.keep = d.keep /\ d2.memo = d.memo
    /\ d2.suppressed = d.suppressed /\ d2.denied = d.denied
    /\ \A x \in Ext : d.ext[x] # None => d2.ext[x] = d.ext[x]
    /\ \A m \in Name : Lookup(d, m) # None => Lookup(d2, m) = Lookup(d, m)
    /\ \A u \in Video, e \in Id : d.link[u][e] # "none" => d2.link[u][e] # "none"
    /\ d2.weak \cap d2.keep \subseteq d.weak

LEMMA GrownOn == ASSUME NEW d, NEW d2, NEW d3, Grown(d, d2), Grown(d2, d3) PROVE Grown(d, d3)
  BY DEF Grown

LEMMA CreatedHeld ==
    ASSUME NEW d, Held(d), NEW n \in Name, Lookup(d, n) = None, NextId(d) \in Id
    PROVE  /\ Held(Created(d, n)) /\ Grown(d, Created(d, n))
           /\ Created(d, n).link = d.link
           /\ Created(d, n).ext = d.ext
           /\ NextId(d) \in Live(Created(d, n))
           /\ Lookup(Created(d, n), n) = NextId(d)
           /\ NextId(Created(d, n)) = NextId(d) + 1
<1> DEFINE e == NextId(d)
           d2 == Created(d, n)
<1>1. /\ Whole(d) /\ Living(d, stray) /\ Unshadowed(d, shadowed) /\ Told(d, excuse, shadowed)
      /\ d \in DB /\ Unique(d) /\ Apart(d) /\ Recorded(d) /\ Handed(d) /\ Tree(d)
  BY DEF Held, Whole
<1>2. /\ d2 \in DB /\ e \notin Live(d)
      /\ d2.name = [d.name EXCEPT ![e] = n] /\ Live(d2) = Live(d) \cup {e}
      /\ d2.parent = d.parent /\ d2.top = e /\ d2.link = d.link /\ d2.shared = d.shared
      /\ d2.keep = d.keep /\ d2.ext = d.ext /\ d2.memo = d.memo
      /\ d2.suppressed = d.suppressed /\ d2.denied = d.denied
      /\ \A m \in Name :
            \/ d2.alias[m] = d.alias[m]
            \/ /\ Loose[m] = Loose[n] /\ \A f \in Id \ {e} : m \notin Forms(d, f)
               /\ d.alias[m].of = None /\ d2.alias[m] = [of |-> e, src |-> "owner"]
      /\ d.weak \subseteq d2.weak
      /\ \A p \in d2.weak \ d.weak :
            /\ p \in Pair \ (d.keep \cup d.shared)
            /\ \E o \in Id \ {e} : p = {e, o} /\ Forms(d, o) # {}
      /\ \A o \in Id \ {e} : \A m \in Forms(d, o) :
            Near(n, m) => {e, o} \in d.keep \cup d.shared \cup d2.weak
  BY <1>1, CreatedIs
<1>3. e \in Id /\ Live(d) \subseteq Id /\ None \notin Id
  BY Constants DEF Live
<1>4. d.alias[n].of = None /\ \A f \in Live(d) : d.name[f] # n
  BY <1>1, LookupIs
<1>5. /\ \A f \in Id \ {e} : d2.name[f] = d.name[f]
      /\ d2.name[e] = n
  BY <1>1, <1>2, <1>3 DEF DB
<1>6. NextId(d) \in Nat /\ \A f \in Live(d) : f < NextId(d)
  BY <1>1, NextIdFresh
<1> HIDE DEF e, d2
<1>7. \A f \in Id \ {e} : Forms(d2, f) = Forms(d, f)
  <2> SUFFICES ASSUME NEW f \in Id \ {e} PROVE Forms(d2, f) = Forms(d, f)
    OBVIOUS
  <2>1. f \in Live(d2) <=> f \in Live(d)
    BY <1>2
  <2>2. \A m \in Name : d2.alias[m].of = f <=> d.alias[m].of = f
    BY <1>2, <1>3
  <2> QED
    BY <1>5, <2>1, <2>2 DEF Forms
<1>8. \A m \in Forms(d2, e) : m \in Forms(d, e) \/ Loose[m] = Loose[n]
  BY <1>2, <1>5 DEF Forms
<1>9. \A o \in Id \ {e} : n \notin Forms(d, o)
  BY <1>3, <1>4 DEF Forms
<1>10. Unique(d2)
  BY <1>1, <1>2, <1>3, <1>4, <1>5 DEF Unique
<1>11. Apart(d2)
  BY <1>1, <1>2 DEF Apart, Queue
<1>12. Recorded(d2)
  <2>1. \A m \in Name : d2.alias[m].src = "provider" => d2.alias[m].of \in Live(d2)
    BY <1>1, <1>2 DEF Recorded
  <2> QED
    BY <1>1, <1>2, <2>1 DEF Recorded
<1>13. Handed(d2)
  <2> SUFFICES ASSUME kind = "studio", NEW f \in Live(d2) PROVE f <= d2.top
    BY DEF Handed
  <2>1. f = e \/ f < e
    BY <1>2, <1>6 DEF e
  <2>2. f \in Nat /\ e \in Nat
    BY <1>2, <1>3, Constants DEF Id
  <2> QED
    BY <1>2, <2>1, <2>2
<1>14. Tree(d2)
  <2>1. \A f : Ancestors(d2, f) = Ancestors(d, f)
    BY <1>2 DEF Ancestors, Upward
  <2> QED
    BY <1>1, <1>2, <2>1 DEF Tree
<1>15. Whole(d2)
  BY <1>2, <1>10, <1>11, <1>12, <1>13, <1>14 DEF Whole
<1>16. Living(d2, stray)
  <2>1. \A p \in Queue(d2) : p \subseteq Live(d2) \cup stray
    <3> SUFFICES ASSUME NEW p \in Queue(d2), p \notin Queue(d) PROVE p \subseteq Live(d2) \cup stray
      BY <1>1, <1>2 DEF Living
    <3>1. p \in d2.weak \ d.weak
      BY <1>2 DEF Queue
    <3>2. PICK o \in Id \ {e} : p = {e, o} /\ Forms(d, o) # {}
      BY <1>2, <3>1
    <3>3. o \in Live(d) \cup stray
      BY <1>1, <3>2, FormsLive
    <3> QED
      BY <1>2, <3>2, <3>3
  <2>2. \A m \in Name : d2.alias[m].of \in Live(d2) \cup stray \cup {None}
    BY <1>1, <1>2 DEF Living
  <2>3. \A x \in Ext : d2.ext[x] \in Live(d2) \cup stray \cup {None}
    BY <1>1, <1>2 DEF Living
  <2> QED
    BY <2>1, <2>2, <2>3 DEF Living
<1>17. Unshadowed(d2, shadowed)
  <2> SUFFICES ASSUME NEW f \in Live(d2), d2.name[f] \notin shadowed
               PROVE  d2.alias[d2.name[f]].of \in {None, f}
    BY DEF Unshadowed
  <2>1. f \in Id /\ d2.name[f] \in Name
    BY <1>2, <1>3 DEF Live, DB
  <2>2. CASE f = e
    BY <1>2, <1>4, <1>5, <2>2, NamesAssumption
  <2>3. CASE f # e
    <3>1. f \in Live(d) /\ d2.name[f] = d.name[f] /\ d.alias[d.name[f]].of \in {None, f}
      BY <1>1, <1>2, <1>5, <2>1, <2>3 DEF Unshadowed
    <3>2. d.name[f] \in Forms(d, f)
      BY <2>1, <3>1 DEF Forms
    <3> QED
      BY <1>2, <2>1, <2>3, <3>1, <3>2
  <2> QED
    BY <2>2, <2>3
<1>18. Told(d2, excuse, shadowed)
  <2>1. \A a, b \in Id \ excuse :
            {a, b} \in d.keep \cup Queue(d) => {a, b} \in d2.keep \cup Queue(d2)
    BY <1>2 DEF Queue
  <2>2. \A o \in Id \ {e} : \A m \in Forms(d2, o) :
            m # n /\ (Near(n, m) => {e, o} \in d2.keep \cup Queue(d2))
    BY <1>2, <1>7, <1>9 DEF Queue
  <2>3. Gaining(d, d2, e, n, excuse, excuse, shadowed, shadowed)
    BY <1>7, <1>8, <2>1, <2>2 DEF Gaining
  <2> QED
    BY <1>1, <1>3, <2>3, ToldStays
<1>19. \A m \in Name : Lookup(d, m) # None => Lookup(d2, m) = Lookup(d, m)
  <2> SUFFICES ASSUME NEW m \in Name, Lookup(d, m) # None PROVE Lookup(d2, m) = Lookup(d, m)
    OBVIOUS
  <2>1. m # n
    OBVIOUS
  <2>2. CASE \E f \in Live(d) : d.name[f] = m
    <3>1. PICK f \in Live(d) : d.name[f] = m
      BY <2>2
    <3>2. f \in Live(d2) /\ d2.name[f] = m
      BY <1>2, <1>3, <1>5, <3>1
    <3>3. Lookup(d, m) = f /\ Lookup(d2, m) = f
      BY <1>1, <1>2, <1>10, <3>1, <3>2, LookupIs
    <3> QED
      BY <3>3
  <2>3. CASE \A f \in Live(d) : d.name[f] # m
    <3>1. Lookup(d, m) = d.alias[m].of
      BY <1>1, <2>3, LookupIs
    <3>2. d2.alias[m] = d.alias[m]
      BY <1>2, <3>1
    <3>3. \A f \in Live(d2) : d2.name[f] # m
      BY <1>2, <1>3, <1>5, <2>1, <2>3
    <3>4. Lookup(d2, m) = d2.alias[m].of
      BY <1>2, <1>10, <3>3, LookupIs
    <3> QED
      BY <3>1, <3>2, <3>4
  <2> QED
    BY <2>2, <2>3
<1>20. Grown(d, d2)
  <2>1. \A f \in Live(d) : d2.name[f] = d.name[f]
    BY <1>2, <1>3, <1>5
  <2>2. d2.weak \cap d2.keep \subseteq d.weak
    BY <1>2
  <2> QED
    BY <1>2, <1>19, <2>1, <2>2 DEF Grown
<1>21. Lookup(d2, n) = e
  <2>1. e \in Live(d2) /\ d2.name[e] = n /\ d2 \in DB
    BY <1>2, <1>5
  <2> QED
    BY <1>10, <2>1, LookupIs
<1>22. NextId(d2) = e + 1
  <2>1. e \in Nat
    BY <1>6 DEF e
  <2>2. CASE kind = "studio"
    BY <1>2, <2>1, <2>2 DEF NextId
  <2>3. CASE kind # "studio"
    <3> DEFINE S == Live(d2) \cup {0}
    <3>1. NextId(d2) = 1 + Max(S)
      BY <2>3 DEF NextId
    <3>2. S \in SUBSET (0 .. MaxId) /\ S # {}
      <4>1. MaxId \in Nat
        BY Constants
      <4>2. \A f \in S : f \in 0 .. MaxId
        BY <1>2, <1>3, <4>1 DEF Id
      <4> QED
        BY <4>2
    <3>3. Max(S) \in S /\ \A y \in S : Max(S) >= y
      BY <3>2, MaxIs
    <3>4. e \in S /\ \A y \in S : y \in Nat /\ y <= e
      <4>1. \A y \in Live(d) : y \in Nat /\ y < e
        BY <1>3, <1>6 DEF Id, e
      <4> QED
        BY <1>2, <2>1, <4>1
    <3>5. Max(S) \in Nat /\ Max(S) <= e /\ Max(S) >= e
      BY <3>3, <3>4
    <3> HIDE DEF S
    <3> QED
      BY <2>1, <3>1, <3>5
  <2> QED
    BY <2>2, <2>3
<1> QED
  BY <1>2, <1>15, <1>16, <1>17, <1>18, <1>20, <1>21, <1>22 DEF Held, e, d2

\* A change of the links and stamps alone.
Touched(d, d2) ==
    /\ d2 \in DB
    /\ d2.name = d.name /\ d2.alias = d.alias /\ d2.parent = d.parent /\ d2.top = d.top
    /\ d2.weak = d.weak /\ d2.shared = d.shared /\ d2.keep = d.keep /\ d2.ext = d.ext
    /\ d2.memo = d.memo /\ d2.suppressed = d.suppressed /\ d2.denied = d.denied

LEMMA TouchedHeld ==
    ASSUME NEW d, NEW d2, Held(d), Touched(d, d2)
    PROVE  Held(d2) /\ NextId(d2) = NextId(d) /\ \A n : Lookup(d2, n) = Lookup(d, n)
<1>1. /\ Whole(d) /\ Living(d, stray) /\ Unshadowed(d, shadowed) /\ Told(d, excuse, shadowed)
      /\ Unique(d) /\ Apart(d) /\ Recorded(d) /\ Handed(d) /\ Tree(d)
  BY DEF Held, Whole
<1>2. /\ d2 \in DB
      /\ d2.name = d.name /\ d2.alias = d.alias /\ d2.parent = d.parent /\ d2.top = d.top
      /\ d2.weak = d.weak /\ d2.shared = d.shared /\ d2.keep = d.keep /\ d2.ext = d.ext
      /\ d2.memo = d.memo /\ d2.suppressed = d.suppressed /\ d2.denied = d.denied
  BY DEF Touched
<1>3. /\ Live(d2) = Live(d) /\ Queue(d2) = Queue(d)
      /\ \A e : Forms(d2, e) = Forms(d, e)
      /\ \A n : Lookup(d2, n) = Lookup(d, n)
      /\ \A e, f : Alike(d2, e, f) = Alike(d, e, f)
  BY <1>2, SameForms DEF Queue
<1>4. \A e : Ancestors(d2, e) = Ancestors(d, e)
  BY <1>2 DEF Ancestors, Upward
<1>5. Unique(d2) /\ Apart(d2) /\ Recorded(d2) /\ Handed(d2)
  BY <1>1, <1>2, <1>3 DEF Unique, Apart, Recorded, Handed
<1>6. Tree(d2)
  BY <1>1, <1>2, <1>3, <1>4 DEF Tree
<1>7. Living(d2, stray) /\ Unshadowed(d2, shadowed)
  BY <1>1, <1>2, <1>3 DEF Living, Unshadowed
<1>8. Told(d2, excuse, shadowed)
  BY <1>1, <1>2, <1>3 DEF Told
<1>9. NextId(d2) = NextId(d)
  BY <1>2, <1>3 DEF NextId
<1> QED
  BY <1>2, <1>3, <1>5, <1>6, <1>7, <1>8, <1>9 DEF Held, Whole

LEMMA AttachedIs ==
    ASSUME NEW d \in DB, NEW e \in Id, NEW x \in Ext \cup {NoExt}
    PROVE  LET d2 == Attached(d, e, x)
           IN  /\ d2 \in DB
               /\ d2.name = d.name /\ d2.alias = d.alias /\ d2.parent = d.parent /\ d2.top = d.top
               /\ d2.weak = d.weak /\ d2.shared = d.shared /\ d2.keep = d.keep /\ d2.link = d.link
               /\ d2.memo = d.memo /\ d2.suppressed = d.suppressed /\ d2.denied = d.denied
               /\ d2.stamp = d.stamp /\ (x = NoExt => d2.ext = d.ext)
               /\ \A y \in Ext : \/ d2.ext[y] = d.ext[y] /\ (y = x => d2.ext[y] # None)
                                 \/ y = x /\ d.ext[y] = None /\ d2.ext[y] = e
<1>1. CASE x = NoExt \/ d.ext[x] # None
  BY <1>1, Constants DEF Attached
<1>2. CASE ~(x = NoExt \/ d.ext[x] # None)
  BY <1>2, Constants DEF Attached, DB
<1> QED
  BY <1>1, <1>2

LEMMA AttachedHeld ==
    ASSUME NEW d, Held(d), NEW e \in Live(d) \cup stray, e \in Id, NEW x \in Ext \cup {NoExt}
    PROVE  /\ Held(Attached(d, e, x)) /\ Grown(d, Attached(d, e, x))
           /\ NextId(Attached(d, e, x)) = NextId(d)
           /\ \A n : Lookup(Attached(d, e, x), n) = Lookup(d, n)
<1> DEFINE d2 == Attached(d, e, x)
<1>1. /\ Whole(d) /\ Living(d, stray) /\ Unshadowed(d, shadowed) /\ Told(d, excuse, shadowed)
      /\ d \in DB /\ Unique(d) /\ Apart(d) /\ Recorded(d) /\ Handed(d) /\ Tree(d)
  BY DEF Held, Whole
<1>2. /\ d2 \in DB
      /\ d2.name = d.name /\ d2.alias = d.alias /\ d2.parent = d.parent /\ d2.top = d.top
      /\ d2.weak = d.weak /\ d2.shared = d.shared /\ d2.keep = d.keep /\ d2.link = d.link
      /\ d2.memo = d.memo /\ d2.suppressed = d.suppressed /\ d2.denied = d.denied
      /\ \A y \in Ext : \/ d2.ext[y] = d.ext[y] /\ (y = x => d2.ext[y] # None)
                        \/ y = x /\ d.ext[y] = None /\ d2.ext[y] = e
  BY <1>1, AttachedIs
<1> HIDE DEF d2
<1>3. /\ Live(d2) = Live(d) /\ Queue(d2) = Queue(d)
      /\ \A f : Forms(d2, f) = Forms(d, f)
      /\ \A n : Lookup(d2, n) = Lookup(d, n)
      /\ \A f, g : Alike(d2, f, g) = Alike(d, f, g)
  BY <1>2, SameForms DEF Queue
<1>4. \A f : Ancestors(d2, f) = Ancestors(d, f)
  BY <1>2 DEF Ancestors, Upward
<1>5. Unique(d2) /\ Apart(d2) /\ Recorded(d2) /\ Handed(d2)
  BY <1>1, <1>2, <1>3 DEF Unique, Apart, Recorded, Handed
<1>6. Tree(d2)
  BY <1>1, <1>2, <1>3, <1>4 DEF Tree
<1>7. Living(d2, stray) /\ Unshadowed(d2, shadowed)
  <2>1. \A y \in Ext : d2.ext[y] \in Live(d2) \cup stray \cup {None}
    BY <1>1, <1>2, <1>3 DEF Living
  <2> QED
    BY <1>1, <1>2, <1>3, <2>1 DEF Living, Unshadowed
<1>8. Told(d2, excuse, shadowed)
  BY <1>1, <1>2, <1>3 DEF Told
<1>9. NextId(d2) = NextId(d)
  BY <1>2, <1>3 DEF NextId
<1>10. Grown(d, d2)
  BY <1>2, <1>3 DEF Grown
<1> QED
  BY <1>2, <1>3, <1>5, <1>6, <1>7, <1>8, <1>9, <1>10 DEF Held, Whole, d2

LEMMA ResolvedIs ==
    ASSUME NEW d, Held(d), NEW n \in Name, NEW x \in Ext \cup {NoExt},
           Lookup(d, n) = None => NextId(d) \in Id
    PROVE  LET r == Resolved(d, n, x)
           IN  /\ Held(r.db) /\ Grown(d, r.db) /\ r.db.link = d.link
               /\ r.id \in Live(r.db) \cup stray \cup {None} /\ r.id \in Id \cup {None}
               /\ r.id = None => kind = "tag" /\ n \in d.denied
               /\ r.id # None => Resolve(r.db, n, x) = r.id
               /\ r.id # None /\ x # NoExt => r.db.ext[x] # None
               /\ x = NoExt => r.db.ext = d.ext
               /\ \/ NextId(r.db) = NextId(d)
                  \/ /\ NextId(r.db) = NextId(d) + 1
                     /\ Lookup(d, n) = None /\ Lookup(r.db, n) # None
<1> DEFINE r == Resolved(d, n, x)
<1>1. /\ Whole(d) /\ Living(d, stray) /\ d \in DB /\ Unique(d) /\ Handed(d) /\ Live(d) \subseteq Id
      /\ None \notin Id
  BY Constants DEF Held, Whole, Live
<1>2. Grown(d, d)
  BY DEF Grown
<1>3. CASE kind = "tag" /\ n \in d.denied
  <2>1. r.db = d /\ r.id = None
    BY <1>3 DEF Resolved
  <2> QED
    BY <1>2, <1>3, <2>1
<1>4. CASE ~(kind = "tag" /\ n \in d.denied) /\ x # NoExt /\ d.ext[x] # None
  <2>1. r.db = d /\ r.id = d.ext[x]
    BY <1>4 DEF Resolved
  <2>2. d.ext[x] \in Live(d) \cup stray /\ d.ext[x] \in Id
    BY <1>1, <1>4 DEF Living, DB
  <2>3. Resolve(d, n, x) = d.ext[x]
    BY <1>4 DEF Resolve
  <2> QED
    BY <1>2, <1>4, <2>1, <2>2, <2>3
<1>5. ASSUME ~(kind = "tag" /\ n \in d.denied), ~(x # NoExt /\ d.ext[x] # None),
             Lookup(d, n) # None
      PROVE  r.db = Attached(d, Lookup(d, n), x) /\ r.id = Lookup(d, n)
  BY <1>5 DEF Resolved
<1>6. ASSUME ~(kind = "tag" /\ n \in d.denied), ~(x # NoExt /\ d.ext[x] # None),
             Lookup(d, n) = None
      PROVE  r.db = Attached(Created(d, n), NextId(d), x) /\ r.id = NextId(d)
  BY <1>6 DEF Resolved
<1> HIDE DEF r
\* The id that a name leads to claims x.
<1>7. ASSUME NEW d1, Held(d1), NEW e \in Live(d1) \cup stray, e \in Id, Lookup(d1, n) = e,
             x = NoExt \/ d1.ext[x] = None
      PROVE  LET d2 == Attached(d1, e, x)
             IN  Resolve(d2, n, x) = e /\ (x # NoExt => d2.ext[x] # None)
  <2>1. d1 \in DB
    BY <1>7 DEF Held, Whole
  <2>2. \A m : Lookup(Attached(d1, e, x), m) = Lookup(d1, m)
    BY <1>7, AttachedHeld
  <2>3. x # NoExt => Attached(d1, e, x).ext[x] = e
    BY <1>1, <1>7, <2>1, AttachedIs
  <2> QED
    BY <1>1, <1>7, <2>2, <2>3 DEF Resolve
<1>8. CASE ~(kind = "tag" /\ n \in d.denied) /\ ~(x # NoExt /\ d.ext[x] # None) /\ Lookup(d, n) # None
  <2> DEFINE e == Lookup(d, n)
  <2>1. e \in Id /\ n \in Forms(d, e)
    BY <1>1, <1>8, LookupIs
  <2>2. e \in Live(d) \cup stray
    BY <1>1, <2>1, FormsLive
  <2>3. r.db = Attached(d, e, x) /\ r.id = e
    BY <1>5, <1>8
  <2> HIDE DEF e
  <2>4. Held(r.db) /\ Grown(d, r.db) /\ NextId(r.db) = NextId(d)
    BY <2>1, <2>2, <2>3, AttachedHeld
  <2>5. r.db.link = d.link /\ Live(r.db) = Live(d) /\ (x = NoExt => r.db.ext = d.ext)
    BY <1>1, <2>1, <2>3, AttachedIs, SameNames
  <2>6. Resolve(r.db, n, x) = e /\ (x # NoExt => r.db.ext[x] # None)
    BY <1>7, <1>8, <2>1, <2>2, <2>3 DEF e
  <2> QED
    BY <1>1, <2>1, <2>2, <2>3, <2>4, <2>5, <2>6 DEF r
<1>9. CASE ~(kind = "tag" /\ n \in d.denied) /\ ~(x # NoExt /\ d.ext[x] # None) /\ Lookup(d, n) = None
  <2> DEFINE e == NextId(d)
             d1 == Created(d, n)
  <2>1. /\ Held(d1) /\ Grown(d, d1) /\ d1.link = d.link /\ d1.ext = d.ext
        /\ e \in Id /\ e \in Live(d1) /\ Lookup(d1, n) = e /\ NextId(d1) = e + 1
    BY <1>9, CreatedHeld
  <2>2. r.db = Attached(d1, e, x) /\ r.id = e
    BY <1>6, <1>9
  <2> HIDE DEF e, d1
  <2>3. /\ Held(r.db) /\ Grown(d1, r.db) /\ NextId(r.db) = NextId(d1)
        /\ Lookup(r.db, n) = e
    BY <2>1, <2>2, AttachedHeld
  <2>4. r.db.link = d1.link /\ Live(r.db) = Live(d1) /\ (x = NoExt => r.db.ext = d1.ext)
    <3>1. d1 \in DB
      BY <2>1 DEF Held, Whole
    <3> QED
      BY <2>1, <2>2, <3>1, AttachedIs, SameNames
  <2>5. Resolve(r.db, n, x) = e /\ (x # NoExt => r.db.ext[x] # None)
    BY <1>7, <1>9, <2>1, <2>2
  <2>6. Grown(d, r.db)
    BY <2>1, <2>3, GrownOn
  <2> QED
    BY <1>1, <1>9, <2>1, <2>2, <2>3, <2>4, <2>5, <2>6 DEF e, r
<1> QED
  BY <1>3, <1>4, <1>8, <1>9 DEF r

LEMMA LinkingIs ==
    ASSUME NEW d \in DB, NEW v \in Video, NEW e \in Id \cup {None}, NEW source \in {"file", "manual"}
    PROVE  LET d2 == Linking(d, v, e, source)
           IN  /\ Touched(d, d2) /\ d2.stamp = d.stamp
               /\ \A u \in Video, f \in Id : /\ d.link[u][f] # "none" => d2.link[u][f] # "none"
                                             /\ u # v \/ f # e => d2.link[u][f] = d.link[u][f]
               /\ e # None => d2.link[v][e] # "none"
<1>1. CASE e = None
  BY <1>1, Constants DEF Linking, Touched
<1>2. CASE e # None
  <2> DEFINE l == IF d.link[v][e] = "none" \/ (d.link[v][e] = "file" /\ source # "file")
                  THEN source ELSE d.link[v][e]
             d2 == [d EXCEPT !.link[v][e] = l]
  <2>1. Linking(d, v, e, source) = d2
    BY <1>2 DEF Linking
  <2>2. l \in {"file", "manual"}
    BY <1>2 DEF DB
  <2> HIDE DEF l
  <2>3. d2 \in DB /\ d2.link = [d.link EXCEPT ![v][e] = l]
    BY <1>2, <2>2 DEF DB
  <2>4. /\ d2.name = d.name /\ d2.alias = d.alias /\ d2.parent = d.parent /\ d2.top = d.top
        /\ d2.weak = d.weak /\ d2.shared = d.shared /\ d2.keep = d.keep /\ d2.ext = d.ext
        /\ d2.memo = d.memo /\ d2.suppressed = d.suppressed /\ d2.denied = d.denied
        /\ d2.stamp = d.stamp
    OBVIOUS
  <2> HIDE DEF d2
  <2>5. /\ d2.link[v][e] = l
        /\ \A u \in Video, f \in Id : u # v \/ f # e => d2.link[u][f] = d.link[u][f]
    BY <1>2, <2>3 DEF DB
  <2> QED
    BY <1>2, <2>1, <2>2, <2>3, <2>4, <2>5 DEF Touched
<1> QED
  BY <1>1, <1>2

\* Whoever the name n leads to, with the provider's id x, is linked to v.
Leads(d, v, n, x) ==
    /\ x # NoExt => d.ext[x] # None
    /\ Resolve(d, n, x) # None /\ d.link[v][Resolve(d, n, x)] # "none"

LEMMA LeadsOn ==
    ASSUME NEW d \in DB, NEW d2, Unique(d), Grown(d, d2), NEW v \in Video, NEW n \in Name,
           NEW x \in Ext \cup {NoExt}, Leads(d, v, n, x)
    PROVE  Leads(d2, v, n, x)
<1>1. Resolve(d2, n, x) = Resolve(d, n, x) /\ (x # NoExt => d2.ext[x] # None)
  <2>1. CASE x = NoExt
    BY <2>1 DEF Leads, Resolve, Grown
  <2>2. CASE x # NoExt
    BY <2>2 DEF Leads, Resolve, Grown
  <2> QED
    BY <2>1, <2>2
<1>2. Resolve(d, n, x) \in Id
  <2>1. Lookup(d, n) \in Id \cup {None}
    BY LookupIs
  <2>2. x # NoExt => d.ext[x] \in Id \cup {None}
    BY DEF DB
  <2> QED
    BY <2>1, <2>2 DEF Leads, Resolve
<1> QED
  BY <1>1, <1>2 DEF Leads, Grown

LEMMA CreditIs ==
    ASSUME NEW d, Held(d), NEW v \in Video, NEW n \in Name, NEW x \in Ext \cup {NoExt},
           NEW source \in {"file", "manual"}, Lookup(d, n) = None => NextId(d) \in Id
    PROVE  LET d2 == Credit(d, v, n, x, source)
           IN  /\ Held(d2) /\ Grown(d, d2) /\ (x = NoExt => d2.ext = d.ext)
               /\ ~(kind = "tag" /\ n \in d.denied) => Leads(d2, v, n, x)
               /\ stray = {} /\ LinksLive(d) => LinksLive(d2)
               /\ \/ NextId(d2) = NextId(d)
                  \/ /\ NextId(d2) = NextId(d) + 1
                     /\ Lookup(d, n) = None /\ Lookup(d2, n) # None
<1> DEFINE r == Resolved(d, n, x)
           d1 == r.db
           d2 == Linking(d1, v, r.id, source)
<1>1. Credit(d, v, n, x, source) = d2
  BY DEF Credit
<1>2. /\ Held(d1) /\ Grown(d, d1) /\ d1.link = d.link
      /\ r.id \in Live(d1) \cup stray \cup {None} /\ r.id \in Id \cup {None}
      /\ r.id = None => kind = "tag" /\ n \in d.denied
      /\ r.id # None => Resolve(d1, n, x) = r.id
      /\ r.id # None /\ x # NoExt => d1.ext[x] # None
      /\ x = NoExt => d1.ext = d.ext
      /\ \/ NextId(d1) = NextId(d)
         \/ /\ NextId(d1) = NextId(d) + 1
            /\ Lookup(d, n) = None /\ Lookup(d1, n) # None
  BY ResolvedIs
<1>3. d1 \in DB
  BY <1>2 DEF Held, Whole
<1> HIDE DEF r
<1>4. /\ Touched(d1, d2)
      /\ \A u \in Video, f \in Id : /\ d1.link[u][f] # "none" => d2.link[u][f] # "none"
                                    /\ u # v \/ f # r.id => d2.link[u][f] = d1.link[u][f]
      /\ r.id # None => d2.link[v][r.id] # "none"
  BY <1>2, <1>3, LinkingIs
<1> HIDE DEF d1, d2
<1>5. Held(d2) /\ NextId(d2) = NextId(d1) /\ \A m : Lookup(d2, m) = Lookup(d1, m)
  BY <1>2, <1>4, TouchedHeld
<1>6. Live(d2) = Live(d1) /\ d2.ext = d1.ext
  BY <1>4 DEF Touched, Live
<1>7. Grown(d1, d2)
  BY <1>4, <1>5, <1>6 DEF Grown, Touched
<1>8. Grown(d, d2)
  BY <1>2, <1>7, GrownOn
<1>9. ASSUME ~(kind = "tag" /\ n \in d.denied) PROVE Leads(d2, v, n, x)
  <2>1. r.id # None
    BY <1>2, <1>9
  <2>2. Resolve(d2, n, x) = r.id
    BY <1>2, <1>5, <1>6, <2>1 DEF Resolve
  <2> QED
    BY <1>2, <1>4, <1>6, <2>1, <2>2 DEF Leads
<1>10. ASSUME stray = {}, LinksLive(d) PROVE LinksLive(d2)
  <2> SUFFICES ASSUME NEW u \in Video, NEW f \in Id \ Live(d2) PROVE d2.link[u][f] = "none"
    BY DEF LinksLive
  <2>1. f \notin Live(d) /\ f # r.id
    BY <1>2, <1>6, <1>10, Constants DEF Grown
  <2> QED
    BY <1>2, <1>4, <1>10, <2>1 DEF LinksLive
<1> QED
  BY <1>1, <1>2, <1>5, <1>6, <1>8, <1>9, <1>10

LEMMA LeastOf == ASSUME NEW T \in SUBSET Nat, T # {} PROVE \E x \in T : \A y \in T : x <= y
<1>1. PICK x \in T : \A y \in T : ~(<<y, x>> \in OpToRel(<, Nat))
  BY NatLessThanWellFounded, WFMin
<1>2. \A y \in T : ~(y < x)
  BY <1>1 DEF OpToRel
<1> QED
  BY <1>2

LEMMA OrderIs ==
    ASSUME NEW names \in SUBSET Name
    PROVE  /\ IsFiniteSet(names) /\ Cardinality(names) \in Nat
           /\ Order(names) \in [1 .. Cardinality(names) -> names]
           /\ \A n \in names : \E i \in 1 .. Cardinality(names) : Order(names)[i] = n
<1>1. IsFiniteSet(names)
  BY NamesAssumption, FS_Subset
<1>2. Cardinality(names) \in Nat /\ ExistsBijection(1 .. Cardinality(names), names)
  BY <1>1, FS_CardinalityType
<1>3. \E o \in [1 .. Cardinality(names) -> names] :
          \A n \in names : \E i \in 1 .. Cardinality(names) : o[i] = n
  BY <1>2 DEF ExistsBijection, Bijection, Surjection
<1> QED
  BY <1>1, <1>2, <1>3 DEF Order

\* The tables after the first i names.
After(d, v, names, id) ==
    CHOOSE f : f = [i \in 0 .. Cardinality(names) |->
                       IF i = 0 THEN d
                       ELSE Credit(f[i - 1], v, Order(names)[i], id[Order(names)[i]], "file")]

LEMMA AfterIs ==
    ASSUME NEW d, NEW v, NEW names \in SUBSET Name, NEW id
    PROVE  LET f == After(d, v, names, id)
           IN  /\ Credited(d, v, names, id) = f[Cardinality(names)]
               /\ f[0] = d
               /\ \A i \in 1 .. Cardinality(names) :
                     f[i] = Credit(f[i - 1], v, Order(names)[i], id[Order(names)[i]], "file")
<1> DEFINE k == Cardinality(names)
           o == Order(names)
           Upto(f, m) == f = [i \in 0 .. m |->
                                 IF i = 0 THEN d ELSE Credit(f[i - 1], v, o[i], id[o[i]], "file")]
           T == {m \in 0 .. k : ~ \E f : Upto(f, m)}
<1>1. k \in Nat
  BY OrderIs
<1>2. T = {}
  <2> SUFFICES ASSUME T # {} PROVE FALSE
    OBVIOUS
  <2>1. T \in SUBSET Nat
    BY <1>1
  <2>2. PICK z \in T : \A y \in T : z <= y
    BY <2>1, LeastOf
  <2>3. z \in 0 .. k /\ ~ \E f : Upto(f, z)
    OBVIOUS
  <2>4. CASE z = 0
    <3> DEFINE f == [i \in 0 .. 0 |-> d]
    <3>1. Upto(f, 0)
      OBVIOUS
    <3> QED
      BY <2>3, <2>4, <3>1
  <2>5. CASE z # 0
    <3>1. z - 1 \in 0 .. k /\ z - 1 \notin T
      BY <1>1, <2>2, <2>3, <2>5
    <3>2. PICK g : Upto(g, z - 1)
      BY <3>1
    <3> DEFINE f == [i \in 0 .. z |-> IF i = z THEN Credit(g[z - 1], v, o[z], id[o[z]], "file") ELSE g[i]]
    <3>3. \A i \in 0 .. z - 1 : f[i] = g[i]
      BY <1>1, <2>3
    <3>4. \A i \in 0 .. z : f[i] = IF i = 0 THEN d ELSE Credit(f[i - 1], v, o[i], id[o[i]], "file")
      <4> SUFFICES ASSUME NEW i \in 0 .. z
                   PROVE  f[i] = IF i = 0 THEN d ELSE Credit(f[i - 1], v, o[i], id[o[i]], "file")
        OBVIOUS
      <4>1. CASE i = z
        <5>1. f[i - 1] = g[i - 1] /\ f[i] = Credit(g[z - 1], v, o[z], id[o[z]], "file")
          BY <2>3, <2>5, <3>3, <4>1
        <5> HIDE DEF f
        <5> QED
          BY <2>5, <4>1, <5>1
      <4>2. CASE i # z
        <5>1. i \in 0 .. z - 1 /\ f[i] = g[i] /\ (i # 0 => f[i - 1] = g[i - 1])
          BY <2>3, <3>3, <4>2
        <5>2. g[i] = IF i = 0 THEN d ELSE Credit(g[i - 1], v, o[i], id[o[i]], "file")
          BY <3>2, <5>1
        <5> HIDE DEF f
        <5> QED
          BY <5>1, <5>2
      <4> QED
        BY <4>1, <4>2
    <3>5. Upto(f, z)
      <4>1. f = [i \in 0 .. z |-> f[i]]
        OBVIOUS
      <4> HIDE DEF f
      <4> QED
        BY <3>4, <4>1
    <3> QED
      BY <2>3, <3>5
  <2> QED
    BY <2>4, <2>5
<1>3. k \in 0 .. k
  BY <1>1
<1>4. PICK g : Upto(g, k)
  BY <1>2, <1>3
<1> DEFINE f == After(d, v, names, id)
<1>5. Upto(f, k)
  BY <1>4 DEF After
<1>6. f[0] = d /\ \A i \in 1 .. k : f[i] = Credit(f[i - 1], v, o[i], id[o[i]], "file")
  BY <1>1, <1>5
<1>7. Credited(d, v, names, id) = f[k]
  BY DEF Credited, After
<1> QED
  BY <1>6, <1>7

Nameless(d, names) == {n \in names : Lookup(d, n) = None}

LEMMA RoomIs ==
    ASSUME NEW names \in SUBSET Name, NEW d, NEW n \in names, Lookup(d, n) = None
    PROVE  /\ Cardinality(Nameless(d, names)) \in Nat /\ Cardinality(Nameless(d, names)) >= 1
           /\ \A S \in SUBSET (Nameless(d, names) \ {n}) :
                 Cardinality(S) \in Nat /\ Cardinality(S) + 1 <= Cardinality(Nameless(d, names))
<1> DEFINE N == Nameless(d, names)
<1>1. IsFiniteSet(N) /\ n \in N
  BY OrderIs, FS_Subset DEF Nameless
<1>2. IsFiniteSet(N \ {n}) /\ Cardinality(N) \in Nat /\ Cardinality(N \ {n}) = Cardinality(N) - 1
  BY <1>1, FS_RemoveElement, FS_CardinalityType
<1>3. Cardinality(N \ {n}) \in Nat
  BY <1>2, FS_CardinalityType
<1>4. ASSUME NEW S \in SUBSET (N \ {n})
      PROVE  Cardinality(S) \in Nat /\ Cardinality(S) <= Cardinality(N \ {n})
  BY <1>2, <1>4, FS_Subset, FS_CardinalityType
<1>5. Cardinality(N) >= 1
  BY <1>2, <1>3
<1>6. \A S \in SUBSET (N \ {n}) :
          Cardinality(S) \in Nat /\ Cardinality(S) + 1 <= Cardinality(N)
  <2> SUFFICES ASSUME NEW S \in SUBSET (N \ {n})
               PROVE  Cardinality(S) \in Nat /\ Cardinality(S) + 1 <= Cardinality(N)
    OBVIOUS
  <2>1. Cardinality(S) \in Nat /\ Cardinality(S) <= Cardinality(N \ {n})
    BY <1>4
  <2> QED
    BY <1>2, <1>3, <2>1
<1> QED
  BY <1>2, <1>5, <1>6

LEMMA CreditedIs ==
    ASSUME NEW d, Held(d), NEW v \in Video, NEW names \in SUBSET Name,
           NEW id \in [names -> Ext \cup {NoExt}], Room(d, Cardinality(Nameless(d, names)))
    PROVE  LET d2 == Credited(d, v, names, id)
           IN  /\ Held(d2) /\ Grown(d, d2)
               /\ \A n \in names : ~(kind = "tag" /\ n \in d.denied) => Leads(d2, v, n, id[n])
               /\ stray = {} /\ LinksLive(d) => LinksLive(d2)
<1> DEFINE k == Cardinality(names)
           o == Order(names)
           f == After(d, v, names, id)
           J(i) == /\ Held(f[i]) /\ Grown(d, f[i])
                   /\ \A j \in 1 .. i :
                         ~(kind = "tag" /\ o[j] \in d.denied) => Leads(f[i], v, o[j], id[o[j]])
                   /\ stray = {} /\ LinksLive(d) => LinksLive(f[i])
                   /\ Room(f[i], Cardinality(Nameless(f[i], names)))
           T == {i \in 0 .. k : ~J(i)}
<1>1. k \in Nat /\ o \in [1 .. k -> names] /\ \A n \in names : \E i \in 1 .. k : o[i] = n
  BY OrderIs
<1>2. /\ Credited(d, v, names, id) = f[k] /\ f[0] = d
      /\ \A i \in 1 .. k : f[i] = Credit(f[i - 1], v, o[i], id[o[i]], "file")
  BY AfterIs
<1>3. J(0)
  BY <1>2 DEF Grown
<1> HIDE DEF f, o, k
<1>4. ASSUME NEW i \in 1 .. k, J(i - 1) PROVE J(i)
  <2> DEFINE b == f[i - 1]
             a == f[i]
             n == o[i]
             x == id[n]
  <2>1. n \in names /\ x \in Ext \cup {NoExt} /\ a = Credit(b, v, n, x, "file")
    BY <1>1, <1>2
  <2>2. /\ Held(b) /\ Grown(d, b)
        /\ \A j \in 1 .. i - 1 :
              ~(kind = "tag" /\ o[j] \in d.denied) => Leads(b, v, o[j], id[o[j]])
        /\ stray = {} /\ LinksLive(d) => LinksLive(b)
        /\ Room(b, Cardinality(Nameless(b, names)))
    BY <1>4
  <2>3. b \in DB /\ Unique(b) /\ Handed(b)
    BY <2>2 DEF Held, Whole
  <2>4. NextId(b) \in Nat \ {0} /\ MaxId \in Nat
    BY <2>3, NextIdFresh, Constants
  <2>5. Lookup(b, n) = None => NextId(b) \in Id
    <3> SUFFICES ASSUME Lookup(b, n) = None PROVE NextId(b) \in Id
      OBVIOUS
    <3>1. /\ Cardinality(Nameless(b, names)) \in Nat
          /\ Cardinality(Nameless(b, names)) >= 1
      BY <2>1, RoomIs
    <3> QED
      BY <2>2, <2>4, <3>1 DEF Room, Id
  <2>6. /\ Held(a) /\ Grown(b, a)
        /\ ~(kind = "tag" /\ n \in b.denied) => Leads(a, v, n, x)
        /\ stray = {} /\ LinksLive(b) => LinksLive(a)
        /\ \/ NextId(a) = NextId(b)
           \/ /\ NextId(a) = NextId(b) + 1
              /\ Lookup(b, n) = None /\ Lookup(a, n) # None
    BY <2>1, <2>2, <2>5, CreditIs
  <2> HIDE DEF a, b, n, x
  <2>7. Grown(d, a)
    BY <2>2, <2>6, GrownOn
  <2>8. b.denied = d.denied
    BY <2>2 DEF Grown
  <2>9. ASSUME NEW j \in 1 .. i, ~(kind = "tag" /\ o[j] \in d.denied) PROVE Leads(a, v, o[j], id[o[j]])
    <3>1. CASE j = i
      BY <2>6, <2>8, <2>9, <3>1 DEF n, x
    <3>2. CASE j # i
      <4>1. j \in 1 .. i - 1 /\ j \in 1 .. k
        BY <1>1, <3>2
      <4>2. Leads(b, v, o[j], id[o[j]])
        BY <2>2, <2>9, <4>1
      <4>3. o[j] \in Name /\ id[o[j]] \in Ext \cup {NoExt}
        BY <1>1, <4>1
      <4> QED
        BY <2>3, <2>6, <4>2, <4>3, LeadsOn
    <3> QED
      BY <3>1, <3>2
  <2>10. Room(a, Cardinality(Nameless(a, names)))
    <3>1. Nameless(a, names) \subseteq Nameless(b, names)
      BY <2>6 DEF Nameless, Grown
    <3>2. /\ IsFiniteSet(Nameless(b, names)) /\ Cardinality(Nameless(b, names)) \in Nat
          /\ Cardinality(Nameless(a, names)) \in Nat
          /\ Cardinality(Nameless(a, names)) <= Cardinality(Nameless(b, names))
      <4>1. IsFiniteSet(Nameless(b, names))
        BY OrderIs, FS_Subset DEF Nameless
      <4> QED
        BY <3>1, <4>1, FS_Subset, FS_CardinalityType
    <3>3. CASE NextId(a) = NextId(b)
      BY <2>2, <2>4, <3>2, <3>3 DEF Room
    <3>4. CASE NextId(a) = NextId(b) + 1 /\ Lookup(b, n) = None /\ Lookup(a, n) # None
      <4>1. Nameless(a, names) \in SUBSET (Nameless(b, names) \ {n})
        BY <3>1, <3>4 DEF Nameless
      <4>2. /\ Cardinality(Nameless(a, names)) \in Nat
            /\ Cardinality(Nameless(a, names)) + 1 <= Cardinality(Nameless(b, names))
        BY <2>1, <3>4, <4>1, RoomIs
      <4> QED
        BY <2>2, <2>4, <3>2, <3>4, <4>2 DEF Room
    <3> QED
      BY <2>6, <3>3, <3>4
  <2> QED
    BY <2>2, <2>6, <2>7, <2>9, <2>10 DEF a, b
<1>5. T = {}
  <2> SUFFICES ASSUME T # {} PROVE FALSE
    OBVIOUS
  <2>1. T \in SUBSET Nat
    BY <1>1
  <2>2. PICK z \in T : \A y \in T : z <= y
    BY <2>1, LeastOf
  <2>3. z \in 0 .. k /\ ~J(z)
    OBVIOUS
  <2>4. z # 0
    BY <1>3, <2>3
  <2>5. z \in 1 .. k /\ z - 1 \in 0 .. k /\ z - 1 \notin T
    BY <1>1, <2>2, <2>3, <2>4
  <2>6. J(z - 1)
    BY <2>5
  <2> HIDE DEF T, J
  <2> QED
    BY <1>4, <2>3, <2>5, <2>6
<1>6. J(k)
  <2>1. k \in 0 .. k
    BY <1>1
  <2> HIDE DEF J
  <2> QED
    BY <1>5, <2>1
<1>7. ASSUME NEW n \in names, ~(kind = "tag" /\ n \in d.denied) PROVE Leads(f[k], v, n, id[n])
  <2>1. PICK i \in 1 .. k : o[i] = n
    BY <1>1
  <2> QED
    BY <1>6, <1>7, <2>1
<1> QED
  BY <1>2, <1>6, <1>7

LEMMA StampedIs ==
    ASSUME NEW before, NEW d \in DB
    PROVE  LET d2 == Stamped(before, d)
           IN  /\ Touched(d, d2) /\ d2.link = d.link
               /\ \A e \in Live(d2) : Linked(d2, e) => d2.stamp[e] = "none"
<1> DEFINE st == [e \in Id |-> IF e \notin Live(d) THEN "none"
                               ELSE IF Linked(d, e) THEN "none"
                               ELSE IF Linked(before, e) THEN "fresh" ELSE d.stamp[e]]
           d2 == [d EXCEPT !.stamp = st]
<1>1. Stamped(before, d) = d2
  BY DEF Stamped
<1>2. st \in [Id -> {"none", "fresh", "old"}] /\ \A e \in Live(d) : Linked(d, e) => st[e] = "none"
  BY DEF DB, Live
<1> HIDE DEF st
<1>3. d2 \in DB /\ d2.stamp = st
  BY <1>2 DEF DB
<1>4. /\ d2.name = d.name /\ d2.alias = d.alias /\ d2.parent = d.parent /\ d2.top = d.top
      /\ d2.weak = d.weak /\ d2.shared = d.shared /\ d2.keep = d.keep /\ d2.ext = d.ext
      /\ d2.memo = d.memo /\ d2.suppressed = d.suppressed /\ d2.denied = d.denied
      /\ d2.link = d.link
  OBVIOUS
<1> HIDE DEF d2
<1>5. Live(d2) = Live(d) /\ \A e : Linked(d2, e) = Linked(d, e)
  BY <1>4 DEF Live, Linked
<1> QED
  BY <1>1, <1>2, <1>3, <1>4, <1>5 DEF Touched

-----------------------------------------------------------------------------
(***************************************************************************)
(* The inductive invariant.                                                *)
(***************************************************************************)
Typed ==
    /\ kind \in {"tag", "person", "studio"}
    /\ asked = <<>> \/ asked \in Id \X Name
    /\ attaching = <<>> \/ attaching \in Id \X Ext
    /\ seen \in [Video -> SUBSET (Name \X (Ext \cup {NoExt}))]
    /\ excuse \subseteq Id /\ stray \subseteq Id /\ shadowed \subseteq Name /\ carried \in BOOLEAN

\* Only what has no link waits to be swept.
Rested(d) == LinksLive(d) /\ \A e \in Live(d) : Linked(d, e) => d.stamp[e] = "none"

Settled(d, s, hid) == \A v \in Video : \A c \in s[v] : c[1] \notin hid => Leads(d, v, c[1], c[2])

\* Until a claimant is lost or while it claims, whoever was enriched from the record that
\* another has the id of is asked about.
Contest(d, lost, claim) ==
    \A x \in Ext, e \in Live(d) :
        /\ d.memo[e] = x /\ d.ext[x] \notin {None, e} /\ ~lost
        /\ claim = <<>> \/ claim[1] # e
        => {e, d.ext[x]} \in d.keep \cup d.shared
Claim(d, lost, claim) ==
    claim # <<>> => lost \/ d.memo[claim[1]] \in {claim[2], NoExt}

IInv ==
    /\ Typed /\ Held(db) /\ Rested(db) /\ Settled(db, seen, shadowed)
    /\ Contest(db, carried, attaching) /\ Claim(db, carried, attaching)

\* The tables are what they were, seen from the next state.
LEMMA HeldOn ==
    ASSUME Whole(db'), kind' = kind, Living(db', stray'), Unshadowed(db', shadowed'),
           Told(db', excuse', shadowed')
    PROVE  Held(db)'
  BY DEF Held, Whole, Handed, Tree

LEMMA HeldStays ==
    ASSUME Held(db'), UNCHANGED <<kind, excuse, stray, shadowed>>
    PROVE  Held(db)'
  BY DEF Held, Whole, Handed, Tree

LEMMA TouchedLeads ==
    ASSUME NEW d, NEW d2, Held(d), Touched(d, d2), NEW v \in Video, d2.link[v] = d.link[v],
           NEW n, NEW x
    PROVE  Leads(d, v, n, x) => Leads(d2, v, n, x)
<1>1. \A m : Lookup(d2, m) = Lookup(d, m)
  BY TouchedHeld
<1>2. d2.ext = d.ext
  BY DEF Touched
<1> QED
  BY <1>1, <1>2 DEF Leads, Resolve

\* The names that are credited go on having a claimant told of, or are carried.
LEMMA ContestGrows ==
    ASSUME NEW d, NEW d2, Held(d), d.memo = d2.memo, d.keep = d2.keep, d.shared = d2.shared,
           Live(d) \subseteq Live(d2), d2 \in DB,
           \A x \in Ext : d.ext[x] # None => d2.ext[x] = d.ext[x],
           NEW lost, NEW lost2, NEW claim,
           Contest(d, lost, claim), Claim(d, lost, claim),
           lost2 <=> lost \/ \E x \in Ext, e \in Live(d) :
                               /\ d.ext[x] = None /\ d2.ext[x] \notin {None, e}
                               /\ d.memo[e] = x /\ ~(claim # <<>> /\ claim[1] = e)
    PROVE  Contest(d2, lost2, claim) /\ Claim(d2, lost2, claim)
<1>1. Claim(d2, lost2, claim)
  BY DEF Claim
<1>2. SUFFICES ASSUME NEW x \in Ext, NEW e \in Live(d2), d2.memo[e] = x, d2.ext[x] \notin {None, e},
                      ~lost2, claim = <<>> \/ claim[1] # e
               PROVE  {e, d2.ext[x]} \in d2.keep \cup d2.shared
  BY <1>1 DEF Contest
<1>3. e \in Id /\ e \in Live(d)
  BY <1>2, Constants DEF Live, Held, Whole, Recorded
<1>4. d.ext[x] # None
  BY <1>2, <1>3
<1> QED
  BY <1>2, <1>3, <1>4 DEF Contest

LEMMA EmptyHeld ==
    ASSUME stray = {}, excuse = {}, shadowed = {}
    PROVE  Held(Empty) /\ LinksLive(Empty) /\ NextId(Empty) = 1 /\ Live(Empty) = {}
           /\ \A n \in Name : Lookup(Empty, n) = None
<1> DEFINE d == Empty
<1>1. /\ d.name = [e \in Id |-> NoName] /\ d.alias = [n \in Name |-> Unowned]
      /\ d.parent = [e \in Id |-> None] /\ d.top = 0
      /\ d.link = [v \in Video |-> [e \in Id |-> "none"]]
      /\ d.weak = {} /\ d.shared = {} /\ d.keep = {}
      /\ d.ext = [x \in Ext |-> None] /\ d.memo = [e \in Id |-> NoExt]
      /\ d.stamp = [e \in Id |-> "none"] /\ d.suppressed = {} /\ d.denied = {}
  BY DEF Empty
<1>2. d \in DB
  BY Constants DEF Empty, DB
<1> HIDE DEF d
<1>3. Live(d) = {} /\ Queue(d) = {}
  BY <1>1 DEF Live, Queue
<1>4. \A n \in Name : d.alias[n].of = None /\ d.alias[n].src = "owner"
  BY <1>1, Constants
<1>5. \A e \in Id : Forms(d, e) = {}
  BY <1>3, <1>4, Constants DEF Forms
<1>6. Unique(d) /\ Apart(d) /\ Recorded(d) /\ Handed(d) /\ Tree(d)
  BY <1>1, <1>3, <1>4 DEF Unique, Apart, Recorded, Handed, Tree
<1>7. Living(d, stray) /\ Unshadowed(d, shadowed)
  BY <1>1, <1>3, <1>4 DEF Living, Unshadowed
<1>8. Told(d, excuse, shadowed)
  BY <1>5 DEF Told, Alike
<1>9. NextId(d) = 1
  <2>1. CASE kind = "studio"
    BY <1>1, <2>1 DEF NextId
  <2>2. CASE kind # "studio"
    <3>1. {0} \in SUBSET (0 .. MaxId) /\ {0} # {}
      BY Constants
    <3>2. Max({0}) = 0
      BY <3>1, MaxIs
    <3>3. Live(d) \cup {0} = {0}
      BY <1>3
    <3> QED
      BY <2>2, <3>2, <3>3 DEF NextId
  <2> QED
    BY <2>1, <2>2
<1>10. \A n \in Name : Lookup(d, n) = None
  BY <1>3, <1>4 DEF Lookup
<1>11. LinksLive(d)
  BY <1>1 DEF LinksLive
<1> QED
  BY <1>2, <1>3, <1>6, <1>7, <1>8, <1>9, <1>10, <1>11 DEF Held, Whole, d

LEMMA InitHolds == Init => IInv
<1> SUFFICES ASSUME Init PROVE IInv
  OBVIOUS
<1>1. /\ kind \in {"tag", "person", "studio"} /\ asked = <<>> /\ attaching = <<>>
      /\ excuse = {} /\ stray = {} /\ shadowed = {} /\ carried = FALSE
  BY IdentityAssumption DEF Init
<1>2. PICK names \in SUBSET Name, v \in Video :
          /\ Cardinality(names) <= MaxId
          /\ db = Stamped(Empty, Credited(Empty, v, names, [n \in names |-> NoExt]))
          /\ seen = [u \in Video |-> IF u = v THEN names \X {NoExt} ELSE {}]
  BY DEF Init
<1> DEFINE id == [n \in names |-> NoExt]
           d2 == Credited(Empty, v, names, id)
<1>3. /\ Held(Empty) /\ LinksLive(Empty) /\ NextId(Empty) = 1
      /\ \A n \in Name : Lookup(Empty, n) = None
  BY <1>1, EmptyHeld
<1>4. id \in [names -> Ext \cup {NoExt}]
  OBVIOUS
<1>5. Room(Empty, Cardinality(Nameless(Empty, names)))
  <2>1. Nameless(Empty, names) = names
    BY <1>3 DEF Nameless
  <2>2. Cardinality(names) \in Nat /\ MaxId \in Nat
    BY OrderIs, Constants
  <2> QED
    BY <1>2, <1>3, <2>1, <2>2 DEF Room
<1>6. /\ Held(d2) /\ Grown(Empty, d2) /\ LinksLive(d2)
      /\ \A n \in names : Leads(d2, v, n, id[n])
  <2>1. Empty.denied = {}
    BY DEF Empty
  <2> HIDE DEF id
  <2> QED
    BY <1>1, <1>3, <1>4, <1>5, <2>1, CreditedIs
<1>7. d2 \in DB
  BY <1>6 DEF Held, Whole
<1>8. /\ Touched(d2, db) /\ db.link = d2.link
      /\ \A e \in Live(db) : Linked(db, e) => db.stamp[e] = "none"
  <2> HIDE DEF d2
  <2> QED
    BY <1>2, <1>7, StampedIs DEF d2
<1> HIDE DEF d2, id
<1>9. Held(db)
  BY <1>6, <1>8, TouchedHeld
<1>10. Rested(db)
  BY <1>6, <1>8 DEF Rested, LinksLive, Touched, Live
<1>11. Settled(db, seen, shadowed)
  <2> SUFFICES ASSUME NEW u \in Video, NEW c \in seen[u] PROVE Leads(db, u, c[1], c[2])
    BY DEF Settled
  <2>1. u = v /\ c \in names \X {NoExt}
    BY <1>2
  <2>2. Leads(d2, v, c[1], NoExt) /\ c[2] = NoExt
    BY <1>6, <2>1 DEF id
  <2> QED
    BY <1>6, <1>8, <2>1, <2>2, TouchedLeads
<1>12. Contest(db, carried, attaching) /\ Claim(db, carried, attaching)
  <2>1. db.memo = [e \in Id |-> NoExt]
    BY <1>6, <1>8 DEF Grown, Touched, Empty
  <2> QED
    BY <1>1, <2>1, Constants DEF Contest, Claim, Live
<1>13. Typed
  BY <1>1, <1>2 DEF Typed
<1> QED
  BY <1>9, <1>10, <1>11, <1>12, <1>13 DEF IInv

\* What a step has to keep of the history, once the tables are sound.
Kept == IInv' /\ db.keep \subseteq db'.keep

LEMMA RescanKeeps == ASSUME IInv, NEW v \in Video, Rescan(v) PROVE Kept
<1>1. /\ Typed /\ Held(db) /\ Rested(db) /\ Settled(db, seen, shadowed)
      /\ Contest(db, carried, attaching) /\ Claim(db, carried, attaching)
      /\ db \in DB /\ Recorded(db) /\ Unique(db)
  BY DEF IInv, Held, Whole
<1>2. UNCHANGED <<kind, asked, attaching, excuse, stray, shadowed>>
  BY DEF Rescan
<1>3. PICK names \in SUBSET Name, known \in Name, x \in Ext \cup {NoExt} :
        /\ Room(db, Cardinality({n \in names : Lookup(db, n) = None}))
        /\ LET id == [n \in names |-> IF n = known THEN x ELSE NoExt]
               cleared == [db EXCEPT !.link[v] =
                              [e \in Id |-> IF @[e] = "file" THEN "none" ELSE @[e]]]
               after == Credited(cleared, v, names, id)
           IN  /\ LinksLive(after)
               /\ db' = Stamped(db, after)
               /\ seen' = [seen EXCEPT ![v] =
                     {<<n, id[n]>> : n \in IF kind = "tag" THEN names \ db.denied
                                            ELSE names}]
               /\ carried' = (carried \/ FirstOwner(after))
  BY DEF Rescan
<1> DEFINE id == [n \in names |-> IF n = known THEN x ELSE NoExt]
           cleared == [db EXCEPT !.link[v] =
                         [e \in Id |-> IF @[e] = "file" THEN "none" ELSE @[e]]]
           after == Credited(cleared, v, names, id)
           named == IF kind = "tag" THEN names \ db.denied ELSE names
<1>4. /\ LinksLive(after) /\ db' = Stamped(db, after)
      /\ seen' = [seen EXCEPT ![v] = {<<n, id[n]>> : n \in named}]
      /\ carried' = (carried \/ FirstOwner(after))
  BY <1>3
<1>5. /\ Touched(db, cleared) /\ cleared.stamp = db.stamp
      /\ \A u \in Video \ {v} : cleared.link[u] = db.link[u]
  <2> DEFINE l == [e \in Id |-> IF db.link[v][e] = "file" THEN "none" ELSE db.link[v][e]]
  <2>1. cleared = [db EXCEPT !.link[v] = l]
    OBVIOUS
  <2>2. l \in [Id -> {"none", "file", "manual"}]
    BY <1>1 DEF DB
  <2> HIDE DEF l, cleared
  <2>3. cleared \in DB /\ cleared.link = [db.link EXCEPT ![v] = l]
    BY <1>1, <2>1, <2>2 DEF DB
  <2> QED
    BY <1>1, <2>1, <2>3 DEF Touched, DB
<1>6. id \in [names -> Ext \cup {NoExt}]
  OBVIOUS
<1> HIDE DEF cleared, id
<1>7. Held(cleared) /\ NextId(cleared) = NextId(db) /\ \A n : Lookup(cleared, n) = Lookup(db, n)
  BY <1>1, <1>5, TouchedHeld
<1>8. Room(cleared, Cardinality(Nameless(cleared, names)))
  <2>1. Nameless(cleared, names) = {n \in names : Lookup(db, n) = None}
    BY <1>7 DEF Nameless
  <2> QED
    BY <1>3, <1>7, <2>1 DEF Room
<1>9. /\ Held(after) /\ Grown(cleared, after)
      /\ \A n \in names : ~(kind = "tag" /\ n \in cleared.denied) => Leads(after, v, n, id[n])
  BY <1>6, <1>7, <1>8, CreditedIs
<1>10. after \in DB
  BY <1>9 DEF Held, Whole
<1> HIDE DEF after
<1>11. /\ Touched(after, db') /\ (db').link = after.link
       /\ \A e \in Live(db') : Linked(db', e) => (db').stamp[e] = "none"
  BY <1>4, <1>10, StampedIs
<1>12. Held(db')
  BY <1>9, <1>11, TouchedHeld
<1>13. Held(db)'
  BY <1>2, <1>12, HeldStays
<1>14. Rested(db)'
  BY <1>4, <1>11 DEF Rested, LinksLive, Touched, Live, Linked
<1>15. Settled(db', seen', shadowed')
  <2> SUFFICES ASSUME NEW u \in Video, NEW c \in seen'[u], c[1] \notin shadowed
               PROVE  Leads(db', u, c[1], c[2])
    BY <1>2 DEF Settled
  <2>1. Leads(after, u, c[1], c[2])
    <3>1. CASE u = v
      <4>1. PICK n \in named : c = <<n, id[n]>>
        BY <1>1, <1>4, <3>1 DEF Typed
      <4>2. n \in names /\ ~(kind = "tag" /\ n \in cleared.denied)
        BY <1>5, <4>1 DEF Touched
      <4> QED
        BY <1>9, <3>1, <4>1, <4>2
    <3>2. CASE u # v
      <4>1. c \in seen[u] /\ c \in Name \X (Ext \cup {NoExt})
        BY <1>1, <1>4, <3>2 DEF Typed
      <4>2. Leads(db, u, c[1], c[2])
        BY <1>1, <4>1 DEF Settled
      <4>3. Leads(cleared, u, c[1], c[2])
        BY <1>1, <1>5, <3>2, <4>2, TouchedLeads
      <4>4. cleared \in DB /\ Unique(cleared) /\ c[1] \in Name /\ c[2] \in Ext \cup {NoExt}
        BY <1>7, <4>1 DEF Held, Whole
      <4> QED
        BY <1>9, <4>3, <4>4, LeadsOn
    <3> QED
      BY <3>1, <3>2
  <2> QED
    BY <1>9, <1>11, <2>1, TouchedLeads
<1>16. /\ (db').memo = db.memo /\ (db').keep = db.keep /\ (db').shared = db.shared
       /\ Live(db) \subseteq Live(db') /\ db' \in DB
       /\ (db').ext = after.ext
       /\ \A y \in Ext : db.ext[y] # None => after.ext[y] = db.ext[y]
  <2>1. Live(cleared) = Live(db) /\ Live(db') = Live(after)
    BY <1>5, <1>11 DEF Touched, Live
  <2> QED
    BY <1>5, <1>9, <1>11, <2>1 DEF Touched, Grown
<1>17. Contest(db', carried', attaching) /\ Claim(db', carried', attaching)
  <2>1. carried' <=> carried \/ \E y \in Ext, e \in Live(db) :
                                    /\ db.ext[y] = None /\ (db').ext[y] \notin {None, e}
                                    /\ db.memo[e] = y /\ ~(attaching # <<>> /\ attaching[1] = e)
    BY <1>4, <1>16 DEF FirstOwner, Claiming
  <2> QED
    BY <1>1, <1>16, <2>1, ContestGrows
<1>18. Typed'
  <2>1. seen' \in [Video -> SUBSET (Name \X (Ext \cup {NoExt}))]
    <3>1. {<<n, id[n]>> : n \in named} \in SUBSET (Name \X (Ext \cup {NoExt}))
      BY <1>6
    <3> QED
      BY <1>1, <1>4, <3>1 DEF Typed
  <2>2. carried' \in BOOLEAN
    BY <1>1, <1>4 DEF Typed, FirstOwner
  <2> QED
    BY <1>1, <1>2, <2>1, <2>2 DEF Typed
<1> QED
  BY <1>2, <1>13, <1>14, <1>15, <1>16, <1>17, <1>18 DEF Kept, IInv

LEMMA AttachTagKeeps == ASSUME IInv, NEW v \in Video, NEW n \in Name, AttachTag(v, n) PROVE Kept
<1>1. /\ Typed /\ Held(db) /\ Rested(db) /\ Settled(db, seen, shadowed)
      /\ Contest(db, carried, attaching) /\ Claim(db, carried, attaching)
      /\ db \in DB /\ Recorded(db) /\ Unique(db) /\ Handed(db)
  BY DEF IInv, Held, Whole
<1> DEFINE after == Credit(db, v, n, NoExt, "manual")
<1>2. /\ LinksLive(after) /\ db' = Stamped(db, after)
      /\ UNCHANGED <<kind, asked, attaching, seen, excuse, stray, shadowed, carried>>
      /\ Lookup(db, n) = None => Room(db, 1)
  BY DEF AttachTag, Commit
<1>3. Lookup(db, n) = None => NextId(db) \in Id
  <2>1. NextId(db) \in Nat \ {0} /\ MaxId \in Nat
    BY <1>1, NextIdFresh, Constants
  <2> QED
    BY <1>2, <2>1 DEF Room, Id
<1>4. Held(after) /\ Grown(db, after) /\ after.ext = db.ext
  BY <1>1, <1>3, CreditIs
<1>5. after \in DB
  BY <1>4 DEF Held, Whole
<1> HIDE DEF after
<1>6. /\ Touched(after, db') /\ (db').link = after.link
      /\ \A e \in Live(db') : Linked(db', e) => (db').stamp[e] = "none"
  BY <1>2, <1>5, StampedIs
<1>7. Held(db')
  BY <1>4, <1>6, TouchedHeld
<1>8. Held(db)'
  BY <1>2, <1>7, HeldStays
<1>9. Rested(db)'
  BY <1>2, <1>6 DEF Rested, LinksLive, Touched, Live, Linked
<1>10. Settled(db', seen', shadowed')
  <2> SUFFICES ASSUME NEW u \in Video, NEW c \in seen[u], c[1] \notin shadowed
               PROVE  Leads(db', u, c[1], c[2])
    BY <1>2 DEF Settled
  <2>1. c[1] \in Name /\ c[2] \in Ext \cup {NoExt}
    BY <1>1 DEF Typed
  <2>2. Leads(db, u, c[1], c[2])
    BY <1>1 DEF Settled
  <2>3. Leads(after, u, c[1], c[2])
    BY <1>1, <1>4, <2>1, <2>2, LeadsOn
  <2> QED
    BY <1>4, <1>6, <2>3, TouchedLeads
<1>11. /\ (db').memo = db.memo /\ (db').keep = db.keep /\ (db').shared = db.shared
       /\ Live(db) \subseteq Live(db') /\ db' \in DB /\ (db').ext = db.ext
  <2>1. Live(db') = Live(after)
    BY <1>6 DEF Touched, Live
  <2> QED
    BY <1>4, <1>6, <2>1 DEF Touched, Grown
<1>12. Contest(db', carried', attaching) /\ Claim(db', carried', attaching)
  <2>1. carried' <=> carried \/ \E y \in Ext, e \in Live(db) :
                                    /\ db.ext[y] = None /\ (db').ext[y] \notin {None, e}
                                    /\ db.memo[e] = y /\ ~(attaching # <<>> /\ attaching[1] = e)
    BY <1>2, <1>11
  <2> QED
    BY <1>1, <1>11, <2>1, ContestGrows
<1>13. Typed'
  BY <1>1, <1>2 DEF Typed
<1> QED
  BY <1>2, <1>8, <1>9, <1>10, <1>11, <1>12, <1>13 DEF Kept, IInv

\* The tree is of the parents, and of who lives.
LEMMA TreeStays ==
    ASSUME NEW d, NEW d2, Tree(d), d2.parent = d.parent, Live(d) \subseteq Live(d2)
    PROVE  Tree(d2)
<1>1. \A e : Ancestors(d2, e) = Ancestors(d, e)
  BY DEF Ancestors, Upward
<1> QED
  BY <1>1 DEF Tree

\* The names stay, and what is asked about stays so or is settled.
LEMMA Aside ==
    ASSUME NEW d, NEW d2, NEW missed, NEW missed2, NEW ex, NEW hid,
           Whole(d), Living(d, missed), Unshadowed(d, hid), Told(d, ex, hid),
           d2 \in DB, d2.name = d.name, d2.alias = d.alias, d2.top = d.top,
           Apart(d2), Recorded(d2), Tree(d2), missed \subseteq missed2,
           \A p \in Queue(d2) : p \subseteq Live(d) \cup missed2,
           \A x \in Ext : d2.ext[x] \in Live(d) \cup missed2 \cup {None},
           d.keep \cup Queue(d) \subseteq d2.keep \cup Queue(d2)
    PROVE  /\ Whole(d2) /\ Living(d2, missed2) /\ Unshadowed(d2, hid) /\ Told(d2, ex, hid)
           /\ Live(d2) = Live(d) /\ \A n : Lookup(d2, n) = Lookup(d, n)
<1>1. /\ Live(d2) = Live(d) /\ \A n : Lookup(d2, n) = Lookup(d, n)
      /\ \A e, f : Alike(d2, e, f) = Alike(d, e, f)
  BY SameForms
<1>2. Unique(d2) /\ Handed(d2)
  BY <1>1 DEF Whole, Unique, Handed
<1>3. Living(d2, missed2)
  BY <1>1 DEF Living
<1>4. Unshadowed(d2, hid)
  BY <1>1 DEF Unshadowed
<1>5. Told(d2, ex, hid)
  BY <1>1 DEF Told
<1> QED
  BY <1>1, <1>2, <1>3, <1>4, <1>5 DEF Whole

\* Names that led to someone go on leading there.
LEMMA SettledOn ==
    ASSUME NEW d, NEW d2, NEW hid, NEW hid2, hid \subseteq hid2,
           NEW s \in [Video -> SUBSET (Name \X (Ext \cup {NoExt}))],
           d2.link = d.link,
           \A x \in Ext : d.ext[x] # None => d2.ext[x] = d.ext[x],
           \A n \in Name \ hid2 : Lookup(d, n) # None => Lookup(d2, n) = Lookup(d, n),
           Settled(d, s, hid)
    PROVE  Settled(d2, s, hid2)
<1> SUFFICES ASSUME NEW v \in Video, NEW c \in s[v], c[1] \notin hid2
             PROVE  Leads(d2, v, c[1], c[2])
  BY DEF Settled
<1>1. c[1] \in Name \ hid2 /\ c[2] \in Ext \cup {NoExt} /\ Leads(d, v, c[1], c[2])
  BY DEF Settled
<1>2. CASE c[2] = NoExt
  BY <1>1, <1>2 DEF Leads, Resolve
<1>3. CASE c[2] # NoExt
  BY <1>1, <1>3 DEF Leads, Resolve
<1> QED
  BY <1>2, <1>3

LEMMA ContestOn ==
    ASSUME NEW d, NEW d2, NEW lost, NEW claim, d2.memo = d.memo, d2.ext = d.ext,
           Live(d2) = Live(d), d.keep \cup d.shared \subseteq d2.keep \cup d2.shared,
           Contest(d, lost, claim), Claim(d, lost, claim)
    PROVE  Contest(d2, lost, claim) /\ Claim(d2, lost, claim)
  BY DEF Contest, Claim

LEMMA RestedOn ==
    ASSUME NEW d, NEW d2, Rested(d), Live(d2) = Live(d), d2.link = d.link, d2.stamp = d.stamp
    PROVE  Rested(d2)
  BY DEF Rested, LinksLive, Linked

LEMMA AskAliasKeeps ==
    ASSUME IInv, NEW e \in Id, NEW n \in Name, AskAlias(e, n) PROVE Kept
<1>1. UNCHANGED <<kind, db, attaching, seen, excuse, stray, shadowed, carried>> /\ asked' = <<e, n>>
  BY DEF AskAlias
<1>2. Typed'
  BY <1>1 DEF IInv, Typed
<1>3. Held(db)'
  BY <1>1, HeldStays DEF IInv
<1> QED
  BY <1>1, <1>2, <1>3 DEF Kept, IInv

LEMMA EnrichKeeps ==
    ASSUME IInv, NEW e \in Id, NEW x \in Ext, Enrich(e, x) PROVE Kept
<1>1. /\ e \in Live(db) /\ attaching = <<>>
      /\ db' = [db EXCEPT !.memo[e] = x] /\ attaching' = <<e, x>>
      /\ UNCHANGED <<kind, asked, seen, excuse, stray, shadowed, carried>>
  BY DEF Enrich
<1>2. /\ Typed /\ Held(db) /\ Rested(db) /\ Settled(db, seen, shadowed)
      /\ Contest(db, carried, attaching) /\ db \in DB
      /\ Whole(db) /\ Living(db, stray) /\ Unshadowed(db, shadowed) /\ Told(db, excuse, shadowed)
  BY DEF IInv, Held, Whole
<1>3. /\ db' \in DB /\ (db').memo = [db.memo EXCEPT ![e] = x]
      /\ (db').name = db.name /\ (db').alias = db.alias /\ (db').parent = db.parent /\ (db').top = db.top
      /\ (db').link = db.link /\ (db').weak = db.weak /\ (db').shared = db.shared
      /\ (db').keep = db.keep /\ (db').ext = db.ext
      /\ (db').stamp = db.stamp /\ (db').suppressed = db.suppressed /\ (db').denied = db.denied
  BY <1>1, <1>2 DEF DB
<1>4. Live(db') = Live(db) /\ Queue(db') = Queue(db)
  BY <1>3 DEF Live, Queue
<1>5. Apart(db') /\ Recorded(db') /\ Tree(db')
  <2>1. \A f \in Id \ Live(db) : (db').memo[f] = NoExt
    BY <1>1, <1>2, <1>3 DEF Whole, Recorded, DB
  <2>2. Tree(db')
    BY <1>2, <1>3, <1>4, TreeStays DEF Whole
  <2> QED
    BY <1>2, <1>3, <1>4, <2>1, <2>2 DEF Whole, Apart, Recorded
<1>6. /\ Whole(db') /\ Living(db', stray) /\ Unshadowed(db', shadowed) /\ Told(db', excuse, shadowed)
      /\ \A m : Lookup(db', m) = Lookup(db, m)
  <2>1. \A p \in Queue(db') : p \subseteq Live(db) \cup stray
    BY <1>2, <1>4 DEF Living
  <2>2. \A y \in Ext : (db').ext[y] \in Live(db) \cup stray \cup {None}
    BY <1>2, <1>3 DEF Living
  <2> QED
    BY <1>2, <1>3, <1>4, <1>5, <2>1, <2>2, Aside
<1>7. Held(db)'
  BY <1>1, <1>6, HeldOn
<1>8. Rested(db') /\ Settled(db', seen, shadowed)
  BY <1>2, <1>3, <1>4, <1>6, RestedOn, SettledOn DEF Typed
<1>9. Contest(db', carried, attaching')
  BY <1>1, <1>2, <1>3, <1>4 DEF Contest, DB
<1>10. Claim(db', carried, attaching')
  BY <1>1, <1>2, <1>3 DEF Claim, DB
<1>11. Typed'
  BY <1>1, <1>2 DEF Typed
<1> QED
  BY <1>1, <1>3, <1>7, <1>8, <1>9, <1>10, <1>11 DEF Kept, IInv

\* The ancestors hold the parent, go up, and are the least that do.
LEMMA Climbs ==
    ASSUME NEW d, d.parent \in [Id -> Id \cup {None}], NEW e \in Id
    PROVE  /\ Ancestors(d, e) \in SUBSET Id /\ Upward(d, Ancestors(d, e))
           /\ d.parent[e] \in Ancestors(d, e) \cup {None}
           /\ \A S \in SUBSET Id : Upward(d, S) /\ d.parent[e] \in S \cup {None}
                                   => Ancestors(d, e) \subseteq S
<1>1. \A S \in SUBSET Id : Upward(d, S) /\ d.parent[e] \in S \cup {None} => Ancestors(d, e) \subseteq S
  BY DEF Ancestors
<1>2. d.parent[e] \in Ancestors(d, e) \cup {None}
  BY Constants DEF Ancestors
<1>3. ASSUME NEW a \in Ancestors(d, e), d.parent[a] # None PROVE d.parent[a] \in Ancestors(d, e)
  <2>1. a \in Id /\ d.parent[a] \in Id
    BY <1>3 DEF Ancestors
  <2>2. ASSUME NEW S \in SUBSET Id, Upward(d, S), d.parent[e] \in S \cup {None}
        PROVE  d.parent[a] \in S
    <3>1. a \in S
      BY <1>1, <2>2
    <3> QED
      BY <1>3, <2>2, <3>1 DEF Upward
  <2> QED
    BY <2>1, <2>2 DEF Ancestors
<1> QED
  BY <1>1, <1>2, <1>3 DEF Ancestors, Upward

\* The tags of C are put under s, and of the others some lose their parent.
Grafts(d, d2, s, C) ==
    /\ d.parent \in [Id -> Id \cup {None}] /\ d2.parent \in [Id -> Id \cup {None}]
    /\ C \cap ({s} \cup Ancestors(d, s)) = {}
    /\ \A c \in C : d2.parent[c] = s
    /\ \A f \in Id \ C : d2.parent[f] \in {None, d.parent[f]}
    /\ \A f \in Id : d2.parent[f] # None => kind = "tag" /\ {f, d2.parent[f]} \subseteq Live(d2)

LEMMA Regrafted ==
    ASSUME NEW d, NEW d2, Tree(d), NEW s \in Id, NEW C \in SUBSET Id, Grafts(d, d2, s, C)
    PROVE  Tree(d2)
<1> USE DEF Grafts
<1> SUFFICES ASSUME NEW f \in Id, d2.parent[f] # None PROVE f \notin Ancestors(d2, f)
  BY DEF Tree
<1> SUFFICES \E S \in SUBSET Id : Upward(d2, S) /\ d2.parent[f] \in S /\ f \notin S
  BY Climbs
<1> DEFINE A(e) == Ancestors(d, e)
           up == {s} \cup A(s)
<1>1. A(f) \in SUBSET Id /\ Upward(d, A(f)) /\ d.parent[f] \in A(f) \cup {None}
  BY Climbs
<1>2. up \in SUBSET Id /\ Upward(d, up) /\ Upward(d2, up)
  <2>1. A(s) \in SUBSET Id /\ Upward(d, A(s)) /\ d.parent[s] \in A(s) \cup {None}
    BY Climbs
  <2>2. Upward(d, up)
    BY <2>1 DEF Upward
  <2>3. Upward(d2, up)
    BY <2>1, <2>2 DEF Upward
  <2> QED
    BY <2>1, <2>2, <2>3
<1>3. CASE f \in C
  <2>1. d2.parent[f] \in up /\ f \notin up
    BY <1>3
  <2> QED
    BY <1>2, <2>1
<1>4. CASE f \notin C
  <2>1. d2.parent[f] = d.parent[f] /\ d.parent[f] # None
    BY <1>4
  <2>2. f \notin A(f) /\ d2.parent[f] \in A(f)
    BY <1>1, <2>1 DEF Tree
  <2>3. CASE A(f) \cap C = {}
    <3>1. Upward(d2, A(f))
      BY <1>1, <2>3 DEF Upward
    <3> QED
      BY <1>1, <2>2, <3>1
  <2>4. CASE A(f) \cap C # {}
    <3>1. f \notin up
      <4> SUFFICES ASSUME f \in up PROVE FALSE
        OBVIOUS
      <4>1. d.parent[f] \in up \cup {None}
        BY <1>2, <2>1 DEF Upward
      <4>2. A(f) \subseteq up
        BY <1>2, <4>1, Climbs
      <4> QED
        BY <2>4, <4>2
    <3>2. Upward(d2, A(f) \cup up)
      BY <1>1, <1>2 DEF Upward
    <3> QED
      BY <1>1, <1>2, <2>2, <3>1, <3>2
  <2> QED
    BY <2>3, <2>4
<1> QED
  BY <1>3, <1>4

\* An operation on the queue, the tree, the denied names or the stamps.
LEMMA AsideKeeps ==
    ASSUME IInv, UNCHANGED <<kind, asked, attaching, seen, excuse, stray, shadowed, carried>>,
           db' \in DB, (db').name = db.name, (db').alias = db.alias, (db').top = db.top,
           (db').link = db.link, (db').ext = db.ext, (db').memo = db.memo,
           (db').suppressed = db.suppressed,
           Apart(db'), Tree(db'), Rested(db'),
           \A p \in Queue(db') : p \subseteq Live(db) \cup stray,
           db.keep \subseteq (db').keep, db.keep \cup Queue(db) \subseteq (db').keep \cup Queue(db'),
           db.keep \cup db.shared \subseteq (db').keep \cup (db').shared
    PROVE  Kept
<1>1. /\ Typed /\ Held(db) /\ Rested(db) /\ Settled(db, seen, shadowed)
      /\ Contest(db, carried, attaching) /\ Claim(db, carried, attaching)
      /\ Whole(db) /\ Living(db, stray) /\ Unshadowed(db, shadowed) /\ Told(db, excuse, shadowed)
  BY DEF IInv, Held, Whole
<1>2. Live(db') = Live(db)
  BY DEF Live
<1>3. Recorded(db')
  BY <1>1, <1>2 DEF Recorded, Whole
<1>4. /\ Whole(db') /\ Living(db', stray) /\ Unshadowed(db', shadowed) /\ Told(db', excuse, shadowed)
      /\ \A m : Lookup(db', m) = Lookup(db, m)
  <2>1. \A y \in Ext : (db').ext[y] \in Live(db) \cup stray \cup {None}
    BY <1>1 DEF Living
  <2> QED
    BY <1>1, <1>3, <2>1, Aside
<1>5. Held(db)'
  BY <1>4, HeldOn
<1>6. Settled(db', seen, shadowed)
  BY <1>1, <1>4, SettledOn DEF Typed
<1>7. Contest(db', carried, attaching) /\ Claim(db', carried, attaching)
  BY <1>1, <1>2, ContestOn
<1>8. Typed'
  BY <1>1 DEF Typed
<1> QED
  BY <1>5, <1>6, <1>7, <1>8 DEF Kept, IInv

LEMMA DismissKeeps == ASSUME IInv, NEW p \in Pair, Dismiss(p) PROVE Kept
<1>1. /\ p \in Queue(db)
      /\ db' = [db EXCEPT !.keep = @ \cup {p}, !.weak = @ \ {p}, !.shared = @ \ {p}]
      /\ UNCHANGED <<kind, asked, attaching, seen, excuse, stray, shadowed, carried>>
  BY DEF Dismiss, Commit
<1>2. db \in DB /\ Apart(db) /\ Tree(db) /\ Living(db, stray) /\ Rested(db)
  BY DEF IInv, Held, Whole
<1>3. /\ db' \in DB /\ (db').keep = db.keep \cup {p}
      /\ (db').weak = db.weak \ {p} /\ (db').shared = db.shared \ {p}
      /\ (db').name = db.name /\ (db').alias = db.alias /\ (db').parent = db.parent /\ (db').top = db.top
      /\ (db').link = db.link /\ (db').ext = db.ext /\ (db').memo = db.memo
      /\ (db').stamp = db.stamp /\ (db').suppressed = db.suppressed /\ (db').denied = db.denied
  BY <1>1, <1>2 DEF DB
<1>4. Live(db') = Live(db)
  BY <1>3 DEF Live
<1>5. Apart(db') /\ Tree(db') /\ Rested(db')
  BY <1>2, <1>3, <1>4, TreeStays, RestedOn DEF Apart, Queue
<1>6. \A q \in Queue(db') : q \subseteq Live(db) \cup stray
  BY <1>2, <1>3 DEF Living, Queue
<1>7. /\ db.keep \subseteq (db').keep /\ db.keep \cup Queue(db) \subseteq (db').keep \cup Queue(db')
      /\ db.keep \cup db.shared \subseteq (db').keep \cup (db').shared
  BY <1>3 DEF Queue
<1> QED
  BY <1>1, <1>3, <1>5, <1>6, <1>7, AsideKeeps

LEMMA SetTagParentKeeps ==
    ASSUME IInv, NEW e \in Id, NEW p \in Id \cup {None}, SetTagParent(e, p) PROVE Kept
<1>1. /\ kind = "tag" /\ e \in Live(db) /\ (p # None => p \in Live(db) /\ p # e /\ e \notin Ancestors(db, p))
      /\ db' = [db EXCEPT !.parent[e] = p]
      /\ UNCHANGED <<kind, asked, attaching, seen, excuse, stray, shadowed, carried>>
  BY DEF SetTagParent, Commit, MayHaveParent
<1>2. db \in DB /\ Apart(db) /\ Tree(db) /\ Living(db, stray) /\ Rested(db)
  BY DEF IInv, Held, Whole
<1>3. /\ db' \in DB /\ (db').parent = [db.parent EXCEPT ![e] = p]
      /\ (db').name = db.name /\ (db').alias = db.alias /\ (db').top = db.top
      /\ (db').weak = db.weak /\ (db').shared = db.shared /\ (db').keep = db.keep
      /\ (db').link = db.link /\ (db').ext = db.ext /\ (db').memo = db.memo
      /\ (db').stamp = db.stamp /\ (db').suppressed = db.suppressed /\ (db').denied = db.denied
  BY <1>1, <1>2 DEF DB
<1>4. Live(db') = Live(db) /\ Queue(db') = Queue(db)
  BY <1>3 DEF Live, Queue
<1>5. Tree(db')
  <2>1. /\ db.parent \in [Id -> Id \cup {None}] /\ (db').parent \in [Id -> Id \cup {None}]
        /\ (db').parent[e] = p /\ \A f \in Id \ {e} : (db').parent[f] = db.parent[f]
    BY <1>2, <1>3 DEF DB
  <2>2. \A f \in Id : (db').parent[f] # None => kind = "tag" /\ {f, (db').parent[f]} \subseteq Live(db')
    BY <1>1, <1>2, <1>4, <2>1 DEF Tree
  <2>3. CASE p = None
    <3>1. \A f \in Id : (db').parent[f] \in {None, db.parent[f]}
      BY <2>1, <2>3
    <3>2. Grafts(db, db', e, {})
      BY <2>1, <2>2, <3>1 DEF Grafts
    <3> QED
      BY <1>2, <3>2, Regrafted
  <2>4. CASE p # None
    <3>1. Grafts(db, db', p, {e}) /\ p \in Id
      BY <1>1, <2>1, <2>2, <2>4 DEF Grafts
    <3> QED
      BY <1>2, <3>1, Regrafted
  <2> QED
    BY <2>3, <2>4
<1>6. Apart(db') /\ Rested(db') /\ \A q \in Queue(db') : q \subseteq Live(db) \cup stray
  BY <1>2, <1>3, <1>4, RestedOn DEF Apart, Living
<1> QED
  BY <1>1, <1>3, <1>4, <1>5, <1>6, AsideKeeps

LEMMA DenyTagKeeps == ASSUME IInv, NEW n \in Name, DenyTag(n) PROVE Kept
<1>1. /\ db' = [db EXCEPT !.denied = @ \cup {n}]
      /\ UNCHANGED <<kind, asked, attaching, seen, excuse, stray, shadowed, carried>>
  BY DEF DenyTag, Commit
<1>2. db \in DB /\ Apart(db) /\ Tree(db) /\ Living(db, stray) /\ Rested(db)
  BY DEF IInv, Held, Whole
<1>3. /\ db' \in DB
      /\ (db').name = db.name /\ (db').alias = db.alias /\ (db').parent = db.parent /\ (db').top = db.top
      /\ (db').weak = db.weak /\ (db').shared = db.shared /\ (db').keep = db.keep
      /\ (db').link = db.link /\ (db').ext = db.ext /\ (db').memo = db.memo
      /\ (db').stamp = db.stamp /\ (db').suppressed = db.suppressed
  BY <1>1, <1>2 DEF DB
<1>4. Live(db') = Live(db) /\ Queue(db') = Queue(db)
  BY <1>3 DEF Live, Queue
<1>5. /\ Apart(db') /\ Tree(db') /\ Rested(db')
      /\ \A q \in Queue(db') : q \subseteq Live(db) \cup stray
  BY <1>2, <1>3, <1>4, TreeStays, RestedOn DEF Apart, Living
<1> QED
  BY <1>1, <1>3, <1>4, <1>5, AsideKeeps

LEMMA GraceEndsKeeps == ASSUME IInv, NEW e \in Id, GraceEnds(e) PROVE Kept
<1>1. /\ db.stamp[e] = "fresh" /\ db' = [db EXCEPT !.stamp[e] = "old"]
      /\ UNCHANGED <<kind, asked, attaching, seen, excuse, stray, shadowed, carried>>
  BY DEF GraceEnds, Commit
<1>2. db \in DB /\ Apart(db) /\ Tree(db) /\ Living(db, stray) /\ Rested(db)
  BY DEF IInv, Held, Whole
<1>3. /\ db' \in DB /\ (db').stamp = [db.stamp EXCEPT ![e] = "old"]
      /\ (db').name = db.name /\ (db').alias = db.alias /\ (db').parent = db.parent /\ (db').top = db.top
      /\ (db').weak = db.weak /\ (db').shared = db.shared /\ (db').keep = db.keep
      /\ (db').link = db.link /\ (db').ext = db.ext /\ (db').memo = db.memo
      /\ (db').suppressed = db.suppressed /\ (db').denied = db.denied
  BY <1>1, <1>2 DEF DB
<1>4. Live(db') = Live(db) /\ Queue(db') = Queue(db) /\ \A f : Linked(db', f) = Linked(db, f)
  BY <1>3 DEF Live, Queue, Linked
<1>5. Rested(db')
  <2>1. LinksLive(db')
    BY <1>2, <1>3, <1>4 DEF Rested, LinksLive
  <2>2. ASSUME NEW f \in Live(db), Linked(db, f) PROVE (db').stamp[f] = "none"
    <3>1. f \in Id /\ db.stamp[f] = "none"
      BY <1>2, <2>2 DEF Rested, Live
    <3>2. f # e /\ db.stamp \in [Id -> {"none", "fresh", "old"}]
      BY <1>1, <1>2, <3>1 DEF DB
    <3> QED
      BY <1>3, <3>1, <3>2
  <2> QED
    BY <1>4, <2>1, <2>2 DEF Rested
<1>6. /\ Apart(db') /\ Tree(db')
      /\ \A q \in Queue(db') : q \subseteq Live(db) \cup stray
  BY <1>2, <1>3, <1>4, TreeStays DEF Apart, Living
<1> QED
  BY <1>1, <1>3, <1>4, <1>5, <1>6, AsideKeeps

\* Aliases of e where nobody had one, of the names in N: who lives, and what leads to whom.
Owned(d, d2, e, N, missed, hid) ==
    /\ d2 \in DB /\ d2.name = d.name /\ d2.parent = d.parent /\ d2.top = d.top
    /\ d2.shared = d.shared /\ d2.keep = d.keep /\ d2.ext = d.ext
    /\ d2.memo = d.memo /\ d2.suppressed = d.suppressed
    /\ e \in Live(d) \cup missed
    /\ \A m \in Name :
          \/ d2.alias[m] = d.alias[m]
          \/ /\ m \in N /\ d.alias[m].of = None /\ d2.alias[m].of = e
             /\ d2.alias[m].src = "provider" => e \in Live(d)
             /\ m \in hid \/ Lookup(d, m) \in {None, e}
    /\ d.weak \subseteq d2.weak
    /\ \A p \in d2.weak \ d.weak : p \notin d.keep \cup d.shared /\ p \subseteq Live(d) \cup missed

Giving(d, d2, e, N, missed, missed2, hid, hid2) ==
    /\ Whole(d) /\ Living(d, missed) /\ Unshadowed(d, hid)
    /\ missed \subseteq missed2 /\ hid \subseteq hid2 /\ Owned(d, d2, e, N, missed2, hid2)

LEMMA OwnedIs ==
    ASSUME NEW d, NEW d2, NEW e \in Id, NEW N, NEW missed, NEW missed2, NEW hid, NEW hid2,
           Giving(d, d2, e, N, missed, missed2, hid, hid2)
    PROVE  /\ Whole(d2) /\ Living(d2, missed2) /\ Unshadowed(d2, hid2)
           /\ Live(d2) = Live(d) /\ Queue(d) \subseteq Queue(d2)
           /\ \A n \in Name : Lookup(d, n) # None => Lookup(d2, n) = Lookup(d, n)
           /\ \A f \in Id \ {e} : Forms(d2, f) = Forms(d, f)
           /\ Forms(d2, e) \subseteq Forms(d, e) \cup N
<1> USE DEF Giving
<1>1. /\ d \in DB /\ Unique(d) /\ Apart(d) /\ Recorded(d) /\ Handed(d) /\ Tree(d)
      /\ None \notin Id /\ Live(d) \subseteq Id
  BY Constants DEF Whole, Live
<1>2. /\ d2 \in DB /\ d2.name = d.name /\ d2.parent = d.parent /\ d2.top = d.top
      /\ d2.shared = d.shared /\ d2.keep = d.keep /\ d2.ext = d.ext
      /\ d2.memo = d.memo /\ d2.suppressed = d.suppressed
      /\ e \in Live(d) \cup missed2
      /\ \A m \in Name :
            \/ d2.alias[m] = d.alias[m]
            \/ /\ m \in N /\ d.alias[m].of = None /\ d2.alias[m].of = e
               /\ d2.alias[m].src = "provider" => e \in Live(d)
               /\ m \in hid2 \/ Lookup(d, m) \in {None, e}
      /\ d.weak \subseteq d2.weak
      /\ \A p \in d2.weak \ d.weak : p \notin d.keep \cup d.shared /\ p \subseteq Live(d) \cup missed2
  BY DEF Owned
<1>3. Live(d2) = Live(d) /\ Queue(d) \subseteq Queue(d2)
  BY <1>2, SameNames DEF Queue
<1>4. Unique(d2) /\ Apart(d2) /\ Handed(d2) /\ Tree(d2)
  <2>1. Tree(d2)
    BY <1>1, <1>2, <1>3, TreeStays
  <2> QED
    BY <1>1, <1>2, <1>3, <2>1 DEF Unique, Apart, Queue, Handed
<1>5. Recorded(d2)
  <2>1. \A n \in Name : d2.alias[n].src = "provider" => d2.alias[n].of \in Live(d2)
    BY <1>1, <1>2, <1>3 DEF Recorded
  <2> QED
    BY <1>1, <1>2, <1>3, <2>1 DEF Recorded
<1>6. Living(d2, missed2)
  <2>1. \A p \in Queue(d2) : p \subseteq Live(d2) \cup missed2
    BY <1>2, <1>3 DEF Living, Queue
  <2>2. \A n \in Name : d2.alias[n].of \in Live(d2) \cup missed2 \cup {None}
    BY <1>2, <1>3 DEF Living
  <2>3. \A x \in Ext : d2.ext[x] \in Live(d2) \cup missed2 \cup {None}
    BY <1>2, <1>3 DEF Living
  <2> QED
    BY <2>1, <2>2, <2>3 DEF Living
<1>7. Unshadowed(d2, hid2)
  <2> SUFFICES ASSUME NEW f \in Live(d), d.name[f] \notin hid2
               PROVE  d2.alias[d.name[f]].of \in {None, f}
    BY <1>2, <1>3 DEF Unshadowed
  <2>1. d.name[f] \in Name /\ Lookup(d, d.name[f]) = f /\ f # None
    BY <1>1, LookupIs DEF Live, DB
  <2>2. d.alias[d.name[f]].of \in {None, f}
    BY DEF Unshadowed
  <2> QED
    BY <1>2, <2>1, <2>2
<1>8. ASSUME NEW n \in Name, Lookup(d, n) # None PROVE Lookup(d2, n) = Lookup(d, n)
  <2>1. CASE \E f \in Live(d) : d.name[f] = n
    BY <1>1, <1>2, <1>3, <1>4, <2>1, LookupIs
  <2>2. CASE \A f \in Live(d) : d.name[f] # n
    <3>1. Lookup(d, n) = d.alias[n].of /\ Lookup(d2, n) = d2.alias[n].of
      BY <1>1, <1>2, <1>3, <1>4, <2>2, LookupIs
    <3> QED
      BY <1>2, <1>8, <3>1
  <2> QED
    BY <2>1, <2>2
<1>9. /\ \A f \in Id \ {e} : Forms(d2, f) = Forms(d, f)
      /\ Forms(d2, e) \subseteq Forms(d, e) \cup N
  <2>1. \A f \in Id \ {e}, m \in Name : d2.alias[m].of = f <=> d.alias[m].of = f
    BY <1>1, <1>2
  <2>2. \A m \in Name : d2.alias[m].of = e => d.alias[m].of = e \/ m \in N
    BY <1>2
  <2> QED
    BY <1>2, <1>3, <2>1, <2>2 DEF Forms
<1> QED
  BY <1>2, <1>3, <1>4, <1>5, <1>6, <1>7, <1>8, <1>9 DEF Whole

LEMMA OwnedKeeps ==
    ASSUME IInv, NEW e \in Id, NEW N, UNCHANGED <<kind, attaching, seen, carried>>, Typed',
           stray \subseteq stray', shadowed \subseteq shadowed',
           Owned(db, db', e, N, stray', shadowed'),
           (db').link = db.link, (db').stamp = db.stamp,
           Told(db', excuse', shadowed')
    PROVE  Kept
<1>1. /\ Typed /\ Held(db) /\ Rested(db) /\ Settled(db, seen, shadowed)
      /\ Contest(db, carried, attaching) /\ Claim(db, carried, attaching)
      /\ Whole(db) /\ Living(db, stray) /\ Unshadowed(db, shadowed)
  BY DEF IInv, Held, Whole
<1>2. /\ Whole(db') /\ Living(db', stray') /\ Unshadowed(db', shadowed') /\ Live(db') = Live(db)
      /\ \A n \in Name : Lookup(db, n) # None => Lookup(db', n) = Lookup(db, n)
  <2>1. Giving(db, db', e, N, stray, stray', shadowed, shadowed')
    BY <1>1 DEF Giving
  <2> QED
    BY <2>1, OwnedIs
<1>3. /\ (db').ext = db.ext /\ (db').memo = db.memo /\ (db').keep = db.keep
      /\ (db').shared = db.shared
  BY DEF Owned
<1>4. Held(db)'
  BY <1>2, HeldOn
<1>5. Rested(db') /\ Settled(db', seen, shadowed')
  BY <1>1, <1>2, <1>3, RestedOn, SettledOn DEF Typed
<1>6. Contest(db', carried, attaching) /\ Claim(db', carried, attaching)
  BY <1>1, <1>2, <1>3, ContestOn
<1> QED
  BY <1>3, <1>4, <1>5, <1>6 DEF Kept, IInv

LEMMA AddAskedAliasKeeps == ASSUME IInv, AddAskedAlias PROVE Kept
<1>1. /\ Typed /\ db \in DB /\ Whole(db) /\ Living(db, stray) /\ Unshadowed(db, shadowed)
      /\ Told(db, excuse, shadowed) /\ Unique(db) /\ None \notin Id
  BY Constants DEF IInv, Held, Whole
<1> DEFINE e == asked[1]
           n == asked[2]
           d == AddAlias(db, e, n, "owner")
<1>2. asked # <<>> /\ asked' = <<>> /\ UNCHANGED <<kind, attaching, seen, excuse, carried>>
  BY DEF AddAskedAlias
<1>3. e \in Id /\ n \in Name
  BY <1>1, <1>2 DEF Typed
<1>4. CASE d.alias[n].of = e
  <2>1. /\ db' = Flag(d, e, n)
        /\ stray' = IF e \in Live(db) THEN stray ELSE stray \cup {e}
        /\ shadowed' = IF Lookup(db, n) \in {None, e} THEN shadowed ELSE shadowed \cup {n}
    BY <1>4 DEF AddAskedAlias
  <2>2. /\ d \in DB /\ ButAliases(db, d)
        /\ db.alias[n].of # None => d = db
        /\ db.alias[n].of = None => d.alias[n] = [of |-> e, src |-> "owner"]
        /\ \A m \in Name \ {n} : d.alias[m] = db.alias[m]
    BY <1>1, <1>3, AddAliasIs
  <2>3. db.alias[n].of \in {None, e}
    BY <1>4, <2>2
  <2> HIDE DEF d, e, n
  <2>4. /\ db' \in DB /\ (db').weak = d.weak \cup Found(d, e, n)
        /\ (db').name = d.name /\ (db').alias = d.alias /\ (db').parent = d.parent /\ (db').top = d.top
        /\ (db').link = d.link /\ (db').shared = d.shared /\ (db').keep = d.keep /\ (db').ext = d.ext
        /\ (db').memo = d.memo /\ (db').stamp = d.stamp /\ (db').suppressed = d.suppressed
    BY <1>3, <2>1, <2>2, FlagIs
  <2>5. /\ (db').name = db.name /\ (db').parent = db.parent /\ (db').top = db.top
        /\ (db').link = db.link /\ (db').shared = db.shared /\ (db').keep = db.keep /\ (db').ext = db.ext
        /\ (db').memo = db.memo /\ (db').stamp = db.stamp /\ (db').suppressed = db.suppressed
        /\ (db').weak = db.weak \cup Found(d, e, n)
    BY <2>2, <2>4 DEF ButAliases
  <2>6. e \in Live(db) \cup stray' /\ stray \subseteq stray' /\ shadowed \subseteq shadowed'
        /\ (Lookup(db, n) \notin {None, e} => n \in shadowed')
    BY <2>1
  <2>7. /\ \A f \in Id \ {e} : Forms(d, f) = Forms(db, f)
        /\ Forms(d, e) \subseteq Forms(db, e) \cup {n}
    <3>1. d.name = db.name /\ Live(d) = Live(db)
      BY <2>2, SameNames DEF ButAliases
    <3>2. \A f \in Id \ {e}, m \in Name : d.alias[m].of = f <=> db.alias[m].of = f
      BY <1>1, <2>2
    <3>3. \A m \in Name \ {n} : d.alias[m].of = e <=> db.alias[m].of = e
      BY <2>2
    <3> QED
      BY <3>1, <3>2, <3>3 DEF Forms
  <2>8. \A p \in Found(d, e, n) : /\ p \notin db.keep \cup db.shared
                                  /\ p \subseteq Live(db) \cup stray'
    <3> SUFFICES ASSUME NEW p \in Found(d, e, n)
                 PROVE  p \notin db.keep \cup db.shared /\ p \subseteq Live(db) \cup stray'
      OBVIOUS
    <3>1. p \in Pair /\ p \notin d.keep \cup d.shared /\ e \in p
      BY DEF Found
    <3>2. PICK o \in p \ {e} : \E m \in Forms(d, o) : Near(n, m)
      BY DEF Found
    <3>3. o \in Id \ {e} /\ p = {e, o}
      BY <3>1, <3>2, PairIs
    <3>4. PICK m \in Forms(db, o) : TRUE
      BY <2>7, <3>2, <3>3
    <3>5. m \in Name
      BY <1>1, <3>3 DEF Forms, Live, DB
    <3>6. o \in Live(db) \cup stray
      BY <1>1, <3>3, <3>4, <3>5, FormsLive
    <3> QED
      BY <2>2, <2>6, <3>1, <3>3, <3>6 DEF ButAliases
  <2>9. \A m \in Name :
            \/ (db').alias[m] = db.alias[m]
            \/ /\ m \in {n} /\ db.alias[m].of = None /\ (db').alias[m].of = e
               /\ (db').alias[m].src = "provider" => e \in Live(db)
               /\ m \in shadowed' \/ Lookup(db, m) \in {None, e}
    BY <2>2, <2>3, <2>4, <2>6
  <2>10. Owned(db, db', e, {n}, stray', shadowed')
    BY <2>4, <2>5, <2>6, <2>8, <2>9 DEF Owned
  <2>11. /\ Live(db') = Live(db) /\ Queue(db) \subseteq Queue(db')
         /\ \A f \in Id \ {e} : Forms(db', f) = Forms(db, f)
         /\ Forms(db', e) \subseteq Forms(db, e) \cup {n}
    <3>1. Giving(db, db', e, {n}, stray, stray', shadowed, shadowed')
      BY <1>1, <2>6, <2>10 DEF Giving
    <3> DEFINE N == {n}
    <3>2. Giving(db, db', e, N, stray, stray', shadowed, shadowed')
      BY <3>1
    <3> HIDE DEF N
    <3>3. /\ Live(db') = Live(db) /\ Queue(db) \subseteq Queue(db')
          /\ \A f \in Id \ {e} : Forms(db', f) = Forms(db, f)
          /\ Forms(db', e) \subseteq Forms(db, e) \cup N
      BY <1>3, <3>2, OwnedIs
    <3> QED
      BY <3>3 DEF N
  <2>12. Told(db', excuse, shadowed')
    <3>1. shadowed' = {} => \A o \in Id \ {e} : n \notin Forms(db, o)
      <4> SUFFICES ASSUME shadowed' = {}, NEW o \in Id \ {e}, n \in Forms(db, o) PROVE FALSE
        OBVIOUS
      <4>1. Lookup(db, n) \in {None, e} /\ db.alias[n].of # o
        BY <1>1, <2>3, <2>6
      <4>2. o \in Live(db) /\ db.name[o] = n
        BY <4>1 DEF Forms
      <4>3. Lookup(db, n) = o
        BY <1>1, <1>3, <4>2, LookupIs
      <4> QED
        BY <1>1, <4>1, <4>3
    <3>2. \A o \in Id \ {e} : \A m \in Forms(db, o) :
              Near(n, m) => {e, o} \in (db').keep \cup Queue(db')
      <4> SUFFICES ASSUME NEW o \in Id \ {e}, NEW m \in Forms(db, o), Near(n, m)
                   PROVE  {e, o} \in (db').keep \cup Queue(db')
        OBVIOUS
      <4>1. {e, o} \in Pair /\ m \in Forms(d, o)
        BY <1>3, <2>7, PairIs
      <4>2. {e, o} \in d.keep \cup d.shared \/ {e, o} \in Found(d, e, n)
        BY <4>1 DEF Found
      <4> QED
        BY <2>4, <4>2 DEF Queue
    <3>3. Gaining(db, db', e, n, excuse, excuse, shadowed, shadowed')
      BY <2>5, <2>6, <2>11, <3>1, <3>2 DEF Gaining
    <3> QED
      BY <1>1, <1>3, <3>3, ToldStays
  <2>13. Typed'
    BY <1>1, <1>2, <1>3, <2>1 DEF Typed
  <2> QED
    BY <1>2, <1>3, <2>5, <2>6, <2>10, <2>12, <2>13, OwnedKeeps
<1>5. CASE d.alias[n].of # e
  <2>1. UNCHANGED <<db, stray, shadowed>>
    BY <1>5 DEF AddAskedAlias
  <2>2. Typed'
    BY <1>1, <1>2, <2>1 DEF Typed
  <2>3. Held(db)'
    BY <1>2, <2>1, HeldStays DEF IInv
  <2> QED
    BY <1>2, <2>1, <2>2, <2>3 DEF Kept, IInv
<1> QED
  BY <1>4, <1>5

LEMMA ApplyProviderAliasKeeps ==
    ASSUME IInv, NEW e \in Id, NEW n \in Name, ApplyProviderAlias(e, n) PROVE Kept
<1>1. /\ Typed /\ db \in DB /\ Whole(db) /\ Living(db, stray) /\ Unshadowed(db, shadowed)
      /\ Told(db, excuse, shadowed) /\ Unique(db) /\ Apart(db) /\ Tree(db) /\ Rested(db) /\ None \notin Id
  BY Constants DEF IInv, Held, Whole
<1>2. e \in Live(db) /\ UNCHANGED <<kind, asked, attaching, seen, stray, shadowed, carried>>
  BY DEF ApplyProviderAlias
<1>3. ASSUME NEW o \in Conflict(db, e, n),
             db' = [db EXCEPT !.weak = @ \cup ({{e, o}} \ (db.keep \cup db.shared))],
             UNCHANGED excuse
      PROVE  Kept
  <2> DEFINE W == db.weak \cup ({{e, o}} \ (db.keep \cup db.shared))
  <2>1. o \in Id \ {e} /\ n \in Forms(db, o) /\ {e, o} \in Pair
    BY PairIs DEF Conflict
  <2>2. o \in Live(db) \cup stray
    BY <1>1, <2>1, FormsLive
  <2>3. W \in SUBSET Pair /\ db' = [db EXCEPT !.weak = W]
    BY <1>1, <1>3, <2>1 DEF DB
  <2> HIDE DEF W
  <2>4. /\ db' \in DB
        /\ (db').weak = W
        /\ (db').name = db.name /\ (db').alias = db.alias /\ (db').parent = db.parent /\ (db').top = db.top
        /\ (db').link = db.link /\ (db').shared = db.shared /\ (db').keep = db.keep /\ (db').ext = db.ext
        /\ (db').memo = db.memo /\ (db').stamp = db.stamp /\ (db').suppressed = db.suppressed
        /\ (db').denied = db.denied
    BY <1>1, <2>3, SetWeak
  <2>5. Live(db') = Live(db)
    BY <2>4, SameNames
  <2>6. Tree(db') /\ Rested(db')
    BY <1>1, <2>4, <2>5, TreeStays, RestedOn
  <2>7. Apart(db')
    BY <1>1, <2>4 DEF Apart, Queue, W
  <2>8. \A p \in Queue(db') : p \subseteq Live(db) \cup stray
    BY <1>1, <1>2, <2>2, <2>4 DEF Living, Queue, W
  <2>9. db.keep \cup Queue(db) \subseteq (db').keep \cup Queue(db')
    BY <2>4 DEF Queue, W
  <2> QED
    BY <1>2, <1>3, <2>4, <2>6, <2>7, <2>8, <2>9, AsideKeeps
<1>4. ASSUME Conflict(db, e, n) = {}, db' = AddAlias(db, e, n, "provider"),
             excuse' = excuse \cup {e}
      PROVE  Kept
  <2>1. /\ db' \in DB /\ ButAliases(db, db')
        /\ db.alias[n].of # None => db' = db
        /\ db.alias[n].of = None => (db').alias[n] = [of |-> e, src |-> "provider"]
        /\ \A m \in Name \ {n} : (db').alias[m] = db.alias[m]
    BY <1>1, <1>4, AddAliasIs
  <2>2. Lookup(db, n) \in {None, e}
    BY <1>1, <1>4, LookupIs DEF Conflict
  <2>3. \A m \in Name :
            \/ (db').alias[m] = db.alias[m]
            \/ /\ m \in {n} /\ db.alias[m].of = None /\ (db').alias[m].of = e
               /\ (db').alias[m].src = "provider" => e \in Live(db)
               /\ m \in shadowed \/ Lookup(db, m) \in {None, e}
    BY <1>2, <2>1, <2>2
  <2>4. /\ (db').name = db.name /\ (db').parent = db.parent /\ (db').top = db.top
        /\ (db').link = db.link /\ (db').shared = db.shared /\ (db').keep = db.keep /\ (db').ext = db.ext
        /\ (db').memo = db.memo /\ (db').stamp = db.stamp /\ (db').suppressed = db.suppressed
        /\ (db').weak = db.weak
    BY <2>1 DEF ButAliases
  <2>5. Owned(db, db', e, {n}, stray, shadowed)
    BY <1>2, <2>1, <2>3, <2>4 DEF Owned
  <2>6. Giving(db, db', e, {n}, stray, stray, shadowed, shadowed)
    BY <1>1, <2>5 DEF Giving
  <2>7. /\ Queue(db) \subseteq Queue(db')
        /\ \A f \in Id \ {e} : Forms(db', f) = Forms(db, f)
    BY <2>6, OwnedIs
  <2>8. Gaining(db, db', e, n, excuse, excuse \cup {e}, shadowed, shadowed)
    BY <2>4, <2>7 DEF Gaining
  <2>9. Told(db', excuse', shadowed')
    BY <1>1, <1>2, <1>4, <2>8, ToldStays
  <2>10. Typed'
    BY <1>1, <1>2, <1>4 DEF Typed
  <2>11. Owned(db, db', e, {n}, stray', shadowed') /\ stray \subseteq stray' /\ shadowed \subseteq shadowed'
    BY <1>2, <2>5
  <2> QED
    BY <1>2, <2>4, <2>9, <2>10, <2>11, OwnedKeeps
<1> QED
  BY <1>3, <1>4 DEF ApplyProviderAlias

\* What the dashed spelling of n does to the tables, and to what is asked about.
LEMMA DashedOwned ==
    ASSUME NEW d, Whole(d), NEW e \in Live(d), NEW n \in Name, NEW missed, NEW hid
    PROVE  /\ Owned(d, AddDashed(d, e, n), e, {m \in Name : Loose[m] = Loose[n]}, missed, hid)
           /\ ButAliases(d, AddDashed(d, e, n))
<1> DEFINE d2 == AddDashed(d, e, n)
           N == {m \in Name : Loose[m] = Loose[n]}
<1>1. d \in DB /\ Unique(d) /\ e \in Id
  BY DEF Whole, Live
<1>2. /\ d2 \in DB /\ ButAliases(d, d2)
      /\ \A m \in Name :
            \/ d2.alias[m] = d.alias[m]
            \/ /\ m = Dash[n] /\ Loose[m] = Loose[n] /\ Conflict(d, e, m) = {}
               /\ d.alias[m].of = None /\ d2.alias[m] = [of |-> e, src |-> "owner"]
  BY <1>1, AddDashedIs
<1> HIDE DEF d2
<1>3. ASSUME NEW m \in Name, Conflict(d, e, m) = {} PROVE Lookup(d, m) \in {None, e}
  BY <1>1, <1>3, LookupIs DEF Conflict
<1>4. \A m \in Name :
          \/ d2.alias[m] = d.alias[m]
          \/ /\ m \in N /\ d.alias[m].of = None /\ d2.alias[m].of = e
             /\ d2.alias[m].src = "provider" => e \in Live(d)
             /\ m \in hid \/ Lookup(d, m) \in {None, e}
  <2> SUFFICES ASSUME NEW m \in Name, d2.alias[m] # d.alias[m]
               PROVE  /\ m \in N /\ d.alias[m].of = None /\ d2.alias[m].of = e
                      /\ d2.alias[m].src = "provider" => e \in Live(d)
                      /\ m \in hid \/ Lookup(d, m) \in {None, e}
    OBVIOUS
  <2>1. /\ Loose[m] = Loose[n] /\ Conflict(d, e, m) = {} /\ d.alias[m].of = None
        /\ d2.alias[m] = [of |-> e, src |-> "owner"]
    BY <1>2
  <2> QED
    BY <1>3, <2>1
<1> HIDE DEF N
<1>5. Owned(d, d2, e, N, missed, hid)
  BY <1>2, <1>4 DEF Owned, ButAliases
<1> QED
  BY <1>2, <1>5 DEF d2, N

LEMMA BackfillKeeps == ASSUME IInv, BackfillDashedTagAliases PROVE Kept
<1>1. /\ Typed /\ db \in DB /\ Whole(db) /\ Living(db, stray) /\ Unshadowed(db, shadowed)
      /\ Told(db, excuse, shadowed) /\ Unique(db) /\ None \notin Id
  BY Constants DEF IInv, Held, Whole
<1>2. PICK e \in Live(db) : db' = AddDashed(db, e, db.name[e])
  BY DEF BackfillDashedTagAliases, Commit
<1>3. UNCHANGED <<kind, asked, attaching, seen, excuse, stray, shadowed, carried>>
  BY DEF BackfillDashedTagAliases, Commit
<1> DEFINE n == db.name[e]
           N == {m \in Name : Loose[m] = Loose[n]}
<1>4. e \in Id /\ n \in Name
  BY <1>1 DEF Live, DB
<1>5. Owned(db, db', e, N, stray, shadowed) /\ ButAliases(db, db')
  BY <1>1, <1>2, <1>4, DashedOwned
<1> HIDE DEF N
<1>6. Giving(db, db', e, N, stray, stray, shadowed, shadowed)
  BY <1>1, <1>5 DEF Giving
<1>7. /\ Queue(db) \subseteq Queue(db')
      /\ \A f \in Id \ {e} : Forms(db', f) = Forms(db, f)
      /\ Forms(db', e) \subseteq Forms(db, e) \cup N
  BY <1>4, <1>6, OwnedIs
<1>8. (db').keep = db.keep /\ (db').link = db.link /\ (db').stamp = db.stamp
  BY <1>5 DEF ButAliases
<1>9. ASSUME shadowed = {}, e \notin excuse, NEW o \in Id \ ({e} \cup excuse), NEW m \in Forms(db, o)
      PROVE  m # n /\ (Near(n, m) => {e, o} \in (db').keep \cup Queue(db'))
  <2>1. m # n
    BY <1>1, <1>9 DEF Forms, Unique, Unshadowed
  <2>2. n \in Forms(db, e)
    BY DEF Forms
  <2>3. ASSUME Near(n, m) PROVE {e, o} \in (db').keep \cup Queue(db')
    <3>1. Alike(db, e, o)
      BY <1>9, <2>2, <2>3 DEF Alike
    <3>2. {e, o} \in db.keep \cup Queue(db)
      BY <1>1, <1>4, <1>9, <3>1 DEF Told
    <3> QED
      BY <1>7, <1>8, <3>2
  <2> QED
    BY <2>1, <2>3
<1>10. Gaining(db, db', e, n, excuse, excuse, shadowed, shadowed)
  BY <1>7, <1>8, <1>9 DEF Gaining, N
<1>11. Told(db', excuse, shadowed)
  BY <1>1, <1>4, <1>10, ToldStays
<1>12. Typed'
  BY <1>1, <1>3 DEF Typed
<1>13. /\ Owned(db, db', e, N, stray', shadowed') /\ Told(db', excuse', shadowed')
       /\ stray \subseteq stray' /\ shadowed \subseteq shadowed'
  BY <1>3, <1>5, <1>11
<1> QED
  BY <1>3, <1>4, <1>8, <1>12, <1>13, OwnedKeeps

LEMMA DeleteAliasKeeps ==
    ASSUME IInv, NEW e \in Id, NEW n \in Name, DeleteAlias(e, n) PROVE Kept
<1>1. /\ Typed /\ db \in DB /\ Whole(db) /\ Living(db, stray) /\ Unshadowed(db, shadowed)
      /\ Told(db, excuse, shadowed) /\ Unique(db) /\ Apart(db) /\ Tree(db) /\ Rested(db)
      /\ Recorded(db) /\ Handed(db) /\ Settled(db, seen, shadowed)
      /\ Contest(db, carried, attaching) /\ Claim(db, carried, attaching)
      /\ None \notin Id /\ Live(db) \subseteq Id
  BY Constants DEF IInv, Held, Whole, Live
<1> DEFINE again == \/ db.alias[n].src = "provider"
                    \/ kind = "tag" /\ e \in Live(db) /\ Dash[db.name[e]] = n
           d == SetAlias(db, n, Unowned)
           kept == IF again THEN db.suppressed \cup {<<e, n>>} ELSE db.suppressed
<1>2. /\ db.alias[n].of = e
      /\ db' = [d EXCEPT !.suppressed = kept]
      /\ seen' = [v \in Video |-> {c \in seen[v] : c[1] # n}]
      /\ UNCHANGED <<kind, asked, attaching, excuse, stray, shadowed, carried>>
  <2>1. d.suppressed = db.suppressed
    BY <1>1, Constants, AliasIs
  <2> HIDE DEF d
  <2>2. [d EXCEPT !.suppressed = IF again THEN @ \cup {<<e, n>>} ELSE @] = [d EXCEPT !.suppressed = kept]
    BY <2>1
  <2> QED
    BY <2>2 DEF DeleteAlias, d
<1>3. /\ d \in DB /\ d.alias = [m \in Name |-> IF m = n THEN Unowned ELSE db.alias[m]]
      /\ ButAliases(db, d)
  BY <1>1, Constants, AliasIs DEF ButAliases
<1>4. again => e \in Live(db)
  BY <1>1, <1>2 DEF Recorded
<1>5. kept \in SUBSET (Live(db) \X Name)
  BY <1>1, <1>4 DEF Recorded
<1> HIDE DEF again, d, kept
<1>6. /\ db' \in DB /\ (db').suppressed = kept
      /\ (db').name = d.name /\ (db').alias = d.alias /\ (db').parent = d.parent /\ (db').top = d.top
      /\ (db').link = d.link /\ (db').weak = d.weak /\ (db').shared = d.shared
      /\ (db').keep = d.keep /\ (db').ext = d.ext
      /\ (db').memo = d.memo /\ (db').stamp = d.stamp /\ (db').denied = d.denied
  <2>1. kept \in SUBSET (Id \X Name)
    BY <1>1, <1>5
  <2> QED
    BY <1>2, <1>3, <2>1 DEF DB
<1>7. /\ (db').name = db.name /\ (db').parent = db.parent /\ (db').top = db.top
      /\ (db').link = db.link /\ (db').weak = db.weak /\ (db').shared = db.shared
      /\ (db').keep = db.keep /\ (db').ext = db.ext
      /\ (db').memo = db.memo /\ (db').stamp = db.stamp
      /\ (db').alias[n] = Unowned /\ \A m \in Name \ {n} : (db').alias[m] = db.alias[m]
  BY <1>3, <1>6 DEF ButAliases
<1>8. Live(db') = Live(db) /\ Queue(db') = Queue(db)
  BY <1>7, SameNames DEF Queue
<1>9. Unique(db') /\ Apart(db') /\ Handed(db') /\ Tree(db')
  <2>1. Tree(db')
    BY <1>1, <1>7, <1>8, TreeStays
  <2> QED
    BY <1>1, <1>7, <1>8, <2>1 DEF Unique, Apart, Handed
<1>10. Recorded(db')
  <2>1. \A m \in Name : (db').alias[m].src = "provider" => (db').alias[m].of \in Live(db')
    BY <1>1, <1>7, <1>8, Constants DEF Recorded
  <2> QED
    BY <1>1, <1>5, <1>6, <1>7, <1>8, <2>1 DEF Recorded
<1>11. Whole(db')
  BY <1>6, <1>9, <1>10 DEF Whole
<1>12. Living(db', stray)
  <2>1. \A m \in Name : (db').alias[m].of \in Live(db') \cup stray \cup {None}
    BY <1>1, <1>7, <1>8, Constants DEF Living
  <2> QED
    BY <1>1, <1>7, <1>8, <2>1 DEF Living
<1>13. Unshadowed(db', shadowed)
  <2> SUFFICES ASSUME NEW f \in Live(db), db.name[f] \notin shadowed
               PROVE  (db').alias[db.name[f]].of \in {None, f}
    BY <1>7, <1>8 DEF Unshadowed
  <2>1. db.name[f] \in Name
    BY <1>1 DEF Live, DB
  <2> QED
    BY <1>1, <1>7, <2>1, Constants DEF Unshadowed
<1>14. \A f \in Id : Forms(db', f) \subseteq Forms(db, f)
  <2>1. \A f \in Id, m \in Name : (db').alias[m].of = f => db.alias[m].of = f
    BY <1>1, <1>7, Constants
  <2> QED
    BY <1>7, <1>8, <2>1 DEF Forms
<1>15. Told(db', excuse, shadowed)
  <2>1. Gaining(db, db', e, n, excuse, excuse, shadowed, shadowed)
    BY <1>7, <1>8, <1>14 DEF Gaining
  <2> QED
    BY <1>1, <2>1, ToldStays
<1>16. Held(db)'
  BY <1>2, <1>11, <1>12, <1>13, <1>15, HeldOn
<1>17. Settled(db', seen', shadowed')
  <2>1. \A m \in Name \ (shadowed \cup {n}) : Lookup(db', m) = Lookup(db, m)
    BY <1>7, <1>8 DEF Lookup
  <2>2. Settled(db', seen, shadowed \cup {n})
    BY <1>1, <1>7, <2>1, SettledOn DEF Typed
  <2> QED
    BY <1>2, <2>2 DEF Settled
<1>18. Rested(db') /\ Contest(db', carried, attaching) /\ Claim(db', carried, attaching)
  BY <1>1, <1>7, <1>8, RestedOn, ContestOn
<1>19. Typed'
  <2>1. seen' \in [Video -> SUBSET (Name \X (Ext \cup {NoExt}))]
    BY <1>1, <1>2 DEF Typed
  <2> QED
    BY <1>1, <1>2, <2>1 DEF Typed
<1> QED
  BY <1>2, <1>7, <1>16, <1>17, <1>18, <1>19 DEF Kept, IInv

LEMMA SharedIs ==
    ASSUME NEW d \in DB, NEW ps \in SUBSET Pair
    PROVE  LET d2 == Shared(d, ps)
           IN  /\ d2 \in DB /\ d2.shared = d.shared \cup (ps \ d.keep) /\ d2.weak = d.weak \ ps
               /\ d2.name = d.name /\ d2.alias = d.alias /\ d2.parent = d.parent /\ d2.top = d.top
               /\ d2.link = d.link /\ d2.keep = d.keep /\ d2.ext = d.ext
               /\ d2.memo = d.memo /\ d2.stamp = d.stamp /\ d2.suppressed = d.suppressed
               /\ d2.denied = d.denied
  BY DEF Shared, DB

LEMMA AttachExternalIDKeeps == ASSUME IInv, AttachExternalID PROVE Kept
<1>1. /\ Typed /\ db \in DB /\ Whole(db) /\ Living(db, stray) /\ Unshadowed(db, shadowed)
      /\ Told(db, excuse, shadowed) /\ Unique(db) /\ Apart(db) /\ Tree(db) /\ Rested(db)
      /\ Recorded(db) /\ Settled(db, seen, shadowed)
      /\ Contest(db, carried, attaching) /\ Claim(db, carried, attaching)
      /\ None \notin Id
  BY Constants DEF IInv, Held, Whole
<1> DEFINE e == attaching[1]
           x == attaching[2]
           d == Attached(db, e, x)
           ps == IF d.ext[x] = e THEN {} ELSE {{e, d.ext[x]}}
<1>2. /\ attaching # <<>> /\ attaching' = <<>>
      /\ db' = IF d.ext[x] = e THEN d ELSE Shared(d, {{e, d.ext[x]}})
      /\ stray' = IF e \in Live(db) THEN stray ELSE stray \cup {e}
      /\ carried' = (carried \/ FirstOwner(d))
      /\ UNCHANGED <<kind, asked, seen, excuse, shadowed>>
  BY DEF AttachExternalID
<1>3. e \in Id /\ x \in Ext /\ x # NoExt
  BY <1>1, <1>2, Constants DEF Typed
<1>4. /\ d \in DB
      /\ d.name = db.name /\ d.alias = db.alias /\ d.parent = db.parent /\ d.top = db.top
      /\ d.weak = db.weak /\ d.shared = db.shared /\ d.keep = db.keep /\ d.link = db.link
      /\ d.memo = db.memo /\ d.suppressed = db.suppressed /\ d.stamp = db.stamp
      /\ d.ext[x] # None
      /\ \A y \in Ext : d.ext[y] = db.ext[y] \/ (y = x /\ db.ext[y] = None /\ d.ext[y] = e)
  BY <1>1, <1>3, AttachedIs
<1>5. d.ext[x] \in Id /\ d.ext[x] \in Live(db) \cup stray \cup {e}
  BY <1>1, <1>3, <1>4 DEF Living, DB
<1>6. ps \in SUBSET Pair
  BY <1>3, <1>5, PairIs
<1>7. e \in Live(db) \cup stray' /\ stray \subseteq stray'
  BY <1>2
<1> HIDE DEF d, e, x
<1>8. /\ db' \in DB /\ (db').shared = db.shared \cup (ps \ db.keep) /\ (db').weak = db.weak \ ps
      /\ (db').name = db.name /\ (db').alias = db.alias /\ (db').parent = db.parent /\ (db').top = db.top
      /\ (db').link = db.link /\ (db').keep = db.keep /\ (db').ext = d.ext
      /\ (db').memo = db.memo /\ (db').stamp = db.stamp /\ (db').suppressed = db.suppressed
  <2>1. CASE d.ext[x] = e
    BY <1>2, <1>4, <2>1
  <2>2. CASE d.ext[x] # e
    <3>1. db' = Shared(d, ps)
      BY <1>2, <2>2
    <3> HIDE DEF ps
    <3> QED
      BY <1>4, <1>6, <3>1, SharedIs
  <2> QED
    BY <2>1, <2>2
<1>9. Live(db') = Live(db)
  BY <1>8, SameNames
<1>10. Apart(db') /\ Recorded(db') /\ Tree(db')
  <2>1. Tree(db')
    BY <1>1, <1>8, <1>9, TreeStays
  <2> HIDE DEF ps
  <2> QED
    BY <1>1, <1>8, <1>9, <2>1 DEF Apart, Queue, Recorded
<1>11. /\ Whole(db') /\ Living(db', stray') /\ Unshadowed(db', shadowed) /\ Told(db', excuse, shadowed)
       /\ \A n : Lookup(db', n) = Lookup(db, n)
  <2>1. \A p \in ps : p \subseteq Live(db) \cup stray'
    BY <1>5, <1>7
  <2> HIDE DEF ps
  <2>2. \A p \in Queue(db') : p \subseteq Live(db) \cup stray'
    BY <1>1, <1>7, <1>8, <2>1 DEF Living, Queue
  <2>3. \A y \in Ext : (db').ext[y] \in Live(db) \cup stray' \cup {None}
    BY <1>1, <1>4, <1>7, <1>8 DEF Living
  <2>4. db.keep \cup Queue(db) \subseteq (db').keep \cup Queue(db')
    BY <1>8 DEF Queue
  <2> QED
    BY <1>1, <1>7, <1>8, <1>10, <2>2, <2>3, <2>4, Aside
<1>12. Held(db)'
  BY <1>2, <1>11, HeldOn
<1>13. Rested(db')
  BY <1>1, <1>8, <1>9, RestedOn
<1>14. Settled(db', seen, shadowed)
  <2>1. \A y \in Ext : db.ext[y] # None => (db').ext[y] = db.ext[y]
    BY <1>4, <1>8
  <2> QED
    BY <1>1, <1>8, <1>11, <2>1, SettledOn DEF Typed
<1>15. Contest(db', carried', <<>>)
  <2> SUFFICES ASSUME NEW y \in Ext, NEW f \in Live(db), db.memo[f] = y, d.ext[y] \notin {None, f},
                      ~carried, ~FirstOwner(d)
               PROVE  {f, d.ext[y]} \in (db').keep \cup (db').shared
    BY <1>2, <1>8, <1>9 DEF Contest
  <2>1. CASE f = e
    <3>1. y = x
      BY <1>1, <1>2, <1>3, <2>1, Constants DEF Claim, e, x
    <3>2. d.ext[x] # e
      BY <2>1, <3>1
    <3> QED
      BY <1>8, <2>1, <3>1, <3>2
  <2>2. CASE f # e
    <3>1. db.ext[y] # None
      BY <1>2, <2>2 DEF FirstOwner, Claiming, e
    <3>2. d.ext[y] = db.ext[y]
      BY <1>4, <3>1
    <3>3. {f, db.ext[y]} \in db.keep \cup db.shared
      BY <1>1, <1>2, <2>2, <3>2 DEF Contest, e
    <3> QED
      BY <1>8, <3>2, <3>3
  <2> QED
    BY <2>1, <2>2
<1>16. Claim(db', carried', <<>>)
  BY DEF Claim
<1>17. Typed'
  <2>1. carried' \in BOOLEAN
    BY <1>1, <1>2 DEF Typed, FirstOwner
  <2> QED
    BY <1>1, <1>2, <1>3, <2>1 DEF Typed
<1> QED
  BY <1>2, <1>8, <1>12, <1>13, <1>14, <1>15, <1>16, <1>17 DEF Kept, IInv

LEMMA SharedSweepKeeps == ASSUME IInv, SweepSharedExternalIDs PROVE Kept
<1>1. /\ Typed /\ db \in DB /\ Whole(db) /\ Living(db, stray) /\ Unshadowed(db, shadowed)
      /\ Told(db, excuse, shadowed) /\ Unique(db) /\ Apart(db) /\ Tree(db) /\ Rested(db)
      /\ Recorded(db) /\ Settled(db, seen, shadowed) /\ None \notin Id
  BY Constants DEF IInv, Held, Whole
<1> DEFINE ps == {p \in Pair : \E x \in Ext : p \subseteq Claimants(db, x)}
<1>2. /\ attaching = <<>> /\ db' = Shared(db, ps) /\ carried' = FALSE
      /\ UNCHANGED <<kind, asked, attaching, seen, excuse, stray, shadowed>>
  BY DEF SweepSharedExternalIDs
<1>3. \A p \in ps : p \subseteq Live(db) \cup stray
  BY <1>1, PairIs DEF Claimants, Living
<1>4. \A x \in Ext, f \in Live(db) :
          db.memo[f] = x /\ db.ext[x] \notin {None, f} => {f, db.ext[x]} \in ps
  <2> SUFFICES ASSUME NEW x \in Ext, NEW f \in Live(db), db.memo[f] = x, db.ext[x] \notin {None, f}
               PROVE  {f, db.ext[x]} \in ps
    OBVIOUS
  <2>1. f \in Id /\ db.ext[x] \in Id
    BY <1>1 DEF Live, DB
  <2>2. {f, db.ext[x]} \in Pair
    BY <2>1, PairIs
  <2>3. {f, db.ext[x]} \subseteq Claimants(db, x)
    BY DEF Claimants
  <2> QED
    BY <2>2, <2>3
<1>5. ps \in SUBSET Pair
  OBVIOUS
<1> HIDE DEF ps
<1>6. /\ db' \in DB /\ (db').shared = db.shared \cup (ps \ db.keep) /\ (db').weak = db.weak \ ps
      /\ (db').name = db.name /\ (db').alias = db.alias /\ (db').parent = db.parent /\ (db').top = db.top
      /\ (db').link = db.link /\ (db').keep = db.keep /\ (db').ext = db.ext
      /\ (db').memo = db.memo /\ (db').stamp = db.stamp /\ (db').suppressed = db.suppressed
  BY <1>1, <1>2, <1>5, SharedIs
<1>7. Live(db') = Live(db)
  BY <1>6, SameNames
<1>8. Apart(db') /\ Recorded(db') /\ Tree(db')
  <2>1. Tree(db')
    BY <1>1, <1>6, <1>7, TreeStays
  <2> QED
    BY <1>1, <1>6, <1>7, <2>1 DEF Apart, Queue, Recorded
<1>9. /\ Whole(db') /\ Living(db', stray) /\ Unshadowed(db', shadowed) /\ Told(db', excuse, shadowed)
      /\ \A n : Lookup(db', n) = Lookup(db, n)
  <2>1. \A p \in Queue(db') : p \subseteq Live(db) \cup stray
    BY <1>1, <1>3, <1>6 DEF Living, Queue
  <2>2. \A y \in Ext : (db').ext[y] \in Live(db) \cup stray \cup {None}
    BY <1>1, <1>6 DEF Living
  <2>3. db.keep \cup Queue(db) \subseteq (db').keep \cup Queue(db')
    BY <1>6 DEF Queue
  <2> QED
    BY <1>1, <1>6, <1>8, <2>1, <2>2, <2>3, Aside
<1>10. Held(db)'
  BY <1>2, <1>9, HeldOn
<1>11. Rested(db') /\ Settled(db', seen, shadowed)
  BY <1>1, <1>6, <1>7, <1>9, RestedOn, SettledOn DEF Typed
<1>12. Contest(db', carried', attaching) /\ Claim(db', carried', attaching)
  BY <1>2, <1>4, <1>6, <1>7 DEF Contest, Claim
<1>13. Typed'
  BY <1>1, <1>2 DEF Typed
<1> QED
  BY <1>2, <1>6, <1>10, <1>11, <1>12, <1>13 DEF Kept, IInv

LEMMA SeedKeeps == ASSUME IInv, SeedIdentityReviewQueue PROVE Kept
<1>1. /\ Typed /\ db \in DB /\ Whole(db) /\ Living(db, stray) /\ Unshadowed(db, shadowed)
      /\ Told(db, excuse, shadowed) /\ Unique(db) /\ Apart(db) /\ Tree(db) /\ Rested(db)
      /\ Recorded(db) /\ Settled(db, seen, shadowed)
      /\ Contest(db, carried, attaching) /\ Claim(db, carried, attaching)
  BY DEF IInv, Held, Whole
<1> DEFINE ps == {p \in Pair \ (db.keep \cup db.shared) : \E e, f \in p : e # f /\ Alike(db, e, f)}
           W == db.weak \cup ps
<1>2. /\ db' = [db EXCEPT !.weak = W] /\ excuse' = {}
      /\ UNCHANGED <<kind, asked, attaching, seen, stray, shadowed, carried>>
  BY DEF SeedIdentityReviewQueue
<1>3. W \in SUBSET Pair
  BY <1>1 DEF DB
<1> HIDE DEF W
<1>4. /\ db' \in DB /\ (db').weak = W
      /\ (db').name = db.name /\ (db').alias = db.alias /\ (db').parent = db.parent /\ (db').top = db.top
      /\ (db').link = db.link /\ (db').shared = db.shared /\ (db').keep = db.keep /\ (db').ext = db.ext
      /\ (db').memo = db.memo /\ (db').stamp = db.stamp /\ (db').suppressed = db.suppressed
  BY <1>1, <1>2, <1>3, SetWeak
<1>5. /\ Live(db') = Live(db) /\ \A e, f : Alike(db', e, f) = Alike(db, e, f)
  BY <1>4, SameForms
<1>6. ASSUME NEW p \in ps PROVE p \subseteq Live(db) \cup stray /\ p \notin db.keep \cup db.shared
  <2>1. PICK e \in p, f \in p : e # f /\ Alike(db, e, f)
    OBVIOUS
  <2>2. p \in Pair /\ e \in Id /\ f \in Id /\ p = {e, f}
    BY <2>1, PairIs
  <2>3. PICK n \in Forms(db, e), m \in Forms(db, f) : TRUE
    BY <2>1 DEF Alike
  <2>4. n \in Name /\ m \in Name
    BY <1>1, <2>2, <2>3 DEF Forms, Live, DB
  <2>5. e \in Live(db) \cup stray /\ f \in Live(db) \cup stray
    BY <1>1, <2>2, <2>3, <2>4, FormsLive
  <2> QED
    BY <2>2, <2>5
<1>7. ASSUME NEW e \in Id, NEW f \in Id, e # f, Alike(db, e, f)
      PROVE  {e, f} \in (db').keep \cup Queue(db')
  <2>1. {e, f} \in Pair
    BY <1>7, PairIs
  <2>2. {e, f} \in db.keep \cup db.shared \/ {e, f} \in ps
    BY <1>7, <2>1
  <2> QED
    BY <1>4, <2>2 DEF Queue, W
<1> HIDE DEF ps
<1>8. Apart(db') /\ Recorded(db') /\ Tree(db')
  <2>1. Tree(db')
    BY <1>1, <1>4, <1>5, TreeStays
  <2> QED
    BY <1>1, <1>4, <1>5, <1>6, <2>1 DEF Apart, Queue, Recorded, W
<1>9. /\ Whole(db') /\ Living(db', stray) /\ Unshadowed(db', shadowed)
      /\ \A n : Lookup(db', n) = Lookup(db, n)
  <2>1. \A p \in Queue(db') : p \subseteq Live(db) \cup stray
    BY <1>1, <1>4, <1>6 DEF Living, Queue, W
  <2>2. \A y \in Ext : (db').ext[y] \in Live(db) \cup stray \cup {None}
    BY <1>1, <1>4 DEF Living
  <2>3. db.keep \cup Queue(db) \subseteq (db').keep \cup Queue(db')
    BY <1>4 DEF Queue, W
  <2> QED
    BY <1>1, <1>4, <1>8, <2>1, <2>2, <2>3, Aside
<1>10. Told(db', {}, shadowed)
  BY <1>5, <1>7 DEF Told
<1>11. Held(db)'
  BY <1>2, <1>9, <1>10, HeldOn
<1>12. Rested(db') /\ Settled(db', seen, shadowed)
  BY <1>1, <1>4, <1>5, <1>9, RestedOn, SettledOn DEF Typed
<1>13. Contest(db', carried, attaching) /\ Claim(db', carried, attaching)
  BY <1>1, <1>4, <1>5, ContestOn
<1>14. Typed'
  BY <1>1, <1>2 DEF Typed
<1> QED
  BY <1>2, <1>4, <1>11, <1>12, <1>13, <1>14 DEF Kept, IInv

\* A new name for e, which is no one's yet; an alias of another's is hidden by it.
Renaming(d, e, n, missed, ex, hid, hid2) ==
    /\ Whole(d) /\ Living(d, missed) /\ Unshadowed(d, hid) /\ Told(d, ex, hid)
    /\ e \in Live(d) /\ n \in Name /\ (\A f \in Live(d) : d.name[f] # n)
    /\ hid \subseteq hid2 /\ (d.alias[n].of \in {None, e} \/ n \in hid2)

\* The tables a rename leaves: the names, and what became of the aliases.
LEMMA RenamedTables ==
    ASSUME NEW d \in DB, NEW e \in Id, d.name[e] \in Name, NEW n \in Name, d.name[e] # n
    PROVE  LET d2 == Renamed(d, e, n)
               old == d.name[e]
           IN  /\ d2 \in DB /\ d2.name = [d.name EXCEPT ![e] = n] /\ Live(d2) = Live(d)
               /\ d2.parent = d.parent /\ d2.top = d.top
               /\ d2.link = d.link /\ d2.shared = d.shared /\ d2.keep = d.keep /\ d2.ext = d.ext
               /\ d2.memo = d.memo /\ d2.stamp = d.stamp /\ d2.suppressed = d.suppressed
               /\ d2.denied = d.denied
               /\ d2.alias[old].of # None
               /\ \A m \in Name :
                     \/ d2.alias[m] = d.alias[m]
                     \/ /\ d2.alias[m].of = e /\ d2.alias[m].src = "owner"
                        /\ d.alias[m].of \in {None, e}
                        /\ \/ m = old
                           \/ Loose[m] = Loose[n] /\ \A f \in Id \ {e} : d.name[f] # m
                     \/ m = n /\ d2.alias[m] = Unowned /\ d.alias[m].of = e
               /\ d.weak \subseteq d2.weak
               /\ \A p \in d2.weak \ d.weak :
                     /\ p \in Pair \ (d.keep \cup d.shared)
                     /\ \E o \in Id \ {e} : p = {e, o} /\ Forms(d2, o) # {}
               /\ \A o \in Id \ {e} : \A m \in Forms(d2, o) :
                     Near(n, m) => {e, o} \in d2.keep \cup Queue(d2)
<1> DEFINE old == d.name[e]
           da == [d EXCEPT !.name[e] = n]
           d1 == AddAlias(da, e, old, "owner")
           d2 == IF d1.alias[n].of = e THEN SetAlias(d1, n, Unowned) ELSE d1
           d3 == AddDashed(d2, e, n)
           d4 == Flag(d3, e, n)
           d5 == Flag(d4, e, old)
<1>1. Renamed(d, e, n) = d5
  BY DEF Renamed
<1>2. NoName \notin Name /\ None \notin Id /\ Unowned \in Row /\ Unowned.of = None
  BY Constants
<1>3. /\ da \in DB /\ da.name = [d.name EXCEPT ![e] = n] /\ da.alias = d.alias /\ da.parent = d.parent
      /\ da.top = d.top /\ da.link = d.link /\ da.weak = d.weak /\ da.shared = d.shared
      /\ da.keep = d.keep /\ da.ext = d.ext
      /\ da.memo = d.memo /\ da.stamp = d.stamp /\ da.suppressed = d.suppressed
      /\ da.denied = d.denied
  BY DEF DB
<1> HIDE DEF da
<1>4. /\ d1 \in DB /\ ButAliases(da, d1)
      /\ da.alias[old].of # None => d1 = da
      /\ da.alias[old].of = None => d1.alias[old] = [of |-> e, src |-> "owner"]
      /\ \A m \in Name \ {old} : d1.alias[m] = da.alias[m]
  BY <1>3, AddAliasIs
<1> HIDE DEF d1
<1>5. /\ d2 \in DB /\ ButAliases(d1, d2)
      /\ d1.alias[n].of = e => d2.alias[n] = Unowned
      /\ d1.alias[n].of # e => d2 = d1
      /\ \A m \in Name \ {n} : d2.alias[m] = d1.alias[m]
  <2>1. CASE d1.alias[n].of = e
    <3> DEFINE dd == SetAlias(d1, n, Unowned)
    <3>1. /\ dd \in DB /\ ButAliases(d1, dd)
          /\ dd.alias = [m \in Name |-> IF m = n THEN Unowned ELSE d1.alias[m]]
      BY <1>2, <1>4, AliasIs DEF ButAliases
    <3>2. d2 = dd
      BY <2>1
    <3> HIDE DEF dd, d2
    <3> QED
      BY <2>1, <3>1, <3>2
  <2>2. CASE d1.alias[n].of # e
    BY <1>4, <2>2 DEF ButAliases
  <2> QED
    BY <2>1, <2>2
<1> HIDE DEF d2
<1>6. /\ d3 \in DB /\ ButAliases(d2, d3)
      /\ \A m \in Name :
            \/ d3.alias[m] = d2.alias[m]
            \/ /\ m = Dash[n] /\ Loose[m] = Loose[n] /\ Conflict(d2, e, m) = {}
               /\ d2.alias[m].of = None /\ d3.alias[m] = [of |-> e, src |-> "owner"]
  BY <1>5, AddDashedIs
<1> HIDE DEF d3
<1>7. /\ d4 \in DB /\ d4.weak = d3.weak \cup Found(d3, e, n)
      /\ d4.name = d3.name /\ d4.alias = d3.alias /\ d4.parent = d3.parent /\ d4.top = d3.top
      /\ d4.link = d3.link /\ d4.shared = d3.shared /\ d4.keep = d3.keep /\ d4.ext = d3.ext
      /\ d4.memo = d3.memo /\ d4.stamp = d3.stamp /\ d4.suppressed = d3.suppressed
      /\ d4.denied = d3.denied
  BY <1>6, FlagIs
<1> HIDE DEF d4
<1>8. /\ d5 \in DB /\ d5.weak = d4.weak \cup Found(d4, e, old)
      /\ d5.name = d4.name /\ d5.alias = d4.alias /\ d5.parent = d4.parent /\ d5.top = d4.top
      /\ d5.link = d4.link /\ d5.shared = d4.shared /\ d5.keep = d4.keep /\ d5.ext = d4.ext
      /\ d5.memo = d4.memo /\ d5.stamp = d4.stamp /\ d5.suppressed = d4.suppressed
      /\ d5.denied = d4.denied
  BY <1>7, FlagIs
<1> HIDE DEF d5
<1>9. /\ d5.name = [d.name EXCEPT ![e] = n] /\ d5.parent = d.parent /\ d5.top = d.top
      /\ d5.link = d.link /\ d5.shared = d.shared /\ d5.keep = d.keep /\ d5.ext = d.ext
      /\ d5.memo = d.memo /\ d5.stamp = d.stamp /\ d5.suppressed = d.suppressed
      /\ d5.denied = d.denied /\ d5.alias = d3.alias /\ d2.name = d5.name /\ d3.name = d5.name
      /\ d3.weak = d.weak /\ d5.weak = d.weak \cup Found(d3, e, n) \cup Found(d4, e, old)
  BY <1>3, <1>4, <1>5, <1>6, <1>7, <1>8 DEF ButAliases
<1>10. Live(d5) = Live(d) /\ e \in Live(d5)
  BY <1>2, <1>9 DEF Live, DB
<1>11. /\ Live(d5) = Live(d4) /\ Live(d5) = Live(d3)
       /\ \A f : Forms(d4, f) = Forms(d5, f) /\ Forms(d3, f) = Forms(d5, f)
  BY <1>7, <1>8, SameForms
<1>12. ASSUME NEW m \in Name
       PROVE  \/ d5.alias[m] = d.alias[m]
              \/ /\ d5.alias[m].of = e /\ d5.alias[m].src = "owner"
                 /\ d.alias[m].of \in {None, e}
                 /\ \/ m = old
                    \/ Loose[m] = Loose[n] /\ \A f \in Id \ {e} : d.name[f] # m
              \/ m = n /\ d5.alias[m] = Unowned /\ d.alias[m].of = e
  <2>1. \/ d1.alias[m] = d.alias[m]
        \/ m = old /\ d.alias[m].of = None /\ d1.alias[m] = [of |-> e, src |-> "owner"]
    BY <1>3, <1>4
  <2>2. \/ d2.alias[m] = d1.alias[m]
        \/ m = n /\ d1.alias[m].of = e /\ d2.alias[m] = Unowned
    BY <1>5
  <2>3. \/ d2.alias[m] = d.alias[m]
        \/ m = old /\ d.alias[m].of = None /\ d2.alias[m] = [of |-> e, src |-> "owner"]
        \/ m = n /\ d.alias[m].of = e /\ d2.alias[m] = Unowned
    BY <2>1, <2>2
  <2>4. CASE d3.alias[m] = d2.alias[m]
    BY <1>9, <2>3, <2>4
  <2>5. CASE /\ m = Dash[n] /\ Loose[m] = Loose[n] /\ Conflict(d2, e, m) = {}
             /\ d2.alias[m].of = None /\ d3.alias[m] = [of |-> e, src |-> "owner"]
    <3>1. d.alias[m].of \in {None, e}
      BY <1>2, <2>3, <2>5
    <3>2. \A f \in Id \ {e} : d.name[f] # m
      <4> SUFFICES ASSUME NEW f \in Id \ {e}, d.name[f] = m PROVE FALSE
        OBVIOUS
      <4>1. d2.name[f] = m /\ f \in Live(d2)
        BY <1>2, <1>9 DEF Live, DB
      <4> QED
        BY <2>5, <4>1 DEF Conflict, Forms
    <3> QED
      BY <1>9, <2>5, <3>1, <3>2
  <2> QED
    BY <1>6, <2>4, <2>5
<1>13. d5.alias[old].of # None
  <2>1. d1.alias[old].of # None
    BY <1>2, <1>3, <1>4
  <2>2. d2.alias[old].of # None
    BY <1>5, <2>1
  <2> QED
    BY <1>2, <1>6, <1>9, <2>2
<1>14. ASSUME NEW p \in d5.weak \ d.weak
       PROVE  /\ p \in Pair \ (d.keep \cup d.shared)
              /\ \E o \in Id \ {e} : p = {e, o} /\ Forms(d5, o) # {}
  <2>1. p \in Found(d3, e, n) \cup Found(d4, e, old)
    BY <1>9
  <2>2. /\ p \in Pair \ (d.keep \cup d.shared) /\ e \in p
        /\ \E o \in p \ {e} : Forms(d5, o) # {}
    BY <1>7, <1>8, <1>9, <1>11, <2>1 DEF Found
  <2> QED
    BY <2>2, PairIs
<1>15. ASSUME NEW o \in Id \ {e}, NEW m \in Forms(d5, o), Near(n, m)
       PROVE  {e, o} \in d5.keep \cup Queue(d5)
  <2>1. {e, o} \in Pair /\ m \in Forms(d3, o)
    BY <1>11, PairIs
  <2>2. {e, o} \in d3.keep \cup d3.shared \/ {e, o} \in Found(d3, e, n)
    BY <1>15, <2>1 DEF Found
  <2> QED
    BY <1>7, <1>8, <1>9, <2>2 DEF Queue
<1>16. d5 \in DB
  BY <1>8
<1> HIDE DEF old
<1> QED
  BY <1>1, <1>9, <1>10, <1>12, <1>13, <1>14, <1>15, <1>16 DEF old

LEMMA RenamedIs ==
    ASSUME NEW d, NEW e \in Id, NEW n, NEW missed, NEW ex, NEW hid, NEW hid2,
           Renaming(d, e, n, missed, ex, hid, hid2)
    PROVE  LET d2 == Renamed(d, e, n)
           IN  /\ Whole(d2) /\ Living(d2, missed) /\ Unshadowed(d2, hid2) /\ Told(d2, ex, hid2)
               /\ Live(d2) = Live(d) /\ d2.link = d.link /\ d2.ext = d.ext /\ d2.memo = d.memo
               /\ d2.stamp = d.stamp /\ d2.keep = d.keep /\ d2.shared = d.shared
               /\ \A m \in Name \ hid2 : Lookup(d, m) # None => Lookup(d2, m) = Lookup(d, m)
<1> DEFINE d2 == Renamed(d, e, n)
           old == d.name[e]
<1>1. /\ d \in DB /\ Unique(d) /\ Apart(d) /\ Recorded(d) /\ Handed(d) /\ Tree(d)
      /\ Living(d, missed) /\ Unshadowed(d, hid) /\ Told(d, ex, hid)
      /\ e \in Live(d) /\ n \in Name /\ (\A f \in Live(d) : d.name[f] # n)
      /\ hid \subseteq hid2 /\ (d.alias[n].of \in {None, e} \/ n \in hid2)
      /\ None \notin Id /\ Live(d) \subseteq Id /\ NoName \notin Name /\ Unowned.of = None
      /\ Unowned.src = "owner"
  BY Constants DEF Renaming, Whole, Live
<1>2. old \in Name /\ old # n
  BY <1>1 DEF Live, DB
<1>3. /\ d2 \in DB /\ d2.name = [d.name EXCEPT ![e] = n] /\ Live(d2) = Live(d)
      /\ d2.parent = d.parent /\ d2.top = d.top
      /\ d2.link = d.link /\ d2.shared = d.shared /\ d2.keep = d.keep /\ d2.ext = d.ext
      /\ d2.memo = d.memo /\ d2.stamp = d.stamp /\ d2.suppressed = d.suppressed
      /\ d2.denied = d.denied
      /\ d2.alias[old].of # None
      /\ \A m \in Name :
            \/ d2.alias[m] = d.alias[m]
            \/ /\ d2.alias[m].of = e /\ d2.alias[m].src = "owner"
               /\ d.alias[m].of \in {None, e}
               /\ \/ m = old
                  \/ Loose[m] = Loose[n] /\ \A f \in Id \ {e} : d.name[f] # m
            \/ m = n /\ d2.alias[m] = Unowned /\ d.alias[m].of = e
      /\ d.weak \subseteq d2.weak
      /\ \A p \in d2.weak \ d.weak :
            /\ p \in Pair \ (d.keep \cup d.shared)
            /\ \E o \in Id \ {e} : p = {e, o} /\ Forms(d2, o) # {}
      /\ \A o \in Id \ {e} : \A m \in Forms(d2, o) :
            Near(n, m) => {e, o} \in d2.keep \cup Queue(d2)
  BY <1>1, <1>2, RenamedTables
<1> HIDE DEF d2
<1>4. d2.name[e] = n /\ \A f \in Id \ {e} : d2.name[f] = d.name[f]
  BY <1>1, <1>3 DEF DB
<1>5. Unique(d2)
  BY <1>1, <1>3, <1>4 DEF Unique
<1>6. Apart(d2) /\ Handed(d2) /\ Tree(d2)
  <2>1. Tree(d2)
    BY <1>1, <1>3, TreeStays
  <2>2. Apart(d2)
    BY <1>1, <1>3 DEF Apart, Queue
  <2> QED
    BY <1>1, <1>3, <2>1, <2>2 DEF Handed
<1>7. Recorded(d2)
  <2>1. \A m \in Name : d2.alias[m].src = "provider" => d2.alias[m].of \in Live(d2)
    BY <1>1, <1>3 DEF Recorded
  <2> QED
    BY <1>1, <1>3, <2>1 DEF Recorded
<1>8. \A f \in Id \ {e} : Forms(d2, f) \subseteq Forms(d, f)
  <2>1. \A f \in Id \ {e}, m \in Name : d2.alias[m].of = f => d.alias[m].of = f
    BY <1>1, <1>3
  <2> QED
    BY <1>3, <1>4, <2>1 DEF Forms
<1>9. Living(d2, missed)
  <2>1. \A m \in Name : d2.alias[m].of \in Live(d2) \cup missed \cup {None}
    BY <1>1, <1>3 DEF Living
  <2>2. ASSUME NEW p \in Queue(d2) PROVE p \subseteq Live(d2) \cup missed
    <3>1. CASE p \in Queue(d)
      BY <1>1, <1>3, <3>1 DEF Living
    <3>2. CASE p \notin Queue(d)
      <4>1. PICK o \in Id \ {e} : p = {e, o} /\ Forms(d2, o) # {}
        BY <1>3, <3>2 DEF Queue
      <4>2. PICK m \in Forms(d, o) : TRUE
        BY <1>8, <4>1
      <4>3. o \in Live(d) \cup missed
        BY <1>1, <4>2, FormsLive
      <4> QED
        BY <1>1, <1>3, <4>1, <4>3
    <3> QED
      BY <3>1, <3>2
  <2> QED
    BY <1>1, <1>3, <2>1, <2>2 DEF Living
<1>10. Unshadowed(d2, hid2)
  <2> SUFFICES ASSUME NEW f \in Live(d), d2.name[f] \notin hid2
               PROVE  d2.alias[d2.name[f]].of \in {None, f}
    BY <1>3 DEF Unshadowed
  <2>1. CASE f = e
    BY <1>1, <1>3, <1>4, <2>1
  <2>2. CASE f # e
    <3>1. d2.name[f] = d.name[f] /\ d.name[f] \in Name /\ d.name[f] \notin {n, old}
      BY <1>1, <1>4, <2>2 DEF Live, DB, Unique
    <3>2. d.alias[d.name[f]].of \in {None, f}
      BY <1>1, <3>1 DEF Unshadowed
    <3> QED
      BY <1>1, <1>3, <2>2, <3>1, <3>2
  <2> QED
    BY <2>1, <2>2
<1>11. ASSUME NEW m \in Name \ hid2, Lookup(d, m) # None PROVE Lookup(d2, m) = Lookup(d, m)
  <2>5. d2 \in DB /\ Live(d2) = Live(d)
    BY <1>3
  <2>6. /\ \A f \in Live(d) : d2.name[f] = m => Lookup(d2, m) = f
        /\ (\A f \in Live(d) : d2.name[f] # m) => Lookup(d2, m) = d2.alias[m].of
    BY <1>5, <2>5, LookupIs
  <2>7. /\ \A f \in Live(d) : d.name[f] = m => Lookup(d, m) = f
        /\ (\A f \in Live(d) : d.name[f] # m) => Lookup(d, m) = d.alias[m].of
    BY <1>1, LookupIs
  <2>1. CASE \E f \in Live(d) \ {e} : d.name[f] = m
    <3>1. PICK f \in Live(d) \ {e} : d.name[f] = m
      BY <2>1
    <3>2. d2.name[f] = m
      BY <1>1, <1>4, <3>1
    <3> QED
      BY <2>6, <2>7, <3>1, <3>2
  <2>2. CASE m = old
    <3>1. d.alias[old].of \in {None, e}
      BY <1>1, <2>2 DEF Unshadowed
    <3>2. d2.alias[old].of = e
      BY <1>1, <1>2, <1>3, <3>1
    <3>3. \A f \in Live(d2) : d2.name[f] # old
      BY <1>1, <1>2, <1>3, <1>4 DEF Unique
    <3>4. Lookup(d2, old) = e
      BY <1>2, <2>2, <2>5, <2>6, <3>2, <3>3
    <3>5. Lookup(d, old) = e
      BY <1>1, <2>2, <2>7
    <3> QED
      BY <2>2, <3>4, <3>5
  <2>3. CASE m = n
    <3>1. Lookup(d, n) = d.alias[n].of /\ Lookup(d2, n) = e
      BY <1>1, <1>4, <2>3, <2>6, <2>7
    <3> QED
      BY <1>1, <1>11, <2>3, <3>1
  <2>4. CASE m \notin {n, old} /\ ~\E f \in Live(d) \ {e} : d.name[f] = m
    <3>1. (\A f \in Live(d) : d.name[f] # m) /\ (\A f \in Live(d2) : d2.name[f] # m)
      BY <1>1, <1>3, <1>4, <2>4
    <3>2. Lookup(d2, m) = d2.alias[m].of /\ Lookup(d, m) = d.alias[m].of
      BY <2>5, <2>6, <2>7, <3>1
    <3> QED
      BY <1>3, <1>11, <2>4, <3>2
  <2> QED
    BY <2>1, <2>2, <2>3, <2>4
<1>12. Told(d2, ex, hid2)
  <2>1. ASSUME NEW m \in Forms(d2, e) PROVE m \in Forms(d, e) \/ Loose[m] = Loose[n]
    <3>1. CASE m = n
      BY <3>1
    <3>2. CASE m # n
      <4>1. m \in Name /\ d2.alias[m].of = e
        BY <1>4, <3>2 DEF Forms
      <4> QED
        BY <1>1, <1>3, <3>2, <4>1 DEF Forms
    <3> QED
      BY <3>1, <3>2
  <2>2. ASSUME hid2 = {}, NEW o \in Id \ {e}, NEW m \in Forms(d2, o) PROVE m # n
    <3>1. m \in Forms(d, o)
      BY <1>8
    <3> QED
      BY <1>1, <2>2, <3>1 DEF Forms
  <2>3. Queue(d) \subseteq Queue(d2)
    BY <1>3 DEF Queue
  <2>4. Gaining(d, d2, e, n, ex, ex, hid, hid2)
    BY <1>1, <1>3, <1>8, <2>1, <2>2, <2>3 DEF Gaining
  <2> QED
    BY <1>1, <2>4, ToldStays
<1>13. Whole(d2)
  BY <1>3, <1>5, <1>6, <1>7 DEF Whole
<1> QED
  BY <1>3, <1>9, <1>10, <1>11, <1>12, <1>13 DEF d2

LEMMA RenameKeeps == ASSUME IInv, NEW e \in Id, NEW n \in Name, Rename(e, n) PROVE Kept
<1>1. /\ Typed /\ Rested(db) /\ Settled(db, seen, shadowed)
      /\ Contest(db, carried, attaching) /\ Claim(db, carried, attaching)
      /\ Whole(db) /\ Living(db, stray) /\ Unshadowed(db, shadowed) /\ Told(db, excuse, shadowed)
  BY DEF IInv, Held
<1>2. /\ e \in Live(db) /\ (\A f \in Live(db) : db.name[f] # n)
      /\ db' = Renamed(db, e, n)
      /\ shadowed' = IF db.alias[n].of \in {None, e} THEN shadowed ELSE shadowed \cup {n}
      /\ UNCHANGED <<kind, asked, attaching, seen, excuse, stray, carried>>
  BY DEF Rename, RenameFree
<1>3. shadowed \subseteq shadowed'
  BY <1>2
<1>4. Renaming(db, e, n, stray, excuse, shadowed, shadowed')
  BY <1>1, <1>2 DEF Renaming
<1>5. /\ Whole(db') /\ Living(db', stray) /\ Unshadowed(db', shadowed') /\ Told(db', excuse, shadowed')
      /\ Live(db') = Live(db) /\ (db').link = db.link /\ (db').ext = db.ext /\ (db').memo = db.memo
      /\ (db').stamp = db.stamp /\ (db').keep = db.keep /\ (db').shared = db.shared
      /\ \A m \in Name \ shadowed' : Lookup(db, m) # None => Lookup(db', m) = Lookup(db, m)
  BY <1>2, <1>4, RenamedIs
<1>6. Held(db)'
  BY <1>2, <1>5, HeldOn
<1>7. Rested(db') /\ Contest(db', carried, attaching) /\ Claim(db', carried, attaching)
  BY <1>1, <1>5, RestedOn, ContestOn
<1>8. Settled(db', seen, shadowed')
  BY <1>1, <1>3, <1>5, SettledOn DEF Typed
<1>9. Typed'
  BY <1>1, <1>2 DEF Typed
<1> QED
  BY <1>2, <1>5, <1>6, <1>7, <1>8, <1>9 DEF Kept, IInv

\* The tables a merge leaves, before the queue is looked at: what was the merged entity's
\* is the survivor's.
Handover(d, d2, s, l) ==
    /\ d2 \in DB /\ d2.name = [d.name EXCEPT ![l] = NoName] /\ d2.top = d.top
    /\ d2.weak = d.weak /\ d2.shared = d.shared /\ d2.keep = d.keep
    /\ d2.stamp = d.stamp /\ d2.denied = d.denied
    /\ d2.suppressed = {sp \in d.suppressed : sp[1] # l}
    /\ \A v \in Video :
          /\ d2.link[v][l] = "none"
          /\ d2.link[v][s] = "none" <=> d.link[v][s] = "none" /\ d.link[v][l] = "none"
          /\ \A e \in Id \ {s, l} : d2.link[v][e] = d.link[v][e]
    /\ \A c \in Id :
          d2.parent[c] = IF c \in Children(d, s, l) THEN s
                         ELSE IF c = l \/ d.parent[c] = l THEN None ELSE d.parent[c]
    /\ \A x \in Ext : d2.ext[x] = IF d.ext[x] = l THEN s ELSE d.ext[x]
    /\ d2.memo[l] = NoExt
    /\ d2.memo[s] = IF d.memo[s] = NoExt THEN d.memo[l] ELSE d.memo[s]
    /\ \A e \in Id \ {s, l} : d2.memo[e] = d.memo[e]

LEMMA MovedTables ==
    ASSUME NEW d \in DB, NEW s \in Id, NEW l \in Id, s # l
    PROVE  LET d2 == Moved(d, s, l)
           IN  /\ Handover(d, d2, s, l) /\ d2 \in DB
               /\ \A m \in Name :
                     /\ d.alias[m].of = l => d2.alias[m].of = s /\ d2.alias[m].src = d.alias[m].src
                     /\ d.alias[m].of # l => d2.alias[m] = d.alias[m]
<1> DEFINE L == [v \in Video |->
                    [d.link[v] EXCEPT
                        ![s] = IF d.link[v][l] # "none" /\ @ \in {"none", "file"}
                               THEN d.link[v][l] ELSE @,
                        ![l] = "none"]]
           P == [c \in Id |->
                    IF c \in Children(d, s, l) THEN s
                    ELSE IF c = l \/ d.parent[c] = l THEN None ELSE d.parent[c]]
           X == [x \in Ext |-> IF d.ext[x] = l THEN s ELSE d.ext[x]]
           M == [d.memo EXCEPT ![s] = IF @ = NoExt THEN d.memo[l] ELSE @, ![l] = NoExt]
           A == [n \in Name |->
                    IF d.alias[n].of = l THEN [d.alias[n] EXCEPT !.of = s] ELSE d.alias[n]]
           N == [d.name EXCEPT ![l] = NoName]
           S == {sp \in d.suppressed : sp[1] # l}
           d2 == [d EXCEPT !.link = L, !.parent = P, !.ext = X, !.memo = M, !.alias = A,
                           !.name = N, !.suppressed = S]
<1>1. Moved(d, s, l) = d2
  BY DEF Moved
<1>2. ASSUME NEW v \in Video
      PROVE  /\ L[v] \in [Id -> {"none", "file", "manual"}]
             /\ L[v][l] = "none"
             /\ L[v][s] = "none" <=> d.link[v][s] = "none" /\ d.link[v][l] = "none"
             /\ \A e \in Id \ {s, l} : L[v][e] = d.link[v][e]
  <2> DEFINE k == d.link[v]
             g == IF k[l] # "none" /\ k[s] \in {"none", "file"} THEN k[l] ELSE k[s]
  <2>1. L[v] = [k EXCEPT ![s] = g, ![l] = "none"]
    OBVIOUS
  <2>2. k \in [Id -> {"none", "file", "manual"}]
    BY DEF DB
  <2>3. g \in {"none", "file", "manual"} /\ (g = "none" <=> k[s] = "none" /\ k[l] = "none")
    BY <2>2
  <2> HIDE DEF g, k, L
  <2>4. QED
    BY <2>1, <2>2, <2>3 DEF k
<1>3. L \in [Video -> [Id -> {"none", "file", "manual"}]]
  <2>1. L = [v \in Video |-> L[v]]
    OBVIOUS
  <2> HIDE DEF L
  <2> QED
    BY <1>2, <2>1
<1>4. P \in [Id -> Id \cup {None}]
  BY DEF DB
<1>5. X \in [Ext -> Id \cup {None}]
  BY DEF DB
<1>6. /\ M \in [Id -> Ext \cup {NoExt}] /\ M[l] = NoExt
      /\ M[s] = IF d.memo[s] = NoExt THEN d.memo[l] ELSE d.memo[s]
      /\ \A e \in Id \ {s, l} : M[e] = d.memo[e]
  BY DEF DB
<1>7. ASSUME NEW m \in Name
      PROVE  /\ A[m] \in Row
             /\ IF d.alias[m].of = l THEN A[m].of = s /\ A[m].src = d.alias[m].src
                ELSE A[m] = d.alias[m]
  BY DEF DB, Row
<1>8. A \in [Name -> Row]
  <2>1. A = [m \in Name |-> A[m]]
    OBVIOUS
  <2> HIDE DEF A
  <2> QED
    BY <1>7, <2>1
<1>9. N \in [Id -> Name \cup {NoName}] /\ S \in SUBSET (Id \X Name)
  BY DEF DB
<1>10. /\ \A c \in Id : P[c] = IF c \in Children(d, s, l) THEN s
                               ELSE IF c = l \/ d.parent[c] = l THEN None ELSE d.parent[c]
       /\ \A x \in Ext : X[x] = IF d.ext[x] = l THEN s ELSE d.ext[x]
  OBVIOUS
<1> HIDE DEF L, P, X, M, A, N, S
<1>11. /\ d2 \in DB /\ d2.name = N /\ d2.top = d.top
       /\ d2.weak = d.weak /\ d2.shared = d.shared /\ d2.keep = d.keep
       /\ d2.stamp = d.stamp /\ d2.denied = d.denied
       /\ d2.suppressed = S /\ d2.link = L /\ d2.parent = P /\ d2.ext = X /\ d2.memo = M /\ d2.alias = A
  BY <1>3, <1>4, <1>5, <1>6, <1>8, <1>9 DEF DB
<1> HIDE DEF d2
<1> QED
  BY <1>1, <1>2, <1>6, <1>7, <1>10, <1>11 DEF N, S, Handover

LEMMA FoldedTables ==
    ASSUME NEW d \in DB, NEW s \in Live(d), NEW l \in Live(d), s # l, d.name[s] # d.name[l]
    PROVE  LET d1 == Moved(d, s, l)
               d2 == Folded(d, s, l)
               n == d.name[l]
           IN  /\ Handover(d, d2, s, l)
               /\ d2.alias[n].of = IF d.alias[n].of \in {None, s, l} THEN s ELSE d.alias[n].of
               /\ \A m \in Name :
                     /\ d2.alias[m].src = "provider" =>
                           /\ d.alias[m].src = "provider"
                           /\ d2.alias[m].of = IF d.alias[m].of = l THEN s ELSE d.alias[m].of
                     /\ IF m = d.name[s] /\ d.alias[m].of \in {s, l} THEN d2.alias[m].of = None
                        ELSE m # n => d2.alias[m].of = IF d.alias[m].of = l THEN s ELSE d.alias[m].of
<1> DEFINE d1 == Moved(d, s, l)
           n == d.name[l]
           own == d.name[s]
           da == AddAlias(d1, s, n, "owner")
           d2 == IF da.alias[own].of = s THEN SetAlias(da, own, Unowned) ELSE da
<1>1. Folded(d, s, l) = d2
  BY DEF Folded
<1>2. /\ s \in Id /\ l \in Id /\ n \in Name /\ own \in Name /\ own # n
      /\ None \notin Id /\ Unowned \in Row /\ Unowned.of = None /\ Unowned.src = "owner"
  BY Constants DEF Live, DB
<1>3. /\ d1 \in DB
      /\ \A m \in Name :
            /\ d.alias[m].of = l => d1.alias[m].of = s /\ d1.alias[m].src = d.alias[m].src
            /\ d.alias[m].of # l => d1.alias[m] = d.alias[m]
  <2>1. s \in Id /\ l \in Id
    BY <1>2
  <2>2. d1 \in DB
    BY <2>1, MovedTables
  <2>3. \A m \in Name :
            /\ d.alias[m].of = l => d1.alias[m].of = s /\ d1.alias[m].src = d.alias[m].src
            /\ d.alias[m].of # l => d1.alias[m] = d.alias[m]
    BY <2>1, MovedTables
  <2> QED
    BY <2>2, <2>3
<1> HIDE DEF d1, n, own
<1>4. /\ da \in DB /\ ButAliases(d1, da)
      /\ d1.alias[n].of # None => da = d1
      /\ d1.alias[n].of = None => da.alias[n] = [of |-> s, src |-> "owner"]
      /\ \A m \in Name \ {n} : da.alias[m] = d1.alias[m]
  BY <1>2, <1>3, AddAliasIs
<1> HIDE DEF da
<1>5. /\ d2 \in DB /\ ButAliases(da, d2)
      /\ da.alias[own].of = s => d2.alias[own] = Unowned
      /\ da.alias[own].of # s => d2 = da
      /\ \A m \in Name \ {own} : d2.alias[m] = da.alias[m]
  <2>1. CASE da.alias[own].of = s
    <3> DEFINE dd == SetAlias(da, own, Unowned)
    <3>1. /\ dd \in DB /\ ButAliases(da, dd)
          /\ dd.alias = [m \in Name |-> IF m = own THEN Unowned ELSE da.alias[m]]
      BY <1>2, <1>4, AliasIs DEF ButAliases
    <3>2. d2 = dd
      BY <2>1
    <3> HIDE DEF dd, d2
    <3> QED
      BY <1>2, <2>1, <3>1, <3>2
  <2>2. CASE da.alias[own].of # s
    BY <1>4, <2>2 DEF ButAliases
  <2> QED
    BY <2>1, <2>2
<1> HIDE DEF d2
<1>6. ButAliases(d1, d2)
  BY <1>4, <1>5 DEF ButAliases
<1>7. d2.alias[n].of = IF d.alias[n].of \in {None, s, l} THEN s ELSE d.alias[n].of
  <2>1. d2.alias[n] = da.alias[n]
    BY <1>2, <1>5
  <2>2. d1.alias[n].of = IF d.alias[n].of = l THEN s ELSE d.alias[n].of
    BY <1>2, <1>3
  <2> QED
    BY <1>2, <1>4, <2>1, <2>2
<1>8. ASSUME NEW m \in Name \ {n}
      PROVE  /\ d2.alias[m].src = "provider" =>
                  /\ d.alias[m].src = "provider"
                  /\ d2.alias[m].of = IF d.alias[m].of = l THEN s ELSE d.alias[m].of
             /\ IF m = own /\ d.alias[m].of \in {s, l} THEN d2.alias[m].of = None
                ELSE d2.alias[m].of = IF d.alias[m].of = l THEN s ELSE d.alias[m].of
  <2>1. da.alias[m] = d1.alias[m]
    BY <1>4
  <2>2. IF d.alias[m].of = l
        THEN da.alias[m].of = s /\ da.alias[m].src = d.alias[m].src
        ELSE da.alias[m] = d.alias[m]
    BY <1>3, <2>1
  <2>3. CASE m = own
    BY <1>2, <1>5, <2>2, <2>3
  <2>4. CASE m # own
    BY <1>5, <2>2, <2>4
  <2> QED
    BY <2>3, <2>4
<1>9. d2.alias[n].src = "provider" =>
         /\ d.alias[n].src = "provider"
         /\ d2.alias[n].of = IF d.alias[n].of = l THEN s ELSE d.alias[n].of
  <2>1. d2.alias[n] = da.alias[n]
    BY <1>2, <1>5
  <2>2. d1.alias[n].src = d.alias[n].src /\ d1.alias[n].of = IF d.alias[n].of = l THEN s ELSE d.alias[n].of
    BY <1>2, <1>3
  <2> QED
    BY <1>2, <1>4, <2>1, <2>2
<1>10. ASSUME NEW m \in Name
       PROVE  /\ d2.alias[m].src = "provider" =>
                   /\ d.alias[m].src = "provider"
                   /\ d2.alias[m].of = IF d.alias[m].of = l THEN s ELSE d.alias[m].of
              /\ IF m = own /\ d.alias[m].of \in {s, l} THEN d2.alias[m].of = None
                 ELSE m # n => d2.alias[m].of = IF d.alias[m].of = l THEN s ELSE d.alias[m].of
  BY <1>2, <1>8, <1>9
<1>11. Handover(d, d2, s, l)
  <2>1. Handover(d, d1, s, l)
    BY <1>2, MovedTables DEF d1
  <2> QED
    BY <1>5, <1>6, <2>1 DEF Handover, ButAliases
<1> QED
  BY <1>1, <1>7, <1>10, <1>11 DEF n, own

LEMMA DroppedIs ==
    ASSUME NEW d \in DB, NEW gone
    PROVE  LET d2 == PairsDropped(d, gone)
           IN  /\ d2 \in DB
               /\ d2.weak = {p \in d.weak : p \cap gone = {}}
               /\ d2.shared = {p \in d.shared : p \cap gone = {}}
               /\ d2.name = d.name /\ d2.alias = d.alias /\ d2.parent = d.parent /\ d2.top = d.top
               /\ d2.link = d.link /\ d2.keep = d.keep /\ d2.ext = d.ext
               /\ d2.memo = d.memo /\ d2.stamp = d.stamp /\ d2.suppressed = d.suppressed
               /\ d2.denied = d.denied
<1> DEFINE W == {p \in d.weak : p \cap gone = {}}
           S == {p \in d.shared : p \cap gone = {}}
<1>1. W \in SUBSET Pair /\ S \in SUBSET Pair
  BY DEF DB
<1>2. PairsDropped(d, gone) = [d EXCEPT !.weak = W, !.shared = S]
  BY DEF PairsDropped
<1> HIDE DEF W, S
<1>3. QED
  BY <1>1, <1>2 DEF DB, W, S

\* What l has is what s has, and the queue no longer knows l: the tables of a merge that
\* does not rename.
Merged(d, d2, s, l) ==
    /\ d2 \in DB /\ d2.name = [d.name EXCEPT ![l] = NoName] /\ d2.top = d.top
    /\ Live(d2) = Live(d) \ {l}
    /\ d2.keep = d.keep /\ d2.shared = {p \in d.shared : l \notin p}
    /\ d2.suppressed = {sp \in d.suppressed : sp[1] # l}
    /\ \A v \in Video :
          /\ d2.link[v][l] = "none"
          /\ d2.link[v][s] = "none" <=> d.link[v][s] = "none" /\ d.link[v][l] = "none"
          /\ \A e \in Id \ {s, l} : d2.link[v][e] = d.link[v][e]
    /\ \A c \in Id :
          d2.parent[c] = IF c \in Children(d, s, l) THEN s
                         ELSE IF c = l \/ d.parent[c] = l THEN None ELSE d.parent[c]
    /\ \A x \in Ext : d2.ext[x] = IF d.ext[x] = l THEN s ELSE d.ext[x]
    /\ d2.memo[l] = NoExt
    /\ d2.memo[s] = IF d.memo[s] = NoExt THEN d.memo[l] ELSE d.memo[s]
    /\ \A e \in Id \ {s, l} : d2.memo[e] = d.memo[e]
    /\ d2.alias[d.name[l]].of =
          IF d.alias[d.name[l]].of \in {None, s, l} THEN s ELSE d.alias[d.name[l]].of
    /\ \A m \in Name :
          /\ d2.alias[m].src = "provider" =>
                /\ d.alias[m].src = "provider"
                /\ d2.alias[m].of = IF d.alias[m].of = l THEN s ELSE d.alias[m].of
          /\ IF m = d.name[s] /\ d.alias[m].of \in {s, l} THEN d2.alias[m].of = None
             ELSE m # d.name[l] => d2.alias[m].of = IF d.alias[m].of = l THEN s ELSE d.alias[m].of
    /\ \A p \in d.weak : l \notin p => p \in d2.weak
    /\ \A p \in d2.weak :
          \/ p \in d.weak /\ l \notin p
          \/ /\ p \in Pair \ (d2.keep \cup d2.shared)
             /\ \E o \in Id \ {s} : p = {s, o} /\ Forms(d2, o) # {}
    /\ \A o \in Id \ {s} : \A m \in Forms(d2, o) :
          Near(d.name[l], m) => {s, o} \in d2.keep \cup Queue(d2)

LEMMA MergedTables ==
    ASSUME NEW d \in DB, NEW s \in Live(d), NEW l \in Live(d), s # l, d.name[s] # d.name[l]
    PROVE  Merged(d, Flag(PairsDropped(Folded(d, s, l), {l}), s, d.name[l]), s, l)
<1> DEFINE f == Folded(d, s, l)
           n == d.name[l]
           g == PairsDropped(f, {l})
           d2 == Flag(g, s, n)
<1>1. /\ s \in Id /\ l \in Id /\ n \in Name /\ NoName \notin Name
  BY Constants DEF Live, DB
<1>2. /\ Handover(d, f, s, l)
      /\ f.alias[n].of = IF d.alias[n].of \in {None, s, l} THEN s ELSE d.alias[n].of
      /\ \A m \in Name :
            /\ f.alias[m].src = "provider" =>
                  /\ d.alias[m].src = "provider"
                  /\ f.alias[m].of = IF d.alias[m].of = l THEN s ELSE d.alias[m].of
            /\ IF m = d.name[s] /\ d.alias[m].of \in {s, l} THEN f.alias[m].of = None
               ELSE m # n => f.alias[m].of = IF d.alias[m].of = l THEN s ELSE d.alias[m].of
  BY FoldedTables
<1>3. f \in DB
  BY <1>2 DEF Handover
<1> HIDE DEF f, n
<1>4. /\ g \in DB
      /\ g.weak = {p \in f.weak : p \cap {l} = {}}
      /\ g.shared = {p \in f.shared : p \cap {l} = {}}
      /\ g.name = f.name /\ g.alias = f.alias /\ g.parent = f.parent /\ g.top = f.top
      /\ g.link = f.link /\ g.keep = f.keep /\ g.ext = f.ext
      /\ g.memo = f.memo /\ g.stamp = f.stamp /\ g.suppressed = f.suppressed
      /\ g.denied = f.denied
  BY <1>3, DroppedIs
<1> HIDE DEF g
<1>5. /\ d2 \in DB /\ d2.weak = g.weak \cup Found(g, s, n)
      /\ d2.name = g.name /\ d2.alias = g.alias /\ d2.parent = g.parent /\ d2.top = g.top
      /\ d2.link = g.link /\ d2.shared = g.shared /\ d2.keep = g.keep /\ d2.ext = g.ext
      /\ d2.memo = g.memo /\ d2.stamp = g.stamp /\ d2.suppressed = g.suppressed
      /\ d2.denied = g.denied
  BY <1>1, <1>4, FlagIs
<1> HIDE DEF d2
<1>6. /\ d2.name = [d.name EXCEPT ![l] = NoName] /\ d2.top = d.top
      /\ d2.keep = d.keep /\ d2.suppressed = {sp \in d.suppressed : sp[1] # l}
      /\ d2.link = f.link /\ d2.parent = f.parent /\ d2.ext = f.ext /\ d2.memo = f.memo
      /\ d2.alias = f.alias
  BY <1>2, <1>4, <1>5 DEF Handover
<1>7. Live(d2) = Live(d) \ {l}
  BY <1>1, <1>6 DEF Live, DB
<1>8. d2.shared = {p \in d.shared : l \notin p} /\ g.weak = {p \in d.weak : l \notin p}
  <2>1. f.shared = d.shared /\ f.weak = d.weak
    BY <1>2 DEF Handover
  <2> QED
    BY <1>4, <1>5, <2>1
<1>9. \A e : Forms(g, e) = Forms(d2, e)
  BY <1>5, SameForms
<1>10. \A p \in d.weak : l \notin p => p \in d2.weak
  BY <1>5, <1>8
<1>11. ASSUME NEW p \in d2.weak, ~(p \in d.weak /\ l \notin p)
       PROVE  /\ p \in Pair \ (d2.keep \cup d2.shared)
              /\ \E o \in Id \ {s} : p = {s, o} /\ Forms(d2, o) # {}
  <2>1. p \in Found(g, s, n)
    BY <1>5, <1>8, <1>11
  <2>2. /\ p \in Pair \ (d2.keep \cup d2.shared) /\ s \in p
        /\ \E o \in p \ {s} : Forms(d2, o) # {}
    BY <1>5, <1>9, <2>1 DEF Found
  <2> QED
    BY <2>2, PairIs
<1>12. ASSUME NEW o \in Id \ {s}, NEW m \in Forms(d2, o), Near(n, m)
       PROVE  {s, o} \in d2.keep \cup Queue(d2)
  <2>1. {s, o} \in Pair /\ m \in Forms(g, o)
    BY <1>1, <1>9, PairIs
  <2>2. {s, o} \in g.keep \cup g.shared \/ {s, o} \in Found(g, s, n)
    BY <1>12, <2>1 DEF Found
  <2> QED
    BY <1>5, <2>2 DEF Queue
<1>13. /\ \A v \in Video :
             /\ d2.link[v][l] = "none"
             /\ d2.link[v][s] = "none" <=> d.link[v][s] = "none" /\ d.link[v][l] = "none"
             /\ \A e \in Id \ {s, l} : d2.link[v][e] = d.link[v][e]
       /\ \A c \in Id :
             d2.parent[c] = IF c \in Children(d, s, l) THEN s
                            ELSE IF c = l \/ d.parent[c] = l THEN None ELSE d.parent[c]
       /\ \A x \in Ext : d2.ext[x] = IF d.ext[x] = l THEN s ELSE d.ext[x]
       /\ d2.memo[l] = NoExt
       /\ d2.memo[s] = IF d.memo[s] = NoExt THEN d.memo[l] ELSE d.memo[s]
       /\ \A e \in Id \ {s, l} : d2.memo[e] = d.memo[e]
  BY <1>2, <1>6 DEF Handover
<1>14. /\ d2.alias[n].of = IF d.alias[n].of \in {None, s, l} THEN s ELSE d.alias[n].of
       /\ \A m \in Name :
             /\ d2.alias[m].src = "provider" =>
                   /\ d.alias[m].src = "provider"
                   /\ d2.alias[m].of = IF d.alias[m].of = l THEN s ELSE d.alias[m].of
             /\ IF m = d.name[s] /\ d.alias[m].of \in {s, l} THEN d2.alias[m].of = None
                ELSE m # n => d2.alias[m].of = IF d.alias[m].of = l THEN s ELSE d.alias[m].of
  BY <1>2, <1>6
<1>15. Merged(d, d2, s, l)
  BY <1>5, <1>6, <1>7, <1>8, <1>10, <1>11, <1>12, <1>13, <1>14 DEF Merged, n
<1> QED
  BY <1>15 DEF d2, g, f, n

\* Two entities become one: who is exempt then, and where the names of the two lead.
Merging(d, d2, s, l, missed, ex, ex2, hid) ==
    /\ Whole(d) /\ Living(d, missed) /\ Unshadowed(d, hid) /\ Told(d, ex, hid)
    /\ s \in Live(d) /\ l \in Live(d) /\ s # l /\ Merged(d, d2, s, l)
    /\ ex2 = (ex \ {l}) \cup IF l \in ex \/ Forms(d, l) # {d.name[l]} THEN {s} ELSE {}

LEMMA MergingIs ==
    ASSUME NEW d, NEW d2, NEW s \in Id, NEW l \in Id, NEW missed, NEW ex, NEW ex2, NEW hid,
           Merging(d, d2, s, l, missed, ex, ex2, hid)
    PROVE  /\ Whole(d2) /\ Living(d2, missed) /\ Unshadowed(d2, hid) /\ Told(d2, ex2, hid)
           /\ d2.alias[d.name[l]].of \in {None, s} \/ d.name[l] \in hid
           /\ \A f \in Live(d2) : d2.name[f] # d.name[l]
           /\ \A m \in Name \ hid : Lookup(d, m) # None =>
                 Lookup(d2, m) = IF Lookup(d, m) = l THEN s ELSE Lookup(d, m)
<1> DEFINE n == d.name[l]
           own == d.name[s]
<1>1. /\ d \in DB /\ Unique(d) /\ Apart(d) /\ Recorded(d) /\ Handed(d) /\ Tree(d)
      /\ Living(d, missed) /\ Unshadowed(d, hid) /\ Told(d, ex, hid)
      /\ s \in Live(d) /\ l \in Live(d) /\ s # l
      /\ None \notin Id /\ Live(d) \subseteq Id /\ NoName \notin Name
      /\ ex2 = (ex \ {l}) \cup IF l \in ex \/ Forms(d, l) # {n} THEN {s} ELSE {}
  BY Constants DEF Merging, Whole, Live
<1>2. Merged(d, d2, s, l)
  BY DEF Merging
<1>3. /\ d2 \in DB /\ Live(d2) = Live(d) \ {l} /\ d2.top = d.top /\ d2.keep = d.keep
      /\ d2.shared = {p \in d.shared : l \notin p}
      /\ d2.name[l] = NoName /\ \A f \in Id \ {l} : d2.name[f] = d.name[f]
  BY <1>1, <1>2 DEF Merged, DB
<1>4. n \in Name /\ own \in Name /\ own # n
  BY <1>1 DEF Live, DB, Unique
<1>5. /\ d2.alias[n].of = IF d.alias[n].of \in {None, s, l} THEN s ELSE d.alias[n].of
      /\ \A m \in Name :
            /\ d2.alias[m].src = "provider" =>
                  /\ d.alias[m].src = "provider"
                  /\ d2.alias[m].of = IF d.alias[m].of = l THEN s ELSE d.alias[m].of
            /\ IF m = own /\ d.alias[m].of \in {s, l} THEN d2.alias[m].of = None
               ELSE m # n => d2.alias[m].of = IF d.alias[m].of = l THEN s ELSE d.alias[m].of
  BY <1>2 DEF Merged
<1>6. /\ \A p \in d.weak : l \notin p => p \in d2.weak
      /\ \A p \in d2.weak :
            \/ p \in d.weak /\ l \notin p
            \/ /\ p \in Pair \ (d2.keep \cup d2.shared)
               /\ \E o \in Id \ {s} : p = {s, o} /\ Forms(d2, o) # {}
      /\ \A o \in Id \ {s} : \A m \in Forms(d2, o) :
            Near(n, m) => {s, o} \in d2.keep \cup Queue(d2)
  BY <1>2 DEF Merged
<1>7. /\ \A c \in Id :
            d2.parent[c] = IF c \in Children(d, s, l) THEN s
                           ELSE IF c = l \/ d.parent[c] = l THEN None ELSE d.parent[c]
      /\ \A x \in Ext : d2.ext[x] = IF d.ext[x] = l THEN s ELSE d.ext[x]
      /\ d2.memo[l] = NoExt
      /\ \A e \in Id \ {s, l} : d2.memo[e] = d.memo[e]
      /\ d2.suppressed = {sp \in d.suppressed : sp[1] # l}
  BY <1>2 DEF Merged
<1> HIDE DEF n, own
<1>8. Unique(d2) /\ Handed(d2)
  BY <1>1, <1>3 DEF Unique, Handed
<1>9. Apart(d2)
  <2>1. d2.weak \cap d2.shared = {} /\ d2.weak \cap d2.keep = {}
    BY <1>1, <1>3, <1>6 DEF Apart, Queue
  <2> QED
    BY <1>1, <1>3, <2>1 DEF Apart, Queue
<1>10. Recorded(d2)
  <2>1. \A m \in Name : d2.alias[m].src = "provider" => d2.alias[m].of \in Live(d2)
    BY <1>1, <1>3, <1>5 DEF Recorded
  <2>2. d2.suppressed \subseteq Live(d2) \X Name
    BY <1>1, <1>3, <1>7 DEF Recorded
  <2>3. \A e \in Id \ Live(d2) : d2.memo[e] = NoExt
    BY <1>1, <1>3, <1>7 DEF Recorded
  <2> QED
    BY <2>1, <2>2, <2>3 DEF Recorded
<1>11. Tree(d2)
  <2> DEFINE C == Children(d, s, l)
  <2>1. d.parent \in [Id -> Id \cup {None}] /\ d2.parent \in [Id -> Id \cup {None}]
    BY <1>1, <1>3 DEF DB
  <2>2. C \in SUBSET Id /\ C \cap ({s} \cup Ancestors(d, s)) = {} /\ \A c \in C : d.parent[c] = l
    BY DEF Children
  <2>3. \A c \in C : d2.parent[c] = s
    BY <1>7, <2>2
  <2>4. \A f \in Id \ C : /\ d2.parent[f] \in {None, d.parent[f]}
                          /\ d2.parent[f] # None => f # l /\ d2.parent[f] = d.parent[f] /\ d.parent[f] # l
    BY <1>7
  <2>5. ASSUME NEW f \in Id, d2.parent[f] # None
        PROVE  kind = "tag" /\ {f, d2.parent[f]} \subseteq Live(d2)
    <3>1. CASE f \in C
      <4>1. d.parent[f] = l /\ d2.parent[f] = s
        BY <2>2, <2>3, <3>1
      <4>2. kind = "tag" /\ f \in Live(d) /\ f \notin Ancestors(d, f)
        BY <1>1, <4>1 DEF Tree
      <4>3. f # l
        BY <1>1, <2>1, <4>1, <4>2, Climbs
      <4> QED
        BY <1>1, <1>3, <4>1, <4>2, <4>3
    <3>2. CASE f \notin C
      BY <1>1, <1>3, <2>4, <2>5, <3>2 DEF Tree
    <3> QED
      BY <3>1, <3>2
  <2> HIDE DEF C
  <2>6. Grafts(d, d2, s, C)
    BY <2>1, <2>2, <2>3, <2>4, <2>5 DEF Grafts
  <2> QED
    BY <1>1, <2>2, <2>6, Regrafted
<1>12. \A o \in Id \ {s} : Forms(d2, o) \subseteq Forms(d, o)
  <2>1. ASSUME NEW o \in Id \ {s}, NEW m \in Name, d2.alias[m].of = o PROVE d.alias[m].of = o
    BY <1>1, <1>5, <2>1
  <2> QED
    BY <1>3, <2>1 DEF Forms
<1>13. Forms(d2, l) = {}
  <2>1. ASSUME NEW m \in Name PROVE d2.alias[m].of # l
    BY <1>1, <1>5
  <2> QED
    BY <1>3, <2>1 DEF Forms
<1>14. Living(d2, missed)
  <2>1. \A m \in Name : d2.alias[m].of \in Live(d2) \cup missed \cup {None}
    BY <1>1, <1>3, <1>5 DEF Living
  <2>2. \A x \in Ext : d2.ext[x] \in Live(d2) \cup missed \cup {None}
    BY <1>1, <1>3, <1>7 DEF Living
  <2>3. ASSUME NEW p \in Queue(d2) PROVE p \subseteq Live(d2) \cup missed
    <3>1. CASE p \in Queue(d) /\ l \notin p
      BY <1>1, <1>3, <3>1 DEF Living
    <3>2. CASE ~(p \in Queue(d) /\ l \notin p)
      <4>1. PICK o \in Id \ {s} : p = {s, o} /\ Forms(d2, o) # {}
        BY <1>3, <1>6, <3>2 DEF Queue
      <4>2. PICK m \in Forms(d, o) : TRUE
        BY <1>12, <4>1
      <4>3. o \in Live(d) \cup missed
        BY <1>1, <4>2, FormsLive
      <4>4. o # l
        BY <1>13, <4>1
      <4> QED
        BY <1>1, <1>3, <4>1, <4>3, <4>4
    <3> QED
      BY <3>1, <3>2
  <2> QED
    BY <2>1, <2>2, <2>3 DEF Living
<1>15. Unshadowed(d2, hid)
  <2> SUFFICES ASSUME NEW f \in Live(d), f # l, d.name[f] \notin hid
               PROVE  d2.alias[d.name[f]].of \in {None, f}
    BY <1>1, <1>3 DEF Unshadowed
  <2>1. d.name[f] \in Name /\ d.name[f] # n /\ d.alias[d.name[f]].of \in {None, f}
    BY <1>1 DEF Live, DB, Unique, Unshadowed, n
  <2>2. CASE f = s
    BY <1>1, <1>5, <2>1, <2>2 DEF own
  <2>3. CASE f # s
    <3>1. d.name[f] # own
      BY <1>1, <2>3 DEF Unique, own
    <3> QED
      BY <1>1, <1>5, <2>1, <3>1
  <2> QED
    BY <2>2, <2>3
<1>16. d.alias[n].of \in {None, l} \/ n \in hid
  BY <1>1 DEF Unshadowed, n
<1>17. \A f \in Live(d2) : d2.name[f] # n
  BY <1>1, <1>3 DEF Unique, n
<1>18. Told(d2, ex2, hid)
  <2>1. \A a \in Id \ ex2 : Forms(d2, a) # {} => a \notin ex
    BY <1>1, <1>13
  <2>2. ASSUME NEW a \in Id \ ex2, NEW b \in Id \ ex2, Forms(d2, a) # {}, Forms(d2, b) # {},
               {a, b} \in d.keep \cup Queue(d)
        PROVE  {a, b} \in d2.keep \cup Queue(d2)
    <3>1. a # l /\ b # l
      BY <1>13, <2>2
    <3> QED
      BY <1>3, <1>6, <2>2, <3>1 DEF Queue
  <2>3. ASSUME hid = {}, s \notin ex2 PROVE \A m \in Forms(d2, s) : m \in Forms(d, s) \/ Loose[m] = Loose[n]
    <3>1. Forms(d, l) = {n}
      BY <1>1, <2>3
    <3>2. ASSUME NEW m \in Forms(d2, s), m # n PROVE m \in Forms(d, s)
      <4>1. CASE m = own
        BY <1>1, <4>1 DEF Forms, own
      <4>2. CASE m # own
        <5>1. m \in Name /\ d2.alias[m].of = s
          BY <1>1, <1>3, <4>2 DEF Forms, own
        <5>2. d.alias[m].of \in {s, l}
          BY <1>1, <1>5, <3>2, <4>2, <5>1
        <5>3. d.alias[m].of # l
          BY <3>1, <3>2, <5>1 DEF Forms
        <5> QED
          BY <5>1, <5>2, <5>3 DEF Forms
      <4> QED
        BY <4>1, <4>2
    <3> QED
      BY <3>2
  <2>4. ASSUME hid = {}, NEW o \in Id \ {s}, NEW m \in Forms(d2, o) PROVE m # n
    <3>1. d.alias[n].of \in {None, l}
      BY <1>16, <2>4
    <3>2. d2.alias[n].of = s
      BY <1>5, <3>1
    <3> QED
      BY <1>17, <3>2 DEF Forms
  <2>5. Gaining(d, d2, s, n, ex, ex2, hid, hid)
    BY <1>6, <1>12, <2>1, <2>2, <2>3, <2>4 DEF Gaining
  <2> QED
    BY <1>1, <1>4, <2>5, ToldStays
<1>19. ASSUME NEW m \in Name \ hid, Lookup(d, m) # None
       PROVE  Lookup(d2, m) = IF Lookup(d, m) = l THEN s ELSE Lookup(d, m)
  <2>1. d2 \in DB
    BY <1>3
  <2>2. /\ \A f \in Live(d2) : d2.name[f] = m => Lookup(d2, m) = f
        /\ (\A f \in Live(d2) : d2.name[f] # m) => Lookup(d2, m) = d2.alias[m].of
    BY <1>8, <2>1, LookupIs
  <2>3. /\ \A f \in Live(d) : d.name[f] = m => Lookup(d, m) = f
        /\ (\A f \in Live(d) : d.name[f] # m) => Lookup(d, m) = d.alias[m].of
    BY <1>1, LookupIs
  <2>4. CASE m = n
    <3>1. Lookup(d, m) = l
      BY <1>1, <2>3, <2>4 DEF n
    <3>2. Lookup(d2, m) = d2.alias[n].of
      BY <1>17, <2>2, <2>4
    <3> QED
      BY <1>5, <1>16, <2>4, <3>1, <3>2
  <2>5. CASE \E f \in Live(d) : f # l /\ d.name[f] = m
    <3>1. PICK f \in Live(d) : f # l /\ d.name[f] = m
      BY <2>5
    <3> QED
      BY <1>1, <1>3, <2>2, <2>3, <3>1
  <2>6. CASE m # n /\ ~\E f \in Live(d) : f # l /\ d.name[f] = m
    <3>1. (\A f \in Live(d) : d.name[f] # m) /\ (\A f \in Live(d2) : d2.name[f] # m)
      BY <1>1, <1>3, <2>6 DEF n
    <3>2. Lookup(d, m) = d.alias[m].of /\ Lookup(d2, m) = d2.alias[m].of /\ m # own
      BY <1>1, <2>2, <2>3, <3>1 DEF own
    <3> QED
      BY <1>5, <2>6, <3>2
  <2> QED
    BY <2>4, <2>5, <2>6
<1>20. Whole(d2)
  BY <1>3, <1>8, <1>9, <1>10, <1>11 DEF Whole
<1> QED
  BY <1>5, <1>14, <1>15, <1>16, <1>17, <1>18, <1>19, <1>20 DEF n

\* What the tables must be after a merge, whether the survivor took the other name or not.
Joined(d, d2, s, l, ex2) ==
    /\ Whole(d2) /\ Living(d2, stray) /\ Unshadowed(d2, shadowed) /\ Told(d2, ex2, shadowed)
    /\ Live(d2) = Live(d) \ {l} /\ d2.keep = d.keep /\ d2.shared = {p \in d.shared : l \notin p}
    /\ \A v \in Video :
          /\ d2.link[v][l] = "none"
          /\ d2.link[v][s] = "none" <=> d.link[v][s] = "none" /\ d.link[v][l] = "none"
          /\ \A e \in Id \ {s, l} : d2.link[v][e] = d.link[v][e]
    /\ \A x \in Ext : d2.ext[x] = IF d.ext[x] = l THEN s ELSE d.ext[x]
    /\ d2.memo[l] = NoExt
    /\ d2.memo[s] = IF d.memo[s] = NoExt THEN d.memo[l] ELSE d.memo[s]
    /\ \A e \in Id \ {s, l} : d2.memo[e] = d.memo[e]
    /\ \A m \in Name \ shadowed : Lookup(d, m) # None =>
          Lookup(d2, m) = IF Lookup(d, m) = l THEN s ELSE Lookup(d, m)

LEMMA JoinedIs ==
    ASSUME NEW d, NEW d1, NEW s \in Id, NEW l \in Id, NEW ex2, NEW show,
           Merging(d, d1, s, l, stray, excuse, ex2, shadowed)
    PROVE  Joined(d, IF show THEN Renamed(d1, s, d.name[l]) ELSE d1, s, l, ex2)
<1> DEFINE n == d.name[l]
           d2 == Renamed(d1, s, n)
<1>1. /\ Whole(d1) /\ Living(d1, stray) /\ Unshadowed(d1, shadowed) /\ Told(d1, ex2, shadowed)
      /\ d1.alias[n].of \in {None, s} \/ n \in shadowed
      /\ \A f \in Live(d1) : d1.name[f] # n
      /\ \A m \in Name \ shadowed : Lookup(d, m) # None =>
            Lookup(d1, m) = IF Lookup(d, m) = l THEN s ELSE Lookup(d, m)
  BY MergingIs
<1>2. /\ s \in Live(d) /\ l \in Live(d) /\ s # l /\ d \in DB /\ Merged(d, d1, s, l) /\ None \notin Id
  BY Constants DEF Merging, Whole
<1>3. n \in Name
  BY <1>2 DEF Live, DB
<1>4. Joined(d, d1, s, l, ex2)
  BY <1>1, <1>2 DEF Joined, Merged
<1>5. Joined(d, d2, s, l, ex2)
  <2>1. s \in Live(d1)
    BY <1>2, <1>4 DEF Joined
  <2>2. Renaming(d1, s, n, stray, ex2, shadowed, shadowed)
    BY <1>1, <1>3, <2>1 DEF Renaming
  <2>3. /\ Whole(d2) /\ Living(d2, stray) /\ Unshadowed(d2, shadowed) /\ Told(d2, ex2, shadowed)
        /\ Live(d2) = Live(d1) /\ d2.link = d1.link /\ d2.ext = d1.ext /\ d2.memo = d1.memo
        /\ d2.stamp = d1.stamp /\ d2.keep = d1.keep /\ d2.shared = d1.shared
        /\ \A m \in Name \ shadowed : Lookup(d1, m) # None => Lookup(d2, m) = Lookup(d1, m)
    BY <2>2, RenamedIs
  <2> HIDE DEF d2
  <2>4. ASSUME NEW m \in Name \ shadowed, Lookup(d, m) # None
        PROVE  Lookup(d2, m) = IF Lookup(d, m) = l THEN s ELSE Lookup(d, m)
    <3>1. Lookup(d1, m) = IF Lookup(d, m) = l THEN s ELSE Lookup(d, m)
      BY <1>1, <2>4
    <3>2. Lookup(d1, m) # None
      BY <1>2, <2>4, <3>1
    <3> QED
      BY <2>3, <3>1, <3>2
  <2> QED
    BY <1>4, <2>3, <2>4 DEF Joined
<1> QED
  BY <1>4, <1>5 DEF n

LEMMA MergeKeeps ==
    ASSUME IInv, NEW s \in Id, NEW l \in Id, NEW show \in BOOLEAN, Merge(s, l, show) PROVE Kept
<1>1. /\ Typed /\ Rested(db) /\ Settled(db, seen, shadowed)
      /\ Contest(db, carried, attaching) /\ Claim(db, carried, attaching)
      /\ Whole(db) /\ Living(db, stray) /\ Unshadowed(db, shadowed) /\ Told(db, excuse, shadowed)
      /\ db \in DB /\ Unique(db) /\ None \notin Id /\ Live(db) \subseteq Id /\ NoExt \notin Ext
  BY Constants DEF IInv, Held, Whole, Live
<1> DEFINE n == db.name[l]
           d1 == Flag(PairsDropped(Folded(db, s, l), {l}), s, n)
           d2 == IF show THEN Renamed(d1, s, n) ELSE d1
<1>2. /\ s # l /\ s \in Live(db) /\ l \in Live(db)
      /\ db' = Stamped(db, d2)
      /\ excuse' = (excuse \ {l}) \cup IF l \in excuse \/ Forms(db, l) # {n} THEN {s} ELSE {}
      /\ carried' = (carried \/ \E x \in Ext : l \in Claimants(db, x))
      /\ UNCHANGED <<kind, asked, attaching, seen, stray, shadowed>>
  BY DEF Merge
<1>3. Joined(db, d2, s, l, excuse')
  <2>1. db.name[s] # db.name[l]
    BY <1>1, <1>2 DEF Unique
  <2>2. Merged(db, d1, s, l)
    BY <1>1, <1>2, <2>1, MergedTables
  <2> HIDE DEF d1
  <2>3. Merging(db, d1, s, l, stray, excuse, excuse', shadowed)
    BY <1>1, <1>2, <2>2 DEF Merging
  <2> QED
    BY <2>3, JoinedIs
<1> HIDE DEF n, d2
<1>4. d2 \in DB
  BY <1>3 DEF Joined, Whole
<1>5. /\ Touched(d2, db') /\ (db').link = d2.link
      /\ \A e \in Live(db') : Linked(db', e) => (db').stamp[e] = "none"
  BY <1>2, <1>4, StampedIs
<1>6. /\ db' \in DB
      /\ (db').name = d2.name /\ (db').alias = d2.alias /\ (db').parent = d2.parent /\ (db').top = d2.top
      /\ (db').weak = d2.weak /\ (db').shared = d2.shared /\ (db').keep = d2.keep /\ (db').ext = d2.ext
      /\ (db').memo = d2.memo /\ (db').suppressed = d2.suppressed
  BY <1>5 DEF Touched
<1>7. Live(db') = Live(d2) /\ Queue(db') = Queue(d2)
  BY <1>6, SameNames DEF Queue
<1>8. Apart(db') /\ Recorded(db') /\ Tree(db')
  <2>1. Apart(d2) /\ Recorded(d2) /\ Tree(d2)
    BY <1>3 DEF Joined, Whole
  <2>2. Tree(db')
    BY <1>6, <1>7, <2>1, TreeStays
  <2> QED
    BY <1>6, <1>7, <2>1, <2>2 DEF Apart, Recorded
<1>9. /\ Whole(db') /\ Living(db', stray) /\ Unshadowed(db', shadowed) /\ Told(db', excuse', shadowed)
      /\ \A m : Lookup(db', m) = Lookup(d2, m)
  <2>1. Whole(d2) /\ Living(d2, stray) /\ Unshadowed(d2, shadowed) /\ Told(d2, excuse', shadowed)
    BY <1>3 DEF Joined
  <2>2. /\ \A p \in Queue(db') : p \subseteq Live(d2) \cup stray
        /\ \A y \in Ext : (db').ext[y] \in Live(d2) \cup stray \cup {None}
    BY <1>6, <1>7, <2>1 DEF Living
  <2> QED
    BY <1>6, <1>7, <1>8, <2>1, <2>2, Aside
<1>10. Held(db)'
  BY <1>2, <1>9, HeldOn
<1>11. /\ Live(db') = Live(db) \ {l} /\ (db').keep = db.keep
       /\ (db').shared = {p \in db.shared : l \notin p}
       /\ \A v \in Video :
             /\ (db').link[v][l] = "none"
             /\ (db').link[v][s] = "none" <=> db.link[v][s] = "none" /\ db.link[v][l] = "none"
             /\ \A e \in Id \ {s, l} : (db').link[v][e] = db.link[v][e]
       /\ \A x \in Ext : (db').ext[x] = IF db.ext[x] = l THEN s ELSE db.ext[x]
       /\ (db').memo[l] = NoExt
       /\ (db').memo[s] = IF db.memo[s] = NoExt THEN db.memo[l] ELSE db.memo[s]
       /\ \A e \in Id \ {s, l} : (db').memo[e] = db.memo[e]
       /\ \A m \in Name \ shadowed : Lookup(db, m) # None =>
             Lookup(db', m) = IF Lookup(db, m) = l THEN s ELSE Lookup(db, m)
  BY <1>3, <1>5, <1>6, <1>7, <1>9 DEF Joined
<1>12. Rested(db')
  <2>1. LinksLive(db')
    BY <1>1, <1>2, <1>11 DEF Rested, LinksLive
  <2> QED
    BY <1>5, <2>1 DEF Rested
<1>13. Settled(db', seen, shadowed)
  <2> SUFFICES ASSUME NEW v \in Video, NEW c \in seen[v], c[1] \notin shadowed
               PROVE  Leads(db', v, c[1], c[2])
    BY DEF Settled
  <2>1. c[1] \in Name \ shadowed /\ c[2] \in Ext \cup {NoExt}
    BY <1>1 DEF Typed
  <2>2. Leads(db, v, c[1], c[2])
    BY <1>1 DEF Settled
  <2> DEFINE r == Resolve(db, c[1], c[2])
             r2 == Resolve(db', c[1], c[2])
  <2>3. r2 = IF r = l THEN s ELSE r
    BY <1>1, <1>11, <2>1, <2>2 DEF Leads, Resolve
  <2>4. r # None /\ db.link[v][r] # "none" /\ r \in Id
    <3>1. Lookup(db, c[1]) \in Id \cup {None}
      BY <1>1, <2>1, LookupIs
    <3>2. r \in Id \cup {None}
      BY <1>1, <2>1, <3>1 DEF Resolve, DB
    <3> QED
      BY <2>2, <3>2 DEF Leads
  <2>5. r2 # None /\ (db').link[v][r2] # "none"
    BY <1>1, <1>11, <2>3, <2>4
  <2>6. c[2] # NoExt => (db').ext[c[2]] # None
    BY <1>1, <1>11, <2>1, <2>2 DEF Leads
  <2> QED
    BY <2>5, <2>6 DEF Leads
<1>14. ~carried' => /\ \A x \in Ext : db.ext[x] # l /\ (db').ext[x] = db.ext[x]
                    /\ db.memo[l] = NoExt /\ \A e \in Id : (db').memo[e] = db.memo[e]
  <2> SUFFICES ASSUME ~carried'
               PROVE  /\ \A x \in Ext : db.ext[x] # l /\ (db').ext[x] = db.ext[x]
                      /\ db.memo[l] = NoExt /\ \A e \in Id : (db').memo[e] = db.memo[e]
    OBVIOUS
  <2>1. \A x \in Ext : db.ext[x] # l /\ db.memo[l] # x
    BY <1>1, <1>2 DEF Claimants
  <2>2. db.memo[l] = NoExt
    BY <1>1, <2>1 DEF DB
  <2> QED
    BY <1>11, <2>1, <2>2
<1>15. Contest(db', carried', attaching)
  <2> SUFFICES ASSUME NEW x \in Ext, NEW e \in Live(db'), (db').memo[e] = x,
                      (db').ext[x] \notin {None, e}, ~carried',
                      attaching = <<>> \/ attaching[1] # e
               PROVE  {e, (db').ext[x]} \in (db').keep \cup (db').shared
    BY DEF Contest
  <2>1. ~carried /\ e \in Live(db) /\ e # l /\ e \in Id
    BY <1>1, <1>2, <1>11
  <2>2. db.memo[e] = x /\ (db').ext[x] = db.ext[x] /\ db.ext[x] # l
    BY <1>14, <2>1
  <2>3. {e, db.ext[x]} \in db.keep \cup db.shared
    BY <1>1, <2>1, <2>2 DEF Contest
  <2> QED
    BY <1>11, <2>1, <2>2, <2>3
<1>16. Claim(db', carried', attaching)
  <2>1. attaching # <<>> => attaching[1] \in Id
    BY <1>1 DEF Typed
  <2> QED
    BY <1>1, <1>2, <1>14, <2>1 DEF Claim
<1>17. Typed'
  BY <1>1, <1>2 DEF Typed
<1> QED
  BY <1>2, <1>10, <1>11, <1>12, <1>13, <1>15, <1>16, <1>17 DEF Kept, IInv

\* The tables without the entities that are swept.
Swept(d, d2, D) ==
    /\ d2 \in DB
    /\ \A e \in Id : /\ d2.name[e] = IF e \in D THEN NoName ELSE d.name[e]
                     /\ d2.stamp[e] = IF e \in D THEN "none" ELSE d.stamp[e]
                     /\ d2.memo[e] = IF e \in D THEN NoExt ELSE d.memo[e]
    /\ \A m \in Name : d2.alias[m] = IF d.alias[m].of \in D THEN Unowned ELSE d.alias[m]
    /\ \A x \in Ext : d2.ext[x] = IF d.ext[x] \in D THEN None ELSE d.ext[x]
    /\ d2.suppressed = {sp \in d.suppressed : sp[1] \notin D}
    /\ d2.weak = {p \in d.weak : p \cap D = {}} /\ d2.shared = {p \in d.shared : p \cap D = {}}
    /\ d2.parent = d.parent /\ d2.top = d.top /\ d2.link = d.link /\ d2.keep = d.keep
    /\ d2.denied = d.denied

LEMMA SweptIs ==
    ASSUME NEW d \in DB, NEW D \in SUBSET Id
    PROVE  Swept(d,
                 [PairsDropped(d, D) EXCEPT
                    !.name  = [e \in Id |-> IF e \in D THEN NoName ELSE @[e]],
                    !.stamp = [e \in Id |-> IF e \in D THEN "none" ELSE @[e]],
                    !.memo  = [e \in Id |-> IF e \in D THEN NoExt ELSE @[e]],
                    !.alias = [n \in Name |-> IF @[n].of \in D THEN Unowned ELSE @[n]],
                    !.ext   = [x \in Ext |-> IF @[x] \in D THEN None ELSE @[x]],
                    !.suppressed = {sp \in @ : sp[1] \notin D}],
                 D)
<1> DEFINE g == PairsDropped(d, D)
           N == [e \in Id |-> IF e \in D THEN NoName ELSE g.name[e]]
           T == [e \in Id |-> IF e \in D THEN "none" ELSE g.stamp[e]]
           M == [e \in Id |-> IF e \in D THEN NoExt ELSE g.memo[e]]
           A == [n \in Name |-> IF g.alias[n].of \in D THEN Unowned ELSE g.alias[n]]
           X == [x \in Ext |-> IF g.ext[x] \in D THEN None ELSE g.ext[x]]
           S == {sp \in g.suppressed : sp[1] \notin D}
           d2 == [g EXCEPT !.name = N, !.stamp = T, !.memo = M, !.alias = A, !.ext = X,
                           !.suppressed = S]
           d3 == [g EXCEPT
                    !.name  = [e \in Id |-> IF e \in D THEN NoName ELSE @[e]],
                    !.stamp = [e \in Id |-> IF e \in D THEN "none" ELSE @[e]],
                    !.memo  = [e \in Id |-> IF e \in D THEN NoExt ELSE @[e]],
                    !.alias = [n \in Name |-> IF @[n].of \in D THEN Unowned ELSE @[n]],
                    !.ext   = [x \in Ext |-> IF @[x] \in D THEN None ELSE @[x]],
                    !.suppressed = {sp \in @ : sp[1] \notin D}]
<1>1. /\ g \in DB
      /\ g.weak = {p \in d.weak : p \cap D = {}} /\ g.shared = {p \in d.shared : p \cap D = {}}
      /\ g.name = d.name /\ g.alias = d.alias /\ g.parent = d.parent /\ g.top = d.top
      /\ g.link = d.link /\ g.keep = d.keep /\ g.ext = d.ext
      /\ g.memo = d.memo /\ g.stamp = d.stamp /\ g.suppressed = d.suppressed
      /\ g.denied = d.denied
  BY DroppedIs
<1> HIDE DEF g
<1>2. d3 = d2
  OBVIOUS
<1>3. Unowned \in Row
  BY Constants
<1>4. /\ N \in [Id -> Name \cup {NoName}] /\ T \in [Id -> {"none", "fresh", "old"}]
      /\ M \in [Id -> Ext \cup {NoExt}]
      /\ \A e \in Id : /\ N[e] = IF e \in D THEN NoName ELSE d.name[e]
                       /\ T[e] = IF e \in D THEN "none" ELSE d.stamp[e]
                       /\ M[e] = IF e \in D THEN NoExt ELSE d.memo[e]
  BY <1>1 DEF DB
<1>5. /\ A \in [Name -> Row] /\ X \in [Ext -> Id \cup {None}] /\ S \in SUBSET (Id \X Name)
      /\ \A m \in Name : A[m] = IF d.alias[m].of \in D THEN Unowned ELSE d.alias[m]
      /\ \A x \in Ext : X[x] = IF d.ext[x] \in D THEN None ELSE d.ext[x]
      /\ S = {sp \in d.suppressed : sp[1] \notin D}
  BY <1>1, <1>3 DEF DB
<1> HIDE DEF N, T, M, A, X, S
<1>6. /\ d2 \in DB /\ d2.name = N /\ d2.stamp = T /\ d2.memo = M /\ d2.alias = A /\ d2.ext = X
      /\ d2.suppressed = S /\ d2.weak = g.weak /\ d2.shared = g.shared
      /\ d2.parent = g.parent /\ d2.top = g.top /\ d2.link = g.link /\ d2.keep = g.keep
      /\ d2.denied = g.denied
  BY <1>1, <1>4, <1>5 DEF DB
<1> HIDE DEF d2
<1>7. Swept(d, d2, D)
  BY <1>1, <1>4, <1>5, <1>6 DEF Swept
<1> HIDE DEF d3
<1>8. Swept(d, d3, D)
  BY <1>2, <1>7
<1> QED
  BY <1>8 DEF d3, g

LEMMA SweepOrphansKeeps == ASSUME IInv, SweepOrphans PROVE Kept
<1>1. /\ Typed /\ Rested(db) /\ Settled(db, seen, shadowed)
      /\ Contest(db, carried, attaching) /\ Claim(db, carried, attaching)
      /\ Whole(db) /\ Living(db, stray) /\ Unshadowed(db, shadowed) /\ Told(db, excuse, shadowed)
      /\ db \in DB /\ Unique(db) /\ Apart(db) /\ Recorded(db) /\ Handed(db) /\ Tree(db)
      /\ None \notin Id /\ Live(db) \subseteq Id /\ NoName \notin Name
      /\ Unowned.of = None /\ Unowned.src = "owner"
  BY Constants DEF IInv, Held, Whole, Live
<1> DEFINE D == {e \in Live(db) : /\ db.stamp[e] = "old" /\ ~Linked(db, e)
                                  /\ ~Authored(db, e)}
<1>2. /\ D # {} /\ D \in SUBSET Id
      /\ carried' = (carried \/ \E x \in Ext : db.ext[x] \in D)
      /\ UNCHANGED <<kind, asked, attaching, seen, excuse, stray, shadowed>>
  BY <1>1 DEF SweepOrphans
<1>3. Swept(db, db', D)
  BY <1>1, <1>2, SweptIs DEF SweepOrphans
<1>4. D \subseteq Live(db) /\ \A e \in D : ~Linked(db, e) /\ ~Authored(db, e)
  OBVIOUS
<1> HIDE DEF D
<1>5. /\ db' \in DB
      /\ \A e \in Id : /\ (db').name[e] = IF e \in D THEN NoName ELSE db.name[e]
                       /\ (db').stamp[e] = IF e \in D THEN "none" ELSE db.stamp[e]
                       /\ (db').memo[e] = IF e \in D THEN NoExt ELSE db.memo[e]
      /\ \A m \in Name : (db').alias[m] = IF db.alias[m].of \in D THEN Unowned ELSE db.alias[m]
      /\ \A x \in Ext : (db').ext[x] = IF db.ext[x] \in D THEN None ELSE db.ext[x]
      /\ (db').suppressed = {sp \in db.suppressed : sp[1] \notin D}
      /\ (db').weak = {p \in db.weak : p \cap D = {}} /\ (db').shared = {p \in db.shared : p \cap D = {}}
      /\ (db').parent = db.parent /\ (db').top = db.top /\ (db').link = db.link /\ (db').keep = db.keep
  BY <1>3 DEF Swept
<1>6. Live(db') = Live(db) \ D
  BY <1>1, <1>2, <1>5 DEF Live
<1>7. Unique(db') /\ Handed(db') /\ Apart(db')
  BY <1>1, <1>5, <1>6 DEF Unique, Handed, Apart, Queue
<1>8. Recorded(db')
  <2>1. \A m \in Name : (db').alias[m].src = "provider" => (db').alias[m].of \in Live(db')
    BY <1>1, <1>5, <1>6 DEF Recorded
  <2>2. \A e \in Id \ Live(db') : (db').memo[e] = NoExt
    BY <1>1, <1>5, <1>6 DEF Recorded
  <2>3. (db').suppressed \subseteq Live(db') \X Name
    BY <1>1, <1>5, <1>6 DEF Recorded
  <2> QED
    BY <2>1, <2>2, <2>3 DEF Recorded
<1>9. Tree(db')
  <2>1. \A e : Ancestors(db', e) = Ancestors(db, e)
    BY <1>5 DEF Ancestors, Upward
  <2>2. ASSUME NEW e \in Id, db.parent[e] # None
        PROVE  kind = "tag" /\ {e, db.parent[e]} \subseteq Live(db') /\ e \notin Ancestors(db, e)
    <3>1. kind = "tag" /\ {e, db.parent[e]} \subseteq Live(db) /\ e \notin Ancestors(db, e)
      BY <1>1, <2>2 DEF Tree
    <3>2. Authored(db, e) /\ Authored(db, db.parent[e])
      BY <2>2, <3>1 DEF Authored
    <3> QED
      BY <1>4, <1>6, <3>1, <3>2
  <2> QED
    BY <1>5, <2>1, <2>2 DEF Tree
<1>10. Living(db', stray)
  <2>1. ASSUME NEW p \in Queue(db') PROVE p \subseteq Live(db') \cup stray
    <3>1. p \in Queue(db) /\ p \cap D = {}
      BY <1>5 DEF Queue
    <3> QED
      BY <1>1, <1>6, <3>1 DEF Living
  <2>2. \A m \in Name : (db').alias[m].of \in Live(db') \cup stray \cup {None}
    BY <1>1, <1>5, <1>6 DEF Living
  <2>3. \A x \in Ext : (db').ext[x] \in Live(db') \cup stray \cup {None}
    BY <1>1, <1>5, <1>6 DEF Living
  <2> QED
    BY <2>1, <2>2, <2>3 DEF Living
<1>11. Unshadowed(db', shadowed)
  <2> SUFFICES ASSUME NEW f \in Live(db), f \notin D, db.name[f] \notin shadowed
               PROVE  (db').alias[db.name[f]].of \in {None, f}
    BY <1>1, <1>5, <1>6 DEF Unshadowed
  <2>1. db.name[f] \in Name /\ db.alias[db.name[f]].of \in {None, f}
    BY <1>1 DEF Live, DB, Unshadowed
  <2> QED
    BY <1>1, <1>5, <2>1
<1>12. /\ \A f \in Id : Forms(db', f) \subseteq Forms(db, f)
       /\ \A f \in D : Forms(db', f) = {}
  <2>1. ASSUME NEW m \in Name, NEW f \in Id, (db').alias[m].of = f PROVE db.alias[m].of = f /\ f \notin D
    BY <1>1, <1>2, <1>5, <2>1
  <2> QED
    BY <1>2, <1>5, <1>6, <2>1 DEF Forms
<1>13. Told(db', excuse, shadowed)
  <2>1. PICK e \in D : e \in Id /\ db.name[e] \in Name
    BY <1>1, <1>2, <1>4 DEF Live, DB
  <2>2. ASSUME NEW a \in Id, NEW b \in Id, Forms(db', a) # {}, Forms(db', b) # {},
               {a, b} \in db.keep \cup Queue(db)
        PROVE  {a, b} \in (db').keep \cup Queue(db')
    <3>1. a \notin D /\ b \notin D
      BY <1>12, <2>2
    <3> QED
      BY <1>5, <2>2, <3>1 DEF Queue
  <2>3. Gaining(db, db', e, db.name[e], excuse, excuse, shadowed, shadowed)
    BY <1>12, <2>1, <2>2 DEF Gaining
  <2> QED
    BY <1>1, <2>1, <2>3, ToldStays
<1>14. Whole(db')
  BY <1>5, <1>7, <1>8, <1>9 DEF Whole
<1>15. Held(db)'
  BY <1>2, <1>10, <1>11, <1>13, <1>14, HeldOn
<1>16. Rested(db')
  <2>1. LinksLive(db')
    BY <1>1, <1>4, <1>5, <1>6 DEF Rested, LinksLive, Linked
  <2>2. \A e \in Live(db') : Linked(db', e) => (db').stamp[e] = "none"
    BY <1>1, <1>5, <1>6 DEF Rested, Linked
  <2> QED
    BY <2>1, <2>2 DEF Rested
<1>17. Settled(db', seen, shadowed)
  <2> SUFFICES ASSUME NEW v \in Video, NEW c \in seen[v], c[1] \notin shadowed
               PROVE  Leads(db', v, c[1], c[2])
    BY DEF Settled
  <2>1. c[1] \in Name \ shadowed /\ c[2] \in Ext \cup {NoExt}
    BY <1>1 DEF Typed
  <2> DEFINE m == c[1]
             r == Resolve(db, m, c[2])
  <2>2. Leads(db, v, m, c[2])
    BY <1>1 DEF Settled
  <2>3. r # None /\ db.link[v][r] # "none" /\ r \notin D
    BY <1>4, <2>2 DEF Leads, Linked
  <2>4. CASE c[2] # NoExt
    <3>1. db.ext[c[2]] = r /\ (db').ext[c[2]] = r
      BY <1>5, <2>1, <2>2, <2>3, <2>4 DEF Leads, Resolve
    <3> QED
      BY <1>5, <2>3, <2>4, <3>1 DEF Leads, Resolve
  <2>5. CASE c[2] = NoExt
    <3>1. r = Lookup(db, m)
      BY <2>5 DEF Resolve
    <3>2. /\ \A f \in Live(db) : db.name[f] = m => Lookup(db, m) = f
          /\ (\A f \in Live(db) : db.name[f] # m) => Lookup(db, m) = db.alias[m].of
      BY <1>1, <2>1, LookupIs
    <3>3. db' \in DB
      BY <1>5
    <3>4. /\ \A f \in Live(db') : (db').name[f] = m => Lookup(db', m) = f
          /\ (\A f \in Live(db') : (db').name[f] # m) => Lookup(db', m) = (db').alias[m].of
      BY <1>7, <2>1, <3>3, LookupIs
    <3>5. Lookup(db', m) = r
      <4>1. CASE \E f \in Live(db) : db.name[f] = m
        <5>1. PICK f \in Live(db) : db.name[f] = m
          BY <4>1
        <5>2. f = r /\ f \in Live(db') /\ f \in Id
          BY <1>1, <1>6, <2>3, <3>1, <3>2, <5>1
        <5> QED
          BY <1>5, <2>3, <3>4, <5>1, <5>2
      <4>2. CASE \A f \in Live(db) : db.name[f] # m
        <5>1. \A f \in Live(db') : (db').name[f] # m
          BY <1>1, <1>5, <1>6, <4>2
        <5>2. db.alias[m].of = r
          BY <3>1, <3>2, <4>2
        <5> QED
          BY <1>5, <2>1, <2>3, <3>4, <5>1, <5>2
      <4> QED
        BY <4>1, <4>2
    <3> QED
      BY <1>5, <2>3, <2>5, <3>5 DEF Leads, Resolve
  <2> QED
    BY <2>4, <2>5
<1>18. Contest(db', carried', attaching)
  <2> SUFFICES ASSUME NEW x \in Ext, NEW e \in Live(db'), (db').memo[e] = x,
                      (db').ext[x] \notin {None, e}, ~carried',
                      attaching = <<>> \/ attaching[1] # e
               PROVE  {e, (db').ext[x]} \in (db').keep \cup (db').shared
    BY DEF Contest
  <2>1. ~carried /\ e \in Live(db) /\ e \notin D /\ e \in Id /\ db.ext[x] \notin D
    BY <1>1, <1>2, <1>6
  <2>2. db.memo[e] = x /\ (db').ext[x] = db.ext[x]
    BY <1>5, <2>1
  <2>3. {e, db.ext[x]} \in db.keep \cup db.shared
    BY <1>1, <2>1, <2>2 DEF Contest
  <2> QED
    BY <1>5, <2>1, <2>2, <2>3
<1>19. Claim(db', carried', attaching)
  <2>1. attaching # <<>> => attaching[1] \in Id
    BY <1>1 DEF Typed
  <2> QED
    BY <1>1, <1>2, <1>5, <2>1 DEF Claim
<1>20. Typed'
  BY <1>1, <1>2 DEF Typed
<1> QED
  BY <1>2, <1>5, <1>15, <1>16, <1>17, <1>18, <1>19, <1>20 DEF Kept, IInv

-----------------------------------------------------------------------------
(***************************************************************************)
(* The theorems.                                                           *)
(***************************************************************************)
LEMMA StutterKeeps == ASSUME IInv, UNCHANGED vars PROVE Kept
<1>1. UNCHANGED <<kind, db, asked, attaching, seen, excuse, stray, shadowed, carried>>
  BY DEF vars
<1>2. Typed'
  BY <1>1 DEF IInv, Typed
<1>3. Held(db)'
  BY <1>1, HeldStays DEF IInv
<1> QED
  BY <1>1, <1>2, <1>3 DEF Kept, IInv

LEMMA NextKeeps == IInv /\ [Next]_vars => Kept
<1> SUFFICES ASSUME IInv, [Next]_vars PROVE Kept
  OBVIOUS
<1>1. CASE \E v \in Video : Rescan(v) \/ \E n \in Name : AttachTag(v, n)
  BY <1>1, RescanKeeps, AttachTagKeeps
<1>2. CASE \E s, l \in Id, show \in BOOLEAN : Merge(s, l, show)
  BY <1>2, MergeKeeps
<1>3. CASE \E e \in Id, n \in Name :
             \/ Rename(e, n) \/ AskAlias(e, n) \/ DeleteAlias(e, n)
             \/ ApplyProviderAlias(e, n)
  BY <1>3, RenameKeeps, AskAliasKeeps, DeleteAliasKeeps, ApplyProviderAliasKeeps
<1>4. CASE \E e \in Id, x \in Ext : Enrich(e, x)
  BY <1>4, EnrichKeeps
<1>5. CASE \E p \in Pair : Dismiss(p)
  BY <1>5, DismissKeeps
<1>6. CASE \E e \in Id, p \in Id \cup {None} : SetTagParent(e, p)
  BY <1>6, SetTagParentKeeps
<1>7. CASE \E n \in Name : DenyTag(n)
  BY <1>7, DenyTagKeeps
<1>8. CASE \E e \in Id : GraceEnds(e)
  BY <1>8, GraceEndsKeeps
<1>9. CASE AddAskedAlias
  BY <1>9, AddAskedAliasKeeps
<1>10. CASE AttachExternalID
  BY <1>10, AttachExternalIDKeeps
<1>11. CASE SweepOrphans
  BY <1>11, SweepOrphansKeeps
<1>12. CASE SeedIdentityReviewQueue
  BY <1>12, SeedKeeps
<1>13. CASE SweepSharedExternalIDs
  BY <1>13, SharedSweepKeeps
<1>14. CASE BackfillDashedTagAliases
  BY <1>14, BackfillKeeps
<1>15. CASE UNCHANGED vars
  BY <1>15, StutterKeeps
<1> QED
  BY <1>1, <1>2, <1>3, <1>4, <1>5, <1>6, <1>7, <1>8, <1>9, <1>10, <1>11, <1>12, <1>13, <1>14,
     <1>15 DEF Next

\* Whatever the operations and their order, the tables stay as the inductive invariant says.
THEOREM RegistrySound == Spec => []IInv
<1>1. Init => IInv
  BY InitHolds
<1>2. IInv /\ [Next]_vars => IInv'
  BY NextKeeps DEF Kept
<1> QED
  BY <1>1, <1>2, PTL DEF Spec

\* The tables are what the code takes them to be, the tags form a forest, and what a rescan
\* linked is found again (identity_ops.go:380, tag_hierarchy.go:175).
THEOREM RegistryHolds == Spec => []RegistryKept
<1>1. IInv => RegistryKept
  <2> SUFFICES ASSUME IInv PROVE RegistryKept
    OBVIOUS
  <2>1. /\ Typed /\ Rested(db) /\ Settled(db, seen, shadowed)
        /\ db \in DB /\ Unique(db) /\ Apart(db) /\ Recorded(db) /\ Tree(db)
    BY DEF IInv, Held, Whole
  <2>2. TypeOK
    BY <2>1 DEF TypeOK, DB, Row, Unique, Apart, Recorded, Rested
  <2>3. Forest
    BY <2>1 DEF Forest, Tree
  <2>4. RescanSettled
    BY <2>1 DEF RescanSettled, Settled, Leads
  <2> QED
    BY <2>2, <2>3, <2>4 DEF RegistryKept
<1> QED
  BY <1>1, RegistrySound, PTL

\* The queue, the aliases and the provider ids name entities that exist, but for what an
\* unlocked check let through (orphans.go:59).
THEOREM RegistryNamesTheLiving == Spec => []NamesTheLiving
<1>1. IInv => NamesTheLiving
  BY DEF IInv, Held, Living, NamesTheLiving
<1> QED
  BY <1>1, RegistrySound, PTL

\* Near-misses and contested provider ids are put to the owner (review_queue.go:86,
\* shared_external_id.go:20).
THEOREM QueueHolds == Spec => []QueueTells
<1>1. IInv => QueueTells
  <2> SUFFICES ASSUME IInv PROVE QueueTells
    OBVIOUS
  <2>1. Contest(db, carried, attaching) /\ Told(db, excuse, shadowed)
    BY DEF IInv, Held
  <2>2. ContestedShown
    BY <2>1 DEF ContestedShown, Contest, Claiming
  <2>3. NearMissQueued
    BY <2>1 DEF NearMissQueued, Told, Live
  <2> QED
    BY <2>2, <2>3 DEF QueueTells
<1> QED
  BY <1>1, RegistrySound, PTL

\* A pair the owner keeps apart stays so, and never comes back to the queue
\* (review_queue.go:353, identity_queue.go:90).
THEOREM DismissalsStand == Spec => DismissedStays
<1>1. IInv /\ [Next]_vars => [db.keep \subseteq db'.keep \ Queue(db')]_vars
  <2> SUFFICES ASSUME IInv, [Next]_vars PROVE db.keep \subseteq db'.keep \ Queue(db')
    OBVIOUS
  <2>1. db.keep \subseteq db'.keep /\ IInv'
    BY NextKeeps DEF Kept
  <2>2. Queue(db') \cap (db').keep = {}
    BY <2>1 DEF IInv, Held, Whole, Apart, Queue
  <2> QED
    BY <2>1, <2>2
<1> QED
  BY <1>1, RegistrySound, PTL DEF Spec, DismissedStays

(***************************************************************************)
(* The tags and categories (Taxonomy), for any terms and tags.  What is    *)
(* inductive, TagInv: names and aliases lead to tags there are (Spine), so *)
(* do parents, links and what is kept off the file (Hung), no tag has a    *)
(* category's name, no tag is above itself, and what was removed is on     *)
(* record.  Terms made into tags in some order, and the backfill, go by a  *)
(* function as a set of names does above.                                  *)
(***************************************************************************)
\* The tables of names: ids given in order, a name one tag's, an alias of a tag there is.
Spine(s) ==
    /\ s \in [name : [Tags!Tag -> Term \cup {NoTerm}], alias : [Term -> Tags!Tag \cup {0}], top : 0 .. MaxTag]
    /\ \A i \in Tags!Tag : s.name[i] # NoTerm <=> i <= s.top
    /\ \A d \in Term : s.alias[d] <= s.top
    /\ \A i, j \in Tags!Tag : s.name[i] = s.name[j] => i = j \/ s.name[i] = NoTerm

\* The rows that name a tag name one there is, and what was removed is on record.
Hung ==
    /\ parent \in [Tags!Tag -> Tags!Tag \cup {0}]
    /\ \A i \in Tags!Tag : parent[i] <= t.top /\ (parent[i] # 0 => i <= t.top)
    /\ tagged \subseteq 1 .. t.top /\ off \subseteq 1 .. t.top
    /\ category \subseteq Term /\ raw \subseteq Term
    /\ removedDash \subseteq supp \cap ((1 .. t.top) \X Term)

NamesDiffer(s) == \A i \in Tags!Tag : s.name[i] \notin category

\* What is above some tags by a table of parents, and that no tag is above itself by it.
ClosedBy(par, is) == \A i \in is : par[i] # 0 => par[i] \in is
UpBy(par, is) == {j \in Tags!Tag : \A above \in SUBSET Tags!Tag : is \subseteq above /\ ClosedBy(par, above) => j \in above}
Rooted(par) == \A i \in Tags!Tag : par[i] # 0 => i \notin UpBy(par, {par[i]})

TagInv == Spine(t) /\ Hung /\ NamesDiffer(t) /\ Rooted(parent) /\ Tags!RemovedDashStays

LEMMA TagFacts ==
    /\ NoTerm \notin Term /\ IsFiniteSet(Term) /\ MaxTag \in Nat
    /\ TermDash \in [Term -> Term \cup {NoTerm}]
    /\ Tags!Tag = 1 .. MaxTag /\ Tags!NoTag = 0
BY PartsAssumption DEF Tags!TaxonomyAssumption, Tags!Tag, Tags!NoTag, Tags!IsFiniteSet, IsFiniteSet

LEMMA SpineParts ==
    ASSUME NEW s, Spine(s)
    PROVE  /\ s = [name |-> s.name, alias |-> s.alias, top |-> s.top]
           /\ s.name \in [Tags!Tag -> Term \cup {NoTerm}]
           /\ s.alias \in [Term -> Tags!Tag \cup {0}]
           /\ s.top \in 0 .. MaxTag /\ s.top \in Nat
BY TagFacts DEF Spine

\* A name leads to the tag it is the name of, or else to the one it is an alias of.
LEMMA LookupFinds ==
    ASSUME NEW s, Spine(s), NEW x \in Term
    PROVE  /\ Tags!lookupByNameKey(s, x) \in 0 .. s.top
           /\ \A i \in Tags!Tag : s.name[i] = x => Tags!lookupByNameKey(s, x) = i
           /\ Tags!Named(s, x) = {} => Tags!lookupByNameKey(s, x) = s.alias[x]
<1>1. CASE Tags!Named(s, x) = {}
  BY <1>1, TagFacts DEF Spine, Tags!lookupByNameKey, Tags!Named
<1>2. CASE Tags!Named(s, x) # {}
  <2>1. PICK i \in Tags!Tag : s.name[i] = x
    BY <1>2 DEF Tags!Named
  <2>2. Tags!Named(s, x) = {i}
    BY <2>1, TagFacts DEF Spine, Tags!Named
  <2>3. Tags!lookupByNameKey(s, x) = i
    BY <2>2 DEF Tags!lookupByNameKey
  <2>4. i <= s.top
    BY <2>1, TagFacts DEF Spine
  <2> QED BY <2>1, <2>2, <2>3, <2>4, TagFacts DEF Spine, Tags!Named
<1> QED BY <1>1, <1>2

\* What a table may become when tags are made and dashed aliases given.
TagsGrown(s, r) ==
    /\ Spine(r) /\ s.top <= r.top
    /\ \A i \in 1 .. s.top : r.name[i] = s.name[i]
    /\ \A d \in Term : r.alias[d] # s.alias[d] => s.alias[d] = 0 /\ r.alias[d] > s.top

LEMMA TagsGrownHere == ASSUME NEW s, Spine(s) PROVE TagsGrown(s, s)
BY TagFacts DEF TagsGrown, Spine

LEMMA TagsGrownOn == ASSUME NEW s, NEW r, NEW q, Spine(s), TagsGrown(s, r), TagsGrown(r, q) PROVE TagsGrown(s, q)
<1>1. s.top \in Nat /\ r.top \in Nat /\ q.top \in Nat /\ s.top <= r.top /\ r.top <= q.top
  BY SpineParts DEF TagsGrown
<1>2. \A i \in 1 .. s.top : q.name[i] = s.name[i]
  BY <1>1 DEF TagsGrown
<1>3. ASSUME NEW d \in Term, q.alias[d] # s.alias[d] PROVE s.alias[d] = 0 /\ q.alias[d] > s.top
  <2>1. r.alias[d] \in Nat /\ q.alias[d] \in Nat /\ s.alias[d] \in Nat
    BY SpineParts, TagFacts DEF TagsGrown
  <2>2. CASE r.alias[d] = s.alias[d]
    BY <1>1, <1>3, <2>1, <2>2 DEF TagsGrown
  <2>3. CASE r.alias[d] # s.alias[d]
    BY <1>1, <2>1, <2>3 DEF TagsGrown
  <2> QED BY <2>2, <2>3
<1> QED BY <1>1, <1>2, <1>3 DEF TagsGrown

LEMMA AliasSpine ==
    ASSUME NEW s, Spine(s), NEW d \in Term, NEW i \in 0 .. s.top
    PROVE  /\ Spine([s EXCEPT !.alias[d] = i])
           /\ [s EXCEPT !.alias[d] = i].name = s.name /\ [s EXCEPT !.alias[d] = i].top = s.top
           /\ [s EXCEPT !.alias[d] = i].alias = [s.alias EXCEPT ![d] = i]
<1> DEFINE r == [s EXCEPT !.alias[d] = i]
<1>1. r.name = s.name /\ r.top = s.top /\ r.alias = [s.alias EXCEPT ![d] = i] /\ r = [name |-> r.name, alias |-> r.alias, top |-> r.top]
  BY SpineParts
<1>2. i \in Tags!Tag \cup {0}
  BY SpineParts, TagFacts
<1>3. r.alias \in [Term -> Tags!Tag \cup {0}]
  BY <1>1, <1>2, SpineParts
<1> HIDE DEF r
<1>4. Spine(r)
  BY <1>1, <1>3, TagFacts DEF Spine
<1> QED BY <1>1, <1>4 DEF r

\* A dashed alias is given only where none is, and never over a name.
LEMMA DashGiven ==
    ASSUME NEW s, Spine(s), NEW i \in 1 .. s.top, NEW x \in Term
    PROVE  LET r == Tags!addDashedTagAlias(s, i, x) IN
           /\ Spine(r) /\ r.name = s.name /\ r.top = s.top
           /\ \A d \in Term : r.alias[d] # s.alias[d] => s.alias[d] = 0 /\ r.alias[d] = i /\ d = TermDash[x]
<1> DEFINE r == Tags!addDashedTagAlias(s, i, x)
<1>1. CASE r = s
  BY <1>1
<1>2. CASE r # s
  <2>1. TermDash[x] # NoTerm /\ s.alias[TermDash[x]] = 0 /\ r = [s EXCEPT !.alias[TermDash[x]] = i]
    BY <1>2, TagFacts DEF Tags!addDashedTagAlias
  <2>2. TermDash[x] \in Term /\ i \in 0 .. s.top
    BY <2>1, TagFacts, SpineParts
  <2> HIDE DEF r
  <2>3. Spine(r) /\ r.name = s.name /\ r.top = s.top /\ r.alias = [s.alias EXCEPT ![TermDash[x]] = i]
    BY <2>1, <2>2, AliasSpine
  <2> QED BY <2>1, <2>2, <2>3, SpineParts DEF r
<1> QED BY <1>1, <1>2

LEMMA CountIs == ASSUME NEW xs \in SUBSET Term PROVE Tags!Cardinality(xs) \in Nat
<1>1. Tags!Cardinality(xs) = Cardinality(xs)
  BY DEF Tags!Cardinality, Cardinality
<1> QED BY <1>1, TagFacts, FS_Subset, FS_CardinalityType

Knows(s, x) == Tags!lookupByNameKey(s, x) # 0

LEMMA KnowsStill ==
    ASSUME NEW s, NEW r, Spine(s), TagsGrown(s, r), NEW x \in Term, Knows(s, x)
    PROVE  Knows(r, x)
<1>1. \A i \in Tags!Tag : r.name[i] = x => Tags!lookupByNameKey(r, x) = i
  BY LookupFinds DEF TagsGrown
<1>2. CASE Tags!Named(r, x) # {}
  BY <1>1, <1>2, TagFacts DEF Tags!Named, Knows
<1>3. CASE Tags!Named(r, x) = {}
  <2>1. Tags!Named(s, x) = {}
    <3> SUFFICES ASSUME NEW i \in Tags!Tag, s.name[i] = x PROVE r.name[i] = x
      BY <1>3 DEF Tags!Named
    <3>1. i \in 1 .. s.top
      BY TagFacts, SpineParts DEF Spine
    <3> QED BY <3>1 DEF TagsGrown
  <2>2. s.alias[x] # 0 /\ Tags!lookupByNameKey(r, x) = r.alias[x]
    BY <1>3, <2>1, LookupFinds DEF TagsGrown, Knows
  <2> QED BY <2>2 DEF TagsGrown, Knows
<1> QED BY <1>2, <1>3

\* A term without a tag is made one, under the next id.
LEMMA FirstMade ==
    ASSUME NEW s, Spine(s), NEW x \in Term, ~Knows(s, x), s.top < MaxTag
    PROVE  LET r == [s EXCEPT !.name[s.top + 1] = x, !.top = s.top + 1] IN
           /\ TagsGrown(s, r) /\ r.top = s.top + 1 /\ r.alias = s.alias
           /\ r.name = [s.name EXCEPT ![s.top + 1] = x]
<1> DEFINE i == s.top + 1
           r == [s EXCEPT !.name[i] = x, !.top = i]
<1>1. i \in Tags!Tag /\ i \in 1 .. MaxTag /\ i > s.top
  BY SpineParts, TagFacts
<1>2. r.name = [s.name EXCEPT ![i] = x] /\ r.top = i /\ r.alias = s.alias /\ r = [name |-> r.name, alias |-> r.alias, top |-> r.top]
  <2>1. s = [name |-> s.name, alias |-> s.alias, top |-> s.top]
    BY SpineParts
  <2>2. [s EXCEPT !.name[i] = x] = [name |-> [s.name EXCEPT ![i] = x], alias |-> s.alias, top |-> s.top]
    BY <2>1
  <2>3. r = [[s EXCEPT !.name[i] = x] EXCEPT !.top = i]
    BY <2>1
  <2> HIDE DEF r
  <2> QED BY <2>2, <2>3
<1>3. \A j \in Tags!Tag : s.name[j] # x
  BY LookupFinds, TagFacts DEF Knows
<1>4. r.name \in [Tags!Tag -> Term \cup {NoTerm}] /\ \A j \in Tags!Tag : r.name[j] = IF j = i THEN x ELSE s.name[j]
  BY <1>1, <1>2, SpineParts
<1> HIDE DEF r
<1>5. Spine(r)
  <2>1. r \in [name : [Tags!Tag -> Term \cup {NoTerm}], alias : [Term -> Tags!Tag \cup {0}], top : 0 .. MaxTag]
    BY <1>1, <1>2, <1>4, SpineParts
  <2>2. \A j \in Tags!Tag : r.name[j] # NoTerm <=> j <= r.top
    BY <1>1, <1>2, <1>4, TagFacts, SpineParts DEF Spine
  <2>3. \A d \in Term : r.alias[d] <= r.top
    BY <1>1, <1>2, TagFacts, SpineParts DEF Spine
  <2>4. \A j, k \in Tags!Tag : r.name[j] = r.name[k] => j = k \/ r.name[j] = NoTerm
    BY <1>3, <1>4 DEF Spine
  <2> QED BY <2>1, <2>2, <2>3, <2>4 DEF Spine
<1>6. TagsGrown(s, r)
  BY <1>1, <1>2, <1>4, <1>5, SpineParts, TagFacts DEF TagsGrown
<1> QED BY <1>2, <1>6 DEF r

\* Resolving a term leaves it a tag, and gives a name to no tag but a new one of that term.
Made(s, r, xs) ==
    \A i \in Tags!Tag : r.name[i] # s.name[i] => r.name[i] \in xs /\ ~Knows(s, r.name[i])

LEMMA OneMade ==
    ASSUME NEW s, Spine(s), NEW x \in Term, s.top < MaxTag
    PROVE  LET r == Tags!resolveOrCreate(s, x) IN
           TagsGrown(s, r) /\ r.top <= s.top + 1 /\ Knows(r, x) /\ Made(s, r, {x})
<1> DEFINE r == Tags!resolveOrCreate(s, x)
<1>0. s.top \in Nat
  BY SpineParts
<1>1. CASE Knows(s, x)
  <2>1. r = s
    BY <1>1 DEF Tags!resolveOrCreate, Tags!NoTag, Knows
  <2> QED BY <1>0, <1>1, <2>1, TagsGrownHere DEF Made
<1>2. CASE ~Knows(s, x)
  <2> DEFINE m == [s EXCEPT !.name[s.top + 1] = x, !.top = s.top + 1]
  <2>1. r = Tags!addDashedTagAlias(m, s.top + 1, x)
    BY <1>2 DEF Tags!resolveOrCreate, Tags!NoTag, Knows
  <2>2. TagsGrown(s, m) /\ m.top = s.top + 1 /\ m.alias = s.alias /\ m.name = [s.name EXCEPT ![s.top + 1] = x]
    BY <1>2, FirstMade
  <2> HIDE DEF m
  <2>3. Spine(m) /\ s.top + 1 \in 1 .. m.top
    BY <1>0, <2>2 DEF TagsGrown
  <2>4. /\ Spine(r) /\ r.name = m.name /\ r.top = m.top
        /\ \A d \in Term : r.alias[d] # m.alias[d] => m.alias[d] = 0 /\ r.alias[d] = s.top + 1
    BY <2>1, <2>3, DashGiven
  <2> HIDE DEF r
  <2>5. s.top + 1 \in Tags!Tag
    BY <1>0, TagFacts
  <2>6. r.name[s.top + 1] = x /\ \A i \in Tags!Tag : i # s.top + 1 => r.name[i] = s.name[i]
    BY <2>2, <2>4, <2>5, SpineParts
  <2>7. TagsGrown(s, r)
    <3>1. \A i \in 1 .. s.top : r.name[i] = s.name[i]
      BY <1>0, <2>6, SpineParts, TagFacts
    <3>2. s.top <= r.top /\ s.top + 1 > s.top
      BY <1>0, <2>2, <2>4
    <3> QED BY <2>2, <2>4, <3>1, <3>2 DEF TagsGrown
  <2>8. Knows(r, x)
    BY <1>0, <2>4, <2>5, <2>6, LookupFinds, TagFacts DEF Knows
  <2>9. Made(s, r, {x})
    BY <1>2, <2>6 DEF Made
  <2>10. r.top <= s.top + 1
    BY <1>0, <2>2, <2>4
  <2> QED BY <2>7, <2>8, <2>9, <2>10 DEF r
<1> QED BY <1>1, <1>2

\* The tables after the first k terms of an order, and after the tags up to k.
Turns(s, n, o) ==
    CHOOSE f : f = [k \in 0 .. n |-> IF k = 0 THEN s ELSE Tags!resolveOrCreate(f[k - 1], o[k])]
Filling(s) ==
    CHOOSE f : f = [i \in 0 .. MaxTag |->
                       IF i = 0 THEN s
                       ELSE IF i \notin Tags!Live \/ <<i, TermDash[s.name[i]]>> \in supp THEN f[i - 1]
                       ELSE Tags!addDashedTagAlias(f[i - 1], i, s.name[i])]

LEMMA TurnsAre ==
    ASSUME NEW s, NEW n \in Nat, NEW o
    PROVE  LET f == Turns(s, n, o)
           IN  f[0] = s /\ \A k \in 1 .. n : f[k] = Tags!resolveOrCreate(f[k - 1], o[k])
<1> DEFINE Next1(was, k) == Tags!resolveOrCreate(was, o[k])
           Upto(f, m) == f = [i \in 0 .. m |-> IF i = 0 THEN s ELSE Next1(f[i - 1], i)]
           T == {m \in 0 .. n : ~ \E f : Upto(f, m)}
<1>0. n \in Nat
  OBVIOUS
<1>1. Turns(s, n, o) = CHOOSE f : Upto(f, n)
  BY DEF Turns
<1> HIDE DEF Next1
<1>2. T = {}
  <2> SUFFICES ASSUME T # {} PROVE FALSE
    OBVIOUS
  <2>1. PICK z \in T : \A y \in T : z <= y
    <3>1. T \in SUBSET Nat
      BY <1>0
    <3> QED BY <3>1, LeastOf
  <2>2. z \in 0 .. n /\ ~ \E f : Upto(f, z)
    OBVIOUS
  <2>3. CASE z = 0
    <3> DEFINE f == [k \in 0 .. 0 |-> s]
    <3>1. Upto(f, 0)
      OBVIOUS
    <3> QED BY <2>2, <2>3, <3>1
  <2>4. CASE z # 0
    <3>1. PICK g : Upto(g, z - 1)
      BY <1>0, <2>1, <2>2, <2>4
    <3> DEFINE f == [k \in 0 .. z |-> IF k = z THEN Next1(g[z - 1], z) ELSE g[k]]
    <3>2. \A k \in 0 .. z - 1 : f[k] = g[k]
      BY <1>0, <2>2
    <3>3. f[z] = Next1(g[z - 1], z) /\ z - 1 \in 0 .. z - 1
      BY <1>0, <2>2, <2>4
    <3>4. f = [k \in 0 .. z |-> f[k]]
      OBVIOUS
    <3> HIDE DEF f
    <3>5. \A k \in 0 .. z : f[k] = IF k = 0 THEN s ELSE Next1(f[k - 1], k)
      <4> SUFFICES ASSUME NEW k \in 0 .. z PROVE f[k] = IF k = 0 THEN s ELSE Next1(f[k - 1], k)
        OBVIOUS
      <4>1. CASE k = z
        BY <2>4, <3>2, <3>3, <4>1
      <4>2. CASE k # z
        <5>1. k \in 0 .. z - 1 /\ f[k] = g[k] /\ (k # 0 => f[k - 1] = g[k - 1])
          BY <1>0, <2>2, <3>2, <4>2
        <5>2. g[k] = IF k = 0 THEN s ELSE Next1(g[k - 1], k)
          BY <3>1, <5>1
        <5> QED BY <5>1, <5>2
      <4> QED BY <4>1, <4>2
    <3>6. Upto(f, z)
      BY <3>4, <3>5
    <3> QED BY <2>2, <3>6
  <2> QED BY <2>3, <2>4
<1>3. \E f : Upto(f, n)
  <2>1. n \in 0 .. n
    BY <1>0
  <2> QED BY <1>2, <2>1
<1> DEFINE f == Turns(s, n, o)
<1>4. Upto(f, n)
  BY <1>1, <1>3
<1>5. f[0] = s /\ \A i \in 1 .. n : f[i] = Next1(f[i - 1], i)
  BY <1>0, <1>4
<1> QED BY <1>5 DEF Next1

LEMMA FillingIs ==
    ASSUME NEW s
    PROVE  LET f == Filling(s)
           IN  /\ f[0] = s
               /\ \A i \in 1 .. MaxTag : f[i] =
                    IF i \notin Tags!Live \/ <<i, TermDash[s.name[i]]>> \in supp THEN f[i - 1]
                    ELSE Tags!addDashedTagAlias(f[i - 1], i, s.name[i])
<1> DEFINE Next1(was, i) == IF i \notin Tags!Live \/ <<i, TermDash[s.name[i]]>> \in supp THEN was
                            ELSE Tags!addDashedTagAlias(was, i, s.name[i])
           Upto(f, m) == f = [i \in 0 .. m |-> IF i = 0 THEN s ELSE Next1(f[i - 1], i)]
           T == {m \in 0 .. MaxTag : ~ \E f : Upto(f, m)}
<1>0. MaxTag \in Nat
  BY TagFacts
<1>1. Filling(s) = CHOOSE f : Upto(f, MaxTag)
  BY DEF Filling
<1> HIDE DEF Next1
<1>2. T = {}
  <2> SUFFICES ASSUME T # {} PROVE FALSE
    OBVIOUS
  <2>1. PICK z \in T : \A y \in T : z <= y
    <3>1. T \in SUBSET Nat
      BY <1>0
    <3> QED BY <3>1, LeastOf
  <2>2. z \in 0 .. MaxTag /\ ~ \E f : Upto(f, z)
    OBVIOUS
  <2>3. CASE z = 0
    <3> DEFINE f == [k \in 0 .. 0 |-> s]
    <3>1. Upto(f, 0)
      OBVIOUS
    <3> QED BY <2>2, <2>3, <3>1
  <2>4. CASE z # 0
    <3>1. PICK g : Upto(g, z - 1)
      <4>1. z - 1 \in 0 .. MaxTag /\ z - 1 \notin T
        BY <1>0, <2>1, <2>2, <2>4
      <4> HIDE DEF Upto
      <4> QED BY <4>1
    <3> DEFINE f == [k \in 0 .. z |-> IF k = z THEN Next1(g[z - 1], z) ELSE g[k]]
    <3>2. \A k \in 0 .. z - 1 : f[k] = g[k]
      BY <1>0, <2>2
    <3>3. f[z] = Next1(g[z - 1], z) /\ z - 1 \in 0 .. z - 1
      BY <1>0, <2>2, <2>4
    <3>4. f = [k \in 0 .. z |-> f[k]]
      OBVIOUS
    <3> HIDE DEF f
    <3>5. \A k \in 0 .. z : f[k] = IF k = 0 THEN s ELSE Next1(f[k - 1], k)
      <4> SUFFICES ASSUME NEW k \in 0 .. z PROVE f[k] = IF k = 0 THEN s ELSE Next1(f[k - 1], k)
        OBVIOUS
      <4>1. CASE k = z
        BY <2>4, <3>2, <3>3, <4>1
      <4>2. CASE k # z
        <5>1. k \in 0 .. z - 1 /\ f[k] = g[k] /\ (k # 0 => f[k - 1] = g[k - 1])
          BY <1>0, <2>2, <3>2, <4>2
        <5>2. g[k] = IF k = 0 THEN s ELSE Next1(g[k - 1], k)
          BY <3>1, <5>1
        <5> QED BY <5>1, <5>2
      <4> QED BY <4>1, <4>2
    <3>6. Upto(f, z)
      BY <3>4, <3>5
    <3> QED BY <2>2, <3>6
  <2> QED BY <2>3, <2>4
<1>3. \E f : Upto(f, MaxTag)
  <2>1. MaxTag \in 0 .. MaxTag
    BY <1>0
  <2> QED BY <1>2, <2>1
<1> DEFINE f == Filling(s)
<1>4. Upto(f, MaxTag)
  BY <1>1, <1>3
<1>5. f[0] = s /\ \A i \in 1 .. MaxTag : f[i] = Next1(f[i - 1], i)
  BY <1>0, <1>4
<1> QED BY <1>5, Zenon DEF Next1

LEMMA MadeOn ==
    ASSUME NEW s, NEW r, NEW q, NEW xs \in SUBSET Term, NEW x \in xs,
           Spine(s), TagsGrown(s, r), Made(s, r, xs), Made(r, q, {x})
    PROVE  Made(s, q, xs)
BY KnowsStill DEF Made

\* The whole of a video's genres made into tags, in any order.
LEMMA AllMade ==
    ASSUME NEW s, Spine(s), NEW xs \in SUBSET Term, s.top + Tags!Cardinality(xs) <= MaxTag,
           NEW r \in Tags!Materialized(s, xs)
    PROVE  TagsGrown(s, r) /\ Made(s, r, xs) /\ \A x \in xs : Knows(r, x)
<1> DEFINE n == Tags!Cardinality(xs)
<1>1. n \in Nat /\ s.top \in Nat
  BY CountIs, SpineParts
<1>2. PICK o \in Tags!Order(xs) : r = Tags!After(s, xs, o)
  BY DEF Tags!Materialized
<1>3. o \in [1 .. n -> xs] /\ \A x \in xs : \E k \in 1 .. n : o[k] = x
  BY DEF Tags!Order
<1> DEFINE f == Turns(s, n, o)
<1>4. r = f[n]
  BY <1>2 DEF Tags!After, Turns
<1>5. f[0] = s /\ \A k \in 1 .. n : f[k] = Tags!resolveOrCreate(f[k - 1], o[k])
  <2>1. \A m \in Nat : Turns(s, m, o)[0] = s /\ \A k \in 1 .. m : Turns(s, m, o)[k] = Tags!resolveOrCreate(Turns(s, m, o)[k - 1], o[k])
    BY TurnsAre
  <2> HIDE DEF n
  <2> QED BY <1>1, <2>1
<1> HIDE DEF n, f
<1> DEFINE Good(k) == /\ TagsGrown(s, f[k]) /\ f[k].top <= s.top + k /\ Made(s, f[k], xs)
                      /\ \A j \in 1 .. k : Knows(f[k], o[j])
           T == {k \in 0 .. n : ~Good(k)}
<1>6. T = {}
  <2> SUFFICES ASSUME T # {} PROVE FALSE
    OBVIOUS
  <2>1. PICK z \in T : \A y \in T : z <= y
    <3>1. T \in SUBSET Nat
      BY <1>1
    <3> QED BY <3>1, LeastOf
  <2>2. z \in 0 .. n /\ ~Good(z)
    OBVIOUS
  <2>3. z # 0
    <3>1. Good(0)
      BY <1>1, <1>5, TagsGrownHere DEF Made
    <3> QED BY <2>2, <3>1
  <2>4. z - 1 \in 0 .. n /\ z - 1 \notin T /\ z \in 1 .. n
    BY <1>1, <2>1, <2>2, <2>3
  <2>5. Good(z - 1)
    BY <2>4
  <2> DEFINE was == f[z - 1]
             x == o[z]
  <2>6. x \in xs /\ x \in Term /\ f[z] = Tags!resolveOrCreate(was, x)
    BY <1>3, <1>5, <2>4
  <2>7. Spine(was) /\ was.top < MaxTag /\ was.top \in Nat /\ was.top <= s.top + (z - 1)
    <3>1. Spine(was) /\ was.top <= s.top + (z - 1)
      BY <2>5 DEF TagsGrown
    <3>2. was.top \in Nat
      BY <3>1, SpineParts
    <3>3. s.top + n <= MaxTag
      BY DEF n
    <3> QED BY <1>1, <2>4, <3>1, <3>2, <3>3, TagFacts
  <2>8. TagsGrown(was, f[z]) /\ f[z].top <= was.top + 1 /\ Knows(f[z], x) /\ Made(was, f[z], {x})
    BY <2>6, <2>7, OneMade
  <2>9. TagsGrown(s, f[z])
    BY <2>5, <2>8, TagsGrownOn
  <2>10. f[z].top <= s.top + z
    <3>1. f[z].top \in Nat
      BY <2>8, SpineParts DEF TagsGrown
    <3> QED BY <1>1, <2>4, <2>7, <2>8, <3>1
  <2>11. Made(s, f[z], xs)
    BY <2>5, <2>6, <2>8, MadeOn
  <2>12. \A j \in 1 .. z : Knows(f[z], o[j])
    <3> SUFFICES ASSUME NEW j \in 1 .. z PROVE Knows(f[z], o[j])
      OBVIOUS
    <3>1. CASE j = z
      BY <2>8, <3>1
    <3>2. CASE j # z
      <4>1. j \in 1 .. z - 1 /\ o[j] \in Term
        BY <1>1, <1>3, <2>4, <3>2
      <4> QED BY <2>5, <2>7, <2>8, <4>1, KnowsStill
    <3> QED BY <3>1, <3>2
  <2> QED BY <2>2, <2>9, <2>10, <2>11, <2>12
<1>7. Good(n)
  <2>1. n \in 0 .. n
    BY <1>1
  <2> QED BY <1>6, <2>1
<1> QED BY <1>3, <1>4, <1>7

\* The backfill gives aliases only, each to a tag under its name and none that is on record
\* as removed.
LEMMA AllFilled ==
    ASSUME Spine(t)
    PROVE  LET r == Tags!Backfilled(t) IN
           /\ Spine(r) /\ r.name = t.name /\ r.top = t.top
           /\ \A d \in Term : r.alias[d] # t.alias[d] => t.alias[d] = 0 /\ <<r.alias[d], d>> \notin supp
<1> DEFINE f == Filling(t)
<1>1. MaxTag \in Nat
  BY TagFacts
<1>2. Tags!Backfilled(t) = f[MaxTag]
  BY DEF Tags!Backfilled, Filling
<1>3. /\ f[0] = t
      /\ \A i \in 1 .. MaxTag : f[i] =
            IF i \notin Tags!Live \/ <<i, TermDash[t.name[i]]>> \in supp THEN f[i - 1]
            ELSE Tags!addDashedTagAlias(f[i - 1], i, t.name[i])
  BY FillingIs
<1> HIDE DEF f
<1> DEFINE Good(k) ==
              /\ Spine(f[k]) /\ f[k].name = t.name /\ f[k].top = t.top
              /\ \A d \in Term : f[k].alias[d] # t.alias[d] => t.alias[d] = 0 /\ <<f[k].alias[d], d>> \notin supp
           T == {k \in 0 .. MaxTag : ~Good(k)}
<1>4. T = {}
  <2> SUFFICES ASSUME T # {} PROVE FALSE
    OBVIOUS
  <2>1. PICK z \in T : \A y \in T : z <= y
    <3>1. T \in SUBSET Nat
      BY <1>1
    <3> QED BY <3>1, LeastOf
  <2>2. z \in 0 .. MaxTag /\ ~Good(z)
    OBVIOUS
  <2>3. z # 0
    <3>1. Good(0)
      BY <1>3
    <3> QED BY <2>2, <3>1
  <2>4. z - 1 \in 0 .. MaxTag /\ z - 1 \notin T /\ z \in 1 .. MaxTag
    BY <1>1, <2>1, <2>2, <2>3
  <2>5. Good(z - 1)
    BY <2>4
  <2>6. CASE f[z] = f[z - 1]
    BY <2>2, <2>5, <2>6
  <2>7. CASE f[z] # f[z - 1]
    <3>1. z \in Tags!Live /\ <<z, TermDash[t.name[z]]>> \notin supp /\ f[z] = Tags!addDashedTagAlias(f[z - 1], z, t.name[z])
      BY <1>3, <2>4, <2>7
    <3>2. z \in 1 .. t.top /\ t.name[z] \in Term
      BY <2>4, <3>1, TagFacts, SpineParts DEF Spine, Tags!Live
    <3>3. /\ Spine(f[z]) /\ f[z].name = f[z - 1].name /\ f[z].top = f[z - 1].top
          /\ \A d \in Term : f[z].alias[d] # f[z - 1].alias[d]
               => f[z - 1].alias[d] = 0 /\ f[z].alias[d] = z /\ d = TermDash[t.name[z]]
      BY <2>5, <3>1, <3>2, DashGiven
    <3>4. ASSUME NEW d \in Term, f[z].alias[d] # t.alias[d]
          PROVE  t.alias[d] = 0 /\ <<f[z].alias[d], d>> \notin supp
      <4>1. CASE f[z].alias[d] = f[z - 1].alias[d]
        BY <2>5, <3>4, <4>1
      <4>2. CASE f[z].alias[d] # f[z - 1].alias[d]
        BY <2>5, <3>1, <3>3, <4>2
      <4> QED BY <4>1, <4>2
    <3> QED BY <2>2, <2>5, <3>3, <3>4
  <2> QED BY <2>6, <2>7
<1>5. Good(MaxTag)
  <2>1. MaxTag \in 0 .. MaxTag
    BY <1>1
  <2> QED BY <1>4, <2>1
<1> QED BY <1>2, <1>5

LEMMA UpLeast ==
    ASSUME NEW par \in [Tags!Tag -> Tags!Tag \cup {0}], NEW is \in SUBSET Tags!Tag
    PROVE  /\ is \subseteq UpBy(par, is) /\ UpBy(par, is) \in SUBSET Tags!Tag /\ ClosedBy(par, UpBy(par, is))
           /\ \A above \in SUBSET Tags!Tag : is \subseteq above /\ ClosedBy(par, above) => UpBy(par, is) \subseteq above
<1>1. ASSUME NEW i \in UpBy(par, is), par[i] # 0 PROVE par[i] \in UpBy(par, is)
  <2>1. i \in Tags!Tag /\ par[i] \in Tags!Tag
    BY <1>1 DEF UpBy
  <2>2. ASSUME NEW above \in SUBSET Tags!Tag, is \subseteq above, ClosedBy(par, above) PROVE par[i] \in above
    BY <1>1, <2>2 DEF UpBy, ClosedBy
  <2> QED BY <2>1, <2>2 DEF UpBy
<1>2. ClosedBy(par, UpBy(par, is))
  BY <1>1 DEF ClosedBy
<1> QED BY <1>2 DEF UpBy

\* Putting a tag under one that it is not above leaves no tag above itself.
LEMMA RootedStill ==
    ASSUME NEW par \in [Tags!Tag -> Tags!Tag \cup {0}], Rooted(par), NEW i \in Tags!Tag, NEW p \in Tags!Tag \cup {0},
           p # 0 => i \notin UpBy(par, {p})
    PROVE  Rooted([par EXCEPT ![i] = p])
<1> DEFINE q == [par EXCEPT ![i] = p]
           U == IF p = 0 THEN {} ELSE UpBy(par, {p})
<1>1. q \in [Tags!Tag -> Tags!Tag \cup {0}] /\ q[i] = p /\ \A j \in Tags!Tag : j # i => q[j] = par[j]
  OBVIOUS
<1>2. U \in SUBSET Tags!Tag /\ ClosedBy(par, U) /\ i \notin U /\ (p # 0 => p \in U)
  <2>1. CASE p = 0
    BY <2>1 DEF ClosedBy
  <2>2. CASE p # 0
    BY <2>2, UpLeast
  <2> QED BY <2>1, <2>2
<1> HIDE DEF q, U
<1>3. ASSUME NEW j \in Tags!Tag, q[j] # 0 PROVE j \notin UpBy(q, {q[j]})
  <2>1. SUFFICES \E S \in SUBSET Tags!Tag : q[j] \in S /\ ClosedBy(q, S) /\ j \notin S
    BY DEF UpBy
  <2>2. CASE j = i
    <3>1. ClosedBy(q, U)
      BY <1>1, <1>2 DEF ClosedBy
    <3> QED BY <1>1, <1>2, <1>3, <2>2, <3>1
  <2>3. CASE j # i
    <3> DEFINE V == UpBy(par, {par[j]})
    <3>1. q[j] = par[j] /\ par[j] \in Tags!Tag
      BY <1>1, <1>3, <2>3
    <3>2. /\ par[j] \in V /\ V \in SUBSET Tags!Tag /\ ClosedBy(par, V) /\ j \notin V
          /\ \A above \in SUBSET Tags!Tag : par[j] \in above /\ ClosedBy(par, above) => V \subseteq above
      <4>1. {par[j]} \in SUBSET Tags!Tag
        BY <3>1
      <4>2. /\ {par[j]} \subseteq V /\ V \in SUBSET Tags!Tag /\ ClosedBy(par, V)
            /\ \A above \in SUBSET Tags!Tag : {par[j]} \subseteq above /\ ClosedBy(par, above) => V \subseteq above
        BY <4>1, UpLeast
      <4>3. j \notin V
        BY <1>3, <3>1 DEF Rooted
      <4> HIDE DEF V
      <4> QED BY <4>2, <4>3
    <3> HIDE DEF V
    <3>3. CASE i \notin V
      <4>1. ClosedBy(q, V)
        BY <1>1, <3>2, <3>3 DEF ClosedBy
      <4> QED BY <3>1, <3>2, <4>1
    <3>4. CASE i \in V
      <4>1. ClosedBy(q, V \cup U)
        BY <1>1, <1>2, <3>2 DEF ClosedBy
      <4>2. j \notin U
        <5> SUFFICES ASSUME j \in U PROVE FALSE
          OBVIOUS
        <5>0. par[j] # 0
          BY <1>3, <3>1
        <5>1. par[j] \in U
          BY <1>2, <5>0 DEF ClosedBy
        <5>2. V \subseteq U
          BY <1>2, <3>2, <5>1
        <5> QED BY <1>2, <3>4, <5>2
      <4> QED BY <1>2, <3>1, <3>2, <4>1, <4>2
    <3> QED BY <3>3, <3>4
  <2> QED BY <2>2, <2>3
<1>4. Rooted(q)
  BY <1>3 DEF Rooted
<1> QED BY <1>4 DEF q

LEMMA LiveIs == ASSUME Spine(t) PROVE Tags!Live = 1 .. t.top
BY TagFacts, SpineParts DEF Spine, Tags!Live

LEMMA UpIs ==
    ASSUME NEW is
    PROVE  Tags!Up(is) = UpBy(parent, is) /\ \A p : Tags!Above(p) = UpBy(parent, {p})
BY DEF Tags!Up, Tags!Above, Tags!Closed, UpBy, ClosedBy, Tags!NoTag

\* Making tags disturbs nothing that names the older ones.
LEMMA TagsGrownKeep ==
    ASSUME TagInv, TagsGrown(t, t'), NEW xs \in SUBSET Term, Made(t, t', xs),
           \A x \in xs : ~Knows(t, x) => x \notin category,
           tagged' \subseteq 1 .. t'.top,
           UNCHANGED <<category, supp, parent, off, raw, removedDash>>
    PROVE  TagInv'
<1>1. t.top \in Nat /\ t'.top \in Nat /\ t.top <= t'.top /\ Spine(t')
  BY SpineParts DEF TagInv, TagsGrown
<1>2. Hung'
  <2>1. \A i \in Tags!Tag : parent'[i] <= t'.top /\ (parent'[i] # 0 => i <= t'.top)
    BY <1>1, TagFacts DEF TagInv, Hung
  <2>2. 1 .. t.top \subseteq 1 .. t'.top
    BY <1>1
  <2>3. off' \subseteq 1 .. t'.top /\ removedDash' \subseteq supp' \cap ((1 .. t'.top) \X Term)
    BY <2>2 DEF TagInv, Hung
  <2>4. parent' \in [Tags!Tag -> Tags!Tag \cup {0}] /\ category' \subseteq Term /\ raw' \subseteq Term
    BY DEF TagInv, Hung
  <2> QED BY <2>1, <2>3, <2>4 DEF Hung, Tags!Tag
<1>3. NamesDiffer(t)'
  BY DEF TagInv, NamesDiffer, Made, Tags!Tag
<1>4. Tags!RemovedDashStays'
  <2> SUFFICES ASSUME NEW r \in removedDash PROVE t'.alias[r[2]] # r[1]
    BY DEF Tags!RemovedDashStays
  <2>1. r[1] \in 1 .. t.top /\ r[2] \in Term /\ t.alias[r[2]] # r[1]
    BY DEF TagInv, Hung, Tags!RemovedDashStays
  <2> QED BY <1>1, <2>1 DEF TagsGrown
<1>5. Rooted(parent)'
  BY DEF TagInv, Rooted, UpBy, ClosedBy, Tags!Tag
<1> QED BY <1>1, <1>2, <1>3, <1>4, <1>5 DEF TagInv, Spine, Tags!Tag

LEMMA ResolvedGrows ==
    ASSUME TagInv, NEW x \in Term, Tags!Resolves(x), NEW r, r = Tags!resolveOrCreate(t, x)
    PROVE  /\ TagsGrown(t, r) /\ Made(t, r, {x}) /\ Tags!lookupByNameKey(r, x) \in 1 .. r.top
           /\ ~Knows(t, x) => x \notin category
<1>1. ~Knows(t, x) => x \notin category /\ t.top < MaxTag
  BY DEF Tags!Resolves, Knows, Tags!NoTag
<1>2. TagsGrown(t, r) /\ Made(t, r, {x}) /\ Knows(r, x)
  <2>1. CASE Knows(t, x)
    <3>1. r = t
      BY <2>1 DEF Knows, Tags!resolveOrCreate, Tags!NoTag
    <3> QED BY <2>1, <3>1, TagsGrownHere DEF TagInv, Made
  <2>2. CASE ~Knows(t, x)
    <3>1. TagsGrown(t, Tags!resolveOrCreate(t, x)) /\ Made(t, Tags!resolveOrCreate(t, x), {x}) /\ Knows(Tags!resolveOrCreate(t, x), x)
      BY <1>1, <2>2, OneMade DEF TagInv
    <3> QED BY <3>1
  <2> QED BY <2>1, <2>2
<1>3. Tags!lookupByNameKey(r, x) \in 1 .. r.top
  <2>1. Tags!lookupByNameKey(r, x) \in 0 .. r.top /\ r.top \in Nat
    BY <1>2, LookupFinds, SpineParts DEF TagsGrown
  <2> QED BY <1>2, <2>1 DEF Knows
<1> QED BY <1>1, <1>2, <1>3

\* A change of names and aliases among the tags there are.
LEMMA NamesKeep ==
    ASSUME TagInv, Spine(t'), t'.top = t.top,
           \A i \in 1 .. t.top : t'.name[i] \notin category,
           removedDash' \subseteq supp' \cap ((1 .. t.top) \X Term),
           \A r \in removedDash' : t'.alias[r[2]] # r[1],
           UNCHANGED <<category, parent, off, tagged, raw>>
    PROVE  TagInv'
<1>1. Hung'
  BY DEF TagInv, Hung, Tags!Tag
<1>2. NamesDiffer(t)'
  <2>1. \A i \in Tags!Tag : i \notin 1 .. t.top => t'.name[i] = NoTerm
    BY TagFacts, SpineParts DEF TagInv, Spine
  <2>2. NoTerm \notin category
    BY TagFacts DEF TagInv, Hung
  <2> QED BY <2>1, <2>2 DEF NamesDiffer, Tags!Tag
<1>3. Rooted(parent)'
  BY DEF TagInv, Rooted, UpBy, ClosedBy, Tags!Tag
<1> QED BY <1>1, <1>2, <1>3 DEF TagInv, Spine, Tags!Tag, Tags!RemovedDashStays

\* A change that leaves the names and the record of what was removed.
LEMMA RestKeeps ==
    ASSUME TagInv, UNCHANGED <<t, supp, removedDash>>, Hung', NamesDiffer(t)', Rooted(parent)'
    PROVE  TagInv'
BY DEF TagInv, Spine, Tags!Tag, Tags!RemovedDashStays

LEMMA ParentsStay == ASSUME TagInv, UNCHANGED parent PROVE Rooted(parent)'
BY DEF TagInv, Rooted, UpBy, ClosedBy, Tags!Tag

LEMMA NamesStay == ASSUME TagInv, UNCHANGED <<t, category>> PROVE NamesDiffer(t)'
BY DEF TagInv, NamesDiffer, Tags!Tag

\* Making tags, and what the video carries of them.
LEMMA MadeKeeps ==
    ASSUME TagInv, NEW x \in Term, Tags!ResolveOrCreateTag(x) \/ Tags!AttachTagToVideo(x)
    PROVE  TagInv'
<1>1. /\ TagsGrown(t, t') /\ Made(t, t', {x}) /\ Tags!lookupByNameKey(t', x) \in 1 .. t'.top
      /\ ~Knows(t, x) => x \notin category
  <2>1. Tags!Resolves(x) /\ t' = Tags!resolveOrCreate(t, x)
    BY DEF Tags!ResolveOrCreateTag, Tags!AttachTagToVideo
  <2> QED BY <2>1, ResolvedGrows
<1>2. tagged \subseteq 1 .. t'.top
  BY <1>1, SpineParts DEF TagsGrown, TagInv, Hung
<1>3. tagged' \subseteq 1 .. t'.top
  BY <1>1, <1>2 DEF Tags!ResolveOrCreateTag, Tags!AttachTagToVideo
<1>4. UNCHANGED <<category, supp, parent, off, raw, removedDash>>
  BY DEF Tags!ResolveOrCreateTag, Tags!AttachTagToVideo
<1>5. {x} \in SUBSET Term
  OBVIOUS
<1> QED BY <1>1, <1>3, <1>4, <1>5, TagsGrownKeep

LEMMA MaterializedKeeps ==
    ASSUME TagInv, Tags!AttachMaterializedTags
    PROVE  TagInv'
<1> DEFINE xs == {x \in raw \ hidden : x \notin denied /\ (Tags!lookupByNameKey(t, x) # 0 \/ x \notin category)}
<1>1. xs \in SUBSET Term
  BY DEF TagInv, Hung
<1>2. /\ t.top + Tags!Cardinality(xs) <= MaxTag /\ t' \in Tags!Materialized(t, xs)
      /\ tagged' = tagged \cup {Tags!lookupByNameKey(t', x) : x \in xs}
      /\ UNCHANGED <<category, supp, parent, off, raw, removedDash>>
  BY DEF Tags!AttachMaterializedTags, Tags!NoTag
<1>3. \A x \in xs : ~Knows(t, x) => x \notin category
  BY DEF Knows
<1> HIDE DEF xs
<1>4. TagsGrown(t, t') /\ Made(t, t', xs) /\ \A x \in xs : Knows(t', x)
  BY <1>1, <1>2, AllMade DEF TagInv
<1>5. tagged' \subseteq 1 .. t'.top
  <2>1. tagged \subseteq 1 .. t'.top
    BY <1>4, SpineParts DEF TagsGrown, TagInv, Hung
  <2>2. ASSUME NEW x \in xs PROVE Tags!lookupByNameKey(t', x) \in 1 .. t'.top
    <3>1. Tags!lookupByNameKey(t', x) \in 0 .. t'.top /\ t'.top \in Nat
      BY <1>1, <1>4, LookupFinds, SpineParts DEF TagsGrown
    <3> QED BY <1>4, <3>1 DEF Knows
  <2> QED BY <1>2, <2>1, <2>2
<1> QED BY <1>1, <1>2, <1>3, <1>4, <1>5, TagsGrownKeep

LEMMA DetachKeeps ==
    ASSUME TagInv, NEW i \in Tags!Tag, Tags!DetachTagFromVideo(i) \/ Tags!SetTagWritebackEnabled(i)
    PROVE  TagInv'
<1>1. /\ UNCHANGED <<t, category, supp, parent, raw, removedDash>>
      /\ tagged' \subseteq tagged /\ off' \subseteq off \cup {i} /\ (off' = off \/ i \in Tags!Live)
  BY DEF Tags!DetachTagFromVideo, Tags!SetTagWritebackEnabled
<1>2. off' \subseteq 1 .. t.top
  BY <1>1, LiveIs DEF TagInv, Hung
<1>3. Hung'
  BY <1>1, <1>2 DEF TagInv, Hung, Tags!Tag
<1> QED BY <1>1, <1>3, ParentsStay, NamesStay, RestKeeps

\* The names of categories are asked against those of tags, and the deny-list against none.
LEMMA CategoriesKeep ==
    ASSUME TagInv, NEW x \in Term, NEW y \in Term,
           \/ Tags!CreateCategory(x) \/ Tags!RenameCategory(x, y) \/ Tags!DeleteCategory(x)
           \/ Tags!DenyTag(x) \/ Tags!RemoveDeniedTag(x)
    PROVE  TagInv'
<1>1. UNCHANGED <<t, supp, parent, off, tagged, raw, removedDash>>
  BY DEF Tags!CreateCategory, Tags!RenameCategory, Tags!DeleteCategory, Tags!DenyTag, Tags!RemoveDeniedTag
<1>2. \A c \in category' : c \in category \/ (c \in Term /\ Tags!Named(t, c) = {})
  BY DEF Tags!CreateCategory, Tags!RenameCategory, Tags!DeleteCategory, Tags!DenyTag, Tags!RemoveDeniedTag
<1>3. Hung'
  BY <1>1, <1>2 DEF TagInv, Hung, Tags!Tag
<1>4. NamesDiffer(t)'
  BY <1>1, <1>2 DEF TagInv, NamesDiffer, Tags!Named, Tags!Tag
<1> QED BY <1>1, <1>3, <1>4, ParentsStay, RestKeeps

LEMMA ParentKeeps ==
    ASSUME TagInv, NEW i \in Tags!Tag, NEW p \in Tags!Tag \cup {0}, Tags!SetTagParent(i, p)
    PROVE  TagInv'
<1>1. /\ i \in Tags!Live /\ p \in Tags!Live \cup {0} /\ (p # 0 => i \notin UpBy(parent, {p}))
      /\ parent' = [parent EXCEPT ![i] = p]
      /\ UNCHANGED <<t, category, supp, off, tagged, raw, removedDash>>
  BY UpIs DEF Tags!SetTagParent, Tags!NoTag
<1>2. t.top \in Nat /\ Tags!Live = 1 .. t.top
  BY LiveIs, SpineParts DEF TagInv
<1>3. parent \in [Tags!Tag -> Tags!Tag \cup {0}]
  BY DEF TagInv, Hung
<1>4. Hung'
  <2>1. parent' \in [Tags!Tag -> Tags!Tag \cup {0}]
    BY <1>1, <1>3
  <2>2. \A j \in Tags!Tag : parent'[j] <= t.top /\ (parent'[j] # 0 => j <= t.top)
    BY <1>1, <1>2, <1>3 DEF TagInv, Hung
  <2> QED BY <1>1, <2>1, <2>2 DEF TagInv, Hung, Tags!Tag
<1>5. Rooted(parent')
  BY <1>1, <1>3, RootedStill DEF TagInv
<1>6. Rooted(parent)'
  BY <1>5 DEF Rooted, UpBy, ClosedBy, Tags!Tag
<1> QED BY <1>1, <1>4, <1>6, NamesStay, RestKeeps

\* A name freed by its tag may be an alias of that tag, and a new name of it is no one's.
LEMMA AliasAdded ==
    ASSUME TagInv, NEW i \in Tags!Tag, NEW x \in Term, Tags!AddEntityAlias(i, x)
    PROVE  TagInv'
<1>1. /\ i \in 1 .. t.top /\ t' = [t EXCEPT !.alias[x] = i] /\ removedDash' = removedDash \ {<<i, x>>}
      /\ UNCHANGED <<category, supp, parent, off, tagged, raw>>
  BY LiveIs DEF Tags!AddEntityAlias, TagInv
<1>2. Spine(t') /\ t'.name = t.name /\ t'.top = t.top /\ t'.alias = [t.alias EXCEPT ![x] = i]
  <2>1. i \in 0 .. t.top
    BY <1>1
  <2> QED BY <1>1, <2>1, AliasSpine DEF TagInv
<1>3. ASSUME NEW r \in removedDash' PROVE t'.alias[r[2]] # r[1]
  <2>1. r \in removedDash /\ r # <<i, x>> /\ r = <<r[1], r[2]>> /\ r[2] \in Term
    BY <1>1 DEF TagInv, Hung
  <2>2. t.alias[r[2]] # r[1]
    BY <2>1 DEF TagInv, Tags!RemovedDashStays
  <2> QED BY <1>2, <2>1, <2>2, SpineParts DEF TagInv
<1>4. removedDash' \subseteq supp' \cap ((1 .. t.top) \X Term) /\ \A j \in 1 .. t.top : t'.name[j] \notin category
  BY <1>1, <1>2, LiveIs DEF TagInv, Hung, NamesDiffer, Tags!Live
<1> QED BY <1>1, <1>2, <1>3, <1>4, NamesKeep

LEMMA AliasDeleted ==
    ASSUME TagInv, NEW x \in Term, Tags!DeleteEntityAlias(x)
    PROVE  TagInv'
<1> DEFINE i == t.alias[x]
<1>1. /\ i # 0 /\ t' = [t EXCEPT !.alias[x] = 0]
      /\ supp' = IF x = TermDash[t.name[i]] THEN supp \cup {<<i, x>>} ELSE supp
      /\ removedDash' = IF x = TermDash[t.name[i]] THEN removedDash \cup {<<i, x>>} ELSE removedDash
      /\ UNCHANGED <<category, parent, off, tagged, raw>>
  BY DEF Tags!DeleteEntityAlias, Tags!Recorded, Tags!NoTag
<1>2. i \in 1 .. t.top
  BY <1>1, SpineParts, TagFacts DEF TagInv, Spine
<1>3. Spine(t') /\ t'.name = t.name /\ t'.top = t.top /\ t'.alias = [t.alias EXCEPT ![x] = 0]
  <2>1. 0 \in 0 .. t.top
    BY SpineParts DEF TagInv
  <2> QED BY <1>1, <2>1, AliasSpine DEF TagInv
<1>4. ASSUME NEW r \in removedDash' PROVE t'.alias[r[2]] # r[1]
  <2>1. CASE r = <<i, x>>
    BY <1>2, <1>3, <2>1, SpineParts DEF TagInv
  <2>2. CASE r # <<i, x>>
    <3>1. r \in removedDash /\ r[1] \in 1 .. t.top /\ r[2] \in Term /\ t.alias[r[2]] # r[1]
      BY <1>1, <2>2 DEF TagInv, Hung, Tags!RemovedDashStays
    <3> QED BY <1>3, <3>1, SpineParts DEF TagInv
  <2> QED BY <2>1, <2>2
<1>5. removedDash' \subseteq supp' \cap ((1 .. t.top) \X Term)
  BY <1>1, <1>2 DEF TagInv, Hung
<1>6. \A j \in 1 .. t.top : t'.name[j] \notin category
  BY <1>3, LiveIs DEF TagInv, NamesDiffer, Tags!Live
<1> QED BY <1>1, <1>3, <1>4, <1>5, <1>6, NamesKeep

LEMMA TagBackfillKeeps ==
    ASSUME TagInv, Tags!BackfillDashedTagAliases
    PROVE  TagInv'
<1>1. t' = Tags!Backfilled(t) /\ UNCHANGED <<category, supp, parent, off, tagged, raw, removedDash>>
  BY DEF Tags!BackfillDashedTagAliases
<1>2. /\ Spine(t') /\ t'.name = t.name /\ t'.top = t.top
      /\ \A d \in Term : t'.alias[d] # t.alias[d] => t.alias[d] = 0 /\ <<t'.alias[d], d>> \notin supp
  BY <1>1, AllFilled DEF TagInv
<1>3. ASSUME NEW r \in removedDash' PROVE t'.alias[r[2]] # r[1]
  <2>1. r \in supp /\ r = <<r[1], r[2]>> /\ r[2] \in Term /\ t.alias[r[2]] # r[1]
    BY <1>1 DEF TagInv, Hung, Tags!RemovedDashStays
  <2> QED BY <1>2, <2>1
<1>4. removedDash' \subseteq supp' \cap ((1 .. t.top) \X Term) /\ \A j \in 1 .. t.top : t'.name[j] \notin category
  BY <1>1, <1>2, LiveIs DEF TagInv, Hung, NamesDiffer, Tags!Live
<1> QED BY <1>1, <1>2, <1>3, <1>4, NamesKeep

LEMMA TagRenameKeeps ==
    ASSUME TagInv, NEW i \in Tags!Tag, NEW x \in Term, Tags!RenameTag(i, x)
    PROVE  TagInv'
<1> DEFINE old == t.name[i]
           s1 == [t EXCEPT !.name[i] = x]
           s2 == IF s1.alias[old] = 0 THEN [s1 EXCEPT !.alias[old] = i] ELSE s1
           s3 == IF s2.alias[x] = i THEN [s2 EXCEPT !.alias[x] = 0] ELSE s2
<1>1. /\ i \in 1 .. t.top /\ Tags!Named(t, x) = {} /\ x \notin category
      /\ t' = Tags!addDashedTagAlias(s3, i, x)
      /\ removedDash' = removedDash \ {<<i, TermDash[x]>>, <<i, old>>}
      /\ UNCHANGED <<category, supp, parent, off, tagged, raw>>
  BY LiveIs DEF Tags!RenameTag, Tags!CategoryHas, Tags!NoTag, TagInv
<1>2. old \in Term /\ i \in 0 .. t.top /\ 0 \in 0 .. t.top
  BY <1>1, SpineParts, TagFacts DEF TagInv, Spine
<1>3. Spine(s1) /\ s1.alias = t.alias /\ s1.top = t.top /\ s1.name = [t.name EXCEPT ![i] = x]
  <2>1. s1.alias = t.alias /\ s1.top = t.top /\ s1.name = [t.name EXCEPT ![i] = x] /\ s1 = [name |-> s1.name, alias |-> s1.alias, top |-> s1.top]
    BY SpineParts DEF TagInv
  <2>2. \A j \in Tags!Tag : t.name[j] # x
    BY <1>1 DEF Tags!Named
  <2>3. s1.name \in [Tags!Tag -> Term \cup {NoTerm}] /\ \A j \in Tags!Tag : s1.name[j] = IF j = i THEN x ELSE t.name[j]
    BY <2>1, SpineParts DEF TagInv
  <2> HIDE DEF s1
  <2>4. \A j \in Tags!Tag : s1.name[j] # NoTerm <=> j <= s1.top
    BY <1>1, <2>1, <2>3, TagFacts DEF TagInv, Spine
  <2>5. \A j, k \in Tags!Tag : s1.name[j] = s1.name[k] => j = k \/ s1.name[j] = NoTerm
    BY <2>2, <2>3 DEF TagInv, Spine
  <2>6. s1 \in [name : [Tags!Tag -> Term \cup {NoTerm}], alias : [Term -> Tags!Tag \cup {0}], top : 0 .. MaxTag]
    BY <2>1, <2>3, SpineParts DEF TagInv
  <2>7. \A d \in Term : s1.alias[d] <= s1.top
    BY <2>1 DEF TagInv, Spine
  <2> QED BY <2>1, <2>4, <2>5, <2>6, <2>7 DEF Spine
<1> HIDE DEF s1
<1>4. /\ Spine(s2) /\ s2.top = t.top /\ s2.name = s1.name
      /\ \A d \in Term : s2.alias[d] # t.alias[d] => d = old /\ s2.alias[d] = i
  <2>1. CASE s1.alias[old] # 0
    BY <1>3, <2>1
  <2>2. CASE s1.alias[old] = 0
    <3> DEFINE q == [s1 EXCEPT !.alias[old] = i]
    <3>1. Spine(q) /\ q.top = s1.top /\ q.name = s1.name /\ q.alias = [s1.alias EXCEPT ![old] = i]
      BY <1>2, <1>3, AliasSpine
    <3>2. s2 = q
      BY <2>2
    <3> HIDE DEF s2, q
    <3> QED BY <1>2, <1>3, <3>1, <3>2, SpineParts
  <2> QED BY <2>1, <2>2
<1> HIDE DEF s2
<1>5. /\ Spine(s3) /\ s3.top = t.top /\ s3.name = s1.name
      /\ \A d \in Term : s3.alias[d] # s2.alias[d] => s3.alias[d] = 0
  <2>1. CASE s2.alias[x] # i
    BY <1>4, <2>1
  <2>2. CASE s2.alias[x] = i
    <3> DEFINE q == [s2 EXCEPT !.alias[x] = 0]
    <3>1. Spine(q) /\ q.top = s2.top /\ q.name = s2.name /\ q.alias = [s2.alias EXCEPT ![x] = 0]
      BY <1>2, <1>4, AliasSpine
    <3>2. s3 = q
      BY <2>2
    <3> HIDE DEF s3, q
    <3> QED BY <1>4, <3>1, <3>2, SpineParts
  <2> QED BY <2>1, <2>2
<1> HIDE DEF s3
<1>6. /\ Spine(t') /\ t'.top = t.top /\ t'.name = s1.name
      /\ \A d \in Term : t'.alias[d] # s3.alias[d] => t'.alias[d] = i /\ d = TermDash[x]
  <2>1. i \in 1 .. s3.top
    BY <1>1, <1>5
  <2> QED BY <1>1, <1>5, <2>1, DashGiven
<1>7. ASSUME NEW r \in removedDash' PROVE t'.alias[r[2]] # r[1]
  <2>1. /\ r \in removedDash /\ r # <<i, TermDash[x]>> /\ r # <<i, old>> /\ r = <<r[1], r[2]>>
        /\ r[2] \in Term /\ r[1] \in 1 .. t.top /\ t.alias[r[2]] # r[1]
    BY <1>1 DEF TagInv, Hung, Tags!RemovedDashStays
  <2>2. r[1] # 0
    BY <2>1, SpineParts DEF TagInv
  <2> QED BY <1>4, <1>5, <1>6, <2>1, <2>2
<1>8. removedDash' \subseteq supp' \cap ((1 .. t.top) \X Term)
  BY <1>1 DEF TagInv, Hung
<1>9. \A j \in 1 .. t.top : t'.name[j] \notin category
  BY <1>1, <1>3, <1>6, LiveIs, SpineParts DEF TagInv, NamesDiffer, Tags!Live
<1> QED BY <1>1, <1>6, <1>7, <1>8, <1>9, NamesKeep

LEMMA TagsBegin == Tags!Init => TagInv
<1> SUFFICES ASSUME Tags!Init PROVE TagInv
  OBVIOUS
<1>1. /\ t = [name |-> [i \in Tags!Tag |-> NoTerm], alias |-> [x \in Term |-> 0], top |-> 0]
      /\ category = {} /\ supp = {} /\ parent = [i \in Tags!Tag |-> 0] /\ off = {} /\ tagged = {}
      /\ raw \in SUBSET Term /\ removedDash = {}
  BY DEF Tags!Init, Tags!NoTag
<1>2. Spine(t)
  BY <1>1, TagFacts DEF Spine
<1>3. Hung
  BY <1>1, TagFacts DEF Hung
<1>4. NamesDiffer(t) /\ Rooted(parent) /\ Tags!RemovedDashStays
  BY <1>1 DEF NamesDiffer, Rooted, Tags!RemovedDashStays
<1> QED BY <1>2, <1>3, <1>4 DEF TagInv

LEMMA TagsStep == TagInv /\ [Tags!Next]_(Tags!vars) => TagInv'
<1> SUFFICES ASSUME TagInv, [Tags!Next]_(Tags!vars) PROVE TagInv'
  OBVIOUS
<1>1. CASE UNCHANGED Tags!vars
  <2>1. UNCHANGED <<t, category, supp, parent, off, tagged, raw, removedDash>>
    BY <1>1 DEF Tags!vars
  <2>2. Hung'
    BY <2>1 DEF TagInv, Hung, Tags!Tag
  <2> QED BY <2>1, <2>2, ParentsStay, NamesStay, RestKeeps
<1>2. ASSUME NEW x \in Term,
             \/ Tags!ResolveOrCreateTag(x) \/ Tags!AttachTagToVideo(x) \/ Tags!DeleteEntityAlias(x)
             \/ Tags!CreateCategory(x) \/ Tags!DeleteCategory(x) \/ Tags!DenyTag(x) \/ Tags!RemoveDeniedTag(x)
      PROVE  TagInv'
  BY <1>2, MadeKeeps, AliasDeleted, CategoriesKeep
<1>3. ASSUME NEW x \in Term, NEW y \in Term, Tags!RenameCategory(x, y) PROVE TagInv'
  BY <1>3, CategoriesKeep
<1>4. ASSUME NEW i \in Tags!Tag, NEW x \in Term, Tags!RenameTag(i, x) \/ Tags!AddEntityAlias(i, x) PROVE TagInv'
  BY <1>4, TagRenameKeeps, AliasAdded
<1>5. ASSUME NEW i \in Tags!Tag, Tags!DetachTagFromVideo(i) \/ Tags!SetTagWritebackEnabled(i) PROVE TagInv'
  BY <1>5, DetachKeeps
<1>6. ASSUME NEW i \in Tags!Tag, NEW p \in Tags!Tag \cup {0}, Tags!SetTagParent(i, p) PROVE TagInv'
  BY <1>6, ParentKeeps
<1>7. ASSUME Tags!AttachMaterializedTags \/ Tags!BackfillDashedTagAliases PROVE TagInv'
  BY <1>7, MaterializedKeeps, TagBackfillKeeps
<1> QED BY <1>1, <1>2, <1>3, <1>4, <1>5, <1>6, <1>7 DEF Tags!Next, Tags!NoTag

\* A genre written is no tag's, or is the name of the tag it leads to, which is kept on file.
LEMMA GenresNamed ==
    ASSUME TagInv, NEW x \in Tags!GenreWritebackValues
    PROVE  /\ Tags!lookupByNameKey(t, x) \notin off
           /\ Tags!lookupByNameKey(t, x) # 0 => x = t.name[Tags!lookupByNameKey(t, x)]
<1>1. t.top \in Nat /\ Spine(t) /\ 0 \notin off
  BY SpineParts DEF TagInv, Hung
<1>2. ASSUME NEW i \in 1 .. t.top, i \notin off, x = t.name[i]
      PROVE  Tags!lookupByNameKey(t, x) = i
  <2>1. i \in Tags!Tag /\ x \in Term
    BY <1>1, <1>2, TagFacts, SpineParts DEF Spine
  <2> QED BY <1>1, <1>2, <2>1, LookupFinds
<1>3. CASE x \in Tags!TagNamesForVideo
  <2>1. PICK i \in Tags!Up(tagged) \ off : x = t.name[i]
    BY <1>3 DEF Tags!TagNamesForVideo
  <2>2. i \in 1 .. t.top
    <3>1. (1 .. t.top) \in SUBSET Tags!Tag /\ tagged \subseteq 1 .. t.top /\ tagged \in SUBSET Tags!Tag
      BY <1>1, TagFacts, SpineParts DEF TagInv, Hung
    <3>2. ClosedBy(parent, 1 .. t.top)
      BY <1>1, <3>1, TagFacts DEF ClosedBy, TagInv, Hung
    <3>3. UpBy(parent, tagged) \subseteq 1 .. t.top
      <4>1. parent \in [Tags!Tag -> Tags!Tag \cup {0}]
        BY DEF TagInv, Hung
      <4> DEFINE T == 1 .. t.top
      <4>2. T \in SUBSET Tags!Tag /\ tagged \subseteq T /\ tagged \in SUBSET Tags!Tag /\ ClosedBy(parent, T)
        BY <3>1, <3>2
      <4> HIDE DEF T
      <4>3. UpBy(parent, tagged) \subseteq T
        BY <4>1, <4>2, UpLeast
      <4> QED BY <4>3 DEF T
    <3>4. Tags!Up(tagged) = UpBy(parent, tagged)
      BY UpIs
    <3> QED BY <2>1, <3>3, <3>4
  <2> QED BY <1>2, <2>1, <2>2
<1>4. CASE x \notin Tags!TagNamesForVideo
  <2>1. PICK y \in raw : Tags!lookupByNameKey(t, y) \notin off /\ x = Tags!CanonicalName(y)
    BY <1>4 DEF Tags!GenreWritebackValues, Tags!RawValues, Tags!Ignored
  <2> DEFINE i == Tags!lookupByNameKey(t, y)
  <2>2. y \in Term /\ i \in 0 .. t.top
    BY <1>1, <2>1, LookupFinds DEF TagInv, Hung
  <2>3. CASE i = 0
    BY <1>1, <2>1, <2>3 DEF Tags!CanonicalName, Tags!NoTag
  <2>4. CASE i # 0
    <3>1. i \in 1 .. t.top /\ x = t.name[i] /\ i \notin off
      BY <1>1, <2>1, <2>2, <2>4 DEF Tags!CanonicalName, Tags!NoTag
    <3> HIDE DEF i
    <3> QED BY <1>2, <3>1
  <2> QED BY <2>3, <2>4
<1> QED BY <1>3, <1>4

LEMMA TagsFollow == TagInv => TagsApart
<1> SUFFICES ASSUME TagInv PROVE TagsApart
  OBVIOUS
<1>1. Tags!NamesApart
  BY DEF TagInv, NamesDiffer, Tags!NamesApart, Tags!Live
<1>2. Tags!GenresOnce
  BY GenresNamed DEF Tags!GenresOnce, Tags!NoTag
<1>3. Tags!TreeRooted
  BY UpIs DEF Tags!TreeRooted, TagInv, Rooted, Tags!NoTag, Tags!Live
<1> QED BY <1>1, <1>2, <1>3 DEF TagsApart, TagInv

\* Whatever was created, renamed, denied, put under what and removed, a name is a tag's or
\* a category's, a file is given each tag once and none kept off it, no tag is above itself
\* and a removed dashed alias stays removed (repo/categories.go, tag_hierarchy.go,
\* tag_dashed_alias.go, api/genre_writeback.go).
THEOREM TagsHold == Tags!Spec => []TagsApart
<1>1. Tags!Init => TagInv
  BY TagsBegin
<1>2. TagInv /\ [Tags!Next]_(Tags!vars) => TagInv'
  BY TagsStep
<1>3. TagInv => TagsApart
  BY TagsFollow
<1> QED BY <1>1, <1>2, <1>3, PTL DEF Tags!Spec
=============================================================================
