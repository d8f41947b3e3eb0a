------------------------------ MODULE FieldKeys -------------------------------
(***************************************************************************)
(* What becomes of a provider's own field key (api/field_promotions.go,    *)
(* field_claims.go, auto_register.go; repo/promotions.go, claims.go;       *)
(* resolver/auto_register.go): promoted by the owner to a field of its own,*)
(* claimed as one more source of another field, or else shown as it is.    *)
(* Promotions and claims are read through two caches that a writer drops   *)
(* after its commit and a reader fills after its query, with no lock       *)
(* between the two.                                                        *)
(*                                                                         *)
(* One entity type and one entity of it.  How a field's value is chosen    *)
(* beyond the order of its sources is Resolver's; labels, render modes and *)
(* the order of the rows are left out.                                     *)
(***************************************************************************)
EXTENDS Naturals, SequencesExt

CONSTANTS
    Listing,    \* the providers' keys, <<provider, key>>, in the order of their names
    Known,      \* canonical keys of the registry: never promoted nor claimed
    Base,       \* the fields of the type: [canonical |-> its sources, a sequence]
    ProviderRows, \* the entity's provider values at first: sets of <<provider, key>>
    FileKeys,   \* the file's values at first: sets of keys
    Reader,     \* pages being resolved
    None,
    MaxWrite    \* bound

VARIABLES
    promos,     \* field_promotions: keys
    claims,     \* field_claims: [Source -> the field claiming it, or None]
    pcache, ccache,     \* the pointers, None when dropped
    rows, file,
    page,       \* [Reader -> a request: where it is, the claim it asks for or None, what it has read]
    writer,     \* the caches the write under way has still to drop, the claims' first
    writes,
    raced       \* history: the caches that hold what a request had queried before a write

vars == <<promos, claims, pcache, ccache, rows, file, page, writer, writes, raced>>
tables == <<promos, claims, rows, file, writer, writes>>

Key == {s[2] : s \in Range(Listing)}
Source == Range(Listing)
Custom == Key \ Known
promotionTarget(key) == key \in Custom
claimTarget(s) == s[2] \in Custom

-----------------------------------------------------------------------------
(* The fields a page resolves with, each with its sources in their order:  *)
(* a promoted key is a field of the providers that have it, and replaces a *)
(* field of that name; a claim adds its source at the end of its field's.  *)

Promoted(ps, c) == c \in ps \cap Custom
mergePromotions(ps) ==
    [c \in DOMAIN Base \cup (ps \cap Custom) |->
        IF Promoted(ps, c) THEN SelectSeq(Listing, LAMBDA s : s[2] = c /\ s \in rows) ELSE Base[c]]
Claims(cs, c, own) == SelectSeq(Listing, LAMBDA s : cs[s] = c /\ s[2] \notin Known /\ s \notin Range(own))
(* Mutant: a claim goes before the sources the field has.                  *)
Prepended(base, cs) == [c \in DOMAIN base |-> Claims(cs, c, base[c]) \o base[c]]
mergeClaims(base, cs) == [c \in DOMAIN base |-> base[c] \o Claims(cs, c, base[c])]
Effective(ps, cs) == mergeClaims(mergePromotions(ps), cs)

Has(s) == IF s[1] = "file" THEN s[2] \in file ELSE s \in rows
Winner(sources) == LET i == SelectInSeq(sources, Has) IN IF i = 0 THEN None ELSE sources[i]

(* Mutant: every claim there is hides its key.                             *)
StoredClaims(fields) == {s \in Source : claims[s] # None}
ClaimedKeys(fields) == {s \in Source : s[1] # "file" /\ \E c \in DOMAIN fields : s \in Range(fields[c])}
rendered(fields) == {c \in DOMAIN fields : Winner(fields[c]) # None}
AutoRegistered(fields) == {s \in rows : s[2] \notin Known \cup rendered(fields) /\ s \notin ClaimedKeys(fields)}

-----------------------------------------------------------------------------
(* A page reads the promotions and then the claims, each by its cache or   *)
(* else by its table, and fills the cache with what it read.  A claim asked*)
(* for reads the promotions alone: its target is to be a field of the type *)
(* as they have it.                                                        *)

At(r, label) == page[r].at = label
entityTypeFields(ps) == DOMAIN Base \cup (ps \cap Custom)
HavingPromotions(pg, ps) ==
    [pg EXCEPT !.ps = ps, !.at = IF pg.claim = None THEN "claims"
                                 ELSE IF pg.claim[2] \in entityTypeFields(ps) THEN "claiming" ELSE "idle"]
Begin(r, claim) ==
    /\ At(r, "idle") /\ claim # None => claimTarget(claim[1])
    /\ LET pg == [at |-> "query promotions", claim |-> claim, ps |-> None, cs |-> None]
       IN  page' = [page EXCEPT ![r] = IF pcache = None THEN pg ELSE HavingPromotions(pg, pcache)]
    /\ UNCHANGED <<tables, pcache, ccache, raced>>
QueryPromotions(r) ==
    /\ At(r, "query promotions")
    /\ page' = [page EXCEPT ![r].at = "store promotions", ![r].ps = promos]
    /\ UNCHANGED <<tables, pcache, ccache, raced>>
StorePromotions(r) ==
    /\ At(r, "store promotions")
    /\ pcache' = page[r].ps
    /\ raced' = IF page[r].ps = promos THEN raced \ {"promotions"} ELSE raced \cup {"promotions"}
    /\ page' = [page EXCEPT ![r] = HavingPromotions(@, @.ps)]
    /\ UNCHANGED <<tables, ccache>>
BeginClaims(r) ==
    /\ At(r, "claims")
    /\ page' = [page EXCEPT ![r].at = IF ccache = None THEN "query claims" ELSE "idle", ![r].cs = ccache]
    /\ UNCHANGED <<tables, pcache, ccache, raced>>
QueryClaims(r) ==
    /\ At(r, "query claims")
    /\ page' = [page EXCEPT ![r].at = "store claims", ![r].cs = claims]
    /\ UNCHANGED <<tables, pcache, ccache, raced>>
StoreClaims(r) ==
    /\ At(r, "store claims")
    /\ ccache' = page[r].cs
    /\ raced' = IF page[r].cs = claims THEN raced \ {"claims"} ELSE raced \cup {"claims"}
    /\ page' = [page EXCEPT ![r].at = "idle"]
    /\ UNCHANGED <<tables, pcache>>

-----------------------------------------------------------------------------
(* The owner's writes, one at a time: the commit, then the caches dropped. *)

Counted == writes < MaxWrite /\ writes' = writes + 1 /\ writer = {}
SetPromotion(key) ==
    /\ Counted /\ promotionTarget(key)
    /\ promos' = promos \cup {key} /\ writer' = {"promotions"}
    /\ UNCHANGED <<claims, pcache, ccache, rows, file, page, raced>>
ClearPromotion(key) ==
    /\ Counted /\ promotionTarget(key)
    /\ promos' = promos \ {key} /\ writer' = {"promotions"}
    /\ UNCHANGED <<claims, pcache, ccache, rows, file, page, raced>>
(* The target may have stopped being a field since it was looked up.       *)
SetClaim(r) ==
    /\ Counted /\ At(r, "claiming")
    /\ claims' = [claims EXCEPT ![page[r].claim[1]] = page[r].claim[2]]
    /\ promos' = promos \ {page[r].claim[1][2]}
    /\ writer' = {"claims", "promotions"}
    /\ page' = [page EXCEPT ![r].at = "idle"]
    /\ UNCHANGED <<pcache, ccache, rows, file, raced>>
ClearClaim(s) ==
    /\ Counted /\ claimTarget(s)
    /\ claims' = [claims EXCEPT ![s] = None] /\ writer' = {"claims"}
    /\ UNCHANGED <<promos, pcache, ccache, rows, file, page, raced>>
(* Mutant: a claim leaves the promotions as the cache has them.            *)
DropClaimsOnly ==
    /\ "claims" \in writer /\ ccache' = None /\ writer' = {}
    /\ raced' = raced \ {"claims"}
    /\ UNCHANGED <<promos, claims, pcache, rows, file, page, writes>>
DropClaims ==
    /\ "claims" \in writer /\ ccache' = None /\ writer' = writer \ {"claims"}
    /\ raced' = raced \ {"claims"}
    /\ UNCHANGED <<promos, claims, pcache, rows, file, page, writes>>
DropPromotions ==
    /\ writer = {"promotions"} /\ pcache' = None /\ writer' = {}
    /\ raced' = raced \ {"promotions"}
    /\ UNCHANGED <<promos, claims, ccache, rows, file, page, writes>>

(* The entity is enriched anew, or a provider's match of it is cleared.    *)
Enrich(s) ==
    /\ Counted /\ s[1] # "file" /\ rows' = rows \cup {s} /\ writer' = writer
    /\ UNCHANGED <<promos, claims, pcache, ccache, file, page, raced>>
DeleteEnrichment(provider) ==
    /\ Counted /\ rows' = {s \in rows : s[1] # provider} /\ writer' = writer
    /\ UNCHANGED <<promos, claims, pcache, ccache, file, page, raced>>

Init ==
    /\ rows \in ProviderRows /\ file \in FileKeys
    /\ promos = {} /\ claims = [s \in Source |-> None]
    /\ pcache = None /\ ccache = None
    /\ page = [r \in Reader |-> [at |-> "idle", claim |-> None, ps |-> None, cs |-> None]]
    /\ writer = {} /\ writes = 0 /\ raced = {}

Next ==
    \/ \E r \in Reader :
        \/ \E claim \in {None} \cup (Source \X Key) : Begin(r, claim)
        \/ QueryPromotions(r) \/ StorePromotions(r) \/ BeginClaims(r) \/ QueryClaims(r) \/ StoreClaims(r)
        \/ SetClaim(r)
    \/ \E key \in Key : SetPromotion(key) \/ ClearPromotion(key)
    \/ \E s \in Source : ClearClaim(s) \/ Enrich(s)
    \/ \E s \in rows : DeleteEnrichment(s[1])
    \/ DropClaims \/ DropPromotions

Spec == Init /\ [][Next]_vars

-----------------------------------------------------------------------------
(***************************************************************************)
(* Outside a write a filled cache is its table, unless a page stored what  *)
(* it had queried before a commit (repo/promotions.go, claims.go).         *)
(***************************************************************************)
CacheTrue(cache, table) == cache \in {None, table}
CachesTrue ==
    writer = {} => /\ "promotions" \in raced \/ CacheTrue(pcache, promos)
                   /\ "claims" \in raced \/ CacheTrue(ccache, claims)

(***************************************************************************)
(* A provider's value of a key no registry knows always has a place on the *)
(* page: it is a source of a field, a row of its own, or of the name of a  *)
(* field that has a value (docs/architecture/field-resolution.md, "a key   *)
(* is never hidden without its value landing somewhere").  For every mix of*)
(* promotions and claims a page may have read.                             *)
(***************************************************************************)
HasPlace(fields) ==
    \A s \in rows : s[2] \in Custom =>
        \/ \E c \in DOMAIN fields : s \in Range(fields[c])
        \/ s \in AutoRegistered(fields)
        \/ s[2] \in rendered(fields)
NothingHidden ==
    \A r \in Reader : At(r, "idle") /\ page[r].cs # None => HasPlace(Effective(page[r].ps, page[r].cs))

(***************************************************************************)
(* A new claim never moves a value that a field shows, unless that value   *)
(* is itself claimed, or of the promotion the claim clears                 *)
(* (field_claims.go, "must never move the resolved winner").               *)
(***************************************************************************)
StaysShown(before, after, s) ==
    \A c \in DOMAIN before \ {s[2]} :
        LET w == Winner(before[c])
        IN  w # None /\ (w[1] = "file" \/ claims[w] = None) => Winner(after[c]) = w
WinnerStays ==
    [][\A s \in Source : claims[s] = None /\ claims'[s] # None =>
        StaysShown(Effective(promos, claims), Effective(promos', claims'), s)]_vars

==============================================================================
