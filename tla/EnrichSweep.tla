---------------------------- MODULE EnrichSweep ----------------------------
(***************************************************************************)
(* Refreshing entities from providers (internal/enrich, F66): the sweep    *)
(* that visits every entity with one goroutine per provider, the owner's   *)
(* clicks beside it, and what stands between both and a provider: the      *)
(* token bucket, the pause a 429 asks for, and the sweep's breaker.        *)
(*                                                                         *)
(* Time is counted in ticks of one token (1 / rps); waits and pauses are   *)
(* what is left of them, so no clock grows.  A sleeper may be late.  What  *)
(* a record holds, and its images, are PersonImages' subject: here a pair  *)
(* of an entity and a provider has no data, old data or fresh data.        *)
(***************************************************************************)
EXTENDS Integers, FiniteSets, FiniteSetsExt

CONSTANTS
    Provider,
    Entities,       \* how many are listed, in the order of their names
    Click,          \* the owner's requests
    Burst,          \* tokens a bucket holds
    MaxPause,       \* bound: the longest Retry-After, in ticks
    FailLimit,      \* breakerFailures
    PauseLimit,     \* breakerPauses
    Stored,         \* the data of each pair when the process starts
    MaxAct          \* bound: what the owner does, and 24-hour windows that end

Entity == 1 .. Entities
Pair == Entity \X Provider
Data == {"none", "old", "fresh"}

ASSUME SweepConstants ==
    /\ {Burst, MaxPause, FailLimit, PauseLimit} \subseteq Nat \ {0} /\ MaxAct \in Nat
    /\ Entities \in Nat /\ IsFiniteSet(Provider) /\ Click \cap Provider = {}
    /\ Stored \in [Pair -> Data]

VARIABLES
    tokens,     \* of each provider's limiter; below zero when promised
    pause,      \* ticks until pausedUntil
    link,       \* the rows of a pair: "none", "old" (past the window) or "fresh"
    dismissed,  \* pairs the owner found no match for
    task,       \* where each goroutine and each click is
    sweep,      \* the sweep and its status
    stopping,   \* the server's context is cancelled
    acts,
    since       \* history: entities in a row a provider answered for none of

bucket == <<tokens, pause>>
rows == <<link, dismissed>>
vars == <<bucket, rows, task, sweep, stopping, acts, since>>

Caller == Provider \cup Click
Refreshed == {"refreshed", "auto_applied"}
\* "left": needs_review and no_candidates, which differ in what the owner is shown.
Answered == Refreshed \cup {"left"}
Outcome == Answered \cup {"dismissed", "stale_skipped", "failed", "breaker_skipped"}
Counter == {"linked", "left", "failed", "stale", "skipped"}
NoTask == [pc |-> "idle"]
Breaker == [failures : 0 .. FailLimit, pauses : 0 .. PauseLimit, tripped : BOOLEAN]
NewBreaker == [failures |-> 0, pauses |-> 0, tripped |-> FALSE]

Init ==
    /\ tokens = [p \in Provider |-> Burst] /\ pause = [p \in Provider |-> 0]
    /\ link = Stored /\ dismissed = {}
    /\ task = [c \in Caller |-> NoTask]
    /\ sweep = [on |-> FALSE, force |-> FALSE, total |-> 0, done |-> 0,
                counts |-> [k \in Counter |-> 0], breaker |-> [p \in Provider |-> NewBreaker]]
    /\ stopping = FALSE /\ acts = 0 /\ since = [p \in Provider |-> 0]

At(c, pc) == task[c].pc = pc
PairOf(c) == <<task[c].ent, task[c].prov>>
InPair(c) == task[c].pc \notin {"idle", "done"}
Goto(c, pc) == task' = [task EXCEPT ![c].pc = pc]
\* A step of the pair failed with the pause it was told of, or 0 for any other error.
Failing(c, retry) == task' = [task EXCEPT ![c].pc = "failed", ![c].wait = retry]
\* What RefreshPair comes to: a click is answered, the sweep's goroutine has its result.
Ended(c, outcome) ==
    task' = [task EXCEPT ![c] = IF c \in Click THEN NoTask ELSE [pc |-> "done", out |-> outcome]]

(***************************************************************************)
(* The pacer.                                                              *)
(***************************************************************************)
Delayed(p) == {c \in Caller : At(c, "delay") /\ task[c].prov = p}

\* acquire: refused at once while paused, else a token is taken, or promised.
Paused(c) ==
    /\ pause[task[c].prov] > 0
    /\ Failing(c, pause[task[c].prov]) /\ UNCHANGED tokens
Reserved(c) ==
    LET p == task[c].prov left == tokens[p] - 1 IN
    /\ pause[p] = 0
    /\ tokens' = [tokens EXCEPT ![p] = left]
    /\ IF left >= 0 THEN Goto(c, "call")
       ELSE task' = [task EXCEPT ![c].pc = "delay", ![c].wait = -left]

\* The provider is unknown, or its /describe failed, before the bucket is asked.
Unverified(c) == Failing(c, 0) /\ UNCHANGED tokens

Admit(c) ==
    /\ At(c, "admit")
    /\ Paused(c) \/ Reserved(c) \/ Unverified(c)
    /\ UNCHANGED <<pause, rows, sweep, stopping, acts, since>>

Wake(c) ==
    /\ At(c, "delay") /\ task[c].wait = 0
    /\ Goto(c, "call")
    /\ UNCHANGED <<bucket, rows, sweep, stopping, acts, since>>

(* Mutant: the token always comes back. *)
GivesBackAlways(c) == task[c].wait > 0
\* A reservation cancelled in its delay: the limiter takes a token back only when no
\* later caller's delay was reckoned from it.
GivesBack(c) ==
    task[c].wait > 0 /\ \A d \in Delayed(task[c].prov) : task[d].wait <= task[c].wait
Cancelled(c) ==
    /\ At(c, "delay")
    /\ IF GivesBack(c)
       THEN tokens' = [tokens EXCEPT ![task[c].prov] = @ + 1] ELSE UNCHANGED tokens

(* Mutant: the newest 429 decides. *)
PauseNewest(p, d) == pause' = [pause EXCEPT ![p] = d]
\* A pause is extended, never cut short.
PauseFor(p, d) == pause' = [pause EXCEPT ![p] = Max({@, d})]

Tick ==
    /\ tokens' = [p \in Provider |-> Min({tokens[p] + 1, Burst})]
    /\ pause' = [p \in Provider |-> Max({pause[p] - 1, 0})]
    /\ task' = [c \in Caller |->
          IF task[c].pc \in {"delay", "paused"}
          THEN [task[c] EXCEPT !.wait = Max({@ - 1, 0})] ELSE task[c]]
    /\ UNCHANGED <<rows, sweep, stopping, acts, since>>

(***************************************************************************)
(* RefreshPair: the step both the sweep and a click run for one pair.      *)
(***************************************************************************)
\* "refresh" is RefreshPair; "search" is the picker's, which shows what it finds; "apply"
\* fetches the record the owner picked.
Begun(e, p, ask, force) ==
    [pc |-> "begin", ask |-> ask, ent |-> e, prov |-> p, force |-> force,
     link |-> link[<<e, p>>], op |-> "resolve", wait |-> 0,
     again |-> FALSE, saw |-> FALSE, beaten |-> FALSE]

Linked(c) == task[c].link # "none"
IsStale(c) == task[c].force \/ task[c].link = "old"
(* Mutant: only the first attempt looks. *)
BarredOnce(c) == PairOf(c) \in dismissed /\ ~task[c].again
Barred(c) == PairOf(c) \in dismissed

Dial(c, op) == task' = [task EXCEPT ![c].pc = "admit", ![c].op = op, ![c].beaten = FALSE]
StaleSkip(c) == Linked(c) /\ ~IsStale(c) /\ Ended(c, "stale_skipped")
Refetch(c) == Linked(c) /\ IsStale(c) /\ Dial(c, "enrich")
Turned(c) == ~Linked(c) /\ Barred(c) /\ Ended(c, "dismissed")
Search(c) == ~Linked(c) /\ ~Barred(c) /\ Dial(c, "resolve")

RefreshPair(c) ==
    /\ At(c, "begin") /\ task[c].ask = "refresh"
    /\ StaleSkip(c) \/ Refetch(c) \/ Turned(c) \/ Search(c) \/ (~Linked(c) /\ Failing(c, 0))
    /\ UNCHANGED <<bucket, rows, sweep, stopping, acts, since>>

\* The picker: a dismissed pair is searched only when the owner says to try again.
Apply(c) == task[c].ask = "apply" /\ Dial(c, "enrich")
Look(c) ==
    /\ task[c].ask = "search"
    /\ \/ Barred(c) /\ Ended(c, "dismissed")
       \/ task' = [task EXCEPT ![c].pc = "admit", ![c].saw = Barred(c)]
Pick(c) ==
    /\ At(c, "begin") /\ (Apply(c) \/ Look(c))
    /\ UNCHANGED <<bucket, rows, sweep, stopping, acts, since>>

\* What it found is shown; a search past a dismissal lifts it when it found anything.
Shown(c) ==
    /\ At(c, "call") /\ task[c].ask = "search"
    /\ Ended(c, "left")
    /\ dismissed' \in {dismissed, IF task[c].saw THEN dismissed \ {PairOf(c)} ELSE dismissed}
    /\ UNCHANGED <<bucket, link, sweep, stopping, acts, since>>

\* The provider's answer to a resolve: one strong match, others, or none.
Resolved(c) ==
    /\ At(c, "call") /\ task[c].op = "resolve" /\ task[c].ask = "refresh"
    /\ \/ task' = [task EXCEPT ![c].pc = "admit", ![c].op = "enrich"]
       \/ Ended(c, "left")
    /\ UNCHANGED <<bucket, rows, sweep, stopping, acts, since>>

Enriched(c) ==
    /\ At(c, "call") /\ task[c].op = "enrich"
    /\ Goto(c, "store")
    /\ UNCHANGED <<bucket, rows, sweep, stopping, acts, since>>

\* No answer, an error, or a 429 with its Retry-After.
CallFails(c) ==
    /\ At(c, "call")
    /\ \/ Failing(c, 0) /\ UNCHANGED pause
       \/ \E d \in 1 .. MaxPause : PauseFor(task[c].prov, d) /\ Failing(c, d)
    /\ UNCHANGED <<tokens, rows, sweep, stopping, acts, since>>

\* The record's rows are stored; one without fields stores nothing.
Store(c) ==
    /\ At(c, "store")
    /\ \/ /\ link' \in {link, [link EXCEPT ![PairOf(c)] = "fresh"]}
          /\ Ended(c, IF Linked(c) THEN "refreshed" ELSE "auto_applied")
       \/ Failing(c, 0) /\ UNCHANGED link
    /\ UNCHANGED <<bucket, dismissed, sweep, stopping, acts, since>>

\* A pair's end, as its provider's breaker counts it.
(***************************************************************************)
(* The sweep's side of a failed pair: one wait for a pause, and the        *)
(* breaker.                                                                *)
(***************************************************************************)
Streak(p, outcome, told) ==
    LET b == sweep.breaker[p] IN
    CASE outcome \in Answered -> [b EXCEPT !.failures = 0, !.pauses = 0]
      [] outcome = "failed" /\ told > 0 ->
            [b EXCEPT !.pauses = @ + 1, !.tripped = @ \/ b.pauses + 1 >= PauseLimit]
      [] outcome = "failed" /\ told = 0 /\ ~stopping ->
            [b EXCEPT !.failures = @ + 1, !.tripped = @ \/ b.failures + 1 >= FailLimit]
      [] OTHER -> b

(* Mutant: every pause is waited out. *)
WaitsAlways(p) == task[p].wait > 0
\* The wait is what this 429, or this pause, said: a longer pause may still stand.
WaitsOnce(p) == task[p].wait > 0 /\ ~task[p].again
PairWaits(p) ==
    /\ At(p, "failed") /\ WaitsOnce(p)
    /\ Goto(p, "paused")
    /\ UNCHANGED <<bucket, rows, sweep, stopping, acts, since>>

PairRetries(p) ==
    /\ At(p, "paused") /\ task[p].wait = 0
    /\ task' = [task EXCEPT ![p].pc = "begin", ![p].again = TRUE]
    /\ UNCHANGED <<bucket, rows, sweep, stopping, acts, since>>

PairFails(p) ==
    /\ At(p, "failed") /\ ~WaitsOnce(p)
    /\ sweep' = [sweep EXCEPT !.breaker[p] = Streak(p, "failed", task[p].wait)]
    /\ Ended(p, "failed")
    /\ UNCHANGED <<bucket, rows, stopping, acts, since>>

\* Shutdown ends a sleep, and no streak counts it.
PairStops(p) ==
    /\ stopping
    /\ \/ At(p, "paused") /\ Ended(p, "failed") /\ UNCHANGED tokens
       \/ Cancelled(p) /\ Failing(p, 0)
    /\ UNCHANGED <<pause, rows, sweep, stopping, acts, since>>

\* A click is told of the failure, or of the pause and its seconds, at once.
ClickFails(c) ==
    /\ At(c, "failed")
    /\ Ended(c, "failed")
    /\ UNCHANGED <<bucket, rows, sweep, stopping, acts, since>>

(***************************************************************************)
(* The sweep.                                                              *)
(***************************************************************************)
Resting == \A p \in Provider : At(p, "idle")

Act == acts < MaxAct /\ ~stopping /\ acts' = acts + 1

Trigger(force) ==
    /\ Act /\ ~sweep.on
    /\ \E total \in {Entities, 0} :     \* 0: the listing failed
          sweep' = [on |-> TRUE, force |-> force, total |-> total, done |-> 0,
                    counts |-> [k \in Counter |-> 0],
                    breaker |-> [p \in Provider |-> NewBreaker]]
    /\ since' = [p \in Provider |-> 0]
    /\ UNCHANGED <<bucket, rows, task, stopping>>

\* A tripped provider is not called.
Called(p) == ~sweep.breaker[p].tripped
Ahead == sweep.on /\ Resting /\ ~stopping /\ sweep.done < sweep.total
Visit ==
    /\ Ahead
    /\ task' = [c \in Caller |->
          IF c \in Click THEN task[c]
          ELSE IF Called(c) THEN Begun(sweep.done + 1, c, "refresh", sweep.force)
          ELSE [pc |-> "done", out |-> "breaker_skipped"]]
    /\ UNCHANGED <<bucket, rows, sweep, stopping, acts, since>>

\* The links of the entity could not be read: every provider's pair failed.
VisitFails ==
    /\ Ahead
    /\ sweep' = [sweep EXCEPT !.done = @ + 1, !.counts.failed = @ + Cardinality(Provider)]
    /\ UNCHANGED <<bucket, rows, task, stopping, acts, since>>

Tally(k) ==
    CASE k = "linked" -> Refreshed [] k = "left" -> {"left"} [] k = "failed" -> {"failed"}
      [] k = "stale" -> {"stale_skipped"} [] k = "skipped" -> {"dismissed", "breaker_skipped"}
Settled(k) == Cardinality({p \in Provider : task[p].out \in Tally(k)})

Collect ==
    /\ sweep.on /\ sweep.done < sweep.total /\ \A p \in Provider : At(p, "done")
    /\ sweep' = [sweep EXCEPT
          !.done = @ + 1,
          !.counts = [k \in Counter |-> sweep.counts[k] + Settled(k)],
          !.breaker = [p \in Provider |-> IF task[p].out \in Answered
                           THEN Streak(p, task[p].out, 0) ELSE sweep.breaker[p]]]
    /\ since' = [p \in Provider |->
          IF task[p].out \in Answered THEN 0
          ELSE IF task[p].out = "failed" THEN since[p] + 1 ELSE since[p]]
    /\ task' = [c \in Caller |-> IF c \in Click THEN task[c] ELSE NoTask]
    /\ UNCHANGED <<bucket, rows, stopping, acts>>

Over == Resting /\ (sweep.done = sweep.total \/ stopping)
Finish ==
    /\ sweep.on /\ Over
    /\ sweep' = [sweep EXCEPT !.on = FALSE]
    /\ UNCHANGED <<bucket, rows, task, stopping, acts, since>>

(***************************************************************************)
(* The owner, and the day that passes.                                     *)
(***************************************************************************)
\* Callers whose attempt at the pair is past the checks it began with.
Overtaken(pair) == [c \in Caller |->
    IF InPair(c) /\ PairOf(c) = pair /\ task[c].pc \notin {"begin", "paused", "failed"}
    THEN [task[c] EXCEPT !.beaten = TRUE] ELSE task[c]]

\* The page's own refresh of one provider is RefreshPair of a linked pair.
Request(c, e, p, ask) ==
    /\ Act /\ At(c, "idle")
    /\ task' = [task EXCEPT ![c] = Begun(e, p, ask, TRUE)]
    /\ UNCHANGED <<bucket, rows, sweep, stopping, since>>

Abandon(c) ==
    /\ Cancelled(c)
    /\ task' = [task EXCEPT ![c] = NoTask]
    /\ UNCHANGED <<pause, rows, sweep, stopping, acts, since>>

Clear(pair) ==
    /\ Act /\ link[pair] # "none"
    /\ link' = [link EXCEPT ![pair] = "none"]
    /\ UNCHANGED <<bucket, dismissed, task, sweep, stopping, since>>

Dismiss(pair) ==
    /\ Act /\ dismissed' = dismissed \cup {pair} /\ task' = Overtaken(pair)
    /\ UNCHANGED <<bucket, link, sweep, stopping, since>>

Undismiss(pair) ==
    /\ Act /\ pair \in dismissed
    /\ dismissed' = dismissed \ {pair}
    /\ UNCHANGED <<bucket, link, task, sweep, stopping, since>>

Ages(pair) ==
    /\ Act /\ link[pair] = "fresh"
    /\ link' = [link EXCEPT ![pair] = "old"]
    /\ UNCHANGED <<bucket, dismissed, task, sweep, stopping, since>>

Shutdown ==
    /\ ~stopping /\ stopping' = TRUE
    /\ UNCHANGED <<bucket, rows, task, sweep, acts, since>>

(***************************************************************************)
(* The specification.                                                      *)
(***************************************************************************)
PairStep(c) ==
    \/ RefreshPair(c) \/ Pick(c) \/ Admit(c) \/ Wake(c)
    \/ Shown(c) \/ Resolved(c) \/ Enriched(c) \/ CallFails(c) \/ Store(c)
SweepPair(p) == PairWaits(p) \/ PairRetries(p) \/ PairFails(p) \/ PairStops(p)
SweepStep == Visit \/ VisitFails \/ Collect \/ Finish
Owner ==
    \/ \E c \in Click : Abandon(c) \/ 
          \E e \in Entity, p \in Provider, ask \in {"refresh", "search", "apply"} :
              Request(c, e, p, ask)
    \/ \E pair \in Pair : Clear(pair) \/ Dismiss(pair) \/ Undismiss(pair)

Next ==
    \/ Tick \/ Shutdown \/ Owner
    \/ \E force \in BOOLEAN : Trigger(force)
    \/ \E pair \in Pair : Ages(pair)
    \/ \E c \in Caller : PairStep(c)
    \/ \E c \in Click : ClickFails(c)
    \/ \E p \in Provider : SweepPair(p)
    \/ SweepStep

Spec == Init /\ [][Next]_vars

\* Timers fire, a call to a provider has a timeout, and a goroutine that can go on
\* does: nothing is assumed of the owner, of the clicks or of what providers answer.
FairSpec ==
    /\ Spec /\ WF_vars(Tick) /\ WF_vars(SweepStep)
    /\ \A p \in Provider : WF_vars(PairStep(p)) /\ WF_vars(SweepPair(p))

---------------------------------------------------------------------------

TypeOK ==
    /\ acts \in 0 .. MaxAct
    /\ tokens \in [Provider -> Int] /\ \A p \in Provider : tokens[p] <= Burst
    /\ pause \in [Provider -> 0 .. MaxPause]
    /\ link \in [Pair -> Data] /\ dismissed \subseteq Pair
    /\ sweep.breaker \in [Provider -> Breaker] /\ sweep.done <= sweep.total
    /\ \A p \in Provider : At(p, "done") => task[p].out \in Outcome
    /\ ~sweep.on => Resting
    /\ \A p \in Provider : InPair(p) => task[p].prov = p

\* One token lets one caller through: callers that wait for a bucket wake at different
\* ticks, all of them promised, whoever gives up between (acquire's comment on a
\* reservation given back).
OneTokenEach ==
    \A p \in Provider : \A c \in Delayed(p) :
        task[c].wait > 0 =>
            /\ task[c].wait <= -tokens[p]
            /\ \A d \in Delayed(p) \ {c} : task[d].wait # task[c].wait

\* While a bucket is paused nobody joins those already on their way to the provider,
\* and no answer shortens the pause, whatever order the answers come in.
PauseHolds ==
    [][\A p \in Provider :
        /\ (\E c \in Caller : At(c, "call") /\ ~At(c, "call")') => pause'[p] >= pause[p]
        /\ pause[p] > 0 =>
              \A c \in Caller : InPair(c)' /\ task'[c].prov = p /\ At(c, "call")' =>
                  At(c, "call") \/ At(c, "delay")]_vars

\* The owner's "none of these": a pair without data that is dismissed gets data only
\* from a record the owner picks, or a caller that had looked before the dismissal, or
\* came with the link the pair had; a retry after a pause looks again ("a dismissed pair is never dialed").
DismissedStays ==
    [][\A pair \in Pair :
        pair \in dismissed /\ link[pair] = "none" /\ link'[pair] # "none" =>
            \E c \in Caller : At(c, "store") /\ PairOf(c) = pair
                              /\ (task[c].ask = "apply" \/ task[c].beaten \/ Linked(c))]_vars

\* Every pair of a finished entity is in exactly one count, so the done line adds up.
AddsUp ==
    LET n == sweep.counts IN
    n["linked"] + n["left"] + n["failed"] + n["stale"] + n["skipped"]
        = sweep.done * Cardinality(Provider)

\* A provider is given up only after a streak in which it answered nothing, and is
\* not dialed for the rest of the sweep.
GivenUpFairly ==
    \A p \in Provider : sweep.breaker[p].tripped =>
        /\ ~InPair(p)
        /\ since[p] + (IF At(p, "done") /\ task[p].out = "failed" THEN 1 ELSE 0)
              >= Min({FailLimit, PauseLimit})

\* A paused provider is not dialed by who was not on the way to it, a pair the owner
\* dismissed stays without data, every pair a sweep has finished is in one count, and a
\* provider is given up only after a streak of failures (pacer.go, sweep.go,
\* refresh_pair.go: F66).
ProvidersSpared == PauseHolds /\ DismissedStays /\ [](TypeOK /\ AddsUp /\ GivenUpFairly)

\* A sweep ends, whatever the providers answer and whoever else uses the buckets, and
\* the next one can start.
SweepEnds == sweep.on ~> ~sweep.on
=============================================================================
