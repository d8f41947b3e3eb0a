-------------------------- MODULE EnrichSweep_proofs --------------------------
(***************************************************************************)
(* The pacer, the dismissals and the breaker of EnrichSweep, for any number *)
(* of providers, entities and clicks.                                      *)
(***************************************************************************)
EXTENDS EnrichSweep, FiniteSetTheorems, TLAPS

LEMMA MaxOf == ASSUME NEW m \in Int, NEW n \in Int
               PROVE  Max({m, n}) = IF m >= n THEN m ELSE n
<1>1. PICK x \in {m, n} : \A y \in {m, n} : x >= y
  OBVIOUS
<1>2. Max({m, n}) \in {m, n} /\ \A y \in {m, n} : Max({m, n}) >= y
  BY <1>1 DEF Max
<1> QED
  BY <1>2

LEMMA MinOf == ASSUME NEW m \in Int, NEW n \in Int
               PROVE  Min({m, n}) = IF m <= n THEN m ELSE n
<1>1. PICK x \in {m, n} : \A y \in {m, n} : x <= y
  OBVIOUS
<1>2. Min({m, n}) \in {m, n} /\ \A y \in {m, n} : Min({m, n}) <= y
  BY <1>1 DEF Min
<1> QED
  BY <1>2

\* What a goroutine or a click holds: nothing, a pair under way, or a pair's result.
RunPc == {"begin", "admit", "delay", "call", "store", "failed", "paused"}
Running == [pc : RunPc, ask : {"refresh", "search", "apply"}, ent : Entity, prov : Provider,
            force : BOOLEAN, link : Data, op : {"resolve", "enrich"}, wait : Nat,
            again : BOOLEAN, saw : BOOLEAN, beaten : BOOLEAN]
Result == [pc : {"done"}, out : Outcome]

TaskOK(c) ==
    /\ task[c] \in Running \cup Result \cup {NoTask}
    /\ c \in Click => task[c] \notin Result
    /\ c \in Provider /\ task[c] \in Running => task[c].prov = c /\ task[c].ask = "refresh"

SweepOK ==
    /\ sweep = [on |-> sweep.on, force |-> sweep.force, total |-> sweep.total, done |-> sweep.done,
                counts |-> sweep.counts, breaker |-> sweep.breaker]
    /\ sweep.on \in BOOLEAN /\ sweep.force \in BOOLEAN
    /\ sweep.total \in {0, Entities} /\ sweep.done \in Nat

Typed ==
    /\ tokens \in [Provider -> Int] /\ pause \in [Provider -> Nat]
    /\ link \in [Pair -> Data] /\ dismissed \subseteq Pair
    /\ SweepOK
    /\ task = [c \in Caller |-> task[c]]
    /\ \A c \in Caller : TaskOK(c)

LEMMA RecordsApart ==
    /\ \A r \in Running : r \notin Result /\ r # NoTask /\ r.pc \notin {"idle", "done"}
    /\ \A r \in Result : r # NoTask /\ r.pc = "done"
    /\ NoTask.pc = "idle" /\ NoTask \notin Running /\ NoTask \notin Result
BY DEF Running, Result, NoTask, RunPc

\* What a step of caller c may do to the goroutines: c alone moves, on with its pair
\* or away from it.
Only(c) == task' = [task EXCEPT ![c] = task'[c]]
Stays(c) ==
    /\ Only(c) /\ task'[c] \in Running
    /\ task'[c].ask = task[c].ask /\ task'[c].ent = task[c].ent
    /\ task'[c].prov = task[c].prov /\ task'[c].link = task[c].link
Leaves(c) == Only(c) /\ task'[c] \in Result \cup {NoTask} /\ (c \in Click => task'[c] = NoTask)

LEMMA GotoStays ==
    ASSUME Typed, NEW c \in Caller, task[c] \in Running, NEW s \in RunPc, Goto(c, s)
    PROVE  /\ Stays(c) /\ task'[c].pc = s /\ task'[c].wait = task[c].wait
           /\ task'[c].op = task[c].op /\ task'[c].beaten = task[c].beaten
<1>1. task'[c] = [task[c] EXCEPT !.pc = s] /\ Only(c)
  BY DEF Goto, Typed, Only
<1>2. task'[c] \in Running
  BY <1>1 DEF Running
<1> QED
  BY <1>1, <1>2 DEF Stays, Running

LEMMA FailingStays ==
    ASSUME Typed, NEW c \in Caller, task[c] \in Running, NEW n \in Nat, Failing(c, n)
    PROVE  /\ Stays(c) /\ task'[c].pc = "failed" /\ task'[c].wait = n
           /\ task'[c].op = task[c].op /\ task'[c].beaten = task[c].beaten
<1>1. task'[c] = [task[c] EXCEPT !.pc = "failed", !.wait = n] /\ Only(c)
  BY DEF Failing, Typed, Only
<1>3. "failed" \in RunPc
  BY DEF RunPc
<1>2. task'[c] \in Running
  BY <1>1, <1>3 DEF Running
<1> QED
  BY <1>1, <1>2 DEF Stays, Running

LEMMA DialStays ==
    ASSUME Typed, NEW c \in Caller, task[c] \in Running, NEW o \in {"resolve", "enrich"}, Dial(c, o)
    PROVE  /\ Stays(c) /\ task'[c].pc = "admit"
           /\ task'[c].op = o /\ task'[c].beaten = FALSE
<1>1. task'[c] = [task[c] EXCEPT !.pc = "admit", !.op = o, !.beaten = FALSE] /\ Only(c)
  BY DEF Dial, Typed, Only
<1>3. "admit" \in RunPc /\ FALSE \in BOOLEAN
  BY DEF RunPc
<1>2. task'[c] \in Running
  BY <1>1, <1>3 DEF Running
<1> QED
  BY <1>1, <1>2 DEF Stays, Running

LEMMA EndedLeaves ==
    ASSUME Typed, NEW c \in Caller, NEW o \in Outcome, Ended(c, o)
    PROVE  Leaves(c) /\ (task'[c].pc = "done" => task'[c].out = o) /\ task'[c].pc \in {"idle", "done"}
<1>1. task'[c] = (IF c \in Click THEN NoTask ELSE [pc |-> "done", out |-> o]) /\ Only(c)
  BY DEF Ended, Typed, Only
<1> QED
  BY <1>1 DEF Leaves, Result, NoTask

\* A caller past "idle" and "done" is running.
LEMMA RunningBy ==
    ASSUME Typed, NEW c \in Caller, task[c].pc \notin {"idle", "done"}
    PROVE  /\ task[c] \in Running /\ task[c].prov \in Provider /\ task[c].wait \in Nat
           /\ PairOf(c) \in Pair
<1>1. task[c] \in Running
  BY RecordsApart DEF Typed, TaskOK
<1> QED
  BY <1>1 DEF Running, PairOf, Pair

\* Either way everyone's task stays one.
LEMMA TasksKept ==
    ASSUME Typed, NEW c \in Caller, (task[c] \in Running /\ Stays(c)) \/ Leaves(c)
    PROVE  task' = [d \in Caller |-> task'[d]] /\ \A d \in Caller : TaskOK(d)'
<1>1. Only(c)
  BY DEF Stays, Leaves
<1>2. task' = [d \in Caller |-> task'[d]] /\ \A d \in Caller : d # c => task'[d] = task[d]
  BY <1>1 DEF Only, Typed
<1>3. TaskOK(c)'
  <2>1. CASE task[c] \in Running /\ Stays(c)
    BY <2>1, RecordsApart DEF Stays, TaskOK, Typed
  <2>2. CASE Leaves(c)
    BY <2>2, RecordsApart DEF Leaves, TaskOK
  <2> QED
    BY <2>1, <2>2
<1> QED
  BY <1>2, <1>3 DEF Typed, TaskOK

\* Only acquire lets a caller wait or call; a pair's own steps never end in a failure.
Calls(c) ==
    /\ task'[c].pc = "delay" => Reserved(c)
    /\ task'[c].pc = "call" => Reserved(c) \/ Wake(c)
Gently(c) == task'[c].pc = "done" => task'[c].out # "failed"

\* What a pair's step changes: its caller's task, its provider's bucket, its pair's rows.
LEMMA PairSteps ==
    ASSUME Typed, NEW c \in Caller, PairStep(c)
    PROVE  /\ task[c] \in Running /\ (Stays(c) \/ Leaves(c))
           /\ UNCHANGED <<sweep, stopping, acts, since>>
           /\ Calls(c) /\ Gently(c)
<1> SUFFICES task[c] \in Running /\ (Stays(c) \/ Leaves(c)) /\ Calls(c) /\ Gently(c)
  BY DEF PairStep, RefreshPair, Pick, Admit, Wake, Shown, Resolved, Enriched, CallFails, Store
<1>1. CASE RefreshPair(c)
  <2>1. task[c] \in Running
    BY <1>1, RunningBy DEF RefreshPair, At
  <2>2. CASE StaleSkip(c) \/ Turned(c)
    BY <2>1, <2>2, EndedLeaves DEF StaleSkip, Turned, Outcome, Calls, Gently
  <2>3. CASE Refetch(c) \/ Search(c)
    BY <2>1, <2>3, DialStays DEF Refetch, Search, Calls, Gently
  <2>4. CASE Failing(c, 0)
    BY <2>1, <2>4, FailingStays DEF Calls, Gently
  <2> QED
    BY <1>1, <2>1, <2>2, <2>3, <2>4 DEF RefreshPair
<1>2. CASE Pick(c)
  <2>1. task[c] \in Running
    BY <1>2, RunningBy DEF Pick, At
  <2>2. CASE Apply(c)
    BY <2>1, <2>2, DialStays DEF Apply, Calls, Gently
  <2>3. CASE Ended(c, "dismissed")
    BY <2>1, <2>3, EndedLeaves DEF Outcome, Calls, Gently
  <2>4. CASE task' = [task EXCEPT ![c].pc = "admit", ![c].saw = Barred(c)]
    <3>1. task'[c] = [task[c] EXCEPT !.pc = "admit", !.saw = Barred(c)] /\ Only(c)
      BY <2>4 DEF Typed, Only
    <3>2. "admit" \in RunPc /\ Barred(c) \in BOOLEAN
      BY DEF RunPc, Barred
    <3>3. task'[c] \in Running
      BY <2>1, <3>1, <3>2 DEF Running
    <3> QED
      BY <2>1, <3>1, <3>3 DEF Stays, Running, Calls, Gently
  <2> QED
    BY <1>2, <2>1, <2>2, <2>3, <2>4 DEF Pick, Look
<1>3. CASE Admit(c)
  <2>1. task[c] \in Running /\ task[c].prov \in Provider
    BY <1>3, RunningBy DEF Admit, At
  <2>2. CASE Paused(c) \/ Unverified(c)
    <3>1. pause[task[c].prov] \in Nat
      BY <2>1 DEF Typed
    <3> QED
      BY <2>1, <2>2, <3>1, FailingStays DEF Paused, Unverified, Calls, Gently
  <2>3. CASE Reserved(c)
    <3> DEFINE left == tokens[task[c].prov] - 1
    <3>1. left \in Int
      BY <2>1 DEF Typed
    <3>2. CASE left >= 0
      BY <2>1, <2>3, <3>2, GotoStays DEF Reserved, RunPc, Calls, Gently
    <3>3. CASE ~(left >= 0)
      <4>1. task'[c] = [task[c] EXCEPT !.pc = "delay", !.wait = -left] /\ Only(c)
        BY <2>3, <3>3 DEF Reserved, Typed, Only
      <4>2. "delay" \in RunPc /\ -left \in Nat
        BY <3>1, <3>3 DEF RunPc
      <4> HIDE DEF left
      <4>3. task'[c] \in Running
        BY <2>1, <4>1, <4>2 DEF Running
      <4> QED
        BY <2>1, <2>3, <4>1, <4>3 DEF Stays, Running, Calls, Gently
    <3> QED
      BY <3>2, <3>3
  <2> QED
    BY <1>3, <2>1, <2>2, <2>3 DEF Admit
<1>4. CASE Wake(c) \/ Enriched(c)
  <2>1. task[c] \in Running
    BY <1>4, RunningBy DEF Wake, Enriched, At
  <2>2. "call" \in RunPc /\ "store" \in RunPc
    BY DEF RunPc
  <2>3. CASE Wake(c)
    <3>1. Stays(c) /\ task'[c].pc = "call"
      BY <2>1, <2>2, <2>3, GotoStays DEF Wake
    <3> QED
      BY <2>1, <2>3, <3>1 DEF Calls, Gently
  <2>4. CASE Enriched(c)
    <3>1. Stays(c) /\ task'[c].pc = "store"
      BY <2>1, <2>2, <2>4, GotoStays DEF Enriched
    <3> QED
      BY <2>1, <3>1 DEF Calls, Gently
  <2> QED
    BY <1>4, <2>3, <2>4
<1>5. CASE Shown(c)
  <2>1. task[c] \in Running
    BY <1>5, RunningBy DEF Shown, At
  <2> QED
    BY <1>5, <2>1, EndedLeaves DEF Shown, Outcome, Answered, Calls, Gently
<1>6. CASE Resolved(c)
  <2>1. task[c] \in Running
    BY <1>6, RunningBy DEF Resolved, At
  <2>2. CASE task' = [task EXCEPT ![c].pc = "admit", ![c].op = "enrich"]
    <3>1. task'[c] = [task[c] EXCEPT !.pc = "admit", !.op = "enrich"] /\ Only(c)
      BY <2>2 DEF Typed, Only
    <3>2. "admit" \in RunPc
      BY DEF RunPc
    <3>3. task'[c] \in Running
      BY <2>1, <3>1, <3>2 DEF Running
    <3> QED
      BY <1>6, <2>1, <3>1, <3>3 DEF Stays, Running, Resolved, Calls, Gently
  <2>3. CASE Ended(c, "left")
    BY <1>6, <2>1, <2>3, EndedLeaves DEF Resolved, Outcome, Answered, Calls, Gently
  <2> QED
    BY <1>6, <2>2, <2>3 DEF Resolved
<1>7. CASE CallFails(c)
  <2>1. task[c] \in Running
    BY <1>7, RunningBy DEF CallFails, At
  <2>2. PICK n \in Nat : Failing(c, n)
    BY <1>7, SweepConstants DEF CallFails
  <2> QED
    BY <1>7, <2>1, <2>2, FailingStays DEF CallFails, Calls, Gently
<1>8. CASE Store(c)
  <2>1. task[c] \in Running
    BY <1>8, RunningBy DEF Store, At
  <2>2. CASE Failing(c, 0)
    BY <1>8, <2>1, <2>2, FailingStays DEF Store, Calls, Gently
  <2>3. CASE Ended(c, IF Linked(c) THEN "refreshed" ELSE "auto_applied")
    BY <1>8, <2>1, <2>3, EndedLeaves DEF Store, Outcome, Answered, Refreshed, Calls, Gently
  <2> QED
    BY <1>8, <2>2, <2>3 DEF Store
<1> QED
  BY <1>1, <1>2, <1>3, <1>4, <1>5, <1>6, <1>7, <1>8 DEF PairStep

\* The sweep's side of a failed pair is as small a step.
LEMMA SweepPairs ==
    ASSUME Typed, NEW p \in Provider, SweepPair(p)
    PROVE  /\ task[p] \in Running /\ (Stays(p) \/ Leaves(p))
           /\ UNCHANGED <<pause, rows, stopping, acts, since>> /\ SweepOK'
<1>1. task[p] \in Running /\ p \in Caller /\ task[p].wait \in Nat /\ task[p].prov \in Provider
  BY RunningBy DEF SweepPair, PairWaits, PairRetries, PairFails, PairStops, Cancelled, At, Caller
<1>2. UNCHANGED <<pause, rows, stopping, acts, since>>
  BY DEF SweepPair, PairWaits, PairRetries, PairFails, PairStops, bucket, rows
<1>3. SweepOK'
  <2>1. CASE PairFails(p)
    BY <2>1 DEF PairFails, Typed, SweepOK
  <2>2. CASE UNCHANGED sweep
    BY <2>2 DEF Typed, SweepOK
  <2> QED
    BY <2>1, <2>2 DEF SweepPair, PairWaits, PairRetries, PairStops
<1>4. CASE PairWaits(p)
  <2>1. "paused" \in RunPc
    BY DEF RunPc
  <2> QED
    BY <1>1, <1>2, <1>3, <1>4, <2>1, GotoStays DEF PairWaits
<1>5. CASE PairRetries(p)
  <2>1. task'[p] = [task[p] EXCEPT !.pc = "begin", !.again = TRUE] /\ Only(p)
    BY <1>1, <1>5 DEF PairRetries, Typed, Only
  <2>2. "begin" \in RunPc
    BY DEF RunPc
  <2>3. task'[p] \in Running
    BY <1>1, <2>1, <2>2 DEF Running
  <2>4. Stays(p)
    BY <1>1, <2>1, <2>3 DEF Stays, Running
  <2> QED
    BY <1>1, <1>2, <1>3, <2>4
<1>6. CASE Ended(p, "failed")
  BY <1>1, <1>2, <1>3, <1>6, EndedLeaves DEF Outcome
<1>7. CASE Failing(p, 0)
  BY <1>1, <1>2, <1>3, <1>7, FailingStays
<1> QED
  BY <1>4, <1>5, <1>6, <1>7 DEF SweepPair, PairFails, PairStops

LEMMA TypedFrame ==
    ASSUME Typed, UNCHANGED <<bucket, rows, sweep>>, NEW c \in Caller,
           (task[c] \in Running /\ Stays(c)) \/ Leaves(c)
    PROVE  Typed'
BY TasksKept DEF Typed, bucket, rows, SweepOK

LEMMA TypedPairStep == ASSUME Typed, NEW c \in Caller, PairStep(c) PROVE Typed'
<1>1. /\ task' = [d \in Caller |-> task'[d]] /\ \A d \in Caller : TaskOK(d)'
      /\ UNCHANGED sweep /\ SweepOK'
  BY PairSteps, TasksKept DEF Typed, SweepOK
<1>2. task[c] \in Running /\ task[c].prov \in Provider /\ PairOf(c) \in Pair
  BY PairSteps DEF Running, PairOf, Pair
<1>3. tokens' \in [Provider -> Int]
  BY <1>2 DEF PairStep, RefreshPair, Pick, Admit, Paused, Reserved, Unverified, Wake, Shown,
              Resolved, Enriched, CallFails, Store, Typed, bucket
<1>4. pause' \in [Provider -> Nat]
  <2>1. CASE CallFails(c)
    <3>1. \A m, n \in Nat : Max({m, n}) \in Nat
      BY MaxOf
    <3>2. \A d \in 1 .. MaxPause : d \in Nat
      BY SweepConstants
    <3>3. pause[task[c].prov] \in Nat
      BY <1>2 DEF Typed
    <3> QED
      BY <1>2, <2>1, <3>1, <3>2, <3>3 DEF CallFails, PauseFor, Typed
  <2>2. CASE UNCHANGED pause
    BY <2>2 DEF Typed
  <2> QED
    BY <2>1, <2>2 DEF PairStep, RefreshPair, Pick, Admit, Wake, Shown, Resolved, Enriched, Store,
                      bucket
<1>5. link' \in [Pair -> Data]
  BY <1>2 DEF PairStep, RefreshPair, Pick, Admit, Wake, Shown, Resolved, Enriched, CallFails, Store,
              Typed, rows, Data
<1>6. dismissed' \subseteq Pair
  BY <1>2 DEF PairStep, RefreshPair, Pick, Admit, Wake, Shown, Resolved, Enriched, CallFails, Store,
              Typed, rows
<1> QED
  BY <1>1, <1>3, <1>4, <1>5, <1>6 DEF Typed

LEMMA TypedSweepPair == ASSUME Typed, NEW p \in Provider, SweepPair(p) PROVE Typed'
<1>1. p \in Caller
  BY DEF Caller
<1>2. /\ task' = [d \in Caller |-> task'[d]] /\ \A d \in Caller : TaskOK(d)'
      /\ UNCHANGED <<pause, rows>> /\ SweepOK'
  BY <1>1, SweepPairs, TasksKept
<1>3. tokens' \in [Provider -> Int]
  BY DEF SweepPair, PairWaits, PairRetries, PairFails, PairStops, Cancelled, Typed, bucket
<1> QED
  BY <1>2, <1>3 DEF Typed, rows

\* A tick shortens the waits.
LEMMA Ticked ==
    ASSUME Typed, Tick, NEW c \in Caller
    PROVE  /\ TaskOK(c)' /\ task'[c].pc = task[c].pc
           /\ task[c] \in Running =>
                /\ Stays(c) \/ task'[c] \in Running
                /\ task'[c].prov = task[c].prov /\ task'[c].ask = task[c].ask
                /\ task'[c].ent = task[c].ent /\ task'[c].link = task[c].link
                /\ task'[c].op = task[c].op /\ task'[c].beaten = task[c].beaten
                /\ task[c].pc = "delay" => task'[c].wait = Max({task[c].wait - 1, 0})
           /\ task[c] \notin Running => task'[c] = task[c]
<1>1. task'[c] = IF task[c].pc \in {"delay", "paused"}
                 THEN [task[c] EXCEPT !.wait = Max({task[c].wait - 1, 0})] ELSE task[c]
  BY DEF Tick
<1>2. CASE task[c].pc \in {"delay", "paused"}
  <2>1. task[c] \in Running /\ task[c].wait \in Nat
    BY <1>2, RunningBy
  <2>2. Max({task[c].wait - 1, 0}) \in Nat
    <3>1. task[c].wait - 1 \in Int
      BY <2>1
    <3> QED
      BY <2>1, <3>1, MaxOf
  <2>3. task'[c] \in Running
    BY <1>1, <1>2, <2>1, <2>2 DEF Running
  <2>4. /\ task'[c].pc = task[c].pc
        /\ task'[c].prov = task[c].prov /\ task'[c].ask = task[c].ask
        /\ task'[c].ent = task[c].ent /\ task'[c].link = task[c].link
        /\ task'[c].op = task[c].op /\ task'[c].beaten = task[c].beaten
        /\ task[c].pc = "delay" => task'[c].wait = Max({task[c].wait - 1, 0})
    BY <1>1, <1>2, <2>1 DEF Running
  <2> QED
    BY <2>1, <2>3, <2>4, RecordsApart DEF TaskOK, Typed
<1>3. CASE task[c].pc \notin {"delay", "paused"}
  BY <1>1, <1>3 DEF TaskOK, Typed
<1> QED
  BY <1>2, <1>3

LEMMA TypedNext == Typed /\ [Next]_vars => Typed'
<1> SUFFICES ASSUME Typed, [Next]_vars PROVE Typed'
  OBVIOUS
<1>1. CASE Tick
  <2>1. tokens' \in [Provider -> Int] /\ pause' \in [Provider -> Nat]
    <3>1. \A m \in Int : Min({m + 1, Burst}) \in Int
      BY MinOf, SweepConstants
    <3>2. \A m \in Nat : Max({m - 1, 0}) \in Nat
      BY MaxOf
    <3> QED
      BY <1>1, <3>1, <3>2 DEF Tick, Typed
  <2>2. task' = [c \in Caller |-> task'[c]] /\ UNCHANGED <<rows, sweep>>
    BY <1>1 DEF Tick
  <2> QED
    BY <1>1, <2>1, <2>2, Ticked DEF Typed, rows, SweepOK
<1>2. CASE Shutdown
  BY <1>2 DEF Shutdown, Typed, bucket, rows, SweepOK, TaskOK
<1>3. ASSUME NEW c \in Click, Abandon(c) PROVE Typed'
  <2>1. c \in Caller /\ Leaves(c) /\ task[c].prov \in Provider
    BY <1>3, RunningBy DEF Abandon, Cancelled, At, Leaves, Only, Caller, Typed
  <2>2. tokens' \in [Provider -> Int]
    BY <1>3, <2>1 DEF Abandon, Cancelled, Typed
  <2> QED
    BY <1>3, <2>1, <2>2, TasksKept DEF Abandon, Typed, rows, SweepOK
<1>4. ASSUME NEW c \in Click, NEW e \in Entity, NEW p \in Provider,
             NEW ask \in {"refresh", "search", "apply"}, Request(c, e, p, ask)
      PROVE  Typed'
  <2>1. c \in Caller /\ c \notin Provider
    BY SweepConstants DEF Caller
  <2>2. Begun(e, p, ask, TRUE) \in Running
    BY DEF Begun, Running, RunPc, Typed, Pair
  <2>3. task' = [task EXCEPT ![c] = Begun(e, p, ask, TRUE)]
    BY <1>4 DEF Request
  <2>4. task' = [d \in Caller |-> task'[d]] /\ \A d \in Caller : TaskOK(d)'
    BY <2>1, <2>2, <2>3, RecordsApart DEF Typed, TaskOK
  <2> QED
    BY <1>4, <2>4 DEF Request, Typed, bucket, rows, SweepOK
<1>5. ASSUME NEW pair \in Pair, Clear(pair) \/ Undismiss(pair) \/ Ages(pair) PROVE Typed'
  BY <1>5 DEF Clear, Undismiss, Ages, Typed, bucket, rows, SweepOK, TaskOK, Data
<1>6. ASSUME NEW pair \in Pair, Dismiss(pair) PROVE Typed'
  <2>1. ASSUME NEW c \in Caller PROVE TaskOK(c)'
    <3>0. task' = [d \in Caller |->
              IF InPair(d) /\ PairOf(d) = pair /\ task[d].pc \notin {"begin", "paused", "failed"}
              THEN [task[d] EXCEPT !.beaten = TRUE] ELSE task[d]]
      BY <1>6 DEF Dismiss, Overtaken
    <3>1. \/ task'[c] = task[c]
          \/ InPair(c) /\ task'[c] = [task[c] EXCEPT !.beaten = TRUE]
      BY <3>0
    <3>2. CASE InPair(c) /\ task'[c] = [task[c] EXCEPT !.beaten = TRUE]
      <4>1. task[c] \in Running
        BY <3>2, RunningBy DEF InPair
      <4>2. task'[c] \in Running /\ task'[c].prov = task[c].prov /\ task'[c].ask = task[c].ask
        BY <3>2, <4>1 DEF Running
      <4> QED
        BY <4>1, <4>2, RecordsApart DEF Typed, TaskOK
    <3> QED
      BY <3>1, <3>2 DEF Typed, TaskOK
  <2>2. task' = [c \in Caller |-> task'[c]]
    BY <1>6 DEF Dismiss, Overtaken
  <2> QED
    BY <1>6, <2>1, <2>2 DEF Dismiss, Typed, bucket, SweepOK
<1>7. ASSUME NEW force \in BOOLEAN, Trigger(force) PROVE Typed'
  BY <1>7 DEF Trigger, Typed, bucket, rows, SweepOK, TaskOK
<1>8. ASSUME NEW c \in Caller, PairStep(c) PROVE Typed'
  BY <1>8, TypedPairStep
<1>9. ASSUME NEW c \in Click, ClickFails(c) PROVE Typed'
  <2>1. c \in Caller /\ Leaves(c)
    BY <1>9, EndedLeaves DEF ClickFails, Caller, Outcome
  <2> QED
    BY <1>9, <2>1, TypedFrame DEF ClickFails
<1>10. ASSUME NEW p \in Provider, SweepPair(p) PROVE Typed'
  BY <1>10, TypedSweepPair
<1>11. CASE Visit
  <2>1. ASSUME NEW c \in Provider PROVE Begun(sweep.done + 1, c, "refresh", sweep.force) \in Running
    <3>1. sweep.done + 1 \in Entity
      BY <1>11, SweepConstants DEF Visit, Ahead, Entity, Typed, SweepOK
    <3> QED
      BY <3>1 DEF Begun, Running, RunPc, Typed, SweepOK, Pair
  <2>2. \A c, e, f : Begun(e, c, "refresh", f).prov = c /\ Begun(e, c, "refresh", f).ask = "refresh"
    BY DEF Begun
  <2>3. [pc |-> "done", out |-> "breaker_skipped"] \in Result
    BY DEF Result, Outcome
  <2>4. task' = [c \in Caller |-> task'[c]]
        /\ \A c \in Caller : IF c \in Click THEN task'[c] = task[c]
              ELSE \/ task'[c] = Begun(sweep.done + 1, c, "refresh", sweep.force)
                   \/ task'[c] = [pc |-> "done", out |-> "breaker_skipped"]
    BY <1>11 DEF Visit
  <2>5. ASSUME NEW c \in Caller PROVE TaskOK(c)'
    <3>1. CASE c \in Click
      BY <2>4, <3>1 DEF TaskOK, Typed
    <3>2. CASE c \in Provider /\ c \notin Click
      BY <2>1, <2>2, <2>3, <2>4, <3>2, RecordsApart DEF TaskOK
    <3> QED
      BY <3>1, <3>2 DEF Caller
  <2> QED
    BY <1>11, <2>4, <2>5 DEF Visit, Typed, bucket, rows, SweepOK
<1>12. CASE VisitFails
  <2>1. SweepOK'
    <3>1. sweep' = [[sweep EXCEPT !.done = @ + 1] EXCEPT !.counts.failed = @ + Cardinality(Provider)]
      BY <1>12 DEF VisitFails
    <3> DEFINE n == Cardinality(Provider)
    <3> HIDE DEF n
    <3>2. /\ sweep'.on = sweep.on /\ sweep'.force = sweep.force /\ sweep'.total = sweep.total
          /\ sweep'.done = sweep.done + 1 /\ sweep'.breaker = sweep.breaker
          /\ sweep' = [on |-> sweep'.on, force |-> sweep'.force, total |-> sweep'.total,
                       done |-> sweep'.done, counts |-> sweep'.counts, breaker |-> sweep'.breaker]
      BY <3>1 DEF Typed, SweepOK
    <3> QED
      BY <3>2 DEF Typed, SweepOK
  <2> QED
    BY <1>12, <2>1 DEF VisitFails, Typed, bucket, rows, TaskOK
<1>13. CASE Collect
  <2>1. task' = [c \in Caller |-> task'[c]]
        /\ \A c \in Caller : task'[c] = task[c] \/ task'[c] = NoTask
    BY <1>13 DEF Collect
  <2>2. \A c \in Caller : TaskOK(c)'
    BY <2>1, RecordsApart DEF Typed, TaskOK
  <2>3. SweepOK'
    <3>1. PICK counts, breaker :
            sweep' = [sweep EXCEPT !.done = sweep.done + 1, !.counts = counts, !.breaker = breaker]
      BY <1>13 DEF Collect
    <3>2. /\ sweep'.on = sweep.on /\ sweep'.force = sweep.force /\ sweep'.total = sweep.total
          /\ sweep'.done = sweep.done + 1
          /\ sweep' = [on |-> sweep'.on, force |-> sweep'.force, total |-> sweep'.total,
                       done |-> sweep'.done, counts |-> sweep'.counts, breaker |-> sweep'.breaker]
      BY <3>1 DEF Typed, SweepOK
    <3> QED
      BY <3>2 DEF Typed, SweepOK
  <2> QED
    BY <1>13, <2>1, <2>2, <2>3 DEF Collect, Typed, bucket, rows
<1>14. CASE Finish
  BY <1>14 DEF Finish, Typed, bucket, rows, SweepOK, TaskOK
<1>15. CASE UNCHANGED vars
  BY <1>15 DEF vars, Typed, bucket, rows, SweepOK, TaskOK
<1> QED
  BY <1>1, <1>2, <1>3, <1>4, <1>5, <1>6, <1>7, <1>8, <1>9, <1>10, <1>11, <1>12, <1>13, <1>14, <1>15
     DEF Next, Owner, SweepStep

LEMMA TypedInit == Init => Typed
<1> SUFFICES ASSUME Init PROVE Typed
  OBVIOUS
<1>1. tokens \in [Provider -> Int] /\ pause \in [Provider -> Nat]
  BY SweepConstants DEF Init
<1>2. SweepOK
  BY DEF Init, SweepOK
<1>3. task = [c \in Caller |-> NoTask]
  BY DEF Init
<1>4. task = [c \in Caller |-> task[c]] /\ \A c \in Caller : TaskOK(c)
  BY <1>3, RecordsApart DEF TaskOK
<1> QED
  BY <1>1, <1>2, <1>4, SweepConstants DEF Typed, Init

THEOREM Types == Spec => []Typed
<1>1. Init => Typed
  BY TypedInit
<1>2. Typed /\ [Next]_vars => Typed'
  BY TypedNext
<1> QED
  BY <1>1, <1>2, PTL DEF Spec

\* Nobody joins the waiting, and their bucket is as it was.
LEMMA WaitersFewer ==
    ASSUME Typed, OneTokenEach, UNCHANGED tokens,
           \A c \in Caller : task'[c].pc = "delay" => task'[c] = task[c]
    PROVE  OneTokenEach'
BY DEF OneTokenEach, Delayed, At

\* Who gives a token back had the latest turn.
LEMMA WaiterLeaves ==
    ASSUME Typed, OneTokenEach, NEW c \in Caller, Cancelled(c), Only(c), task'[c].pc # "delay"
    PROVE  OneTokenEach'
<1>1. \A d \in Caller : task'[d].pc = "delay" => task'[d] = task[d] /\ d # c
  BY DEF Only, Typed
<1> DEFINE q == task[c].prov
<1>2. task[c] \in Running /\ q \in Provider /\ task[c].wait \in Nat /\ c \in Delayed(q)
  BY RunningBy DEF Cancelled, At, Delayed
<1>3. CASE ~GivesBack(c)
  BY <1>1, <1>3, WaitersFewer DEF Cancelled
<1>4. CASE GivesBack(c)
  <2>1. tokens' = [tokens EXCEPT ![q] = tokens[q] + 1]
    BY <1>4 DEF Cancelled
  <2> HIDE DEF q
  <2>2. SUFFICES ASSUME NEW p \in Provider, NEW d \in Caller, task'[d].pc = "delay",
                        task'[d].prov = p, task'[d].wait > 0
                 PROVE  /\ task'[d].wait <= -tokens'[p]
                        /\ \A e \in Caller : /\ task'[e].pc = "delay" /\ task'[e].prov = p /\ e # d
                                             => task'[e].wait # task'[d].wait
    BY DEF OneTokenEach, Delayed, At
  <2>3. task'[d] = task[d] /\ d # c /\ d \in Delayed(p) /\ task[d].wait \in Nat
    BY <1>1, <2>2, RunningBy DEF Delayed, At
  <2>4. task[d].wait <= -tokens[p]
        /\ \A e \in Delayed(p) \ {d} : task[e].wait # task[d].wait
    BY <2>2, <2>3 DEF OneTokenEach
  <2>5. \A e \in Caller : task'[e].pc = "delay" /\ task'[e].prov = p /\ e # d
                          => task'[e].wait # task'[d].wait
    BY <1>1, <2>3, <2>4 DEF Delayed, At
  <2>6. CASE p = q
    <3>1. task[d].wait <= task[c].wait /\ task[c].wait > 0
      BY <1>4, <2>3, <2>6 DEF GivesBack, q
    <3>2. task[c].wait <= -tokens[q] /\ task[c].wait # task[d].wait
      BY <1>2, <2>3, <2>4, <2>6, <3>1 DEF OneTokenEach
    <3>3. tokens[q] \in Int /\ tokens'[p] = tokens[q] + 1
      BY <1>2, <2>1, <2>6 DEF Typed
    <3> QED
      BY <1>2, <2>3, <2>5, <3>1, <3>2, <3>3
  <2>7. CASE p # q
    BY <2>1, <2>3, <2>4, <2>5, <2>7 DEF Typed
  <2> QED
    BY <2>6, <2>7
<1> QED
  BY <1>3, <1>4

\* A promised token is later than every other.
LEMMA WaiterJoins ==
    ASSUME Typed, OneTokenEach, NEW c \in Caller, task[c] \in Running, At(c, "admit"), Reserved(c)
    PROVE  OneTokenEach'
<1> DEFINE q == task[c].prov
           left == tokens[q] - 1
<1>1. q \in Provider /\ left \in Int /\ tokens' = [tokens EXCEPT ![q] = left]
  BY DEF Reserved, Running, Typed
<1>2. \A d \in Caller : d # c => task'[d] = task[d]
  BY DEF Reserved, Goto, Typed
<1>3. CASE left >= 0
  <2>0. Goto(c, "call")
    BY <1>3 DEF Reserved
  <2>1. task'[c].pc = "call"
    BY <2>0, GotoStays DEF RunPc
  <2>2. SUFFICES ASSUME NEW p \in Provider, NEW d \in Caller, task'[d].pc = "delay",
                        task'[d].prov = p, task'[d].wait > 0
                 PROVE  /\ task'[d].wait <= -tokens'[p]
                        /\ \A e \in Caller : /\ task'[e].pc = "delay" /\ task'[e].prov = p /\ e # d
                                             => task'[e].wait # task'[d].wait
    BY DEF OneTokenEach, Delayed, At
  <2>3. task'[d] = task[d] /\ d \in Delayed(p) /\ task[d].wait \in Nat
    BY <1>2, <2>1, <2>2, RunningBy DEF Delayed, At
  <2>4. task[d].wait <= -tokens[p]
        /\ \A e \in Delayed(p) \ {d} : task[e].wait # task[d].wait
    BY <2>2, <2>3 DEF OneTokenEach
  <2>5. p # q
    BY <1>1, <1>3, <2>2, <2>3, <2>4 DEF Typed
  <2>6. tokens'[p] = tokens[p]
    BY <1>1, <2>5 DEF Typed
  <2> QED
    BY <1>2, <2>1, <2>3, <2>4, <2>6 DEF Delayed, At
<1>4. CASE ~(left >= 0)
  <2>1. task'[c] = [task[c] EXCEPT !.pc = "delay", !.wait = -left]
    BY <1>4 DEF Reserved, Typed
  <2>2. task'[c].wait = -left /\ task'[c].prov = q /\ task'[c].pc = "delay"
    BY <2>1 DEF Running
  <2> HIDE DEF q
  <2>3. \A d \in Delayed(q) : d # c /\ task[d].wait \in Nat /\ task[d].wait < -left
    <3>1. SUFFICES ASSUME NEW d \in Delayed(q) PROVE d # c /\ task[d].wait \in Nat /\ task[d].wait < -left
      OBVIOUS
    <3>2. d # c /\ task[d].wait \in Nat
      BY RunningBy DEF Delayed, At
    <3>3. task[d].wait > 0 => task[d].wait <= -tokens[q]
      BY <1>1 DEF OneTokenEach
    <3>4. tokens[q] \in Int
      BY <1>1 DEF Typed
    <3> QED
      BY <1>4, <3>2, <3>3, <3>4
  <2>4. SUFFICES ASSUME NEW p \in Provider, NEW d \in Caller, task'[d].pc = "delay",
                        task'[d].prov = p, task'[d].wait > 0
                 PROVE  /\ task'[d].wait <= -tokens'[p]
                        /\ \A e \in Caller : /\ task'[e].pc = "delay" /\ task'[e].prov = p /\ e # d
                                             => task'[e].wait # task'[d].wait
    BY DEF OneTokenEach, Delayed, At
  <2>5. \A e \in Caller : task'[e].pc = "delay" /\ task'[e].prov = p /\ e # c => task'[e] = task[e] /\ e \in Delayed(p)
    BY <1>2 DEF Delayed, At
  <2>6. tokens'[q] = left /\ (p # q => tokens'[p] = tokens[p])
    BY <1>1 DEF Typed
  <2>7. CASE d = c
    <3>1. p = q
      BY <2>2, <2>4, <2>7
    <3> QED
      BY <1>1, <2>2, <2>3, <2>5, <2>6, <2>7, <3>1
  <2>8. CASE d # c
    <3>1. task'[d] = task[d] /\ d \in Delayed(p) /\ task[d].wait \in Nat
      BY <2>4, <2>5, <2>8, RunningBy
    <3>2. task[d].wait <= -tokens[p]
          /\ \A e \in Delayed(p) \ {d} : task[e].wait # task[d].wait
      BY <2>4, <3>1 DEF OneTokenEach
    <3>3. CASE p = q
      BY <1>1, <2>2, <2>3, <2>5, <2>6, <3>1, <3>2, <3>3
    <3>4. CASE p # q
      BY <2>2, <2>5, <2>6, <3>1, <3>2, <3>4
    <3> QED
      BY <3>3, <3>4
  <2> QED
    BY <2>7, <2>8
<1> QED
  BY <1>3, <1>4

LEMMA WaitersTick ==
    ASSUME Typed, OneTokenEach, Tick
    PROVE  OneTokenEach'
<1>1. SUFFICES ASSUME NEW p \in Provider, NEW d \in Caller, task'[d].pc = "delay",
                      task'[d].prov = p, task'[d].wait > 0
               PROVE  /\ task'[d].wait <= -tokens'[p]
                      /\ \A e \in Caller : /\ task'[e].pc = "delay" /\ task'[e].prov = p /\ e # d
                                           => task'[e].wait # task'[d].wait
  BY DEF OneTokenEach, Delayed, At
<1>2. \A e \in Caller : task'[e].pc = "delay" =>
         /\ task[e].pc = "delay" /\ task'[e].prov = task[e].prov /\ task[e].wait \in Nat
         /\ task'[e].wait = IF task[e].wait > 0 THEN task[e].wait - 1 ELSE 0
  <2>1. SUFFICES ASSUME NEW e \in Caller, task'[e].pc = "delay"
                 PROVE  /\ task[e].pc = "delay" /\ task'[e].prov = task[e].prov /\ task[e].wait \in Nat
                        /\ task'[e].wait = IF task[e].wait > 0 THEN task[e].wait - 1 ELSE 0
    OBVIOUS
  <2>2. task[e].pc = "delay"
    BY <2>1, Ticked
  <2>3. task[e] \in Running /\ task[e].wait \in Nat
    BY <2>2, RunningBy
  <2>4. task'[e].prov = task[e].prov /\ task'[e].wait = Max({task[e].wait - 1, 0})
    BY <2>2, <2>3, Ticked
  <2>5. Max({task[e].wait - 1, 0}) = IF task[e].wait > 0 THEN task[e].wait - 1 ELSE 0
    <3>1. task[e].wait - 1 \in Int
      BY <2>3
    <3> QED
      BY <2>3, <3>1, MaxOf
  <2> QED
    BY <2>2, <2>3, <2>4, <2>5
<1>3. d \in Delayed(p) /\ task[d].wait \in Nat /\ task'[d].wait = task[d].wait - 1 /\ task[d].wait > 1
  BY <1>1, <1>2 DEF Delayed, At
<1>4. task[d].wait <= -tokens[p]
      /\ \A e \in Delayed(p) \ {d} : task[e].wait # task[d].wait
  BY <1>3 DEF OneTokenEach
<1>5. tokens[p] \in Int /\ tokens'[p] <= tokens[p] + 1 /\ tokens'[p] \in Int
  <2>1. tokens[p] \in Int /\ tokens[p] + 1 \in Int /\ Burst \in Int
    BY SweepConstants DEF Typed
  <2>2. tokens'[p] = Min({tokens[p] + 1, Burst})
    BY DEF Tick
  <2> QED
    BY <2>1, <2>2, MinOf
<1>6. \A e \in Caller : task'[e].pc = "delay" /\ task'[e].prov = p /\ e # d
                        => task'[e].wait # task'[d].wait
  BY <1>2, <1>3, <1>4 DEF Delayed, At
<1> QED
  BY <1>3, <1>4, <1>5, <1>6

LEMMA OneTokenNext == Typed /\ OneTokenEach /\ [Next]_vars => OneTokenEach'
<1> SUFFICES ASSUME Typed, OneTokenEach, [Next]_vars PROVE OneTokenEach'
  OBVIOUS
<1>1. CASE Tick
  BY <1>1, WaitersTick
<1>2. CASE Shutdown \/ \E pair \in Pair : Clear(pair) \/ Undismiss(pair) \/ Ages(pair)
  BY <1>2, WaitersFewer DEF Shutdown, Clear, Undismiss, Ages, bucket
<1>3. ASSUME NEW c \in Click, Abandon(c) PROVE OneTokenEach'
  <2>1. c \in Caller /\ Only(c) /\ task'[c].pc # "delay"
    BY <1>3, RecordsApart DEF Abandon, Only, Typed, Caller, NoTask
  <2> QED
    BY <1>3, <2>1, WaiterLeaves DEF Abandon
<1>4. ASSUME NEW c \in Click, NEW e \in Entity, NEW p \in Provider,
             NEW ask \in {"refresh", "search", "apply"}, Request(c, e, p, ask)
      PROVE  OneTokenEach'
  <2>1. \A d \in Caller : task'[d].pc = "delay" => task'[d] = task[d]
    BY <1>4 DEF Request, Begun, Typed
  <2> QED
    BY <1>4, <2>1, WaitersFewer DEF Request, bucket
<1>5. ASSUME NEW pair \in Pair, Dismiss(pair) PROVE OneTokenEach'
  <2>1. task' = [d \in Caller |->
            IF InPair(d) /\ PairOf(d) = pair /\ task[d].pc \notin {"begin", "paused", "failed"}
            THEN [task[d] EXCEPT !.beaten = TRUE] ELSE task[d]]
    BY <1>5 DEF Dismiss, Overtaken
  <2>2. \A d \in Caller : /\ task'[d].pc = task[d].pc
                          /\ task[d].pc = "delay" => /\ task'[d].prov = task[d].prov
                                                     /\ task'[d].wait = task[d].wait
    <3>1. SUFFICES ASSUME NEW d \in Caller
                   PROVE  /\ task'[d].pc = task[d].pc
                          /\ task[d].pc = "delay" => /\ task'[d].prov = task[d].prov
                                                     /\ task'[d].wait = task[d].wait
      OBVIOUS
    <3>2. CASE InPair(d)
      <4>1. task[d] \in Running
        BY <3>2, RunningBy DEF InPair
      <4> QED
        BY <2>1, <4>1 DEF Running
    <3>3. CASE ~InPair(d)
      BY <2>1, <3>3
    <3> QED
      BY <3>2, <3>3
  <2>3. UNCHANGED tokens
    BY <1>5 DEF Dismiss, bucket
  <2> QED
    BY <2>2, <2>3 DEF OneTokenEach, Delayed, At
<1>6. ASSUME NEW force \in BOOLEAN, Trigger(force) PROVE OneTokenEach'
  BY <1>6, WaitersFewer DEF Trigger, bucket
<1>7. ASSUME NEW c \in Caller, PairStep(c) PROVE OneTokenEach'
  <2>1. task[c] \in Running /\ Only(c) /\ Calls(c)
    BY <1>7, PairSteps DEF Stays, Leaves
  <2>2. CASE At(c, "admit") /\ Reserved(c)
    BY <2>1, <2>2, WaiterJoins
  <2>3. CASE ~(At(c, "admit") /\ Reserved(c))
    <3>1. UNCHANGED tokens
      BY <1>7, <2>3 DEF PairStep, RefreshPair, Pick, Admit, Paused, Unverified, Wake, Shown,
                        Resolved, Enriched, CallFails, Store, bucket
    <3>2. task'[c].pc # "delay"
      <4>1. task'[c].pc = "delay" => Reserved(c)
        BY <2>1 DEF Calls
      <4>2. SUFFICES ASSUME Reserved(c) PROVE FALSE
        BY <4>1
      <4>3. task[c].prov \in Provider
        BY <2>1 DEF Running
      <4> QED
        BY <3>1, <4>2, <4>3 DEF Reserved, Typed
    <3>3. \A d \in Caller : task'[d].pc = "delay" => task'[d] = task[d]
      BY <2>1, <3>2 DEF Only, Typed
    <3> QED
      BY <3>1, <3>3, WaitersFewer
  <2> QED
    BY <2>2, <2>3
<1>8. ASSUME NEW c \in Click, ClickFails(c) PROVE OneTokenEach'
  <2>1. c \in Caller /\ Only(c) /\ task'[c].pc # "delay"
    BY <1>8, EndedLeaves DEF ClickFails, Caller, Outcome, Leaves
  <2>2. \A d \in Caller : task'[d].pc = "delay" => task'[d] = task[d]
    BY <2>1 DEF Only, Typed
  <2> QED
    BY <1>8, <2>2, WaitersFewer DEF ClickFails, bucket
<1>9. ASSUME NEW p \in Provider, SweepPair(p) PROVE OneTokenEach'
  <2>1. p \in Caller /\ task[p] \in Running /\ Only(p)
    BY <1>9, SweepPairs DEF Stays, Leaves, Caller
  <2>2. task'[p].pc # "delay"
    <3>1. CASE Goto(p, "paused") \/ task' = [task EXCEPT ![p].pc = "begin", ![p].again = TRUE]
               \/ Failing(p, 0)
      BY <2>1, <3>1 DEF Goto, Failing, Typed, Running
    <3>2. CASE Ended(p, "failed")
      BY <2>1, <3>2, EndedLeaves DEF Outcome
    <3> QED
      BY <1>9, <3>1, <3>2 DEF SweepPair, PairWaits, PairRetries, PairFails, PairStops
  <2>3. CASE Cancelled(p)
    BY <2>1, <2>2, <2>3, WaiterLeaves
  <2>4. CASE UNCHANGED tokens
    <3>1. \A d \in Caller : task'[d].pc = "delay" => task'[d] = task[d]
      BY <2>1, <2>2 DEF Only, Typed
    <3> QED
      BY <2>4, <3>1, WaitersFewer
  <2> QED
    BY <1>9, <2>3, <2>4 DEF SweepPair, PairWaits, PairRetries, PairFails, PairStops, bucket
<1>10. CASE Visit
  <2>1. \A d \in Caller : task'[d].pc = "delay" => task'[d] = task[d]
    BY <1>10 DEF Visit, Begun
  <2> QED
    BY <1>10, <2>1, WaitersFewer DEF Visit, bucket
<1>11. CASE Collect
  <2>1. \A d \in Caller : task'[d].pc = "delay" => task'[d] = task[d]
    BY <1>11 DEF Collect, NoTask
  <2> QED
    BY <1>11, <2>1, WaitersFewer DEF Collect, bucket
<1>12. CASE VisitFails \/ Finish
  BY <1>12, WaitersFewer DEF VisitFails, Finish, bucket
<1>13. CASE UNCHANGED vars
  BY <1>13, WaitersFewer DEF vars, bucket
<1> QED
  BY <1>1, <1>2, <1>3, <1>4, <1>5, <1>6, <1>7, <1>8, <1>9, <1>10, <1>11, <1>12, <1>13
     DEF Next, Owner, SweepStep

\* One token lets one caller through: callers waiting for the same bucket wake at
\* different ticks, all promised, whoever gives up between (acquire and its cancel).
THEOREM OneTokenForOne == Spec => []OneTokenEach
<1>1. Init => Typed /\ OneTokenEach
  <2>1. Init => OneTokenEach
    BY DEF Init, OneTokenEach, Delayed, At, NoTask
  <2> QED
    BY <2>1, TypedInit
<1>2. Typed /\ OneTokenEach /\ [Next]_vars => (Typed /\ OneTokenEach)'
  BY TypedNext, OneTokenNext
<1> QED
  BY <1>1, <1>2, PTL DEF Spec

(***************************************************************************)
(* Dismissals.  Past the check it began with, a goroutine on its way to a  *)
(* pair without data has looked at a pair that was not dismissed, or was   *)
(* overtaken since; a search stores nothing.                               *)
(***************************************************************************)
Past == {"admit", "delay", "call", "store"}
Looks(c) ==
    /\ InPair(c) /\ task[c].ask = "search" => task[c].op = "resolve" /\ task[c].pc # "store"
    /\ task[c].pc \in Past /\ task[c].ask = "refresh" /\ ~Linked(c)
          => PairOf(c) \notin dismissed \/ task[c].beaten
Looked == \A c \in Caller : Looks(c)

\* A step of somebody else leaves a caller that is past the check where it is.
Carried(c) ==
    /\ InPair(c)' /\ task'[c].ask = "search" =>
          /\ task'[c].pc # "store" \/ task[c].pc = "store"
          /\ \/ task'[c].op = "resolve"
             \/ InPair(c) /\ task'[c].ask = task[c].ask /\ task'[c].op = task[c].op
    /\ task'[c].pc \in Past =>
          /\ task'[c].pc = task[c].pc
          /\ task'[c].ask = task[c].ask /\ task'[c].link = task[c].link /\ PairOf(c)' = PairOf(c)
          /\ task[c].beaten => task'[c].beaten
          /\ PairOf(c) \in dismissed' => PairOf(c) \in dismissed \/ task'[c].beaten

LEMMA CarriedLooks == ASSUME NEW c \in Caller, Carried(c), Looks(c) PROVE Looks(c)'
BY DEF Carried, Looks, InPair, Past, Linked

LEMMA Untouched ==
    ASSUME Typed, NEW c \in Caller, dismissed' \subseteq dismissed,
           task'[c] = task[c] \/ task'[c].pc \in {"idle", "done"}
    PROVE  Carried(c)
BY DEF Carried, InPair, PairOf, Past

\* The steps that are not a pair's own.
LEMMA OthersCarry ==
    ASSUME Typed, [Next]_vars, ~\E c \in Caller : PairStep(c)
    PROVE  \A d \in Caller : Carried(d)
<1> SUFFICES ASSUME NEW d \in Caller PROVE Carried(d)
  OBVIOUS
<1>1. CASE Tick
  <2>1. UNCHANGED dismissed
    BY <1>1 DEF Tick, rows
  <2>2. CASE task[d] \in Running
    <3>1. /\ task'[d].pc = task[d].pc /\ task'[d].ask = task[d].ask /\ task'[d].link = task[d].link
          /\ task'[d].ent = task[d].ent /\ task'[d].prov = task[d].prov
          /\ task'[d].op = task[d].op /\ task'[d].beaten = task[d].beaten
      BY <1>1, <2>2, Ticked
    <3> QED
      BY <2>1, <3>1 DEF Carried, InPair, PairOf
  <2>3. CASE task[d] \notin Running
    BY <1>1, <2>1, <2>3, Ticked, Untouched
  <2> QED
    BY <2>2, <2>3
<1>2. CASE Shutdown \/ (\E pair \in Pair : Clear(pair) \/ Undismiss(pair) \/ Ages(pair))
           \/ VisitFails \/ Finish \/ UNCHANGED vars \/ \E force \in BOOLEAN : Trigger(force)
  <2>1. UNCHANGED task /\ dismissed' \subseteq dismissed
    BY <1>2 DEF Shutdown, Clear, Undismiss, Ages, VisitFails, Finish, Trigger, vars, rows
  <2> QED
    BY <2>1, Untouched
<1>3. ASSUME NEW c \in Click, Abandon(c) \/ ClickFails(c) PROVE Carried(d)
  <2>1. UNCHANGED dismissed
    BY <1>3 DEF Abandon, ClickFails, rows
  <2>2. task'[d] = task[d] \/ task'[d] = NoTask
    BY <1>3 DEF Abandon, ClickFails, Ended, Typed
  <2> QED
    BY <2>1, <2>2, RecordsApart, Untouched
<1>4. ASSUME NEW c \in Click, NEW e \in Entity, NEW p \in Provider,
             NEW ask \in {"refresh", "search", "apply"}, Request(c, e, p, ask)
      PROVE  Carried(d)
  <2>1. UNCHANGED dismissed /\ task' = [task EXCEPT ![c] = Begun(e, p, ask, TRUE)]
    BY <1>4 DEF Request, rows
  <2>2. CASE d # c
    BY <2>1, <2>2, Untouched DEF Typed
  <2>3. CASE d = c
    <3>1. task'[d].pc = "begin" /\ task'[d].op = "resolve"
      BY <2>1, <2>3 DEF Begun, Typed
    <3> QED
      BY <3>1 DEF Carried, Past
  <2> QED
    BY <2>2, <2>3
<1>5. ASSUME NEW pair \in Pair, Dismiss(pair) PROVE Carried(d)
  <2>1. task' = [c \in Caller |->
            IF InPair(c) /\ PairOf(c) = pair /\ task[c].pc \notin {"begin", "paused", "failed"}
            THEN [task[c] EXCEPT !.beaten = TRUE] ELSE task[c]]
    BY <1>5 DEF Dismiss, Overtaken
  <2>2. dismissed' = dismissed \cup {pair}
    BY <1>5 DEF Dismiss
  <2>3. CASE task[d] \in Running
    <3>1. /\ task'[d].pc = task[d].pc /\ task'[d].ask = task[d].ask /\ task'[d].link = task[d].link
          /\ task'[d].ent = task[d].ent /\ task'[d].prov = task[d].prov /\ task'[d].op = task[d].op
          /\ task[d].beaten => task'[d].beaten
          /\ InPair(d) /\ PairOf(d) = pair /\ task[d].pc \notin {"begin", "paused", "failed"}
               => task'[d].beaten
      BY <2>1, <2>3 DEF Running
    <3> QED
      BY <2>2, <3>1 DEF Carried, InPair, PairOf, Past
  <2>4. CASE task[d] \notin Running
    <3>1. task[d].pc \in {"idle", "done"}
      BY <2>4, RunningBy
    <3>2. task'[d] = task[d]
      BY <2>1, <3>1 DEF InPair
    <3> QED
      BY <3>1, <3>2 DEF Carried, InPair, Past
  <2> QED
    BY <2>3, <2>4
<1>6. ASSUME NEW p \in Provider, SweepPair(p) PROVE Carried(d)
  <2>1. p \in Caller /\ task[p] \in Running /\ Only(p) /\ UNCHANGED dismissed
    BY <1>6, SweepPairs DEF Stays, Leaves, Caller, rows
  <2>2. CASE d # p
    BY <2>1, <2>2, Untouched DEF Only, Typed
  <2>3. CASE d = p
    <3>1. task'[p].pc \notin Past
      <4>1. CASE Goto(p, "paused") \/ task' = [task EXCEPT ![p].pc = "begin", ![p].again = TRUE]
                 \/ Failing(p, 0)
        BY <2>1, <4>1 DEF Goto, Failing, Typed, Running, Past
      <4>2. CASE Ended(p, "failed")
        BY <2>1, <4>2, EndedLeaves DEF Outcome, Past
      <4> QED
        BY <1>6, <4>1, <4>2 DEF SweepPair, PairWaits, PairRetries, PairFails, PairStops
    <3>2. task'[p] \in Running => task'[p].ask = "refresh"
      BY TypedNext DEF Typed, TaskOK, Caller
    <3>3. InPair(p)' => task'[p] \in Running
      BY <2>1, <1>6, SweepPairs, RecordsApart DEF InPair, Leaves, Stays
    <3> QED
      BY <2>3, <3>1, <3>2, <3>3 DEF Carried
  <2> QED
    BY <2>2, <2>3
<1>7. CASE Visit
  <2>1. UNCHANGED dismissed
    BY <1>7 DEF Visit, rows
  <2>2. CASE d \in Click
    <3>1. task'[d] = task[d]
      BY <1>7, <2>2 DEF Visit
    <3> QED
      BY <2>1, <3>1, Untouched
  <2>3. CASE d \notin Click
    <3>1. task'[d].pc \in {"begin", "done"} /\ (task'[d].pc = "begin" => task'[d].op = "resolve")
      BY <1>7, <2>3 DEF Visit, Begun
    <3> QED
      BY <3>1 DEF Carried, Past, InPair
  <2> QED
    BY <2>2, <2>3
<1>8. CASE Collect
  <2>1. UNCHANGED dismissed /\ (task'[d] = task[d] \/ task'[d] = NoTask)
    BY <1>8 DEF Collect, rows
  <2> QED
    BY <2>1, RecordsApart, Untouched
<1> QED
  BY <1>1, <1>2, <1>3, <1>4, <1>5, <1>6, <1>7, <1>8 DEF Next, Owner, SweepStep

\* A pair's own step that keeps what it asks and what overtook it.
LEMMA Onward ==
    ASSUME Typed, NEW c \in Caller, task[c] \in Running, Stays(c), Looks(c), UNCHANGED dismissed,
           task'[c].op = task[c].op, task'[c].beaten = task[c].beaten,
           task[c].pc \in Past \/ task'[c].pc \notin Past,
           task'[c].pc = "store" => task[c].op = "enrich"
    PROVE  Looks(c)'
<1>1. InPair(c) /\ PairOf(c)' = PairOf(c) /\ (Linked(c)' <=> Linked(c))
  BY RecordsApart DEF InPair, PairOf, Linked, Stays
<1> QED
  BY <1>1 DEF Looks, Stays

LEMMA PairLooks == ASSUME Typed, NEW c \in Caller, PairStep(c), Looks(c) PROVE Looks(c)'
<1>0. task[c] \in Running
  BY PairSteps
<1>1. \A pc \in {"idle", "done"} : task'[c].pc = pc => Looks(c)'
  BY DEF Looks, InPair, Past
<1>2. CASE RefreshPair(c)
  <2>1. UNCHANGED dismissed /\ task[c].ask = "refresh"
    BY <1>2 DEF RefreshPair, rows
  <2>2. CASE StaleSkip(c) \/ Turned(c)
    BY <1>1, <2>2, EndedLeaves DEF StaleSkip, Turned, Outcome
  <2>3. CASE Refetch(c) \/ Search(c)
    <3>1. Stays(c)
      BY <1>0, <2>3, DialStays DEF Refetch, Search
    <3>2. PairOf(c)' = PairOf(c) /\ (Linked(c)' <=> Linked(c)) /\ task'[c].ask = "refresh"
      BY <2>1, <3>1 DEF Stays, PairOf, Linked
    <3> QED
      BY <2>1, <2>3, <3>2 DEF Looks, Refetch, Search, Barred
  <2>4. CASE Failing(c, 0)
    BY <1>0, <2>1, <2>4, FailingStays, Onward DEF Past
  <2> QED
    BY <1>2, <2>2, <2>3, <2>4 DEF RefreshPair
<1>3. CASE Pick(c)
  <2>1. UNCHANGED dismissed
    BY <1>3 DEF Pick, rows
  <2>2. CASE Apply(c)
    BY <1>0, <2>2, DialStays DEF Apply, Looks, Stays
  <2>3. CASE Ended(c, "dismissed")
    BY <1>1, <2>3, EndedLeaves DEF Outcome
  <2>4. CASE task[c].ask = "search" /\ task' = [task EXCEPT ![c].pc = "admit", ![c].saw = Barred(c)]
    <3>1. task'[c].pc = "admit" /\ task'[c].op = task[c].op /\ task'[c].ask = "search"
      BY <1>0, <2>4 DEF Typed, Running
    <3>2. InPair(c)
      BY <1>0, RecordsApart DEF InPair
    <3> QED
      BY <2>4, <3>1, <3>2 DEF Looks
  <2> QED
    BY <1>3, <2>2, <2>3, <2>4 DEF Pick, Look
<1>4. CASE Admit(c)
  <2>1. UNCHANGED dismissed /\ task[c].pc \in Past
    BY <1>4 DEF Admit, At, rows, Past
  <2>2. CASE \E n \in Nat : Failing(c, n)
    BY <1>0, <2>1, <2>2, FailingStays, Onward
  <2>3. CASE Goto(c, "call")
    BY <1>0, <2>1, <2>3, GotoStays, Onward DEF RunPc
  <2>4. CASE Reserved(c) /\ ~Goto(c, "call")
    <3>1. PICK n : task' = [task EXCEPT ![c].pc = "delay", ![c].wait = n]
      BY <2>4 DEF Reserved
    <3>2. task'[c].op = task[c].op /\ task'[c].beaten = task[c].beaten /\ task'[c].pc = "delay"
      BY <1>0, <3>1 DEF Typed, Running
    <3>3. Stays(c)
      BY <3>2, PairSteps DEF Leaves, Result, NoTask
    <3> QED
      BY <1>0, <2>1, <3>2, <3>3, Onward
  <2>5. task[c].prov \in Provider /\ \A p \in Provider : pause[p] \in Nat
    BY <1>0 DEF Running, Typed
  <2> QED
    BY <1>4, <2>2, <2>3, <2>4, <2>5 DEF Admit, Paused, Unverified
<1>5. CASE Wake(c) \/ Enriched(c)
  <2>1. UNCHANGED dismissed /\ task[c].pc \in Past
    BY <1>5 DEF Wake, Enriched, At, rows, Past
  <2>2. CASE Wake(c)
    BY <1>0, <2>1, <2>2, GotoStays, Onward DEF Wake, RunPc
  <2>3. CASE Enriched(c)
    BY <1>0, <2>1, <2>3, GotoStays, Onward DEF Enriched, RunPc
  <2> QED
    BY <1>5, <2>2, <2>3
<1>6. CASE Shown(c)
  BY <1>1, <1>6, EndedLeaves DEF Shown, Outcome, Answered
<1>7. CASE Resolved(c)
  <2>1. UNCHANGED dismissed /\ task[c].pc \in Past /\ task[c].ask = "refresh"
    BY <1>7 DEF Resolved, At, rows, Past
  <2>2. CASE task' = [task EXCEPT ![c].pc = "admit", ![c].op = "enrich"]
    <3>1. task'[c].pc = "admit" /\ task'[c].beaten = task[c].beaten
      BY <1>0, <2>2 DEF Typed, Running
    <3>2. Stays(c)
      BY <3>1, PairSteps DEF Leaves, Result, NoTask
    <3>3. PairOf(c)' = PairOf(c) /\ (Linked(c)' <=> Linked(c)) /\ task'[c].ask = "refresh"
      BY <2>1, <3>2 DEF Stays, PairOf, Linked
    <3> QED
      BY <2>1, <3>1, <3>3 DEF Looks
  <2>3. CASE Ended(c, "left")
    BY <1>1, <2>3, EndedLeaves DEF Outcome, Answered
  <2> QED
    BY <1>7, <2>2, <2>3 DEF Resolved
<1>8. CASE CallFails(c)
  <2>1. UNCHANGED dismissed /\ \E n \in Nat : Failing(c, n)
    BY <1>8, SweepConstants DEF CallFails, rows
  <2> QED
    BY <1>0, <2>1, FailingStays, Onward DEF Past
<1>9. CASE Store(c)
  <2>1. UNCHANGED dismissed
    BY <1>9 DEF Store
  <2>2. CASE Failing(c, 0)
    BY <1>0, <2>1, <2>2, FailingStays, Onward DEF Past
  <2>3. CASE Ended(c, IF Linked(c) THEN "refreshed" ELSE "auto_applied")
    BY <1>1, <2>3, EndedLeaves DEF Outcome, Answered, Refreshed
  <2> QED
    BY <1>9, <2>2, <2>3 DEF Store
<1> QED
  BY <1>2, <1>3, <1>4, <1>5, <1>6, <1>7, <1>8, <1>9 DEF PairStep

LEMMA LookedNext == Typed /\ Looked /\ [Next]_vars => Looked'
<1> SUFFICES ASSUME Typed, Looked, [Next]_vars PROVE Looked'
  OBVIOUS
<1>1. ASSUME NEW c \in Caller, PairStep(c) PROVE Looked'
  <2>1. Looks(c)'
    BY <1>1, PairLooks DEF Looked
  <2>2. dismissed' \subseteq dismissed
    BY <1>1 DEF PairStep, RefreshPair, Pick, Admit, Wake, Shown, Resolved, Enriched, CallFails,
                Store, rows
  <2>3. \A d \in Caller : d # c => task'[d] = task[d]
    BY <1>1, PairSteps DEF Stays, Leaves, Only, Typed
  <2>4. \A d \in Caller : d # c => Looks(d)'
    BY <2>2, <2>3, Untouched, CarriedLooks DEF Looked
  <2> QED
    BY <2>1, <2>4 DEF Looked
<1>2. CASE ~\E c \in Caller : PairStep(c)
  BY <1>2, OthersCarry, CarriedLooks DEF Looked
<1> QED
  BY <1>1, <1>2

DismissedStay ==
    \A pair \in Pair :
        pair \in dismissed /\ link[pair] = "none" /\ link'[pair] # "none" =>
            \E c \in Caller : At(c, "store") /\ PairOf(c) = pair
                              /\ (task[c].ask = "apply" \/ task[c].beaten \/ Linked(c))

LEMMA DismissedStep == Typed /\ Looked /\ [Next]_vars => DismissedStay
<1> SUFFICES ASSUME Typed, Looked, [Next]_vars, NEW pair \in Pair, pair \in dismissed,
                    link[pair] = "none", link'[pair] # "none"
             PROVE  \E c \in Caller : At(c, "store") /\ PairOf(c) = pair
                              /\ (task[c].ask = "apply" \/ task[c].beaten \/ Linked(c))
  BY DEF DismissedStay
<1>1. PICK c \in Caller : Store(c)
  BY DEF Next, Owner, SweepStep, PairStep, SweepPair, Tick, Shutdown, Abandon, Request, Clear, Dismiss,
         Undismiss, Trigger, Ages, RefreshPair, Pick, Admit, Wake, Shown, Resolved, Enriched,
         CallFails, ClickFails, PairWaits, PairRetries, PairFails, PairStops, Visit, VisitFails,
         Collect, Finish, rows, vars, Typed
<1>2. At(c, "store") /\ PairOf(c) = pair
  BY <1>1 DEF Store, Typed
<1>3. task[c] \in Running
  BY <1>2, RunningBy DEF At
<1>4. task[c].ask \in {"refresh", "search", "apply"} /\ InPair(c)
  BY <1>3, RecordsApart DEF InPair, Running
<1> QED
  BY <1>2, <1>4 DEF Looked, Looks, Past, At

\* A pair the owner dismissed gets data only from a record the owner picks, or a caller
\* that had looked before the dismissal, or came with the link the pair had: a retry
\* after a pause looks again (RefreshPair, Dismiss).
THEOREM DismissedNotDialed == Spec => DismissedStays
<1>1. Init => Typed /\ Looked
  <2>1. Init => Looked
    BY DEF Init, Looked, Looks, InPair, NoTask, Past
  <2> QED
    BY <2>1, TypedInit
<1>2. Typed /\ Looked /\ [Next]_vars => (Typed /\ Looked)'
  BY TypedNext, LookedNext
<1>3. Typed /\ Looked /\ [Next]_vars => [DismissedStay]_vars
  BY DismissedStep
<1> QED
  BY <1>1, <1>2, <1>3, PTL DEF Spec, DismissedStays, DismissedStay

(***************************************************************************)
(* The pause.                                                              *)
(***************************************************************************)
PauseKept ==
    \A p \in Provider :
        /\ (\E c \in Caller : At(c, "call") /\ ~At(c, "call")') => pause'[p] >= pause[p]
        /\ pause[p] > 0 =>
              \A c \in Caller : InPair(c)' /\ task'[c].prov = p /\ At(c, "call")' =>
                  At(c, "call") \/ At(c, "delay")

LEMMA PauseStep == Typed /\ [Next]_vars => PauseKept
<1> SUFFICES ASSUME Typed, [Next]_vars PROVE PauseKept
  OBVIOUS
<1>1. CASE Tick
  <2>1. \A c \in Caller : task'[c].pc = task[c].pc
    BY <1>1, Ticked
  <2> QED
    BY <2>1 DEF PauseKept, At
<1>2. ASSUME NEW c \in Caller, PairStep(c) PROVE PauseKept
  <2>1. /\ task[c] \in Running /\ Calls(c) /\ task[c].prov \in Provider
        /\ \A d \in Caller : d # c => task'[d] = task[d]
    BY <1>2, PairSteps DEF Stays, Leaves, Only, Typed, Running
  <2>2. \A p \in Provider : pause'[p] >= pause[p]
    <3>1. CASE CallFails(c)
      <4>1. \A m \in Nat : m >= m
        OBVIOUS
      <4>2. CASE UNCHANGED pause
        BY <4>1, <4>2 DEF Typed
      <4>3. CASE \E n \in 1 .. MaxPause : PauseFor(task[c].prov, n)
        <5>1. PICK n \in 1 .. MaxPause : pause' = [pause EXCEPT ![task[c].prov] = Max({@, n})]
          BY <4>3 DEF PauseFor
        <5>2. \A m \in Nat : Max({m, n}) >= m
          <6>1. n \in Int
            BY SweepConstants
          <6> QED
            BY <6>1, MaxOf
        <5> QED
          BY <2>1, <4>1, <5>1, <5>2 DEF Typed
      <4> QED
        BY <3>1, <4>2, <4>3 DEF CallFails
    <3>2. CASE UNCHANGED pause
      BY <3>2 DEF Typed
    <3> QED
      BY <1>2, <3>1, <3>2 DEF PairStep, RefreshPair, Pick, Admit, Wake, Shown, Resolved, Enriched,
                              Store, bucket
  <2>3. ASSUME NEW p \in Provider, pause[p] > 0, task'[c].prov = p, task'[c].pc = "call"
        PROVE  task[c].pc = "delay"
    <3>1. CASE Wake(c)
      BY <3>1 DEF Wake, At
    <3>2. CASE Reserved(c)
      <4>1. Stays(c)
        BY <1>2, <2>3, PairSteps, RecordsApart DEF Leaves
      <4> QED
        BY <2>3, <3>2, <4>1 DEF Reserved, Stays, Typed
    <3> QED
      BY <2>1, <2>3, <3>1, <3>2 DEF Calls
  <2> QED
    BY <2>1, <2>2, <2>3 DEF PauseKept, At
<1>3. CASE ~Tick /\ ~\E c \in Caller : PairStep(c)
  <2>1. \A c \in Caller : task'[c].pc = "call" => task[c].pc = "call"
    BY <1>3, OthersCarry DEF Carried, Past
  <2>2. UNCHANGED pause
    BY <1>3 DEF Next, Owner, SweepStep, SweepPair, Shutdown, Abandon, Request, Clear, Dismiss,
                Undismiss, Trigger, Ages, ClickFails, PairWaits, PairRetries, PairFails, PairStops,
                Visit, VisitFails, Collect, Finish, bucket, vars
  <2>3. \A p \in Provider : pause'[p] >= pause[p]
    BY <2>2 DEF Typed
  <2> QED
    BY <2>1, <2>3 DEF PauseKept, At
<1> QED
  BY <1>1, <1>2, <1>3

\* While a bucket is paused nobody joins those already on their way to the provider, and
\* no answer shortens the pause, whatever order the answers come in (acquire, pauseFor).
THEOREM PauseRespected == Spec => PauseHolds
<1>1. Typed /\ [Next]_vars => [PauseKept]_vars
  BY PauseStep
<1> QED
  BY <1>1, Types, PTL DEF Spec, PauseHolds, PauseKept

(***************************************************************************)
(* The breaker.  What it has counted in a row is part of the streak that   *)
(* the history counts, with the result not yet collected.                  *)
(***************************************************************************)
Late(p) == IF At(p, "done") /\ task[p].out = "failed" THEN 1 ELSE 0
LastsOf(p) == since[p] + Late(p)
BreakerOK(b) == b \in [failures : Nat, pauses : Nat, tripped : BOOLEAN]
CountOK(p) ==
    /\ BreakerOK(sweep.breaker[p]) /\ since[p] \in Nat
    /\ sweep.breaker[p].failures + sweep.breaker[p].pauses <= LastsOf(p)
    /\ sweep.breaker[p].tripped =>
          /\ ~InPair(p) /\ LastsOf(p) >= Min({FailLimit, PauseLimit})
          /\ At(p, "done") => task[p].out \in {"failed", "breaker_skipped"}
Counted == \A p \in Provider : CountOK(p)

Failed(b, m, t) == [b EXCEPT !.failures = m, !.tripped = t]
Told(b, m, t) == [b EXCEPT !.pauses = m, !.tripped = t]

LEMMA BreakerFails ==
    ASSUME NEW b, BreakerOK(b), NEW t \in BOOLEAN, NEW m \in Nat
    PROVE  /\ BreakerOK(Failed(b, m, t)) /\ Failed(b, m, t).failures = m
           /\ Failed(b, m, t).pauses = b.pauses /\ (Failed(b, m, t).tripped <=> t)
BY DEF BreakerOK, Failed

LEMMA BreakerPauses ==
    ASSUME NEW b, BreakerOK(b), NEW t \in BOOLEAN, NEW m \in Nat
    PROVE  /\ BreakerOK(Told(b, m, t)) /\ Told(b, m, t).pauses = m
           /\ Told(b, m, t).failures = b.failures /\ (Told(b, m, t).tripped <=> t)
BY DEF BreakerOK, Told

LEMMA BreakerClears ==
    ASSUME NEW b, BreakerOK(b), NEW a, a = [b EXCEPT !.failures = 0, !.pauses = 0]
    PROVE  BreakerOK(a) /\ a.pauses = 0 /\ a.failures = 0 /\ (a.tripped <=> b.tripped)
BY DEF BreakerOK

\* What does not disturb a provider's count.
LEMMA CountKept ==
    ASSUME Typed, NEW p \in Provider, CountOK(p), sweep'.breaker[p] = sweep.breaker[p],
           since'[p] = since[p], Late(p)' = Late(p),
           InPair(p)' => InPair(p) \/ ~sweep.breaker[p].tripped,
           At(p, "done")' /\ sweep.breaker[p].tripped =>
              task'[p].out \in {"failed", "breaker_skipped"}
    PROVE  CountOK(p)'
BY DEF CountOK, LastsOf

LEMMA CountedNext == Typed /\ Counted /\ [Next]_vars => Counted'
<1> SUFFICES ASSUME Typed, Counted, [Next]_vars, NEW p \in Provider PROVE CountOK(p)'
  BY DEF Counted
<1>0. CountOK(p) /\ p \in Caller /\ p \notin Click
  BY SweepConstants DEF Counted, Caller
<1>1. CASE UNCHANGED <<sweep, since>> /\ task'[p] = task[p]
  <2>1. (Late(p)' = Late(p)) /\ (InPair(p)' <=> InPair(p)) /\ (At(p, "done")' <=> At(p, "done"))
    BY <1>1 DEF Late, InPair, At
  <2> QED
    BY <1>0, <1>1, <2>1, CountKept DEF CountOK
<1>2. CASE Tick
  <2>1. UNCHANGED <<sweep, since>>
    BY <1>2 DEF Tick
  <2>2. task'[p].pc = task[p].pc /\ (task[p].pc = "done" => task'[p] = task[p])
    BY <1>0, <1>2, Ticked, RecordsApart
  <2>3. (Late(p)' = Late(p)) /\ (InPair(p)' <=> InPair(p)) /\ (At(p, "done")' <=> At(p, "done"))
    BY <2>2 DEF Late, InPair, At
  <2> QED
    BY <1>0, <2>1, <2>2, <2>3, CountKept DEF CountOK, At
<1>3. CASE Shutdown \/ Finish \/ UNCHANGED vars
           \/ \E pair \in Pair : Clear(pair) \/ Undismiss(pair) \/ Ages(pair)
  <2>1. CASE Finish
    <3>1. sweep'.breaker = sweep.breaker /\ UNCHANGED <<since, task>>
      BY <2>1 DEF Finish, Typed, SweepOK
    <3>2. (Late(p)' = Late(p)) /\ (InPair(p)' <=> InPair(p)) /\ (At(p, "done")' <=> At(p, "done"))
      BY <3>1 DEF Late, InPair, At
    <3> QED
      BY <1>0, <3>1, <3>2, CountKept DEF CountOK
  <2> QED
    BY <1>1, <1>3, <2>1 DEF Shutdown, Clear, Undismiss, Ages, vars
<1>4. ASSUME NEW c \in Click, Abandon(c) \/ ClickFails(c) PROVE CountOK(p)'
  BY <1>0, <1>1, <1>4 DEF Abandon, ClickFails, Ended, Typed
<1>5. ASSUME NEW c \in Click, NEW e \in Entity, NEW q \in Provider,
             NEW ask \in {"refresh", "search", "apply"}, Request(c, e, q, ask)
      PROVE  CountOK(p)'
  BY <1>0, <1>1, <1>5 DEF Request, Typed
<1>6. ASSUME NEW pair \in Pair, Dismiss(pair) PROVE CountOK(p)'
  <2>1. UNCHANGED <<sweep, since>>
    BY <1>6 DEF Dismiss
  <2>2. task' = [c \in Caller |->
            IF InPair(c) /\ PairOf(c) = pair /\ task[c].pc \notin {"begin", "paused", "failed"}
            THEN [task[c] EXCEPT !.beaten = TRUE] ELSE task[c]]
    BY <1>6 DEF Dismiss, Overtaken
  <2>3. CASE ~InPair(p)
    BY <1>0, <1>1, <2>1, <2>2, <2>3
  <2>4. CASE InPair(p)
    <3>1. task[p] \in Running
      BY <1>0, <2>4, RunningBy DEF InPair
    <3>2. task'[p].pc = task[p].pc /\ task[p].pc # "done"
      BY <1>0, <2>2, <3>1, RecordsApart DEF Running
    <3>3. (Late(p)' = Late(p)) /\ (InPair(p)' <=> InPair(p)) /\ ~At(p, "done")'
      BY <3>2 DEF Late, InPair, At
    <3> QED
      BY <1>0, <2>1, <3>3, CountKept
  <2> QED
    BY <2>3, <2>4
<1>7. ASSUME NEW force \in BOOLEAN, Trigger(force) PROVE CountOK(p)'
  <2>1. sweep'.breaker[p] = NewBreaker /\ since'[p] = 0
    BY <1>7 DEF Trigger
  <2>2. Late(p)' \in Nat
    BY DEF Late
  <2> QED
    BY <2>1, <2>2 DEF CountOK, BreakerOK, LastsOf, NewBreaker
<1>8. ASSUME NEW c \in Caller, PairStep(c) PROVE CountOK(p)'
  <2>1. /\ task[c] \in Running /\ Gently(c) /\ UNCHANGED <<sweep, since>>
        /\ \A d \in Caller : d # c => task'[d] = task[d]
    BY <1>8, PairSteps DEF Stays, Leaves, Only, Typed
  <2>2. CASE p # c
    BY <1>0, <1>1, <2>1, <2>2
  <2>3. CASE p = c
    <3>1. InPair(p) /\ ~At(p, "done")
      BY <2>1, <2>3, RecordsApart DEF InPair, At
    <3>2. Late(p) = 0 /\ Late(p)' = 0 /\ ~sweep.breaker[p].tripped
      BY <1>0, <2>1, <2>3, <3>1 DEF Late, Gently, At, CountOK
    <3> QED
      BY <1>0, <2>1, <3>2, CountKept
  <2> QED
    BY <2>2, <2>3
<1>9. ASSUME NEW q \in Provider, SweepPair(q) PROVE CountOK(p)'
  <2>1. /\ q \in Caller /\ task[q] \in Running /\ UNCHANGED since
        /\ \A d \in Caller : d # q => task'[d] = task[d]
    BY <1>9, SweepPairs DEF Stays, Leaves, Only, Typed, Caller
  <2>2. sweep'.breaker[p] = sweep.breaker[p] \/ (PairFails(q) /\ p = q)
    <3>1. CASE PairFails(q)
      <4>1. sweep'.breaker = [sweep.breaker EXCEPT ![q] = Streak(q, "failed", task[q].wait)]
        BY <3>1 DEF PairFails, Typed, SweepOK
      <4> QED
        BY <3>1, <4>1
    <3>2. CASE UNCHANGED sweep
      BY <3>2
    <3> QED
      BY <1>9, <3>1, <3>2 DEF SweepPair, PairWaits, PairRetries, PairStops
  <2>3. CASE p # q
    <3>1. (Late(p)' = Late(p)) /\ (InPair(p)' <=> InPair(p)) /\ (At(p, "done")' <=> At(p, "done"))
          /\ task'[p] = task[p]
      BY <1>0, <2>1, <2>3 DEF Late, InPair, At
    <3> QED
      BY <1>0, <2>1, <2>2, <2>3, <3>1, CountKept DEF CountOK
  <2>4. CASE p = q
    <3>1. InPair(p) /\ ~At(p, "done") /\ Late(p) = 0 /\ ~sweep.breaker[p].tripped
      BY <1>0, <2>1, <2>4, RecordsApart DEF InPair, At, Late, CountOK
    <3>2. CASE PairFails(q)
      <4> DEFINE b == sweep.breaker[p]
      <4>1. sweep'.breaker[p] = Streak(p, "failed", task[p].wait) \/ sweep'.breaker[p] = sweep.breaker[p]
        BY <2>4, <3>2 DEF PairFails, Typed, SweepOK
      <4>2. task'[p] = [pc |-> "done", out |-> "failed"]
        BY <1>0, <2>4, <3>2 DEF PairFails, Ended, Typed
      <4>3. Late(p)' = 1 /\ ~InPair(p)'
        BY <4>2 DEF Late, InPair, At
      <4>4. /\ BreakerOK(b) /\ since[p] \in Nat /\ b.failures + b.pauses <= since[p] /\ ~b.tripped
            /\ b.failures \in Nat /\ b.pauses \in Nat
        BY <1>0, <3>1 DEF CountOK, LastsOf, BreakerOK
      <4> DEFINE n == Min({FailLimit, PauseLimit})
      <4>5. n \in Int /\ n <= FailLimit /\ n <= PauseLimit /\ FailLimit \in Nat /\ PauseLimit \in Nat
        BY MinOf, SweepConstants
      <4> HIDE DEF n
      <4>6. \/ sweep'.breaker[p] = b
            \/ sweep'.breaker[p] = [b EXCEPT !.pauses = b.pauses + 1,
                                             !.tripped = b.tripped \/ b.pauses + 1 >= PauseLimit]
            \/ sweep'.breaker[p] = [b EXCEPT !.failures = b.failures + 1,
                                             !.tripped = b.tripped \/ b.failures + 1 >= FailLimit]
        BY <4>1 DEF Streak, Answered, Refreshed
      <4> DEFINE a == sweep'.breaker[p]
      <4> HIDE DEF b
      <4>7. /\ BreakerOK(a) /\ a.failures + a.pauses <= since[p] + 1
            /\ a.tripped => since[p] + 1 >= n
        <5>1. CASE a = b
          BY <4>4, <5>1
        <5>2. CASE a = [b EXCEPT !.pauses = b.pauses + 1,
                                 !.tripped = b.tripped \/ b.pauses + 1 >= PauseLimit]
          <6> DEFINE m == b.pauses + 1
                     t == b.tripped \/ m >= PauseLimit
          <6>1. t \in BOOLEAN /\ m \in Nat /\ (t <=> m >= PauseLimit)
            BY <4>4, <4>5
          <6>2. a = Told(b, m, t)
            BY <5>2 DEF Told
          <6>3. m = b.pauses + 1
            OBVIOUS
          <6>5. BreakerOK(b)
            BY <4>4
          <6>6. t \in BOOLEAN /\ m \in Nat
            BY <6>1
          <6> HIDE DEF t, a, m
          <6>4. BreakerOK(a) /\ a.pauses = m /\ a.failures = b.failures /\ (a.tripped <=> t)
            BY <6>5, <6>6, <6>2, BreakerPauses
          <6> QED
            BY <4>4, <4>5, <6>1, <6>3, <6>4
        <5>3. CASE a = [b EXCEPT !.failures = b.failures + 1,
                                 !.tripped = b.tripped \/ b.failures + 1 >= FailLimit]
          <6> DEFINE m == b.failures + 1
                     t == b.tripped \/ m >= FailLimit
          <6>1. t \in BOOLEAN /\ m \in Nat /\ (t <=> m >= FailLimit)
            BY <4>4, <4>5
          <6>2. a = Failed(b, m, t)
            BY <5>3 DEF Failed
          <6>3. m = b.failures + 1
            OBVIOUS
          <6>5. BreakerOK(b)
            BY <4>4
          <6>6. t \in BOOLEAN /\ m \in Nat
            BY <6>1
          <6> HIDE DEF t, a, m
          <6>4. BreakerOK(a) /\ a.failures = m /\ a.pauses = b.pauses /\ (a.tripped <=> t)
            BY <6>5, <6>6, <6>2, BreakerFails
          <6> QED
            BY <4>4, <4>5, <6>1, <6>3, <6>4
        <5> QED
          BY <4>6, <5>1, <5>2, <5>3
      <4> QED
        BY <2>1, <4>2, <4>3, <4>4, <4>7 DEF CountOK, LastsOf, n
    <3>3. CASE sweep'.breaker[p] = sweep.breaker[p]
      <4>1. Late(p)' \in {0, 1}
        BY DEF Late
      <4>2. sweep.breaker[p].failures \in Nat /\ sweep.breaker[p].pauses \in Nat
        BY <1>0 DEF CountOK, BreakerOK
      <4> QED
        BY <1>0, <2>1, <3>1, <3>3, <4>1, <4>2 DEF CountOK, LastsOf
    <3> QED
      BY <2>2, <3>2, <3>3
  <2> QED
    BY <2>3, <2>4
<1>10. CASE Visit
  <2>1. /\ UNCHANGED <<sweep, since>> /\ task[p].pc = "idle"
        /\ task'[p] = IF Called(p) THEN Begun(sweep.done + 1, p, "refresh", sweep.force)
                      ELSE [pc |-> "done", out |-> "breaker_skipped"]
    BY <1>0, <1>10 DEF Visit, Ahead, Resting, At
  <2>2. CASE Called(p)
    <3>1. task'[p].pc = "begin"
      BY <2>1, <2>2 DEF Begun
    <3> QED
      BY <1>0, <2>1, <2>2, <3>1, CountKept DEF Called, Late, At
  <2>3. CASE ~Called(p)
    BY <1>0, <2>1, <2>3, CountKept DEF Late, At, InPair
  <2> QED
    BY <2>2, <2>3
<1>11. CASE VisitFails
  <2>1. sweep'.breaker = sweep.breaker /\ UNCHANGED <<since, task>>
    BY <1>11 DEF VisitFails, Typed, SweepOK
  <2>2. (Late(p)' = Late(p)) /\ (InPair(p)' <=> InPair(p)) /\ (At(p, "done")' <=> At(p, "done"))
    BY <2>1 DEF Late, InPair, At
  <2> QED
    BY <1>0, <2>1, <2>2, CountKept DEF CountOK
<1>12. CASE Collect
  <2>1. /\ task[p].pc = "done" /\ task'[p] = NoTask
        /\ sweep'.breaker[p] = (IF task[p].out \in Answered
                                THEN Streak(p, task[p].out, 0) ELSE sweep.breaker[p])
        /\ since'[p] = IF task[p].out \in Answered THEN 0
                       ELSE IF task[p].out = "failed" THEN since[p] + 1 ELSE since[p]
    <3>1. PICK done, counts :
            sweep' = [sweep EXCEPT !.done = done, !.counts = counts,
                         !.breaker = [q \in Provider |-> IF task[q].out \in Answered
                             THEN Streak(q, task[q].out, 0) ELSE sweep.breaker[q]]]
      BY <1>12 DEF Collect
    <3>2. sweep'.breaker = [q \in Provider |-> IF task[q].out \in Answered
                             THEN Streak(q, task[q].out, 0) ELSE sweep.breaker[q]]
      BY <3>1 DEF Typed, SweepOK
    <3> QED
      BY <1>0, <1>12, <3>2 DEF Collect, At
  <2>2. Late(p)' = 0 /\ ~InPair(p)' /\ ~At(p, "done")'
    BY <2>1, RecordsApart DEF Late, InPair, At
  <2>3. CASE task[p].out \in Answered
    <3>1. ~sweep.breaker[p].tripped
      BY <1>0, <2>1, <2>3 DEF CountOK, At, Answered, Refreshed
    <3>2. sweep'.breaker[p] = [sweep.breaker[p] EXCEPT !.failures = 0, !.pauses = 0]
      BY <2>1, <2>3 DEF Streak, Answered, Refreshed
    <3>3. /\ BreakerOK(sweep'.breaker[p]) /\ ~sweep'.breaker[p].tripped
          /\ sweep'.breaker[p].failures = 0 /\ sweep'.breaker[p].pauses = 0
      <4> DEFINE a == sweep'.breaker[p]
                 b == sweep.breaker[p]
      <4>1. BreakerOK(b) /\ a = [b EXCEPT !.failures = 0, !.pauses = 0] /\ ~b.tripped
        BY <1>0, <3>1, <3>2 DEF CountOK
      <4> HIDE DEF a, b
      <4>2. BreakerOK(a) /\ ~a.tripped /\ a.failures = 0 /\ a.pauses = 0
        BY <4>1, BreakerClears
      <4> QED
        BY <4>2 DEF a
    <3> QED
      BY <2>1, <2>2, <2>3, <3>3 DEF CountOK, LastsOf
  <2>4. CASE task[p].out \notin Answered
    <3>1. LastsOf(p)' = LastsOf(p) /\ since'[p] \in Nat
      BY <1>0, <2>1, <2>2, <2>4 DEF LastsOf, Late, At, CountOK
    <3> QED
      BY <1>0, <2>1, <2>2, <2>4, <3>1 DEF CountOK
  <2> QED
    BY <2>3, <2>4
<1> QED
  BY <1>2, <1>3, <1>4, <1>5, <1>6, <1>7, <1>8, <1>9, <1>10, <1>11, <1>12 DEF Next, Owner, SweepStep

\* A provider is given up only after a streak in which it answered nothing, and is not
\* dialed for the rest of the sweep (the breaker of sweepWorker).
THEOREM GivenUpAfterStreak == Spec => []GivenUpFairly
<1>1. Init => Typed /\ Counted
  <2>1. ASSUME Init, NEW p \in Provider PROVE CountOK(p)
    <3>1. p \in Caller
      BY DEF Caller
    <3> QED
      BY <2>1, <3>1 DEF Init, CountOK, BreakerOK, LastsOf, Late, At, NoTask, NewBreaker
  <2> QED
    BY <2>1, TypedInit DEF Counted
<1>2. Typed /\ Counted /\ [Next]_vars => (Typed /\ Counted)'
  BY TypedNext, CountedNext
<1>3. Counted => GivenUpFairly
  BY DEF Counted, CountOK, GivenUpFairly, LastsOf, Late
<1> QED
  BY <1>1, <1>2, <1>3, PTL DEF Spec

(***************************************************************************)
(* The books of a sweep: how far it is, what it has counted, and what the  *)
(* limiters and the breakers may hold.                                     *)
(***************************************************************************)
\* No goroutine works outside a sweep, nor past the last entity.
Progress ==
    /\ acts \in 0 .. MaxAct
    /\ sweep.done <= sweep.total
    /\ ~Resting => sweep.on /\ sweep.done < sweep.total

LEMMA ProgressNext == Typed /\ Progress /\ [Next]_vars => Progress'
<1> SUFFICES ASSUME Typed, Progress, [Next]_vars PROVE Progress'
  OBVIOUS
<1>0. /\ MaxAct \in Nat /\ Entities \in Nat /\ sweep.done \in Nat /\ sweep.total \in Nat
      /\ Provider \subseteq Caller /\ Provider \cap Click = {} /\ acts \in Nat
  BY SweepConstants DEF Typed, SweepOK, Caller, Progress
\* Only Visit sends a goroutine on its way.
<1>1. ASSUME ~Visit, NEW p \in Provider, task[p].pc = "idle" PROVE task'[p].pc = "idle"
  <2>1. task[p] = NoTask /\ ~InPair(p) /\ p \in Caller /\ p \notin Click
    BY <1>0, <1>1, RecordsApart DEF Typed, TaskOK, InPair
  <2>2. ASSUME NEW c \in Caller, PairStep(c) PROVE task'[p] = task[p]
    BY <2>1, <2>2, PairSteps, RecordsApart DEF Stays, Leaves, Only, Typed
  <2>3. ASSUME NEW q \in Provider, SweepPair(q) PROVE task'[p] = task[p]
    <3>1. q \in Caller /\ task[q] \in Running /\ Only(q)
      BY <1>0, <2>3, SweepPairs DEF Stays, Leaves
    <3> QED
      BY <2>1, <3>1, RecordsApart DEF Only, Typed
  <2>4. CASE Tick
    BY <1>1, <2>1, <2>4, Ticked
  <2>5. ASSUME NEW pair \in Pair, Dismiss(pair) PROVE task'[p] = task[p]
    BY <2>1, <2>5 DEF Dismiss, Overtaken
  <2>6. CASE Collect
    BY <2>1, <2>6 DEF Collect, NoTask
  <2>7. ASSUME NEW c \in Click, Abandon(c) \/ ClickFails(c) PROVE task'[p] = task[p]
    BY <2>1, <2>7 DEF Abandon, ClickFails, Ended, Typed
  <2>8. ASSUME NEW c \in Click, NEW e \in Entity, NEW q \in Provider,
               NEW ask \in {"refresh", "search", "apply"}, Request(c, e, q, ask)
        PROVE  task'[p] = task[p]
    BY <2>1, <2>8 DEF Request, Typed
  <2>9. CASE UNCHANGED task
    BY <2>9, <1>1
  <2> QED
    BY <1>1, <2>1, <2>2, <2>3, <2>4, <2>5, <2>6, <2>7, <2>8, <2>9
       DEF Next, Owner, SweepStep, Shutdown, Clear, Undismiss, Trigger, Ages, VisitFails, Finish,
           vars, NoTask
<1>2. ~Visit => (~Resting' => ~Resting)
  BY <1>1 DEF Resting, At
<1>3. acts' \in 0 .. MaxAct
  <2>1. CASE Act
    BY <1>0, <2>1 DEF Act, Progress
  <2>2. CASE UNCHANGED acts
    BY <2>2 DEF Progress
  <2>3. ASSUME NEW p \in Provider, SweepPair(p) PROVE UNCHANGED acts
    BY <2>3, SweepPairs
  <2>4. ASSUME NEW c \in Caller, PairStep(c) PROVE UNCHANGED acts
    BY <2>4, PairSteps
  <2> QED
    BY <2>1, <2>2, <2>3, <2>4
       DEF Next, Owner, SweepStep, Tick, Shutdown, Abandon, Request, Clear, Dismiss, Undismiss,
           Trigger, Ages, ClickFails, Visit, VisitFails, Collect, Finish, vars
<1>4. CASE Visit
  BY <1>3, <1>4 DEF Visit, Ahead, Progress
<1>5. ASSUME NEW force \in BOOLEAN, Trigger(force) PROVE Progress'
  <2>1. sweep'.done = 0 /\ sweep'.total \in Nat /\ sweep'.on /\ UNCHANGED task
    BY <1>0, <1>5 DEF Trigger
  <2> QED
    BY <1>2, <1>3, <1>5, <2>1 DEF Trigger, Progress, Resting, At
<1>6. CASE VisitFails
  <2>1. sweep'.done = sweep.done + 1 /\ sweep'.total = sweep.total /\ Resting'
    BY <1>6 DEF VisitFails, Ahead, Typed, SweepOK, Resting, At
  <2> QED
    BY <1>0, <1>3, <1>6, <2>1 DEF VisitFails, Ahead, Progress
<1>7. CASE Collect
  <2>1. sweep'.done = sweep.done + 1 /\ sweep'.total = sweep.total
    BY <1>7 DEF Collect, Typed, SweepOK
  <2>2. Resting'
    BY <1>0, <1>7 DEF Collect, Resting, At, NoTask
  <2> QED
    BY <1>0, <1>3, <1>7, <2>1, <2>2 DEF Collect, Progress
<1>8. CASE Finish
  <2>1. sweep'.done = sweep.done /\ sweep'.total = sweep.total /\ Resting'
    BY <1>8 DEF Finish, Over, Typed, SweepOK, Resting, At
  <2> QED
    BY <1>3, <2>1 DEF Progress
<1>9. ASSUME NEW p \in Provider, SweepPair(p) PROVE Progress'
  <2>1. sweep'.done = sweep.done /\ sweep'.total = sweep.total /\ sweep'.on = sweep.on
    <3>1. CASE PairFails(p)
      BY <3>1 DEF PairFails, Typed, SweepOK
    <3> QED
      BY <1>9, <3>1 DEF SweepPair, PairWaits, PairRetries, PairStops
  <2>2. ~Visit
    <3>1. task[p] \in Running
      BY <1>9, SweepPairs
    <3> QED
      BY <3>1, RecordsApart DEF Visit, Ahead, Resting, At
  <2> QED
    BY <1>2, <1>3, <2>1, <2>2 DEF Progress
<1>10. CASE ~Visit /\ UNCHANGED sweep
  BY <1>2, <1>3, <1>10 DEF Progress
<1>11. ASSUME NEW c \in Caller, PairStep(c) PROVE UNCHANGED sweep
  BY <1>11, PairSteps
<1> QED
  BY <1>4, <1>5, <1>6, <1>7, <1>8, <1>9, <1>10, <1>11
     DEF Next, Owner, SweepStep, Tick, Shutdown, Abandon, Request, Clear, Dismiss, Undismiss,
         Ages, ClickFails, vars

\* No bucket overflows and no pause is longer than a provider may ask for: a reservation
\* given back was of a token promised below zero.
Buckets == \A p \in Provider : tokens[p] <= Burst /\ pause[p] <= MaxPause

LEMMA CancelFits ==
    ASSUME Typed, OneTokenEach, Buckets, NEW c \in Caller, Cancelled(c)
    PROVE  \A p \in Provider : tokens'[p] <= Burst
<1>1. task[c].prov \in Provider /\ task[c].wait \in Nat
  BY RunningBy DEF Cancelled, At
<1>2. CASE GivesBack(c)
  <2>1. task[c].wait <= -tokens[task[c].prov]
    BY <1>1, <1>2 DEF OneTokenEach, GivesBack, Delayed, Cancelled
  <2>2. tokens[task[c].prov] + 1 <= Burst
    BY <1>1, <1>2, <2>1, SweepConstants DEF GivesBack, Typed
  <2> QED
    BY <1>1, <1>2, <2>2 DEF Cancelled, Buckets, Typed
<1>3. CASE ~GivesBack(c)
  BY <1>3 DEF Cancelled, Buckets
<1> QED
  BY <1>2, <1>3

LEMMA BucketsNext == Typed /\ OneTokenEach /\ Buckets /\ [Next]_vars => Buckets'
<1> SUFFICES ASSUME Typed, OneTokenEach, Buckets, [Next]_vars PROVE Buckets'
  OBVIOUS
<1>0. Burst \in Nat /\ MaxPause \in Nat
  BY SweepConstants
<1>1. CASE Tick
  <2>1. ASSUME NEW p \in Provider PROVE tokens'[p] <= Burst /\ pause'[p] <= MaxPause
    <3>1. tokens[p] + 1 \in Int /\ pause[p] - 1 \in Int /\ pause[p] <= MaxPause /\ pause[p] \in Nat
      BY DEF Typed, Buckets
    <3>2. tokens'[p] = Min({tokens[p] + 1, Burst}) /\ pause'[p] = Max({pause[p] - 1, 0})
      BY <1>1 DEF Tick
    <3>3. tokens'[p] <= Burst
      BY <1>0, <3>1, <3>2, MinOf
    <3>4. Max({pause[p] - 1, 0}) = IF pause[p] - 1 >= 0 THEN pause[p] - 1 ELSE 0
      BY <3>1, MaxOf
    <3> QED
      BY <1>0, <3>1, <3>2, <3>3, <3>4
  <2> QED
    BY <2>1 DEF Buckets
<1>2. ASSUME NEW c \in Caller, PairStep(c) PROVE Buckets'
  <2>1. task[c].prov \in Provider
    BY <1>2, PairSteps DEF Running
  <2>2. \A p \in Provider : tokens'[p] <= Burst
    <3>1. CASE Reserved(c)
      BY <1>0, <2>1, <3>1 DEF Reserved, Typed, Buckets
    <3>2. CASE UNCHANGED tokens
      BY <3>2 DEF Buckets
    <3> QED
      BY <1>2, <3>1, <3>2 DEF PairStep, RefreshPair, Pick, Admit, Paused, Unverified, Wake, Shown,
                              Resolved, Enriched, CallFails, Store, bucket
  <2>3. \A p \in Provider : pause'[p] <= MaxPause
    <3>1. ASSUME NEW n \in 1 .. MaxPause, PauseFor(task[c].prov, n)
          PROVE  \A p \in Provider : pause'[p] <= MaxPause
      <4>1. pause[task[c].prov] \in Int /\ n \in Int /\ pause[task[c].prov] <= MaxPause
        BY <1>0, <2>1 DEF Typed, Buckets
      <4>2. Max({pause[task[c].prov], n}) <= MaxPause
        BY <1>0, <4>1, MaxOf
      <4> QED
        BY <2>1, <3>1, <4>2 DEF PauseFor, Typed, Buckets
    <3>2. CASE UNCHANGED pause
      BY <3>2 DEF Buckets
    <3> QED
      BY <1>2, <3>1, <3>2 DEF PairStep, RefreshPair, Pick, Admit, Wake, Shown, Resolved, Enriched,
                              CallFails, Store, bucket
  <2> QED
    BY <2>2, <2>3 DEF Buckets
<1>3. ASSUME NEW p \in Provider, SweepPair(p) PROVE Buckets'
  <2>1. UNCHANGED pause /\ p \in Caller
    BY <1>3, SweepPairs DEF Caller
  <2>2. CASE Cancelled(p)
    BY <2>1, <2>2, CancelFits DEF Buckets
  <2>3. CASE UNCHANGED tokens
    BY <2>1, <2>3 DEF Buckets
  <2> QED
    BY <1>3, <2>2, <2>3 DEF SweepPair, PairWaits, PairRetries, PairFails, PairStops, bucket
<1>4. ASSUME NEW c \in Click, Abandon(c) PROVE Buckets'
  BY <1>4, CancelFits DEF Abandon, Buckets, Caller
<1>5. CASE UNCHANGED bucket
  BY <1>5 DEF Buckets, bucket
<1> QED
  BY <1>1, <1>2, <1>3, <1>4, <1>5
     DEF Next, Owner, SweepStep, Shutdown, Request, Clear, Dismiss, Undismiss,
         Trigger, Ages, ClickFails, Visit, VisitFails, Collect, Finish, vars

\* A breaker counts up to its limits, and at a limit it trips.
StreakOK(b) ==
    /\ b \in Breaker
    /\ b.tripped \/ (b.failures < FailLimit /\ b.pauses < PauseLimit)
Streaks ==
    /\ sweep.breaker = [p \in Provider |-> sweep.breaker[p]]
    /\ \A p \in Provider : StreakOK(sweep.breaker[p])

LEMMA StreakBy ==
    ASSUME NEW b, BreakerOK(b), b.failures <= FailLimit, b.pauses <= PauseLimit,
           b.tripped \/ (b.failures < FailLimit /\ b.pauses < PauseLimit)
    PROVE  StreakOK(b)
BY SweepConstants DEF BreakerOK, StreakOK, Breaker

LEMMA StreakKept ==
    ASSUME NEW p \in Provider, StreakOK(sweep.breaker[p]), ~sweep.breaker[p].tripped,
           NEW o, NEW n \in Nat
    PROVE  StreakOK(Streak(p, o, n))
<1> DEFINE b == sweep.breaker[p]
           limit(x, y) == x >= y
<1>0. FailLimit \in Nat \ {0} /\ PauseLimit \in Nat \ {0} /\ b \in Breaker /\ ~b.tripped
      /\ b.failures < FailLimit /\ b.pauses < PauseLimit
  BY SweepConstants DEF StreakOK
<1>1. BreakerOK(b) /\ b.failures \in Nat /\ b.pauses \in Nat /\ b.tripped \in BOOLEAN
  BY <1>0 DEF BreakerOK, Breaker
<1> HIDE DEF b
<1>2. ASSUME NEW a, a = [b EXCEPT !.failures = 0, !.pauses = 0] PROVE StreakOK(a)
  <2>1. BreakerOK(a) /\ a.pauses = 0 /\ a.failures = 0
    BY <1>1, <1>2, BreakerClears
  <2> QED
    BY <1>0, <2>1, StreakBy
<1>3. ASSUME NEW t \in BOOLEAN, t <=> limit(b.pauses + 1, PauseLimit)
      PROVE  StreakOK(Told(b, b.pauses + 1, t))
  <2>1. PICK m \in Nat : m = b.pauses + 1
    BY <1>1
  <2>2. BreakerOK(Told(b, b.pauses + 1, t)) /\ Told(b, b.pauses + 1, t).pauses = b.pauses + 1
        /\ Told(b, b.pauses + 1, t).failures = b.failures /\ (Told(b, b.pauses + 1, t).tripped <=> t)
    <3>1. /\ BreakerOK(Told(b, m, t)) /\ Told(b, m, t).pauses = m
          /\ Told(b, m, t).failures = b.failures /\ (Told(b, m, t).tripped <=> t)
      BY <1>1, <1>3, BreakerPauses
    <3> QED
      BY <2>1, <3>1
  <2>3. b.failures <= FailLimit /\ b.pauses + 1 <= PauseLimit
        /\ (limit(b.pauses + 1, PauseLimit) \/ (b.failures < FailLimit /\ b.pauses + 1 < PauseLimit))
    BY <1>0, <1>1
  <2> HIDE DEF limit
  <2> QED
    BY <1>3, <2>2, <2>3, StreakBy
<1>4. ASSUME NEW t \in BOOLEAN, t <=> limit(b.failures + 1, FailLimit)
      PROVE  StreakOK(Failed(b, b.failures + 1, t))
  <2>1. PICK m \in Nat : m = b.failures + 1
    BY <1>1
  <2>2. BreakerOK(Failed(b, b.failures + 1, t)) /\ Failed(b, b.failures + 1, t).failures = b.failures + 1
        /\ Failed(b, b.failures + 1, t).pauses = b.pauses /\ (Failed(b, b.failures + 1, t).tripped <=> t)
    <3>1. /\ BreakerOK(Failed(b, m, t)) /\ Failed(b, m, t).failures = m
          /\ Failed(b, m, t).pauses = b.pauses /\ (Failed(b, m, t).tripped <=> t)
      BY <1>1, <1>4, BreakerFails
    <3> QED
      BY <2>1, <3>1
  <2>3. b.failures + 1 <= FailLimit /\ b.pauses <= PauseLimit
        /\ (limit(b.failures + 1, FailLimit) \/ (b.failures + 1 < FailLimit /\ b.pauses < PauseLimit))
    BY <1>0, <1>1
  <2> HIDE DEF limit
  <2> QED
    BY <1>4, <2>2, <2>3, StreakBy
<1>5. StreakOK(b)
  BY DEF b
<1>6. Streak(p, o, n) = CASE o \in Answered -> [b EXCEPT !.failures = 0, !.pauses = 0]
        [] o = "failed" /\ n > 0 -> Told(b, b.pauses + 1, b.tripped \/ limit(b.pauses + 1, PauseLimit))
        [] o = "failed" /\ n = 0 /\ ~stopping
             -> Failed(b, b.failures + 1, b.tripped \/ limit(b.failures + 1, FailLimit))
        [] OTHER -> b
  BY DEF Streak, Told, Failed, b
<1> HIDE DEF limit
<1>7. o \in Answered => o # "failed"
  BY DEF Answered, Refreshed
<1>8. \A t : (b.tripped \/ t) \in BOOLEAN /\ ((b.tripped \/ t) <=> t)
  BY <1>0
<1>9. CASE o \in Answered
  <2>1. Streak(p, o, n) = [b EXCEPT !.failures = 0, !.pauses = 0]
    BY <1>6, <1>7, <1>9
  <2> QED
    BY <1>2, <2>1
<1>10. CASE o = "failed" /\ n > 0
  <2>1. Streak(p, o, n) = Told(b, b.pauses + 1, b.tripped \/ limit(b.pauses + 1, PauseLimit))
    BY <1>6, <1>7, <1>10
  <2> QED
    BY <1>3, <1>8, <2>1
<1>11. CASE o = "failed" /\ n = 0 /\ ~stopping
  <2>1. Streak(p, o, n) = Failed(b, b.failures + 1, b.tripped \/ limit(b.failures + 1, FailLimit))
    BY <1>6, <1>7, <1>11
  <2> QED
    BY <1>4, <1>8, <2>1
<1>12. CASE o \notin Answered /\ ~(o = "failed" /\ n > 0) /\ ~(o = "failed" /\ n = 0 /\ ~stopping)
  BY <1>5, <1>6, <1>12
<1> QED
  BY <1>9, <1>10, <1>11, <1>12

LEMMA StreaksNext == Typed /\ Counted /\ Streaks /\ [Next]_vars => Streaks'
<1> SUFFICES ASSUME Typed, Counted, Streaks, [Next]_vars PROVE Streaks'
  OBVIOUS
<1>1. CASE sweep'.breaker = sweep.breaker
  BY <1>1 DEF Streaks
<1>2. ASSUME NEW force \in BOOLEAN, Trigger(force) PROVE Streaks'
  <2>1. sweep'.breaker = [p \in Provider |-> NewBreaker]
    BY <1>2 DEF Trigger
  <2>2. StreakOK(NewBreaker)
    BY SweepConstants DEF StreakOK, NewBreaker, Breaker
  <2> QED
    BY <2>1, <2>2 DEF Streaks
<1>3. ASSUME NEW q \in Provider, PairFails(q) PROVE Streaks'
  <2>1. sweep'.breaker = [sweep.breaker EXCEPT ![q] = Streak(q, "failed", task[q].wait)]
    BY <1>3 DEF PairFails, Typed, SweepOK
  <2>2. task[q].wait \in Nat /\ InPair(q)
    BY <1>3, RunningBy DEF PairFails, At, Caller, InPair
  <2>3. ~sweep.breaker[q].tripped
    BY <2>2 DEF Counted, CountOK
  <2>4. StreakOK(Streak(q, "failed", task[q].wait))
    BY <2>2, <2>3, StreakKept DEF Streaks
  <2> QED
    BY <2>1, <2>4 DEF Streaks
<1>4. CASE Collect
  <2>1. sweep'.breaker = [p \in Provider |-> IF task[p].out \in Answered
                           THEN Streak(p, task[p].out, 0) ELSE sweep.breaker[p]]
    BY <1>4 DEF Collect, Typed, SweepOK
  <2>2. ASSUME NEW p \in Provider, task[p].out \in Answered PROVE ~sweep.breaker[p].tripped
    BY <1>4, <2>2 DEF Counted, CountOK, Collect, Answered, Refreshed
  <2>3. \A p \in Provider : StreakOK(sweep'.breaker[p])
    BY <2>1, <2>2, StreakKept DEF Streaks
  <2> QED
    BY <2>1, <2>3 DEF Streaks
<1>5. VisitFails \/ Finish => sweep'.breaker = sweep.breaker
  BY DEF VisitFails, Finish, Typed, SweepOK
<1>6. ASSUME NEW c \in Caller, PairStep(c) PROVE UNCHANGED sweep
  BY <1>6, PairSteps
<1> QED
  BY <1>1, <1>2, <1>3, <1>4, <1>5, <1>6
     DEF Next, Owner, SweepStep, Tick, Shutdown, Abandon, Request, Clear, Dismiss, Undismiss,
         Ages, ClickFails, Visit, SweepPair, PairWaits, PairRetries, PairStops, vars

\* The results of one entity fall into the five counts: each into one.
LEMMA OnlyOne ==
    ASSUME NEW S, NEW T, IsFiniteSet(S), IsFiniteSet(T), S \cap T = {}
    PROVE  IsFiniteSet(S \cup T) /\ Cardinality(S \cup T) = Cardinality(S) + Cardinality(T)
BY FS_Union, FS_EmptySet, FS_CardinalityType

LEMMA EntityCounted ==
    ASSUME \A p \in Provider : task[p].out \in Outcome
    PROVE  /\ \A k \in Counter : Settled(k) \in Nat
           /\ Settled("linked") + Settled("left") + Settled("failed") + Settled("stale")
                + Settled("skipped") = Cardinality(Provider)
<1> DEFINE In(k) == {p \in Provider : task[p].out \in Tally(k)}
<1>1. \A k : IsFiniteSet(In(k)) /\ Cardinality(In(k)) \in Nat /\ Settled(k) = Cardinality(In(k))
  <2> TAKE k
  <2>1. In(k) \subseteq Provider
    OBVIOUS
  <2>2. IsFiniteSet(In(k))
    BY <2>1, FS_Subset, SweepConstants
  <2> QED
    BY <2>2, FS_CardinalityType DEF Settled
<1>2. \A p \in Provider :
          /\ p \in In("linked") \cup In("left") \cup In("failed") \cup In("stale") \cup In("skipped")
          /\ p \in In("linked") => p \notin In("left") \cup In("failed") \cup In("stale") \cup In("skipped")
          /\ p \in In("left") => p \notin In("failed") \cup In("stale") \cup In("skipped")
          /\ p \in In("failed") => p \notin In("stale") \cup In("skipped")
          /\ p \in In("stale") => p \notin In("skipped")
  BY DEF Tally, Outcome, Answered, Refreshed
<1>3. \A k : In(k) \subseteq Provider
  OBVIOUS
<1> HIDE DEF In
<1>4. Provider = In("linked") \cup (In("left") \cup (In("failed") \cup (In("stale") \cup In("skipped"))))
  BY <1>2, <1>3
<1>5. /\ In("stale") \cap In("skipped") = {}
      /\ In("failed") \cap (In("stale") \cup In("skipped")) = {}
      /\ In("left") \cap (In("failed") \cup (In("stale") \cup In("skipped"))) = {}
      /\ In("linked") \cap (In("left") \cup (In("failed") \cup (In("stale") \cup In("skipped")))) = {}
  BY <1>2, <1>3
<1>6. IsFiniteSet(In("stale") \cup In("skipped"))
      /\ Cardinality(In("stale") \cup In("skipped")) = Cardinality(In("stale")) + Cardinality(In("skipped"))
  BY <1>1, <1>5, OnlyOne
<1>7. IsFiniteSet(In("failed") \cup (In("stale") \cup In("skipped")))
      /\ Cardinality(In("failed") \cup (In("stale") \cup In("skipped")))
           = Cardinality(In("failed")) + Cardinality(In("stale") \cup In("skipped"))
  BY <1>1, <1>5, <1>6, OnlyOne
<1>8. IsFiniteSet(In("left") \cup (In("failed") \cup (In("stale") \cup In("skipped"))))
      /\ Cardinality(In("left") \cup (In("failed") \cup (In("stale") \cup In("skipped"))))
           = Cardinality(In("left")) + Cardinality(In("failed") \cup (In("stale") \cup In("skipped")))
  BY <1>1, <1>5, <1>7, OnlyOne
<1>9. Cardinality(Provider)
        = Cardinality(In("linked"))
          + Cardinality(In("left") \cup (In("failed") \cup (In("stale") \cup In("skipped"))))
  BY <1>1, <1>4, <1>5, <1>8, OnlyOne
<1> QED
  BY <1>1, <1>6, <1>7, <1>8, <1>9

Tallied == sweep.counts \in [Counter -> Nat] /\ AddsUp

LEMMA OneMore == \A n, m \in Nat : (n + 1) * m = n * m + m
OBVIOUS

LEMMA TalliedNext == Typed /\ Tallied /\ [Next]_vars => Tallied'
<1> SUFFICES ASSUME Typed, Tallied, [Next]_vars PROVE Tallied'
  OBVIOUS
<1> DEFINE all == Cardinality(Provider)
<1>0. all \in Nat /\ sweep.done \in Nat
  BY FS_CardinalityType, SweepConstants DEF Typed, SweepOK
<1>1. CASE sweep'.counts = sweep.counts /\ sweep'.done = sweep.done
  BY <1>1 DEF Tallied, AddsUp
<1>2. ASSUME NEW force \in BOOLEAN, Trigger(force) PROVE Tallied'
  <2>1. sweep'.counts = [k \in Counter |-> 0] /\ sweep'.done = 0
    BY <1>2 DEF Trigger
  <2> HIDE DEF all
  <2>2. 0 * all = 0
    BY <1>0
  <2> QED
    BY <2>1, <2>2 DEF Tallied, AddsUp, Counter, all
<1>3. CASE VisitFails
  <2>1. sweep'.counts = [sweep.counts EXCEPT !["failed"] = @ + all] /\ sweep'.done = sweep.done + 1
    <3> HIDE DEF all
    <3>1. sweep' = [sweep EXCEPT !.done = sweep.done + 1,
                                 !.counts = [sweep.counts EXCEPT !["failed"] = sweep.counts["failed"] + all]]
      BY <1>3 DEF VisitFails, all, Typed, SweepOK
    <3> QED
      BY <3>1 DEF Typed, SweepOK
  <2>2. (sweep.done + 1) * all = sweep.done * all + all /\ sweep.done * all \in Int
    BY <1>0, OneMore
  <2> DEFINE prod == sweep.done * all
             prod1 == (sweep.done + 1) * all
  <2>3. AddsUp <=> sweep.counts["linked"] + sweep.counts["left"] + sweep.counts["failed"]
                     + sweep.counts["stale"] + sweep.counts["skipped"] = prod
    BY DEF AddsUp
  <2>4. AddsUp' <=> sweep'.counts["linked"] + sweep'.counts["left"] + sweep'.counts["failed"]
                     + sweep'.counts["stale"] + sweep'.counts["skipped"] = prod1
    BY <2>1 DEF AddsUp
  <2>5. prod1 = prod + all
    BY <2>2
  <2> HIDE DEF prod, prod1, all
  <2> QED
    BY <1>0, <2>1, <2>3, <2>4, <2>5 DEF Tallied, Counter
<1>4. CASE Collect
  <2>1. /\ sweep'.counts = [k \in Counter |-> sweep.counts[k] + Settled(k)]
        /\ sweep'.done = sweep.done + 1
    BY <1>4 DEF Collect, Typed, SweepOK
  <2>2. \A p \in Provider : task[p].out \in Outcome
    <3>1. ASSUME NEW p \in Provider PROVE task[p] \in Result
      <4>1. At(p, "done") /\ TaskOK(p)
        BY <1>4 DEF Collect, Typed, Caller
      <4> QED
        BY <4>1, RecordsApart DEF At, TaskOK
    <3> QED
      BY <3>1 DEF Result
  <2>3. /\ \A k \in Counter : Settled(k) \in Nat
        /\ Settled("linked") + Settled("left") + Settled("failed") + Settled("stale")
             + Settled("skipped") = all
    BY <2>2, EntityCounted
  <2> DEFINE prod == sweep.done * all
             prod1 == (sweep.done + 1) * all
  <2>4. AddsUp <=> sweep.counts["linked"] + sweep.counts["left"] + sweep.counts["failed"]
                     + sweep.counts["stale"] + sweep.counts["skipped"] = prod
    BY DEF AddsUp
  <2>5. AddsUp' <=> sweep'.counts["linked"] + sweep'.counts["left"] + sweep'.counts["failed"]
                     + sweep'.counts["stale"] + sweep'.counts["skipped"] = prod1
    BY <2>1 DEF AddsUp
  <2>6. prod1 = prod + all /\ prod \in Int
    BY <1>0, OneMore
  <2> HIDE DEF prod, prod1, all
  <2> QED
    BY <1>0, <2>1, <2>3, <2>4, <2>5, <2>6 DEF Tallied, Counter
<1>5. CASE Finish
  BY <1>1, <1>5 DEF Finish, Typed, SweepOK
<1>6. ASSUME NEW p \in Provider, PairFails(p) PROVE Tallied'
  BY <1>1, <1>6 DEF PairFails, Typed, SweepOK
<1>7. ASSUME NEW c \in Caller, PairStep(c) PROVE UNCHANGED sweep
  BY <1>7, PairSteps
<1> QED
  BY <1>1, <1>2, <1>3, <1>4, <1>5, <1>6, <1>7
     DEF Next, Owner, SweepStep, Tick, Shutdown, Abandon, Request, Clear, Dismiss, Undismiss,
         Ages, ClickFails, Visit, SweepPair, PairWaits, PairRetries, PairStops, vars

Books == Progress /\ Buckets /\ Streaks /\ Tallied

LEMMA BooksInit == Init => Books
<1> SUFFICES ASSUME Init PROVE Books
  OBVIOUS
<1>1. Provider \subseteq Caller
  BY DEF Caller
<1>2. Resting /\ Progress
  BY <1>1, SweepConstants DEF Init, Progress, Resting, At, NoTask
<1>3. Buckets
  BY SweepConstants DEF Init, Buckets
<1>4. Streaks
  BY SweepConstants DEF Init, Streaks, StreakOK, NewBreaker, Breaker
<1>5. Tallied
  <2>1. Cardinality(Provider) \in Nat /\ 0 * Cardinality(Provider) = 0
    BY FS_CardinalityType, SweepConstants
  <2> QED
    BY <2>1 DEF Init, Tallied, AddsUp, Counter
<1> QED
  BY <1>2, <1>3, <1>4, <1>5 DEF Books

LEMMA BooksMean == Typed /\ Books => TypeOK /\ AddsUp
<1> SUFFICES ASSUME Typed, Books PROVE TypeOK
  BY DEF Books, Tallied
<1>1. pause \in [Provider -> 0 .. MaxPause]
  BY SweepConstants DEF Books, Buckets, Typed
<1>2. sweep.breaker \in [Provider -> Breaker]
  BY DEF Books, Streaks, StreakOK
<1>3. ASSUME NEW p \in Provider
      PROVE  /\ At(p, "done") => task[p].out \in Outcome
             /\ InPair(p) => task[p].prov = p
  BY RecordsApart DEF Typed, TaskOK, Caller, At, InPair, Result
<1> QED
  BY <1>1, <1>2, <1>3 DEF TypeOK, Typed, Books, Progress, Buckets

\* A paused provider is not dialed by who was not on the way to it, a dismissed pair
\* stays without data, a provider is given up only after a streak, and every pair of
\* the entities a sweep has done is in one of its counts, and done never passes total
\* (advance, RefreshPair, pacer.acquire).
THEOREM SweepSpares == Spec => ProvidersSpared
<1>1. Spec => [](Typed /\ Counted /\ OneTokenEach)
  <2>1. Init => Typed /\ Counted /\ OneTokenEach
    <3>1. ASSUME Init, NEW p \in Provider PROVE CountOK(p)
      <4>1. p \in Caller
        BY DEF Caller
      <4> QED
        BY <3>1, <4>1 DEF Init, CountOK, BreakerOK, LastsOf, Late, At, NoTask, NewBreaker
    <3>2. Init => OneTokenEach
      BY DEF Init, OneTokenEach, Delayed, At, NoTask
    <3> QED
      BY <3>1, <3>2, TypedInit DEF Counted
  <2>2. Typed /\ Counted /\ OneTokenEach /\ [Next]_vars => (Typed /\ Counted /\ OneTokenEach)'
    BY TypedNext, CountedNext, OneTokenNext
  <2> QED
    BY <2>1, <2>2, PTL DEF Spec
<1>2. Typed /\ Counted /\ OneTokenEach /\ Books /\ [Next]_vars => Books'
  BY ProgressNext, BucketsNext, StreaksNext, TalliedNext DEF Books
<1>3. Spec => []Books
  BY <1>1, <1>2, BooksInit, PTL DEF Spec
<1>4. Spec => [](TypeOK /\ AddsUp)
  BY <1>3, Types, BooksMean, PTL
<1> QED
  BY <1>4, PauseRespected, DismissedNotDialed, GivenUpAfterStreak, PTL DEF ProvidersSpared

===============================================================================
