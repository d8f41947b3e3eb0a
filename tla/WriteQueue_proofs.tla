-------------------------- MODULE WriteQueue_proofs --------------------------
(***************************************************************************)
(* Theorems about WriteQueue, for every set of videos and workers and every *)
(* value of the bounds.  Type correctness comes first; mutual exclusion     *)
(* then needs an invariant that ties each busy worker to the row it claimed. *)
(***************************************************************************)
EXTENDS WriteQueue, TLAPS

\* What callers hand to EnqueueMany and EnqueueRenames.
LEMMA VideoListType ==
    ASSUME NEW vs \in VideoLists
    PROVE  /\ vs \in Seq(Videos)
           /\ Len(vs) \in Nat
           /\ DOMAIN vs = 1 .. Len(vs)
           /\ \A a, b \in 1 .. Len(vs) : a # b => vs[a] # vs[b]
<1>1. PICK n \in 1 .. MaxJobs :
        vs \in {s \in [1 .. n -> Videos] : \A a, b \in 1 .. n : a # b => s[a] # s[b]}
  BY DEF VideoLists
<1>2. n \in Nat /\ vs \in [1 .. n -> Videos]
  BY <1>1, BoundsAssumption
<1>3. vs \in Seq(Videos) /\ Len(vs) = n
  BY <1>2
<1> QED
  BY <1>1, <1>2, <1>3

\* An insert of pending rows, whatever rows it replaces, keeps the table typed.
LEMMA InsertType ==
    ASSUME TypeOK, NEW gone \in SUBSET JobIds, NEW vs \in Seq(Videos), NEW k \in Kinds,
           Insert(gone, vs, k), handler' \in [Videos -> 0 .. MaxJobs]
    PROVE  TypeOK'
<1> USE BoundsAssumption DEF TypeOK, JobIds
<1>1. Len(vs) \in Nat /\ DOMAIN vs = 1 .. Len(vs)
  OBVIOUS
<1>2. lastId' \in 0 .. MaxJobs
  BY <1>1 DEF Insert
<1>3. queue' \in [JobIds -> Row \cup {NoRow}]
  <2>1. \A n \in DOMAIN vs : NewRow(vs[n], k) \in Row
    BY <1>1 DEF NewRow, Row
  <2> QED
    BY <1>1, <2>1 DEF Insert, AppendRows
<1>4. \A i \in JobIds : i > lastId' => queue'[i] = NoRow
  BY <1>1 DEF Insert, AppendRows
<1>5. notify' \in [Lanes -> BOOLEAN]
  BY DEF Insert, Kick, LaneOfKind, Lanes
<1> QED
  BY <1>2, <1>3, <1>4, <1>5 DEF Insert, workers

LEMMA TurnedType ==
    ASSUME NEW r \in Row, NEW s \in {"pending", "running", "failed"}, NEW n \in Nat
    PROVE  Turned(r, s, n) \in Row
BY DEF Turned, Row

\* A row in some status other than none is there.
LEMMA RowThere ==
    ASSUME TypeOK, NEW i \in JobIds, queue[i].status # "none"
    PROVE  queue[i] \in Row
BY DEF TypeOK, NoRow

\* TypeOK alone is not inductive: that only "ok" and "err" reach job_runs
\* needs to know that a job whose run is recorded has come to its end.
Ended == \A w \in Workers : pc[w] \in {"record", "finish"} => outcome[w] \in {"ok", "err"}

LEMMA TypeInit == Init => TypeOK /\ Ended
<1> SUFFICES ASSUME Init PROVE TypeOK /\ Ended
  OBVIOUS
<1>1. queue \in [JobIds -> Row \cup {NoRow}] /\ \A i \in JobIds : queue[i] = NoRow
  BY DEF Init
<1>2. job \in [Workers -> Job \cup {NoJob}]
  BY DEF Init
<1>3. lastId = 0 /\ lastId \in 0 .. MaxJobs /\ crashes \in 0 .. MaxCrashes
  BY BoundsAssumption DEF Init
<1>4. handler \in [Videos -> 0 .. MaxJobs] /\ runs \in [JobIds -> SUBSET {"ok", "err"}]
  BY BoundsAssumption DEF Init
<1>5. phase = "down" /\ early = FALSE /\ moved = {} /\ notify \in [Lanes -> BOOLEAN]
  BY DEF Init
<1>6. /\ pc \in [Workers -> {"down", "idle", "waiting", "work", "record", "finish"}]
      /\ outcome \in [Workers -> {"none", "ok", "err"}]
      /\ \A w \in Workers : pc[w] = "down"
  BY DEF Init
<1> QED
  BY <1>1, <1>2, <1>3, <1>4, <1>5, <1>6 DEF TypeOK, Ended

LEMMA EndedNext == TypeOK /\ Ended /\ [Next]_vars => Ended'
<1> SUFFICES ASSUME TypeOK, Ended, [Next]_vars PROVE Ended'
  OBVIOUS
<1> USE DEF Ended, TypeOK, workers
<1>1. CASE Api
  BY <1>1 DEF Api, EnqueueMany, EnqueueRenames, WriteMedia, WriteMediaClear,
              EnqueueMaintenance, RetryFailed, DismissFailed, Insert
<1>2. ASSUME NEW w \in Workers, Worker(w) PROVE Ended'
  BY <1>2 DEF Worker, Claim, Rest, Wake, Poll, Work, RecordJobRun, FinishWriteback,
              RequeueWriteback, Done
<1>3. CASE Boot \/ Start
  BY <1>3 DEF Boot, Start
<1>4. CASE Crash
  BY <1>4 DEF Crash
<1>5. CASE UNCHANGED vars
  BY <1>5 DEF vars
<1> QED
  BY <1>1, <1>2, <1>3, <1>4, <1>5 DEF Next

LEMMA TypeNext == TypeOK /\ Ended /\ [Next]_vars => TypeOK'
<1> SUFFICES ASSUME TypeOK, Ended, [Next]_vars PROVE TypeOK'
  OBVIOUS
<1> USE BoundsAssumption, NoVideoAssumption, MaintAssumption DEF TypeOK, JobIds
<1>1. ASSUME NEW vs \in VideoLists, EnqueueMany(vs) PROVE TypeOK'
  BY <1>1, VideoListType, InsertType DEF EnqueueMany, Kinds
<1>2. ASSUME NEW vs \in VideoLists, EnqueueRenames(vs) PROVE TypeOK'
  <2>1. UNION {Failed(vs[n], "rename") : n \in DOMAIN vs} \subseteq JobIds
    BY DEF Failed
  <2> QED
    BY <1>2, <2>1, VideoListType, InsertType DEF EnqueueRenames, Kinds
<1>3. ASSUME NEW v \in Videos, WriteMedia(v) PROVE TypeOK'
  <2>1. <<v>> \in Seq(Videos) /\ Len(<<v>>) = 1
    OBVIOUS
  <2>2. handler' \in [Videos -> 0 .. MaxJobs]
    BY <1>3, <2>1 DEF WriteMedia, Insert
  <2> QED
    BY <1>3, <2>1, <2>2, InsertType DEF WriteMedia, Kinds
<1>4. ASSUME NEW v \in Videos, WriteMediaClear(v) PROVE TypeOK'
  BY <1>4 DEF WriteMediaClear, workers
<1>5. ASSUME NEW v \in Videos, EnqueueMaintenance(v) PROVE TypeOK'
  <2>1. <<v>> \in Seq(Videos)
    OBVIOUS
  <2>2. Failed(v, "maintenance") \subseteq JobIds
    BY DEF Failed
  <2> QED
    BY <1>5, <2>1, <2>2, InsertType DEF EnqueueMaintenance, Kinds
<1>6. ASSUME NEW v \in Videos, NEW k \in Kinds, RetryFailed(v, k) PROVE TypeOK'
  <2>1. \A i \in Failed(v, k) : queue[i] \in Row /\ queue[i].attempts \in Nat
    BY RowThere DEF Failed, Row
  <2>2. queue' \in [JobIds -> Row \cup {NoRow}]
    BY <1>6, <2>1, TurnedType DEF RetryFailed, Failed
  <2>3. \A i \in JobIds : i > lastId' => queue'[i] = NoRow
    BY <1>6 DEF RetryFailed, Failed, NoRow
  <2> QED
    BY <1>6, <2>2, <2>3 DEF RetryFailed, Kick, LaneOfKind, Lanes, workers
<1>7. ASSUME NEW v \in Videos, NEW k \in Kinds, DismissFailed(v, k) PROVE TypeOK'
  BY <1>7 DEF DismissFailed, workers
<1>8. ASSUME NEW w \in Workers, Claim(w) PROVE TypeOK'
  <2>1. PICK i \in OldestOf(Claimable(w)) :
          /\ queue' = [queue EXCEPT ![i] = Turned(@, "running", @.attempts + 1)]
          /\ job' = [job EXCEPT ![w] = [id |-> i, video |-> queue[i].video,
                                        kind |-> queue[i].kind]]
    BY <1>8 DEF Claim
  <2>2. i \in JobIds /\ queue[i].status = "pending"
    BY <2>1 DEF OldestOf, Claimable
  <2>3. queue[i] \in Row /\ queue[i].attempts + 1 \in Nat
    BY <2>2, RowThere DEF Row
  <2>4. queue' \in [JobIds -> Row \cup {NoRow}]
    BY <2>1, <2>2, <2>3, TurnedType
  <2>5. \A n \in JobIds : n > lastId' => queue'[n] = NoRow
    BY <1>8, <2>1, <2>2, <2>3 DEF Claim, NoRow, Row
  <2>6. job' \in [Workers -> Job \cup {NoJob}]
    BY <2>1, <2>2, <2>3 DEF Row, Job
  <2> QED
    BY <1>8, <2>4, <2>5, <2>6 DEF Claim
<1>9. ASSUME NEW w \in Workers, Rest(w) \/ Wake(w) \/ Poll(w) PROVE TypeOK'
  <2>1. CASE Rest(w)
    BY <2>1 DEF Rest, table
  <2>2. CASE Wake(w)
    BY <2>2 DEF Wake, table, LaneOf, Lanes
  <2>3. CASE Poll(w)
    BY <2>3 DEF Poll, table
  <2> QED
    BY <1>9, <2>1, <2>2, <2>3
<1>10. ASSUME NEW w \in Workers, NEW o \in {"ok", "err"}, Work(w, o) PROVE TypeOK'
  BY <1>10 DEF Work, table
<1>11. ASSUME NEW w \in Workers, RecordJobRun(w) PROVE TypeOK'
  <2>1. outcome[w] \in {"ok", "err"}
    BY <1>11 DEF RecordJobRun, Ended
  <2>2. runs' \in [JobIds -> SUBSET {"ok", "err"}]
    BY <1>11, <2>1 DEF RecordJobRun
  <2>3. pc' \in [Workers -> {"down", "idle", "waiting", "work", "record", "finish"}]
    BY <1>11 DEF RecordJobRun
  <2> QED
    BY <1>11, <2>2, <2>3 DEF RecordJobRun, table
<1>12. ASSUME NEW w \in Workers, FinishWriteback(w) PROVE TypeOK'
  <2> DEFINE new == queue'[job[w].id]
  <2>1. queue' = [queue EXCEPT ![job[w].id] =
                    IF outcome[w] = "ok" \/ @ = NoRow THEN NoRow
                    ELSE Turned(@, "failed", @.attempts)]
    BY <1>12 DEF FinishWriteback
  <2>2. ASSUME NEW i \in JobIds
        PROVE  /\ queue'[i] \in Row \cup {NoRow}
               /\ queue[i] = NoRow => queue'[i] = NoRow
    <3>1. CASE queue[i] = NoRow
      BY <2>1, <3>1
    <3>2. CASE queue[i] \in Row
      <4>1. queue[i].attempts \in Nat
        BY <3>2 DEF Row
      <4>2. Turned(queue[i], "failed", queue[i].attempts) \in Row
        BY <3>2, <4>1, TurnedType
      <4>3. queue[i] # NoRow
        BY <3>2 DEF Row, NoRow
      <4> QED
        BY <2>1, <4>2, <4>3, <3>2
    <3> QED
      BY <3>1, <3>2
  <2>3. queue' \in [JobIds -> Row \cup {NoRow}]
    BY <2>1, <2>2
  <2>4. notify' \in [Lanes -> BOOLEAN] /\ early' \in BOOLEAN
    BY <1>12 DEF FinishWriteback, Done, Kick
  <2>5. lastId' = lastId /\ \A i \in JobIds : i > lastId => queue'[i] = NoRow
    BY <1>12, <2>2 DEF FinishWriteback
  <2> QED
    BY <1>12, <2>3, <2>4, <2>5 DEF FinishWriteback, Done
<1>13. ASSUME NEW w \in Workers, RequeueWriteback(w) PROVE TypeOK'
  <2>1. lastId + 1 \in JobIds /\ lastId' = lastId + 1
    BY <1>13 DEF RequeueWriteback
  <2>2. queue[job[w].id] \in Row
    BY <1>13 DEF RequeueWriteback, NoJob, Job
  <2>3. Turned(queue[job[w].id], "pending", queue[job[w].id].attempts) \in Row
    BY <2>2, TurnedType DEF Row
  <2>4. queue' = [queue EXCEPT
              ![lastId + 1] = Turned(queue[job[w].id], "pending", queue[job[w].id].attempts),
              ![job[w].id] = NoRow]
    BY <1>13 DEF RequeueWriteback
  <2>5. queue' \in [JobIds -> Row \cup {NoRow}]
    BY <2>3, <2>4
  <2>6. \A i \in JobIds : i > lastId' => queue'[i] = NoRow
    BY <2>1, <2>4
  <2>7. moved' \subseteq JobIds
    <3>1. job[w] # NoJob
      BY <1>13 DEF RequeueWriteback, NoJob
    <3>2. job[w].id \in JobIds
      BY <3>1 DEF Job
    <3> QED
      BY <1>13, <3>2 DEF RequeueWriteback
  <2>8. /\ early' \in BOOLEAN
        /\ pc' \in [Workers -> {"down", "idle", "waiting", "work", "record", "finish"}]
        /\ job' \in [Workers -> Job \cup {NoJob}]
        /\ outcome' \in [Workers -> {"none", "ok", "err"}]
    BY <1>13 DEF RequeueWriteback, Done
  <2>9. lastId' \in 0 .. MaxJobs
    BY <2>1
  <2> QED
    BY <1>13, <2>5, <2>6, <2>7, <2>8, <2>9 DEF RequeueWriteback
<1>14. CASE Boot
  BY <1>14 DEF Boot, table, Workers
<1>15. CASE Start
  <2>1. \A i \in JobIds : queue[i].status = "running" =>
            Turned(queue[i], "pending", queue[i].attempts) \in Row
    BY RowThere, TurnedType DEF Row
  <2>2. queue' \in [JobIds -> Row \cup {NoRow}]
    BY <1>15, <2>1 DEF Start
  <2>3. \A i \in JobIds : i > lastId' => queue'[i] = NoRow
    BY <1>15 DEF Start, NoRow
  <2> QED
    BY <1>15, <2>2, <2>3 DEF Start, Workers
<1>16. CASE Crash
  <2>1. crashes' \in 0 .. MaxCrashes
    BY <1>16 DEF Crash
  <2>4. early' \in BOOLEAN
    BY <1>16 DEF Crash
  <2>2. handler' \in [Videos -> 0 .. MaxJobs] /\ notify' \in [Lanes -> BOOLEAN]
    BY <1>16 DEF Crash
  <2>3. /\ pc' \in [Workers -> {"down", "idle", "waiting", "work", "record", "finish"}]
        /\ outcome' \in [Workers -> {"none", "ok", "err"}]
        /\ job' \in [Workers -> Job \cup {NoJob}]
    BY <1>16 DEF Crash
  <2> QED
    BY <1>16, <2>1, <2>2, <2>3, <2>4 DEF Crash, table
<1>17. CASE UNCHANGED vars
  BY <1>17 DEF vars
<1> QED
  BY <1>1, <1>2, <1>3, <1>4, <1>5, <1>6, <1>7, <1>8, <1>9, <1>10, <1>11, <1>12,
     <1>13, <1>14, <1>15, <1>16, <1>17 DEF Next, Api, Worker

\* Type correctness of the queue.
THEOREM TypeCorrect == Spec => []TypeOK
BY TypeInit, TypeNext, EndedNext, PTL DEF Spec
-----------------------------------------------------------------------------
\* Mutual exclusion.  OneRunningRow says nothing of the workers, so the
\* invariant also ties each busy worker to its own row (ClaimHeld), keeps their
\* rows apart, and says who can be busy in which phase of the process.
DistinctJobs == \A w, x \in Workers : Busy(w) /\ Busy(x) /\ w # x => job[w].id # job[x].id

BusyHasJob == \A w \in Workers : Busy(w) => job[w] \in Job

PhaseOK ==
    /\ phase = "down" => \A w \in Workers : pc[w] = "down"
    /\ phase = "booting" => \A w \in Writers : pc[w] = "down"
    /\ phase = "booting" /\ Busy(Maint) => early

Exclusion == OneRunningRow /\ ClaimHeld /\ DistinctJobs /\ BusyHasJob /\ PhaseOK

\* A step that leaves the workers and every pending or running row alone, and
\* marks no row running, disturbs nothing.
LEMMA ExclusionFrame ==
    ASSUME TypeOK, Exclusion, UNCHANGED <<pc, job, early, phase>>,
           \A i \in JobIds : queue[i].status \in {"pending", "running"} => queue'[i] = queue[i],
           \A i \in JobIds : queue'[i].status = "running" => queue[i].status = "running"
    PROVE  Exclusion'
<1> USE DEF Exclusion
<1>1. OneRunningRow'
  BY DEF OneRunningRow
<1>2. \A w \in Workers : Busy(w)' = Busy(w)
  BY DEF Busy
<1>3. ClaimHeld'
  <2> SUFFICES ASSUME NEW w \in Workers, Busy(w)
               PROVE  queue'[job[w].id] = queue[job[w].id]
    BY <1>2 DEF ClaimHeld, LaneOfKind, LaneOf
  <2>1. job[w].id \in JobIds /\ queue[job[w].id].status \in {"pending", "running"}
    BY DEF ClaimHeld, BusyHasJob, Job
  <2> QED
    BY <2>1
<1>4. DistinctJobs' /\ BusyHasJob'
  BY <1>2 DEF DistinctJobs, BusyHasJob
<1>5. PhaseOK'
  BY DEF PhaseOK, Busy
<1> QED
  BY <1>1, <1>3, <1>4, <1>5

\* An insert appends pending rows above every row there is; those it replaces
\* have failed.
LEMMA InsertExclusion ==
    ASSUME TypeOK, NEW gone, NEW vs \in Seq(Videos), NEW k, Insert(gone, vs, k),
           \A i \in gone : queue[i].status = "failed", Exclusion
    PROVE  Exclusion'
<1>1. Len(vs) \in Nat /\ DOMAIN vs = 1 .. Len(vs)
  OBVIOUS
<1>2. \A i \in JobIds : queue[i].status \in {"pending", "running"} => i <= lastId
  BY BoundsAssumption DEF TypeOK, JobIds, NoRow
<1>3. ASSUME NEW i \in JobIds, queue[i].status \in {"pending", "running"}
      PROVE  queue'[i] = queue[i]
  <2>1. i - lastId \notin DOMAIN vs
    BY <1>1, <1>2, <1>3, BoundsAssumption DEF TypeOK, JobIds
  <2> QED
    BY <1>3, <2>1 DEF Insert, AppendRows
<1>4. ASSUME NEW i \in JobIds, queue'[i].status = "running"
      PROVE  queue[i].status = "running"
  BY <1>4 DEF Insert, AppendRows, NewRow, NoRow
<1>5. UNCHANGED <<pc, job, early, phase>>
  BY DEF Insert, workers
<1> QED
  BY <1>3, <1>4, <1>5, ExclusionFrame
LEMMA ExclusionInit == Init => Exclusion
<1> SUFFICES ASSUME Init PROVE Exclusion
  OBVIOUS
<1>1. \A w \in Workers : pc[w] = "down" /\ ~Busy(w)
  BY DEF Init, Busy
<1>2. \A i \in JobIds : queue[i].status = "none"
  BY DEF Init, NoRow
<1> QED
  BY <1>1, <1>2 DEF Exclusion, OneRunningRow, ClaimHeld, DistinctJobs, BusyHasJob, PhaseOK, Init,
                    Workers

LEMMA ApiExclusion == TypeOK /\ Exclusion /\ Api => Exclusion'
<1> SUFFICES ASSUME TypeOK, Exclusion, Api PROVE Exclusion'
  OBVIOUS
<1>1. \A v, k : \A i \in Failed(v, k) : queue[i].status = "failed"
  BY DEF Failed
<1>2. ASSUME NEW v \in Videos PROVE <<v>> \in Seq(Videos)
  OBVIOUS
<1>3. ASSUME NEW vs \in VideoLists, EnqueueMany(vs) PROVE Exclusion'
  <2>1. vs \in Seq(Videos) /\ Insert({}, vs, "write")
    BY <1>3, VideoListType DEF EnqueueMany
  <2>2. \A i \in {} : queue[i].status = "failed"
    OBVIOUS
  <2> QED
    BY <2>1, <2>2, InsertExclusion
<1>4. ASSUME NEW vs \in VideoLists, EnqueueRenames(vs) PROVE Exclusion'
  <2> DEFINE gone == UNION {Failed(vs[n], "rename") : n \in DOMAIN vs}
  <2>1. vs \in Seq(Videos) /\ Insert(gone, vs, "rename")
    BY <1>4, VideoListType DEF EnqueueRenames
  <2>2. \A i \in gone : queue[i].status = "failed"
    BY <1>1
  <2> HIDE DEF gone
  <2> QED
    BY <2>1, <2>2, InsertExclusion
<1>5. ASSUME NEW v \in Videos, WriteMedia(v) PROVE Exclusion'
  <2> DEFINE vs == <<v>>
  <2>1. vs \in Seq(Videos) /\ Insert({}, vs, "write")
    BY <1>2, <1>5 DEF WriteMedia
  <2>2. \A i \in {} : queue[i].status = "failed"
    OBVIOUS
  <2> HIDE DEF vs
  <2> QED
    BY <2>1, <2>2, InsertExclusion
<1>6. ASSUME NEW v \in Videos, EnqueueMaintenance(v) PROVE Exclusion'
  <2>1. <<v>> \in Seq(Videos) /\ Insert(Failed(v, "maintenance"), <<v>>, "maintenance")
    BY <1>2, <1>6 DEF EnqueueMaintenance
  <2> QED
    BY <1>1, <2>1, InsertExclusion
<1>7. ASSUME NEW v \in Videos, NEW k \in Kinds,
             WriteMediaClear(v) \/ RetryFailed(v, k) \/ DismissFailed(v, k)
      PROVE  Exclusion'
  <2>1. UNCHANGED <<pc, job, early, phase>>
    BY <1>7 DEF WriteMediaClear, RetryFailed, DismissFailed, workers
  <2>2. \A i \in JobIds : queue[i].status \in {"pending", "running"} => queue'[i] = queue[i]
    BY <1>1, <1>7 DEF WriteMediaClear, RetryFailed, DismissFailed
  <2>3. \A i \in JobIds : queue'[i].status = "running" => queue[i].status = "running"
    BY <1>7 DEF WriteMediaClear, RetryFailed, DismissFailed, Turned, NoRow
  <2> QED
    BY <2>1, <2>2, <2>3, ExclusionFrame
<1> QED
  BY <1>3, <1>4, <1>5, <1>6, <1>7 DEF Api, Kinds

\* Claiming a row: no row of its video runs, and no busy worker holds it, for
\* only the maintenance worker can hold a pending row and it is not claiming.
LEMMA ClaimExclusion ==
    ASSUME TypeOK, Exclusion, NEW w \in Workers, Claim(w) PROVE Exclusion'
<1> USE DEF Exclusion
<1>1. PICK i \in OldestOf(Claimable(w)) :
        /\ queue' = [queue EXCEPT ![i] = Turned(@, "running", @.attempts + 1)]
        /\ job' = [job EXCEPT ![w] = [id |-> i, video |-> queue[i].video,
                                      kind |-> queue[i].kind]]
  BY DEF Claim
<1>2. /\ i \in JobIds /\ queue[i].status = "pending"
      /\ LaneOfKind(queue[i].kind) = LaneOf(w) /\ ~Running(queue[i].video)
  BY DEF OldestOf, Claimable
<1>3. queue[i] \in Row
  BY <1>2, RowThere
<1>4. /\ queue'[i].status = "running" /\ queue'[i].video = queue[i].video
      /\ queue'[i].kind = queue[i].kind
      /\ \A j \in JobIds : j # i => queue'[j] = queue[j]
  BY <1>1, <1>2 DEF Turned, TypeOK
<1>5. /\ job'[w] = [id |-> i, video |-> queue[i].video, kind |-> queue[i].kind]
      /\ \A x \in Workers : x # w => job'[x] = job[x]
  BY <1>1 DEF TypeOK
<1>6. /\ ~Busy(w) /\ Busy(w)'
      /\ \A x \in Workers : x # w => Busy(x)' = Busy(x)
  BY DEF Claim, Busy, TypeOK
<1>7. \A x \in Workers : x # w /\ Busy(x) => job[x].id # i
  <2> SUFFICES ASSUME NEW x \in Workers, x # w, Busy(x), job[x].id = i PROVE FALSE
    OBVIOUS
  <2>1. x = Maint /\ LaneOf(w) = "maintenance"
    BY <1>2 DEF ClaimHeld, LaneOf
  <2> QED
    BY <2>1 DEF LaneOf
<1>8. OneRunningRow'
  <2> SUFFICES ASSUME NEW a \in JobIds, NEW b \in JobIds,
                      queue'[a].status = "running", queue'[b].status = "running",
                      queue'[a].video = queue'[b].video
               PROVE  a = b
    BY DEF OneRunningRow
  <2> QED
    BY <1>2, <1>4 DEF OneRunningRow, Running
<1>9. ClaimHeld'
  <2>1. ASSUME NEW x \in Workers, Busy(x)', x # w
        PROVE  queue'[job'[x].id] = queue[job[x].id] /\ job'[x] = job[x] /\ Busy(x)
    <3>1. job[x].id # i /\ job'[x] = job[x] /\ job[x].id \in JobIds
      BY <1>5, <1>6, <1>7, <2>1 DEF BusyHasJob, Job
    <3> QED
      BY <1>4, <1>6, <2>1, <3>1
  <2>2. ASSUME NEW x \in Workers, x = Maint, x # w PROVE early' = early
    BY <2>2 DEF Claim
  <2>3. ASSUME NEW x \in Workers, Busy(x)', x # w
        PROVE  LET row == queue'[job'[x].id]
               IN  /\ row.video = job'[x].video /\ row.kind = job'[x].kind
                   /\ LaneOfKind(row.kind) = LaneOf(x)
                   /\ row.status = "running" \/ (x = Maint /\ early' /\ row.status = "pending")
    BY <2>1, <2>2, <2>3 DEF ClaimHeld
  <2>4. LET row == queue'[job'[w].id]
        IN  /\ row.video = job'[w].video /\ row.kind = job'[w].kind
            /\ LaneOfKind(row.kind) = LaneOf(w)
            /\ row.status = "running"
    BY <1>2, <1>4, <1>5
  <2> QED
    BY <2>3, <2>4 DEF ClaimHeld, LaneOfKind, LaneOf
<1>10. DistinctJobs'
  BY <1>5, <1>6, <1>7 DEF DistinctJobs
<1>11. BusyHasJob'
  BY <1>2, <1>3, <1>5, <1>6 DEF BusyHasJob, Job, Row
<1>12. PhaseOK'
  <2>1. phase' = phase /\ pc[w] = "idle" /\ pc' = [pc EXCEPT ![w] = "work"]
    BY DEF Claim
  <2>2. phase # "down"
    BY <2>1 DEF PhaseOK
  <2>3. phase = "booting" => w = Maint
    BY <2>1 DEF PhaseOK, Workers
  <2>4. phase = "booting" => early'
    BY <2>3 DEF Claim
  <2> QED
    BY <2>1, <2>2, <2>3, <2>4, MaintAssumption DEF PhaseOK, Busy, Workers, TypeOK
<1> QED
  BY <1>8, <1>9, <1>10, <1>11, <1>12
\* Between claim and finish nothing moves but the worker itself.
LEMMA StepExclusion ==
    ASSUME TypeOK, Exclusion, NEW w \in Workers,
           Rest(w) \/ Wake(w) \/ Poll(w) \/ (\E o \in {"ok", "err"} : Work(w, o)) \/ RecordJobRun(w)
    PROVE  Exclusion'
<1>1. UNCHANGED <<queue, job, early, phase>>
  BY DEF Rest, Wake, Poll, Work, RecordJobRun, table
<1>2. \A x \in Workers : Busy(x)' = Busy(x)
  BY DEF Rest, Wake, Poll, Work, RecordJobRun, Busy, TypeOK
<1>3. PhaseOK'
  <2>1. /\ pc[w] # "down"
        /\ \A x \in Workers : x # w => pc'[x] = pc[x]
    BY DEF Rest, Wake, Poll, Work, RecordJobRun, TypeOK
  <2>2. phase # "down" /\ (phase = "booting" => w \notin Writers)
    BY <2>1 DEF Exclusion, PhaseOK
  <2>3. Maint \in Workers /\ Busy(Maint)' = Busy(Maint)
    BY <1>2 DEF Workers
  <2>4. phase = "booting" => \A x \in Writers : pc'[x] = "down"
    BY <2>1, <2>2 DEF Exclusion, PhaseOK, Workers
  <2> QED
    BY <1>1, <2>2, <2>3, <2>4 DEF Exclusion, PhaseOK
<1> QED
  BY <1>1, <1>2, <1>3 DEF Exclusion, OneRunningRow, ClaimHeld, LaneOfKind, LaneOf,
                          DistinctJobs, BusyHasJob

\* A worker that lets go of its job touches its own row only, and no other
\* worker holds that row.
LEMMA DoneExclusion ==
    ASSUME TypeOK, Exclusion, NEW w \in Workers, Busy(w), Done(w), phase' = phase,
           \A i \in JobIds : i # job[w].id => \/ queue'[i] = queue[i]
                                              \/ queue[i] = NoRow /\ queue'[i].status = "pending",
           queue'[job[w].id].status # "running"
    PROVE  Exclusion'
<1> USE DEF Exclusion
<1>1. /\ ~Busy(w)'
      /\ \A x \in Workers : x # w => /\ Busy(x)' = Busy(x) /\ job'[x] = job[x]
                                     /\ x = Maint => early' = early
  BY DEF Done, Busy, TypeOK
<1>2. \A i \in JobIds : queue'[i].status = "running" =>
            queue[i].status = "running" /\ queue'[i].video = queue[i].video
  OBVIOUS
<1>3. OneRunningRow'
  BY <1>2 DEF OneRunningRow
<1>4. ASSUME NEW x \in Workers, x # w, Busy(x)
      PROVE  queue'[job[x].id] = queue[job[x].id]
  <2>1. job[x].id \in JobIds /\ job[x].id # job[w].id
    BY <1>4 DEF DistinctJobs, BusyHasJob, Job
  <2>2. queue[job[x].id] # NoRow
    BY <1>4 DEF ClaimHeld, NoRow
  <2> QED
    BY <2>1, <2>2
<1>5. ClaimHeld'
  BY <1>1, <1>4 DEF ClaimHeld, LaneOfKind, LaneOf
<1>6. DistinctJobs' /\ BusyHasJob'
  BY <1>1 DEF DistinctJobs, BusyHasJob
<1>7. PhaseOK'
  <2>1. phase # "down" /\ (phase = "booting" => w = Maint)
    BY DEF PhaseOK, Busy, Workers
  <2> QED
    BY <1>1, <2>1, MaintAssumption DEF PhaseOK, Done, Workers, TypeOK
<1> QED
  BY <1>3, <1>5, <1>6, <1>7

LEMMA FinishExclusion ==
    ASSUME TypeOK, Exclusion, NEW w \in Workers, FinishWriteback(w) PROVE Exclusion'
<1>1. Busy(w) /\ Done(w) /\ phase' = phase
  BY DEF FinishWriteback, Busy
<1>2. job[w].id \in JobIds
  BY <1>1 DEF Exclusion, BusyHasJob, Job
<1>3. \A i \in JobIds : i # job[w].id => queue'[i] = queue[i]
  BY DEF FinishWriteback, TypeOK
<1>4. queue'[job[w].id].status # "running"
  BY <1>2 DEF FinishWriteback, TypeOK, Turned, NoRow
<1> QED
  BY <1>1, <1>3, <1>4, DoneExclusion

LEMMA RequeueExclusion ==
    ASSUME TypeOK, Exclusion, NEW w \in Workers, RequeueWriteback(w) PROVE Exclusion'
<1> DEFINE row == queue[job[w].id]
<1>1. Busy(w) /\ Done(w) /\ phase' = phase
  BY DEF RequeueWriteback, Busy
<1>2. job[w].id \in JobIds /\ row # NoRow
  BY <1>1 DEF RequeueWriteback, Exclusion, BusyHasJob, Job
<1>3. lastId + 1 \in JobIds /\ queue[lastId + 1] = NoRow /\ lastId + 1 # job[w].id
  BY <1>2, BoundsAssumption DEF RequeueWriteback, TypeOK, JobIds
<1>4. queue' = [queue EXCEPT ![lastId + 1] = Turned(row, "pending", row.attempts),
                            ![job[w].id] = NoRow]
  BY DEF RequeueWriteback
<1>5. Turned(row, "pending", row.attempts).status = "pending"
  BY DEF Turned
<1>6. \A i \in JobIds : i # job[w].id => \/ queue'[i] = queue[i]
                                         \/ queue[i] = NoRow /\ queue'[i].status = "pending"
  <2> HIDE DEF row
  <2> QED
    BY <1>3, <1>4, <1>5 DEF TypeOK
<1>7. queue'[job[w].id].status # "running"
  BY <1>2, <1>3, <1>4 DEF TypeOK, NoRow
<1> QED
  BY <1>1, <1>6, <1>7, DoneExclusion

\* Starting and stopping the process.  RecoverRunning leaves no row running and
\* finds no worker busy but Maint, early.
LEMMA ProcessExclusion ==
    ASSUME TypeOK, Exclusion, Boot \/ Start \/ Crash PROVE Exclusion'
<1> USE DEF Exclusion
<1>1. CASE Boot
  <2>1. \A x \in Workers : ~Busy(x) /\ ~Busy(x)'
    BY <1>1 DEF Boot, PhaseOK, Busy, TypeOK
  <2>2. OneRunningRow'
    BY <1>1 DEF Boot, table, OneRunningRow
  <2>3. PhaseOK'
    BY <1>1, <2>1, MaintAssumption DEF Boot, PhaseOK, Workers, TypeOK
  <2> QED
    BY <2>1, <2>2, <2>3 DEF ClaimHeld, DistinctJobs, BusyHasJob
<1>2. CASE Start
  <2>1. \A i \in JobIds : queue'[i].status # "running"
    BY <1>2 DEF Start, Turned
  <2>2. \A x \in Workers : Busy(x)' => x = Maint /\ Busy(x) /\ early
    BY <1>2, MaintAssumption DEF Start, PhaseOK, Busy, Workers
  <2>3. UNCHANGED <<job, early>> /\ phase' = "up"
    BY <1>2 DEF Start
  <2>4. ClaimHeld'
    <3> SUFFICES ASSUME NEW x \in Workers, Busy(x)'
                 PROVE  LET row == queue'[job[x].id]
                        IN  /\ row.video = job[x].video /\ row.kind = job[x].kind
                            /\ LaneOfKind(row.kind) = LaneOf(x)
                            /\ row.status = "pending"
      BY <2>2, <2>3 DEF ClaimHeld, LaneOfKind, LaneOf
    <3>1. Busy(x) /\ job[x].id \in JobIds
      BY <2>2 DEF BusyHasJob, Job
    <3>2. queue[job[x].id].status \in {"running", "pending"}
      BY <3>1 DEF ClaimHeld
    <3>3. \/ queue'[job[x].id] = Turned(queue[job[x].id], "pending", queue[job[x].id].attempts)
          \/ queue'[job[x].id] = queue[job[x].id] /\ queue[job[x].id].status = "pending"
      BY <1>2, <3>1, <3>2 DEF Start
    <3> QED
      BY <3>1, <3>3 DEF ClaimHeld, Turned
  <2>5. OneRunningRow' /\ DistinctJobs' /\ BusyHasJob'
    BY <2>1, <2>2, <2>3 DEF OneRunningRow, DistinctJobs, BusyHasJob
  <2> QED
    BY <2>3, <2>4, <2>5 DEF PhaseOK
<1>3. CASE Crash
  <2>1. \A x \in Workers : pc'[x] = "down"
    BY <1>3 DEF Crash
  <2>2. \A x \in Workers : ~Busy(x)'
    BY <2>1 DEF Busy
  <2>3. OneRunningRow'
    BY <1>3 DEF Crash, table, OneRunningRow
  <2>4. PhaseOK'
    BY <1>3, <2>1 DEF Crash, PhaseOK
  <2> QED
    BY <2>2, <2>3, <2>4 DEF ClaimHeld, DistinctJobs, BusyHasJob
<1> QED
  BY <1>1, <1>2, <1>3

LEMMA ExclusionNext == TypeOK /\ Exclusion /\ [Next]_vars => Exclusion'
<1> SUFFICES ASSUME TypeOK, Exclusion, [Next]_vars PROVE Exclusion'
  OBVIOUS
<1>1. ASSUME NEW w \in Workers, Worker(w) PROVE Exclusion'
  BY <1>1, ClaimExclusion, StepExclusion, FinishExclusion, RequeueExclusion DEF Worker
<1>2. CASE UNCHANGED vars
  BY <1>2, ExclusionFrame DEF vars
<1> QED
  BY <1>1, <1>2, ApiExclusion, ProcessExclusion DEF Next

\* The table never marks two jobs of one video running.
THEOREM OneRunning == Spec => []OneRunningRow
<1>1. Exclusion => OneRunningRow
  BY DEF Exclusion
<1> QED
  BY <1>1, TypeCorrect, ExclusionInit, ExclusionNext, PTL DEF Spec

\* A claimed row stays its worker's until it is finished.
THEOREM ClaimsHeld == Spec => []ClaimHeld
<1>1. Exclusion => ClaimHeld
  BY DEF Exclusion
<1> QED
  BY <1>1, TypeCorrect, ExclusionInit, ExclusionNext, PTL DEF Spec

\* No two workers are inside jobs of one video, save for the early claim.
THEOREM FileExclusive == Spec => []ExclusiveFile
<1>1. Exclusion => ExclusiveFile
  <2> SUFFICES ASSUME Exclusion, NEW w \in Workers, NEW x \in Workers, w # x,
                      pc[w] = "work", pc[x] = "work", job[w].video = job[x].video,
                      ~(early /\ Maint \in {w, x})
               PROVE  FALSE
    BY DEF ExclusiveFile
  <2>1. Busy(w) /\ Busy(x) /\ job[w].id \in JobIds /\ job[x].id \in JobIds
    BY DEF Busy, Exclusion, BusyHasJob, Job
  <2>2. queue[job[w].id].status = "running" /\ queue[job[x].id].status = "running"
    BY <2>1 DEF Exclusion, ClaimHeld
  <2>3. queue[job[w].id].video = queue[job[x].id].video
    BY <2>1 DEF Exclusion, ClaimHeld
  <2>4. job[w].id = job[x].id
    BY <2>1, <2>2, <2>3 DEF Exclusion, OneRunningRow
  <2> QED
    BY <2>1, <2>4 DEF Exclusion, DistinctJobs
<1> QED
  BY <1>1, TypeCorrect, ExclusionInit, ExclusionNext, PTL DEF Spec

-----------------------------------------------------------------------------
\* What a transaction of the API does to the table: rows that wait or run stay
\* as they are, failed rows may go or wait again, new rows are appended.
ApiChange ==
    /\ UNCHANGED <<workers, phase, runs, moved>>
    /\ lastId' \in Nat /\ lastId <= lastId'
    /\ \A i \in JobIds :
        \/ queue'[i] = queue[i] /\ (i > lastId => i > lastId')
        \/ i <= lastId /\ queue[i].status = "failed" /\ queue'[i] = NoRow
        \/ i <= lastId /\ queue[i].status = "failed"
           /\ queue'[i] = Turned(queue[i], "pending", queue[i].attempts)
        \/ i > lastId /\ i <= lastId' /\ queue'[i].status = "pending"

LEMMA InsertChange ==
    ASSUME TypeOK, NEW gone, NEW vs \in Seq(Videos), NEW k, Insert(gone, vs, k),
           \A i \in gone : queue[i].status = "failed"
    PROVE  ApiChange
<1> USE BoundsAssumption DEF TypeOK, JobIds
<1>1. Len(vs) \in Nat /\ DOMAIN vs = 1 .. Len(vs)
  OBVIOUS
<1>2. lastId \in Nat /\ lastId' = lastId + Len(vs) /\ lastId' \in Nat
  BY <1>1 DEF Insert
<1>3. \A i \in JobIds : i \in Nat /\ (i - lastId \in DOMAIN vs <=> i > lastId /\ i <= lastId')
  BY <1>1, <1>2
<1>4. \A i \in JobIds : queue'[i] = IF i - lastId \in DOMAIN vs THEN NewRow(vs[i - lastId], k)
                                    ELSE IF i \in gone THEN NoRow ELSE queue[i]
  BY DEF Insert, AppendRows
<1>5. \A i \in JobIds : i > lastId => i \notin gone
  <2> SUFFICES ASSUME NEW i \in JobIds, i > lastId, i \in gone PROVE FALSE
    OBVIOUS
  <2>1. queue[i] = NoRow /\ queue[i].status = "failed"
    OBVIOUS
  <2> QED
    BY <2>1 DEF NoRow
<1>6. UNCHANGED <<workers, phase, runs, moved>>
  BY DEF Insert
<1>7. \A v : NewRow(v, k).status = "pending"
  BY DEF NewRow
<1>8. lastId <= lastId'
  BY <1>1, <1>2
<1>9. ASSUME NEW i \in JobIds
      PROVE  \/ queue'[i] = queue[i] /\ (i > lastId => i > lastId')
             \/ i <= lastId /\ queue[i].status = "failed" /\ queue'[i] = NoRow
             \/ i > lastId /\ i <= lastId' /\ queue'[i].status = "pending"
  <2>1. CASE i - lastId \in DOMAIN vs
    BY <1>3, <1>4, <1>7, <2>1
  <2>2. CASE i - lastId \notin DOMAIN vs
    <3>1. queue'[i] = IF i \in gone THEN NoRow ELSE queue[i]
      BY <1>4, <2>2
    <3>2. i > lastId => i > lastId' /\ i \notin gone
      BY <1>2, <1>3, <1>5, <2>2
    <3>3. i > lastId \/ i <= lastId
      BY <1>2, <1>3
    <3> QED
      BY <3>1, <3>2, <3>3
  <2> QED
    BY <2>1, <2>2
<1> QED
  BY <1>2, <1>6, <1>8, <1>9 DEF ApiChange

LEMMA ApiChanges == TypeOK /\ Api => ApiChange
<1> SUFFICES ASSUME TypeOK, Api PROVE ApiChange
  OBVIOUS
<1>1. \A v, k : \A i \in Failed(v, k) : queue[i].status = "failed"
  BY DEF Failed
<1>2. \A i \in {} : queue[i].status = "failed"
  OBVIOUS
<1>3. ASSUME NEW v \in Videos PROVE <<v>> \in Seq(Videos)
  OBVIOUS
<1>4. ASSUME NEW vs \in VideoLists, EnqueueMany(vs) PROVE ApiChange
  BY <1>2, <1>4, VideoListType, InsertChange DEF EnqueueMany
<1>5. ASSUME NEW vs \in VideoLists, EnqueueRenames(vs) PROVE ApiChange
  <2> DEFINE gone == UNION {Failed(vs[n], "rename") : n \in DOMAIN vs}
  <2>1. vs \in Seq(Videos) /\ Insert(gone, vs, "rename")
    BY <1>5, VideoListType DEF EnqueueRenames
  <2>2. \A i \in gone : queue[i].status = "failed"
    BY <1>1
  <2> HIDE DEF gone
  <2> QED
    BY <2>1, <2>2, InsertChange
<1>6. ASSUME NEW v \in Videos, WriteMedia(v) PROVE ApiChange
  <2> DEFINE vs == <<v>>
  <2>1. vs \in Seq(Videos) /\ Insert({}, vs, "write")
    BY <1>3, <1>6 DEF WriteMedia
  <2> HIDE DEF vs
  <2> QED
    BY <1>2, <2>1, InsertChange
<1>7. ASSUME NEW v \in Videos, EnqueueMaintenance(v) PROVE ApiChange
  <2>1. <<v>> \in Seq(Videos) /\ Insert(Failed(v, "maintenance"), <<v>>, "maintenance")
    BY <1>3, <1>7 DEF EnqueueMaintenance
  <2> QED
    BY <1>1, <2>1, InsertChange
<1>8. ASSUME NEW v \in Videos, NEW k \in Kinds,
             WriteMediaClear(v) \/ RetryFailed(v, k) \/ DismissFailed(v, k)
      PROVE  ApiChange
  <2>1. UNCHANGED <<workers, phase, runs, moved, lastId>>
    BY <1>8 DEF WriteMediaClear, RetryFailed, DismissFailed
  <2>2. lastId \in Nat /\ \A i \in JobIds : i \in Nat /\ (queue[i].status = "failed" => i <= lastId)
    BY BoundsAssumption DEF TypeOK, NoRow, JobIds
  <2>3. \A i \in JobIds : \/ queue'[i] = queue[i]
                          \/ queue[i].status = "failed" /\ queue'[i] = NoRow
                          \/ queue[i].status = "failed"
                             /\ queue'[i] = Turned(queue[i], "pending", queue[i].attempts)
    BY <1>1, <1>8 DEF WriteMediaClear, RetryFailed, DismissFailed
  <2> QED
    BY <2>1, <2>2, <2>3 DEF ApiChange
<1> QED
  BY <1>4, <1>5, <1>6, <1>7, <1>8 DEF Api, Kinds
-----------------------------------------------------------------------------
\* The audit trail.  FinishWriteback deletes or fails a row on the word of the
\* worker, so the invariant must know the run was recorded before.
Recorded == \A w \in Workers : pc[w] = "finish" => outcome[w] \in runs[job[w].id]

Audited == AuditTrail /\ Recorded

LEMMA AuditedInit == Init => Audited
BY BoundsAssumption DEF Init, Audited, AuditTrail, Recorded

\* A failed row has its failure on record, so it may go; new rows are there.
LEMMA AuditedApi ==
    ASSUME TypeOK, TypeOK', Audited, ApiChange PROVE Audited'
<1>1. Recorded'
  BY DEF ApiChange, workers, Audited, Recorded
<1>2. ASSUME NEW i \in 1 .. lastId'
      PROVE  /\ queue'[i] = NoRow => runs'[i] # {} \/ i \in moved'
             /\ queue'[i].status = "failed" => "err" \in runs'[i]
  <2>1. i \in JobIds /\ runs' = runs /\ moved' = moved /\ lastId \in Nat
    BY <1>2, BoundsAssumption DEF TypeOK, ApiChange, JobIds
  <2>2. CASE queue'[i] = queue[i] /\ i <= lastId
    BY <2>1, <2>2 DEF Audited, AuditTrail
  <2>3. CASE i <= lastId /\ queue[i].status = "failed" /\ queue'[i] = NoRow
    <3>1. "err" \in runs[i]
      BY <2>1, <2>3 DEF Audited, AuditTrail
    <3> QED
      BY <2>1, <2>3, <3>1 DEF NoRow
  <2>4. CASE queue'[i].status = "pending"
    BY <2>4 DEF NoRow
  <2>5. \A r, n : Turned(r, "pending", n).status = "pending"
    BY DEF Turned
  <2>6. i \in Nat /\ i <= lastId' /\ lastId' \in Nat
    BY <1>2 DEF ApiChange
  <2>7. \/ queue'[i] = queue[i] /\ i <= lastId
        \/ i <= lastId /\ queue[i].status = "failed" /\ queue'[i] = NoRow
        \/ queue'[i].status = "pending"
    BY <2>1, <2>5, <2>6 DEF ApiChange
  <2> QED
    BY <2>2, <2>3, <2>4, <2>7
<1> QED
  BY <1>1, <1>2 DEF Audited, AuditTrail

\* Rows that are left alone, or wait or run, need no trace.
LEMMA AuditKept ==
    ASSUME TypeOK, AuditTrail, lastId' = lastId,
           moved \subseteq moved', \A i \in JobIds : runs[i] \subseteq runs'[i],
           \A i \in JobIds : queue'[i] = queue[i] \/ queue'[i].status \in {"pending", "running"}
    PROVE  AuditTrail'
<1> SUFFICES ASSUME NEW i \in 1 .. lastId
             PROVE  /\ queue'[i] = NoRow => runs'[i] # {} \/ i \in moved'
                    /\ queue'[i].status = "failed" => "err" \in runs'[i]
  BY DEF AuditTrail
<1>1. i \in JobIds
  BY BoundsAssumption DEF TypeOK, JobIds
<1>2. runs[i] \subseteq runs'[i] /\ (i \in moved => i \in moved')
  BY <1>1
<1>3. CASE queue'[i] = queue[i]
  BY <1>2, <1>3 DEF AuditTrail
<1>4. CASE queue'[i].status \in {"pending", "running"}
  BY <1>4 DEF NoRow
<1> QED
  BY <1>1, <1>3, <1>4

LEMMA AuditedStep ==
    ASSUME TypeOK, TypeOK', Ended, Exclusion, Audited, NEW w \in Workers, Worker(w)
    PROVE  Audited'
<1> USE DEF Audited
<1>1. CASE Claim(w)
  <2>1. PICK n \in OldestOf(Claimable(w)) :
          queue' = [queue EXCEPT ![n] = Turned(@, "running", @.attempts + 1)]
    BY <1>1 DEF Claim
  <2>2. \A i \in JobIds : queue'[i] = queue[i] \/ queue'[i].status = "running"
    BY <2>1 DEF TypeOK, Turned
  <2>3. UNCHANGED <<lastId, outcome, runs, moved>>
    BY <1>1 DEF Claim
  <2>4. AuditTrail'
    BY <2>2, <2>3, AuditKept
  <2>5. \A x \in Workers : pc'[x] = "finish" => pc[x] = "finish" /\ job'[x] = job[x]
    BY <1>1 DEF Claim, TypeOK
  <2> QED
    BY <2>3, <2>4, <2>5 DEF Recorded
<1>2. CASE Rest(w) \/ Wake(w) \/ Poll(w) \/ \E o \in {"ok", "err"} : Work(w, o)
  <2>1. UNCHANGED <<queue, lastId, job, runs, moved>>
    BY <1>2 DEF Rest, Wake, Poll, Work, table
  <2>2. \A x \in Workers : pc'[x] = "finish" => pc[x] = "finish" /\ outcome'[x] = outcome[x]
    BY <1>2 DEF Rest, Wake, Poll, Work, TypeOK
  <2> QED
    BY <2>1, <2>2 DEF AuditTrail, Recorded
<1>3. CASE RecordJobRun(w)
  <2>1. UNCHANGED <<queue, lastId, job, outcome, moved>>
    BY <1>3 DEF RecordJobRun, table
  <2>2. job[w].id \in JobIds
    BY <1>3 DEF RecordJobRun, Exclusion, BusyHasJob, Busy, Job
  <2>3. /\ \A i \in JobIds : runs[i] \subseteq runs'[i]
        /\ outcome[w] \in runs'[job[w].id]
    BY <1>3, <2>2 DEF RecordJobRun, TypeOK
  <2>4. AuditTrail'
    BY <2>1, <2>3, BoundsAssumption DEF AuditTrail, TypeOK, JobIds
  <2>5. \A x \in Workers : x # w /\ pc'[x] = "finish" => pc[x] = "finish" /\ job[x].id \in JobIds
    BY <1>3 DEF RecordJobRun, TypeOK, Exclusion, BusyHasJob, Busy, Job
  <2> QED
    BY <2>1, <2>3, <2>4, <2>5 DEF Recorded
<1>4. CASE FinishWriteback(w)
  <2>1. UNCHANGED <<lastId, runs, moved>> /\ pc[w] = "finish"
    BY <1>4 DEF FinishWriteback
  <2>2. outcome[w] \in {"ok", "err"} /\ outcome[w] \in runs[job[w].id]
    BY <2>1 DEF Ended, Recorded
  <2>3. \A i \in JobIds : \/ queue'[i] = queue[i]
                          \/ i = job[w].id /\ outcome[w] = "ok" /\ queue'[i] = NoRow
                          \/ i = job[w].id /\ outcome[w] = "err" /\ queue'[i].status = "failed"
    BY <1>4, <2>2 DEF FinishWriteback, TypeOK, Turned
  <2>4. AuditTrail'
    BY <2>1, <2>2, <2>3, BoundsAssumption DEF AuditTrail, NoRow, TypeOK, JobIds
  <2>5. \A x \in Workers : pc'[x] = "finish" => pc[x] = "finish" /\ job'[x] = job[x]
                                               /\ outcome'[x] = outcome[x]
    BY <1>4 DEF FinishWriteback, Done, TypeOK
  <2> QED
    BY <2>1, <2>4, <2>5 DEF Recorded
<1>5. CASE RequeueWriteback(w)
  <2>1. runs' = runs /\ lastId' = lastId + 1 /\ moved' = moved \cup {job[w].id}
    BY <1>5 DEF RequeueWriteback
  <2>2. \A i \in JobIds : \/ queue'[i] = queue[i] /\ i # lastId + 1
                          \/ i = job[w].id
                          \/ i = lastId + 1 /\ queue'[i].status = "pending"
    BY <1>5 DEF RequeueWriteback, TypeOK, Turned
  <2>3. queue'[job[w].id] = NoRow \/ job[w].id \notin JobIds
    BY <1>5 DEF RequeueWriteback, TypeOK
  <2>4. AuditTrail'
    <3> SUFFICES ASSUME NEW i \in 1 .. lastId'
                 PROVE  /\ queue'[i] = NoRow => runs'[i] # {} \/ i \in moved'
                        /\ queue'[i].status = "failed" => "err" \in runs'[i]
      BY DEF AuditTrail
    <3>1. i \in JobIds /\ lastId \in Nat /\ i \in Nat /\ i <= lastId + 1
      BY <2>1, BoundsAssumption DEF TypeOK, JobIds
    <3>2. CASE queue'[i] = queue[i] /\ i # lastId + 1
      BY <2>1, <3>1, <3>2 DEF AuditTrail
    <3>3. CASE i = job[w].id
      BY <2>1, <2>3, <3>1, <3>3 DEF NoRow
    <3>4. CASE queue'[i].status = "pending"
      BY <3>4 DEF NoRow
    <3> QED
      BY <2>2, <3>1, <3>2, <3>3, <3>4
  <2>5. \A x \in Workers : pc'[x] = "finish" => pc[x] = "finish" /\ job'[x] = job[x]
                                               /\ outcome'[x] = outcome[x]
    BY <1>5 DEF RequeueWriteback, Done, TypeOK
  <2> QED
    BY <2>1, <2>4, <2>5 DEF Recorded
<1> QED
  BY <1>1, <1>2, <1>3, <1>4, <1>5 DEF Worker

LEMMA AuditedNext == TypeOK /\ TypeOK' /\ Ended /\ Exclusion /\ Audited /\ [Next]_vars => Audited'
<1> SUFFICES ASSUME TypeOK, TypeOK', Ended, Exclusion, Audited, [Next]_vars PROVE Audited'
  OBVIOUS
<1> USE DEF Audited
<1>1. CASE Boot
  <2>1. UNCHANGED <<table, outcome, runs, moved, job>>
        /\ \A x \in Workers : pc'[x] = "finish" => pc[x] = "finish"
    BY <1>1 DEF Boot, TypeOK
  <2> QED
    BY <2>1 DEF table, AuditTrail, Recorded
<1>2. CASE Start
  <2>1. UNCHANGED <<lastId, outcome, runs, moved, job>>
        /\ \A x \in Workers : pc'[x] = "finish" => pc[x] = "finish"
    BY <1>2 DEF Start
  <2>2. \A i \in JobIds : queue'[i] = queue[i] \/ queue'[i].status = "pending"
    BY <1>2 DEF Start, Turned
  <2>3. AuditTrail'
    BY <2>1, <2>2, AuditKept
  <2> QED
    BY <2>1, <2>3 DEF Recorded
<1>3. CASE Crash
  BY <1>3 DEF Crash, table, AuditTrail, Recorded
<1>4. CASE UNCHANGED vars
  BY <1>4 DEF vars, AuditTrail, Recorded
<1> QED
  BY <1>1, <1>2, <1>3, <1>4, ApiChanges, AuditedApi, AuditedStep DEF Next

\* A row that is gone or failed has its run in job_runs, or was replaced.
THEOREM Audit == Spec => []AuditTrail
<1>1. Audited => AuditTrail
  BY DEF Audited
<1>2. TypeOK /\ Ended /\ Exclusion /\ Audited /\ [Next]_vars
        => (TypeOK /\ Ended /\ Exclusion /\ Audited)'
  BY TypeNext, EndedNext, ExclusionNext, AuditedNext
<1> QED
  BY <1>1, <1>2, TypeInit, ExclusionInit, AuditedInit, PTL DEF Spec
-----------------------------------------------------------------------------
\* Order.  A row that was never tried must not have been overtaken: the
\* invariant adds that a row which ran, or is in a worker's hands, was tried.
Tried ==
    /\ \A i \in JobIds : queue[i].status \in {"running", "failed"} => queue[i].attempts > 0
    /\ \A w \in Workers : Busy(w) => queue[job[w].id].attempts > 0

Ordered == NeverOvertaken /\ Tried

LEMMA OrderedInit == Init => Ordered
BY DEF Init, Ordered, NeverOvertaken, Tried, NoRow, Busy

LEMMA OrderedApi ==
    ASSUME TypeOK, Exclusion, Ordered, ApiChange PROVE Ordered'
<1> USE DEF Ordered
<1>1. UNCHANGED <<pc, job>> /\ \A i \in JobIds : i \in Nat /\ lastId \in Nat
  BY BoundsAssumption DEF ApiChange, workers, JobIds, TypeOK
<1>2. \A i \in JobIds : queue'[i].status \in {"running", "failed"} => queue'[i] = queue[i]
  <2>1. \A r, n : Turned(r, "pending", n).status = "pending" /\ NoRow.status = "none"
    BY DEF Turned, NoRow
  <2> QED
    BY <2>1 DEF ApiChange
<1>3. ASSUME NEW i \in JobIds, queue[i].status \in {"pending", "running"}
      PROVE  queue'[i] = queue[i] /\ i <= lastId
  BY <1>1, <1>3 DEF ApiChange, TypeOK, NoRow
<1>4. Tried'
  <2>1. \A w \in Workers : Busy(w)' => Busy(w) /\ job[w].id \in JobIds
                 /\ queue[job[w].id].status \in {"pending", "running"}
    BY <1>1 DEF Busy, Exclusion, ClaimHeld, BusyHasJob, Job
  <2> QED
    BY <1>1, <1>2, <1>3, <2>1 DEF Tried
<1>5. NeverOvertaken'
  <2> SUFFICES ASSUME NEW i \in JobIds, NEW j \in JobIds, i < j,
                      queue'[i].video = queue'[j].video,
                      queue'[i].status = "pending", queue'[j].status = "running",
                      LaneOfKind(queue'[i].kind) = LaneOfKind(queue'[j].kind)
               PROVE  queue'[i].attempts > 0
    BY DEF NeverOvertaken, LaneOfKind
  <2>1. queue'[j] = queue[j] /\ j <= lastId
    BY <1>2, <1>3
  <2>2. i <= lastId
    BY <1>1, <2>1
  <2>3. CASE queue'[i] = queue[i]
    BY <2>1, <2>3 DEF NeverOvertaken
  <2>4. CASE queue[i].status = "failed" /\ queue'[i] = Turned(queue[i], "pending", queue[i].attempts)
    BY <2>4 DEF Tried, Turned
  <2> QED
    BY <1>1, <2>2, <2>3, <2>4 DEF ApiChange, NoRow
<1> QED
  BY <1>4, <1>5

\* Claiming takes the oldest row it may: an older row of the same video and
\* lane could have been claimed instead.
LEMMA OrderedClaim ==
    ASSUME TypeOK, Exclusion, Ordered, NEW w \in Workers, Claim(w) PROVE Ordered'
<1> USE DEF Ordered
<1>1. PICK n \in OldestOf(Claimable(w)) :
        /\ queue' = [queue EXCEPT ![n] = Turned(@, "running", @.attempts + 1)]
        /\ job' = [job EXCEPT ![w] = [id |-> n, video |-> queue[n].video,
                                      kind |-> queue[n].kind]]
  BY DEF Claim
<1>2. /\ n \in JobIds /\ queue[n] \in Row /\ queue[n].status = "pending"
      /\ LaneOfKind(queue[n].kind) = LaneOf(w) /\ ~Running(queue[n].video)
      /\ \A i \in Claimable(w) : n <= i
  BY <1>1, RowThere DEF OldestOf, Claimable
<1>3. /\ queue'[n].attempts = queue[n].attempts + 1 /\ queue'[n].status = "running"
      /\ queue'[n].video = queue[n].video /\ queue'[n].kind = queue[n].kind
      /\ \A i \in JobIds : i # n => queue'[i] = queue[i]
  BY <1>1, <1>2 DEF Turned, TypeOK
<1>4. queue[n].attempts \in Nat /\ queue'[n].attempts > 0
  BY <1>2, <1>3 DEF Row
<1>5. Tried'
  <2>1. ASSUME NEW x \in Workers, Busy(x)', x # w
        PROVE  Busy(x) /\ job'[x] = job[x] /\ job[x].id \in JobIds
    BY <1>1, <2>1 DEF Claim, Busy, TypeOK, Exclusion, BusyHasJob, Job
  <2>2. job'[w].id = n
    BY <1>1 DEF TypeOK
  <2>3. ASSUME NEW x \in Workers, Busy(x)' PROVE queue'[job'[x].id].attempts > 0
    <3>1. CASE x = w
      BY <1>4, <2>2, <3>1
    <3>2. CASE x # w
      <4>1. queue[job[x].id].attempts > 0 /\ job'[x] = job[x] /\ job[x].id \in JobIds
        BY <2>1, <2>3, <3>2 DEF Tried
      <4> QED
        BY <1>3, <1>4, <4>1
    <3> QED
      BY <3>1, <3>2
  <2> QED
    BY <1>3, <1>4, <2>3 DEF Tried
<1>6. NeverOvertaken'
  <2> SUFFICES ASSUME NEW i \in JobIds, NEW j \in JobIds, i < j,
                      queue'[i].video = queue'[j].video,
                      queue'[i].status = "pending", queue'[j].status = "running",
                      LaneOfKind(queue'[i].kind) = LaneOfKind(queue'[j].kind)
               PROVE  queue'[i].attempts > 0
    BY DEF NeverOvertaken, LaneOfKind
  <2>1. i # n /\ queue'[i] = queue[i]
    BY <1>3
  <2>2. CASE j = n
    <3>1. i \in Claimable(w)
      BY <1>2, <1>3, <2>1, <2>2 DEF Claimable
    <3> QED
      BY <1>2, <2>2, <3>1, BoundsAssumption DEF JobIds
  <2>3. CASE j # n
    BY <1>3, <2>1, <2>3 DEF NeverOvertaken
  <2> QED
    BY <2>2, <2>3
<1> QED
  BY <1>5, <1>6

\* A worker that lets go of its job fails it, deletes it, or moves it behind
\* every row there is.
LEMMA OrderedDone ==
    ASSUME TypeOK, Exclusion, Ordered, NEW w \in Workers,
           FinishWriteback(w) \/ RequeueWriteback(w)
    PROVE  Ordered'
<1> USE DEF Ordered
<1> DEFINE n == job[w].id
           row == queue[n]
<1>1. Busy(w) /\ Done(w) /\ n \in JobIds
  BY DEF FinishWriteback, RequeueWriteback, Busy, Exclusion, BusyHasJob, Job
<1>2. row.attempts > 0 /\ row.status # "none"
  BY <1>1 DEF Tried, Exclusion, ClaimHeld
<1>3. row \in Row /\ row.attempts \in Nat
  BY <1>1, <1>2, RowThere DEF Row
<1>4. \A i \in JobIds :
        \/ queue'[i] = queue[i] /\ i # n
        \/ i = n /\ queue'[i].status = "none"
        \/ i = n /\ queue'[i].status = "failed" /\ queue'[i].attempts = row.attempts
        \/ i # n /\ i > lastId /\ queue'[i].status = "pending"
           /\ queue'[i].attempts = row.attempts
  <2>1. CASE FinishWriteback(w)
    <3>1. queue' = [queue EXCEPT ![n] = IF outcome[w] = "ok" \/ row = NoRow THEN NoRow
                                        ELSE Turned(row, "failed", row.attempts)]
      BY <2>1, <1>1 DEF FinishWriteback, TypeOK
    <3>2. NoRow.status = "none" /\ Turned(row, "failed", row.attempts).status = "failed"
          /\ Turned(row, "failed", row.attempts).attempts = row.attempts
      BY DEF NoRow, Turned
    <3> HIDE DEF n, row
    <3> QED
      BY <1>1, <3>1, <3>2 DEF TypeOK
  <2>2. CASE RequeueWriteback(w)
    <3>1. /\ queue' = [queue EXCEPT ![lastId + 1] = Turned(row, "pending", row.attempts),
                                    ![n] = NoRow]
          /\ lastId \in Nat /\ lastId + 1 > lastId
      BY <2>2 DEF RequeueWriteback, TypeOK
    <3>2. NoRow.status = "none" /\ Turned(row, "pending", row.attempts).status = "pending"
          /\ Turned(row, "pending", row.attempts).attempts = row.attempts
      BY DEF NoRow, Turned
    <3> HIDE DEF n, row
    <3> QED
      BY <1>1, <3>1, <3>2 DEF TypeOK
  <2> QED
    BY <2>1, <2>2
<1>5. /\ ~Busy(w)'
      /\ \A x \in Workers : Busy(x)' => x # w /\ Busy(x) /\ job'[x] = job[x]
  BY <1>1 DEF Done, Busy, TypeOK
<1>6. Tried'
  <2>1. ASSUME NEW x \in Workers, Busy(x)'
        PROVE  queue'[job[x].id] = queue[job[x].id] /\ queue[job[x].id].attempts > 0
    <3>1. job[x].id \in JobIds /\ job[x].id # n /\ queue[job[x].id].attempts > 0
      BY <1>1, <1>5, <2>1 DEF Exclusion, DistinctJobs, BusyHasJob, Job, Tried
    <3>2. queue[job[x].id].status # "none"
      BY <1>5, <2>1 DEF Exclusion, ClaimHeld
    <3>3. ~(job[x].id > lastId)
      BY <3>1, <3>2 DEF TypeOK, NoRow
    <3> QED
      BY <1>4, <3>1, <3>3
  <2>2. \A i \in JobIds : queue'[i].status \in {"running", "failed"} => queue'[i].attempts > 0
    BY <1>2, <1>4 DEF Tried
  <2> QED
    BY <1>5, <2>1, <2>2 DEF Tried
<1>7. NeverOvertaken'
  <2> SUFFICES ASSUME NEW i \in JobIds, NEW j \in JobIds, i < j,
                      queue'[i].video = queue'[j].video,
                      queue'[i].status = "pending", queue'[j].status = "running",
                      LaneOfKind(queue'[i].kind) = LaneOfKind(queue'[j].kind)
               PROVE  queue'[i].attempts > 0
    BY DEF NeverOvertaken, LaneOfKind
  <2>1. queue'[j] = queue[j]
    BY <1>4
  <2>2. CASE queue'[i] = queue[i]
    BY <2>1, <2>2 DEF NeverOvertaken
  <2>3. CASE queue'[i].attempts = row.attempts
    BY <1>2, <2>3
  <2> QED
    BY <1>4, <2>2, <2>3
<1> QED
  BY <1>6, <1>7

LEMMA OrderedNext == TypeOK /\ Exclusion /\ Ordered /\ [Next]_vars => Ordered'
<1> SUFFICES ASSUME TypeOK, Exclusion, Ordered, [Next]_vars PROVE Ordered'
  OBVIOUS
<1> USE DEF Ordered
<1>1. ASSUME NEW w \in Workers,
             \/ Rest(w) \/ Wake(w) \/ Poll(w) \/ RecordJobRun(w)
             \/ \E o \in {"ok", "err"} : Work(w, o)
      PROVE  Ordered'
  <2>1. UNCHANGED <<queue, job>> /\ \A x \in Workers : Busy(x)' => Busy(x)
    BY <1>1 DEF Rest, Wake, Poll, Work, RecordJobRun, table, Busy, TypeOK
  <2> QED
    BY <2>1 DEF NeverOvertaken, Tried, LaneOfKind
<1>2. CASE Boot \/ Crash \/ UNCHANGED vars
  <2>1. UNCHANGED queue /\ \A x \in Workers : Busy(x)' => Busy(x) /\ job'[x] = job[x]
    BY <1>2 DEF Boot, Crash, vars, table, Busy, TypeOK
  <2> QED
    BY <2>1 DEF NeverOvertaken, Tried, LaneOfKind
<1>3. CASE Start
  <2>1. \A i \in JobIds : queue'[i].status # "running" /\ queue'[i].attempts = queue[i].attempts
                          /\ (queue'[i].status = "failed" => queue[i].status = "failed")
    BY <1>3 DEF Start, Turned
  <2>2. \A x \in Workers : Busy(x)' => Busy(x) /\ job'[x] = job[x] /\ job[x].id \in JobIds
    BY <1>3 DEF Start, Busy, Workers, Exclusion, BusyHasJob, Job
  <2> QED
    BY <2>1, <2>2 DEF NeverOvertaken, Tried
<1>4. CASE Api
  BY <1>4, ApiChanges, OrderedApi
<1> QED
  BY <1>1, <1>2, <1>3, <1>4, OrderedClaim, OrderedDone DEF Next, Worker

\* No tag-lane job runs while an older one of its file waits for its first try.
THEOREM InOrder == Spec => []NeverOvertaken
<1>1. Ordered => NeverOvertaken
  BY DEF Ordered
<1>2. TypeOK /\ Ended /\ Exclusion /\ Ordered /\ [Next]_vars
        => (TypeOK /\ Ended /\ Exclusion /\ Ordered)'
  BY TypeNext, EndedNext, ExclusionNext, OrderedNext
<1> QED
  BY <1>1, <1>2, TypeInit, ExclusionInit, OrderedInit, PTL DEF Spec
====
