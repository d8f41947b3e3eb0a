--------------------------- MODULE Library_proofs ---------------------------
(***************************************************************************)
(* The rows of the library, for any disk, any number of rows and of events: *)
(* no path has two rows, only the owner restores, edits follow a fold, and  *)
(* after a quiet pass the rows mirror the disk and a moved file has its row. *)
(***************************************************************************)
EXTENDS Library, FiniteSetTheorems, WellFoundedInduction, TLAPS

\* A bounded set of numbers has a greatest one.
LEMMA MaxOf ==
    ASSUME NEW S \in SUBSET Nat, S # {}, NEW b \in Nat, \A x \in S : x <= b
    PROVE  Max(S) \in S /\ \A x \in S : x <= Max(S)
<1> DEFINE R == {ss \in Nat \X Nat : ss[1] < ss[2]}
           T == {n \in Nat : \A x \in S : x <= n}
<1>1. IsWellFoundedOn(R, Nat)
  BY NatLessThanWellFounded DEF OpToRel
<1>2. b \in T /\ T \subseteq Nat
  OBVIOUS
<1> HIDE DEF R
<1>3. PICK m \in T : \A n \in T : ~(<<n, m>> \in R)
  BY <1>1, <1>2, WFMin
<1>4. m \in S
  <2>1. SUFFICES ASSUME m \notin S PROVE FALSE
    OBVIOUS
  <2>2. m \in Nat /\ \A x \in S : x < m
    BY <2>1
  <2>3. PICK y \in S : y \in Nat /\ y < m
    BY <2>2
  <2>4. m - 1 \in Nat /\ \A x \in S : x <= m - 1
    BY <2>2, <2>3
  <2>5. m - 1 \in T /\ <<m - 1, m>> \in R
    BY <2>2, <2>4 DEF R
  <2> QED
    BY <1>3, <2>5
<1>5. \A x \in S : m >= x
  OBVIOUS
<1>6. Max(S) \in S /\ \A y \in S : Max(S) >= y
  BY <1>4, <1>5 DEF Max
<1> QED
  BY <1>6

(***************************************************************************)
(* The inductive invariant.  A new file in a worker's hands, or held until  *)
(* the walk ends, is of a path without a row; no path is in two hands, nor  *)
(* still ahead of the walk.                                                 *)
(***************************************************************************)
Fresh == \A i \in Rows : i <= lastId /\ row[i].edit <= events

Phases ==
    /\ pc # "walk" => todo = {} /\ jobs = {}
    /\ pc \in {"idle", "fold"} => held = {}

Apart ==
    /\ \A f \in held : At(f.path) = {}
    /\ \A j \in jobs : ~j.known => At(j.path) = {}
    /\ \A f \in jobs \cup held : f.path \notin todo
    /\ \A j, k \in jobs : j.path = k.path => j = k
    /\ \A j, k \in held : j.path = k.path => j = k
    /\ \A j \in jobs, h \in held : j.path # h.path

Inv == TypeOK /\ Fresh /\ Phases /\ Apart /\ OneRowPerPath

\* Rows may go, and none moves.
RowsStay == \A i \in Rows' : i \in Rows /\ row'[i].path = row[i].path

LEMMA StayApart ==
    ASSUME Inv, RowsStay, jobs' \subseteq jobs, held' \subseteq held, todo' \subseteq todo
    PROVE  Apart' /\ OneRowPerPath'
<1>1. OneRowPerPath'
  BY DEF Inv, RowsStay, OneRowPerPath
<1>2. \A p : At(p)' \subseteq At(p)
  BY DEF RowsStay, At
<1> QED
  BY <1>1, <1>2 DEF Inv, Apart

LEMMA NoRowChange == ASSUME Inv, UNCHANGED <<row, lastId>>, events' >= events, events' \in Nat
                     PROVE  RowsStay /\ row' \in [Id -> Row \cup {Nothing}] /\ lastId' \in 0 .. MaxRow
                            /\ Fresh'
<1>1. \A i \in Rows : row[i].edit \in Nat /\ events \in Nat
  BY BoundsAssumption DEF Inv, TypeOK, Rows, Row
<1> QED
  BY <1>1 DEF Inv, TypeOK, RowsStay, Rows, Fresh

\* One row is rewritten in place.
LEMMA RowChange ==
    ASSUME Inv, NEW i \in Rows, NEW r \in Row, r.path = row[i].path, r.edit <= events',
           row' = [row EXCEPT ![i] = r], UNCHANGED lastId, events' >= events, events' \in Nat
    PROVE  /\ RowsStay /\ row' \in [Id -> Row \cup {Nothing}] /\ lastId' \in 0 .. MaxRow
           /\ Fresh'
<1>1. \A j \in Rows : row[j].edit \in Nat /\ events \in Nat
  BY BoundsAssumption DEF Inv, TypeOK, Rows, Row
<1>2. i \in Id /\ row' \in [Id -> Row \cup {Nothing}] /\ \A j \in Id : j # i => row'[j] = row[j]
  BY DEF Inv, TypeOK, Rows
<1>3. row'[i] = r
  BY <1>2 DEF Inv, TypeOK
<1>4. RowsStay
  BY <1>2, <1>3 DEF RowsStay, Rows
<1>5. Fresh'
  BY <1>1, <1>2, <1>3, <1>4 DEF Inv, Fresh, RowsStay
<1> QED
  BY <1>2, <1>4, <1>5 DEF Inv, TypeOK

LEMMA RowTyped == ASSUME Inv, NEW i \in Rows
                  PROVE  /\ i \in Id /\ row[i] \in Row /\ row[i].edit \in Nat /\ row[i].edit <= events
                         /\ events \in 0 .. MaxEvent
                         /\ row[i].path \in Path /\ row[i].content \in Content
BY BoundsAssumption DEF Inv, TypeOK, Fresh, Rows, Row

\* An event is one of those the bound allows.
LEMMA Events == ASSUME Inv
                PROVE  /\ events \in Nat /\ events >= events
                       /\ Event => events' \in 0 .. MaxEvent /\ events' >= events /\ events' \in Nat
                                   /\ events' = events + 1
BY BoundsAssumption DEF Inv, TypeOK, Event

LEMMA FilesInv ==
    ASSUME Inv,
           \/ \E p \in Path : Take(p) \/ (\E c \in Content : Put(p, c)) \/ (\E q \in Path : Move(p, q))
    PROVE  Inv'
<1>1. UNCHANGED <<table, pass, purging>> /\ Event /\ Disturb
  BY DEF Take, Put, Move, World
<1>2. Fresh' /\ RowsStay
  BY <1>1, Events, NoRowChange DEF table
<1>3. home' \in [Content -> Id \cup {Nothing}]
  BY DEF Take, Put, Move, Forget, Inv, TypeOK
<1>4. disk' \in [Path -> Content \cup {Nothing}]
  BY DEF Take, Put, Move, Inv, TypeOK
<1>5. TypeOK'
  BY <1>1, <1>3, <1>4, Events DEF Inv, TypeOK, table, pass, Disturb
<1>6. Apart' /\ OneRowPerPath'
  BY <1>1, <1>2, StayApart DEF pass
<1> QED
  BY <1>1, <1>2, <1>5, <1>6 DEF Inv, Phases, pass

\* The steps of a pass that write no row.
LEMMA PassInv ==
    ASSUME Inv,
           \/ StartPass \/ EndWalk \/ EndPass
           \/ \E p \in Path : WalkPast(p) \/ IndexTrashed(p) \/ IndexYoung(p) \/ IndexRead(p)
                              \/ IndexFails(p)
           \/ \E P \in SUBSET Path : WalkSkips(P)
           \/ \E j \in jobs : IndexHold(j)
           \/ \E q \in folds : FoldHeldBack(q[1], q[2])
    PROVE  Inv'
<1>1. UNCHANGED <<disk, table, purging, home>>
  BY DEF StartPass, EndWalk, EndPass, WalkPast, IndexTrashed, IndexYoung, IndexRead, IndexFails,
         WalkSkips, IndexHold, FoldHeldBack, hist
<1>2. (UNCHANGED <<events, quiet, settled>> \/ Fault \/ StartPass \/ EndPass)
  BY DEF EndWalk, WalkPast, IndexTrashed, IndexYoung, IndexRead, IndexFails,
         WalkSkips, IndexHold, FoldHeldBack, hist
<1>3. events' \in 0 .. MaxEvent /\ events' >= events /\ events' \in Nat /\ {quiet', settled'} \subseteq BOOLEAN
  BY <1>2, Events DEF Fault, Disturb, StartPass, EndPass, Inv, TypeOK
<1>4. Fresh' /\ RowsStay
  BY <1>1, <1>3, NoRowChange DEF table
<1>5. \A p : At(p)' = At(p)
  BY <1>1 DEF At, Rows, table
<1>6. CASE \E p \in Path : IndexRead(p)
  <2>1. PICK p \in Path : IndexRead(p)
    BY <1>6
  <2> DEFINE j == [path |-> p, content |-> disk[p], known |-> At(p) # {}]
  <2>2. j \in [path : Path, content : Content, known : BOOLEAN]
    BY <2>1 DEF IndexRead, Saw, Inv, TypeOK
  <2>3. /\ jobs' = jobs \cup {j} /\ todo' = todo \ {p} /\ p \in todo /\ anyFile' = TRUE
        /\ pc = "walk" /\ UNCHANGED <<pc, seen, held, cand, folds>>
    BY <2>1 DEF IndexRead, Saw
  <2>4. j.path = p /\ (j.known <=> At(p) # {})
    OBVIOUS
  <2> HIDE DEF j
  <2>5. TypeOK'
    BY <1>1, <1>3, <2>2, <2>3 DEF Inv, TypeOK, table
  <2>6. Phases'
    BY <2>3 DEF Inv, Phases
  <2>7. Apart'
    BY <1>5, <2>3, <2>4 DEF Inv, Apart
  <2> QED
    BY <1>1, <1>4, <2>5, <2>6, <2>7 DEF Inv, OneRowPerPath, Rows, table
<1>7. CASE \E j \in jobs : IndexHold(j)
  <2>1. PICK j \in jobs : IndexHold(j)
    BY <1>7
  <2> DEFINE h == [path |-> j.path, content |-> j.content]
  <2>2. h \in [path : Path, content : Content] /\ h.path = j.path
    BY DEF Inv, TypeOK
  <2>3. /\ ~j.known /\ jobs' = jobs \ {j} /\ held' = held \cup {h}
        /\ UNCHANGED <<pc, todo, seen, anyFile, cand, folds>>
    BY <2>1 DEF IndexHold
  <2> HIDE DEF h
  <2>5. TypeOK'
    BY <1>1, <1>3, <2>2, <2>3 DEF Inv, TypeOK, table
  <2>6. Phases'
    BY <2>3 DEF Inv, Phases
  <2>7. Apart'
    BY <1>5, <2>2, <2>3 DEF Inv, Apart
  <2> QED
    BY <1>1, <1>4, <2>5, <2>6, <2>7 DEF Inv, OneRowPerPath, Rows, table
<1>8. CASE StartPass
  <2>1. TypeOK' /\ Phases'
    BY <1>1, <1>3, <1>8 DEF StartPass, Inv, TypeOK, Phases, table
  <2>2. Apart'
    BY <1>5, <1>8 DEF StartPass, Inv, Apart, Phases
  <2> QED
    BY <1>1, <1>4, <2>1, <2>2 DEF Inv, OneRowPerPath, Rows, table
<1>9. CASE EndWalk \/ EndPass
  <2>1. TypeOK'
    <3>1. DOMAIN cand' \subseteq [path : Path, content : Content]
      <4>1. DOMAIN <<>> = {}
        OBVIOUS
      <4> QED
        BY <1>9, <4>1 DEF EndWalk, EndPass, Inv, TypeOK
    <3>2. pc' \in {"idle", "match"} /\ UNCHANGED <<todo, jobs, held, folds>>
          /\ seen' \in {seen, {}} /\ anyFile' \in BOOLEAN
      BY <1>9 DEF EndWalk, EndPass, Inv, TypeOK
    <3> QED
      BY <1>1, <1>3, <3>1, <3>2 DEF Inv, TypeOK, table
  <2>2. Phases' /\ UNCHANGED <<jobs, held, todo>>
    BY <1>9 DEF EndWalk, EndPass, Inv, Phases
  <2> QED
    BY <1>4, <2>1, <2>2, StayApart DEF Inv
<1>10. CASE \/ \E p \in Path : WalkPast(p) \/ IndexTrashed(p) \/ IndexYoung(p) \/ IndexFails(p)
            \/ \E P \in SUBSET Path : WalkSkips(P)
            \/ \E q \in folds : FoldHeldBack(q[1], q[2])
  <2>1. /\ UNCHANGED <<pc, jobs, held, cand>> /\ todo' \subseteq todo /\ folds' \subseteq folds
        /\ seen' \subseteq Id /\ anyFile' \in BOOLEAN
    BY <1>10 DEF WalkPast, IndexTrashed, IndexYoung, IndexFails, WalkSkips, FoldHeldBack, Saw, Inv,
                 TypeOK, At, Rows
  <2>2. TypeOK' /\ Phases'
    BY <1>1, <1>3, <2>1 DEF Inv, TypeOK, Phases, table
  <2> QED
    BY <1>4, <2>1, <2>2, StayApart DEF Inv
<1> QED
  BY <1>6, <1>7, <1>8, <1>9, <1>10

\* An edit is the newest of all, and otherwise leaves its row as it is.
LEMMA Edited ==
    ASSUME Inv, NEW i \in Id, Edit(i)
    PROVE  /\ i \in Rows
           /\ \E r \in Row : /\ row' = [row EXCEPT ![i] = r] /\ r.edit <= events'
                             /\ r.path = row[i].path /\ r.trash = row[i].trash
<1> DEFINE m == Max({row[j].edit : j \in Rows})
           r == [row[i] EXCEPT !.edit = 1 + m]
<1>1. i \in Rows
  BY DEF Edit, Visible, Live
<1>2. m \in Nat /\ m <= events
  <2>1. \A j \in Rows : row[j].edit \in Nat /\ row[j].edit <= events /\ events \in Nat
    BY RowTyped
  <2> DEFINE S == {row[j].edit : j \in Rows}
  <2>2. S \in SUBSET Nat /\ S # {} /\ (\A x \in S : x <= events) /\ events \in Nat
    BY <1>1, <2>1
  <2> HIDE DEF S
  <2>3. Max(S) \in S
    BY <2>2, MaxOf
  <2> QED
    BY <2>2, <2>3 DEF S
<1>3. events' = events + 1 /\ events \in Nat /\ events' \in 0 .. MaxEvent
  BY Events DEF Edit
<1>4. row' = [row EXCEPT ![i] = r]
  BY DEF Edit
<1> HIDE DEF m
<1>5. 1 + m \in 0 .. MaxEvent /\ 1 + m <= events'
  BY <1>2, <1>3, BoundsAssumption
<1>6. r \in Row /\ r.path = row[i].path /\ r.trash = row[i].trash /\ r.edit = 1 + m
  BY <1>1, <1>5, RowTyped DEF Row
<1> HIDE DEF r
<1> QED
  BY <1>1, <1>4, <1>5, <1>6

\* The steps of Trash and the purge, and an edit: a row may go, or change in place.
LEMMA OwnerInv ==
    ASSUME Inv, Trash \/ \E i \in Id : Edit(i)
    PROVE  Inv'
<1>1. UNCHANGED <<lastId, pass>>
  BY DEF Trash, Edit, SoftDelete, Restore, PurgeNow, Sweep, PurgeTrash, PurgeFile, PurgeFails,
         HardDelete, table
<1>2. events' \in 0 .. MaxEvent /\ events' >= events /\ events' \in Nat
  BY Events DEF Trash, Edit, SoftDelete, Restore, PurgeNow, Sweep, PurgeTrash, PurgeFile, PurgeFails,
         HardDelete, Fault, Inv, TypeOK
<1>3. {quiet', settled'} \subseteq BOOLEAN
  BY DEF Trash, Edit, SoftDelete, Restore, PurgeNow, Sweep, PurgeTrash, PurgeFile, PurgeFails,
         HardDelete, Fault, Disturb, hist, Inv, TypeOK
<1>4. home' \in [Content -> Id \cup {Nothing}]
  BY DEF Trash, Edit, SoftDelete, Restore, PurgeNow, Sweep, PurgeTrash, PurgeFile, PurgeFails,
         HardDelete, Forget, hist, Inv, TypeOK
<1>5. disk' \in [Path -> Content \cup {Nothing}]
  BY DEF Trash, Edit, SoftDelete, Restore, PurgeNow, Sweep, PurgeTrash, PurgeFile, PurgeFails,
         HardDelete, Inv, TypeOK
<1>6. purging' \subseteq Purging
  <2>1. CASE Sweep
    BY <2>1, RowTyped DEF Sweep, Purging, Inv, TypeOK
  <2>2. ASSUME NEW i \in Id, PurgeNow(i) PROVE purging' \subseteq Purging
    BY <2>2, RowTyped DEF PurgeNow, Purging, Inv, TypeOK
  <2>3. ASSUME NEW t \in purging, PurgeTrash(t) \/ PurgeFile(t) PROVE purging' \subseteq Purging
    <3>1. t \in Purging
      BY DEF Inv, TypeOK
    <3>2. [t EXCEPT !.step = "file"] \in Purging /\ [t EXCEPT !.step = "row"] \in Purging
      BY <3>1 DEF Purging
    <3> QED
      BY <2>3, <3>2 DEF PurgeTrash, PurgeFile, Inv, TypeOK
  <2>4. CASE purging' \subseteq purging
    BY <2>4 DEF Inv, TypeOK
  <2> QED
    BY <2>1, <2>2, <2>3, <2>4 DEF Trash, Edit, SoftDelete, Restore, PurgeFails, HardDelete
<1>7. RowsStay /\ row' \in [Id -> Row \cup {Nothing}] /\ lastId' \in 0 .. MaxRow /\ Fresh'
  <2>1. CASE UNCHANGED row
    BY <1>1, <1>2, <2>1, NoRowChange
  <2>2. ASSUME NEW i \in Rows, NEW s \in {"live", "trash"},
               row' = [row EXCEPT ![i] = [row[i] EXCEPT !.trash = s]]
        PROVE  RowsStay /\ row' \in [Id -> Row \cup {Nothing}] /\ lastId' \in 0 .. MaxRow /\ Fresh'
    <3> DEFINE r == [row[i] EXCEPT !.trash = s]
    <3>1. r \in Row /\ r.path = row[i].path /\ r.edit = row[i].edit
      BY RowTyped DEF Row
    <3>2. r.edit <= events'
      BY <1>2, <3>1, RowTyped
    <3> HIDE DEF r
    <3>3. row' = [row EXCEPT ![i] = r]
      BY <2>2 DEF r
    <3> QED
      BY <1>1, <1>2, <3>1, <3>2, <3>3, RowChange
  <2>3. ASSUME NEW i \in Id, Edit(i)
        PROVE  RowsStay /\ row' \in [Id -> Row \cup {Nothing}] /\ lastId' \in 0 .. MaxRow /\ Fresh'
    BY <1>1, <1>2, <2>3, Edited, RowChange
  <2>4. ASSUME NEW t \in purging, HardDelete(t)
        PROVE  RowsStay /\ row' \in [Id -> Row \cup {Nothing}] /\ lastId' \in 0 .. MaxRow /\ Fresh'
    <3>1. t.id \in Id
      BY DEF Inv, TypeOK, Purging
    <3>2. /\ row' \in [Id -> Row \cup {Nothing}] /\ Rows' \subseteq Rows
          /\ \A i \in Rows' : row'[i] = row[i]
      BY <2>4, <3>1 DEF HardDelete, Deleted, Inv, TypeOK, Rows
    <3>3. \A i \in Rows : row[i].edit \in Nat /\ row[i].edit <= events /\ events \in Nat
      BY RowTyped
    <3>4. RowsStay
      BY <3>2 DEF RowsStay
    <3>5. Fresh'
      BY <1>1, <1>2, <3>2, <3>3 DEF Fresh, Inv
    <3> QED
      BY <1>1, <3>2, <3>4, <3>5 DEF Inv, TypeOK
  <2>5. ASSUME NEW i \in Id, SoftDelete(i) \/ Restore(i) PROVE i \in Rows /\ \E s \in {"live", "trash"} :
             row' = [row EXCEPT ![i] = [row[i] EXCEPT !.trash = s]]
    BY <2>5 DEF SoftDelete, Restore, Live
  <2>6. ASSUME NEW t \in purging, PurgeTrash(t), ~UNCHANGED row
        PROVE  t.id \in Rows /\ \E s \in {"live", "trash"} :
                  row' = [row EXCEPT ![t.id] = [row[t.id] EXCEPT !.trash = s]]
    <3>1. t.id \in Rows
      BY <2>6 DEF PurgeTrash
    <3>2. row[t.id].trash \in {"live", "trash"}
      BY <3>1, RowTyped DEF Row
    <3> QED
      BY <2>6, <3>1, <3>2 DEF PurgeTrash
  <2> QED
    BY <2>1, <2>2, <2>3, <2>4, <2>5, <2>6 DEF Trash, PurgeNow, Sweep, PurgeFile, PurgeFails, table
<1>8. Apart' /\ OneRowPerPath'
  BY <1>1, <1>7, StayApart DEF pass
<1>9. TypeOK'
  BY <1>1, <1>2, <1>3, <1>4, <1>5, <1>6, <1>7 DEF Inv, TypeOK, pass
<1> QED
  BY <1>1, <1>7, <1>8, <1>9 DEF Inv, Phases, pass

(***************************************************************************)
(* The steps of a pass that write rows.                                    *)
(***************************************************************************)
Written(d) ==
    /\ row' \in [Id -> Row \cup {Nothing}] /\ lastId' \in 0 .. MaxRow /\ Fresh'
    /\ OneRowPerPath' /\ \A q : q # d => At(q)' \subseteq At(q)

LEMMA Upserted ==
    ASSUME Inv, NEW d \in Path, NEW c \in Content, NEW fp \in BOOLEAN, UpsertVideo(d, c, fp),
           events' >= events, events' \in Nat
    PROVE  Written(d) /\ seen' \subseteq Id
<1>1. ASSUME NEW i \in At(d), row' = Stored(i, c, fp), seen' = seen \cup {i}, UNCHANGED lastId
      PROVE  Written(d) /\ seen' \subseteq Id
  <2> DEFINE r == [row[i] EXCEPT !.content = c, !.fp = fp, !.active = TRUE]
  <2>1. i \in Rows
    BY DEF At
  <2>2. r \in Row /\ r.path = row[i].path /\ r.edit = row[i].edit
    BY <2>1, RowTyped DEF Row
  <2>3. row' = [row EXCEPT ![i] = r]
    BY <1>1 DEF Stored
  <2> HIDE DEF r
  <2>4. r.edit <= events'
    BY <2>1, <2>2, RowTyped
  <2>5. RowsStay /\ row' \in [Id -> Row \cup {Nothing}] /\ lastId' \in 0 .. MaxRow /\ Fresh'
    BY <1>1, <2>1, <2>2, <2>3, <2>4, RowChange
  <2> QED
    BY <1>1, <2>1, <2>5, RowTyped DEF Written, RowsStay, OneRowPerPath, At, Inv, TypeOK
<1>2. ASSUME At(d) = {}, lastId < MaxRow, lastId' = lastId + 1,
             row' = [row EXCEPT ![lastId'] = [path |-> d, content |-> c, fp |-> fp,
                              active |-> TRUE, trash |-> "live", edit |-> 0]],
             seen' = seen \cup {lastId'}
      PROVE  Written(d) /\ seen' \subseteq Id
  <2> DEFINE r == [path |-> d, content |-> c, fp |-> fp, active |-> TRUE, trash |-> "live", edit |-> 0]
             n == lastId + 1
  <2>1. r \in Row /\ r.path = d /\ r.edit = 0
    BY BoundsAssumption DEF Row
  <2>2. row' = [row EXCEPT ![n] = r]
    BY <1>2
  <2> HIDE DEF r
  <2>3. n \in Id /\ n \in 0 .. MaxRow /\ lastId \in Nat /\ n = lastId + 1
    BY <1>2, BoundsAssumption DEF Inv, TypeOK, Id
  <2> HIDE DEF n
  <2>4. row' \in [Id -> Row \cup {Nothing}] /\ row'[n] = r /\ \A i \in Id : i # n => row'[i] = row[i]
    BY <2>1, <2>2, <2>3 DEF Inv, TypeOK
  <2>5. \A i \in Rows' : i = n \/ (i \in Rows /\ row'[i] = row[i])
    BY <2>4 DEF Rows
  <2>6. \A i \in Rows : i \in Id /\ row[i].path # d /\ row[i].edit \in Nat /\ row[i].edit <= events /\ events \in Nat
    BY <1>2, RowTyped DEF At
  <2>7. Fresh'
    BY <1>2, <2>1, <2>3, <2>4, <2>5, <2>6 DEF Fresh, Inv, Id
  <2>8. OneRowPerPath'
    BY <2>1, <2>4, <2>5, <2>6 DEF OneRowPerPath, Inv
  <2>9. \A q : q # d => At(q)' \subseteq At(q)
    BY <2>1, <2>4, <2>5 DEF At
  <2> QED
    BY <1>2, <2>3, <2>4, <2>7, <2>8, <2>9 DEF Written, Inv, TypeOK, n
<1> QED
  BY <1>1, <1>2 DEF UpsertVideo

\* The path written is in no other hand.
LEMMA WrittenApart ==
    ASSUME Inv, NEW d, Written(d), jobs' \subseteq jobs, held' \subseteq held, todo' \subseteq todo,
           \A f \in jobs' \cup held' : f.path # d
    PROVE  Apart'
BY DEF Inv, Apart, Written

LEMMA IndexInv ==
    ASSUME Inv,
           \/ \E p \in Path : IndexUnchanged(p) \/ IndexStillUnprinted(p)
           \/ \E j \in jobs : IndexCommit(j) \/ IndexUnprinted(j)
           \/ \E h \in held : MatchNew(h)
    PROVE  Inv'
<1>1. UNCHANGED <<disk, pc, cand, folds, purging, home>>
  BY DEF IndexUnchanged, IndexStillUnprinted, IndexCommit, IndexUnprinted, MatchNew, Saw, hist
<1>2. events' \in 0 .. MaxEvent /\ events' >= events /\ events' \in Nat /\ {quiet', settled'} \subseteq BOOLEAN
  BY Events DEF IndexUnchanged, IndexStillUnprinted, IndexCommit, IndexUnprinted, MatchNew, hist, Fault,
       Disturb, Inv, TypeOK
<1>3. CASE \E p \in Path : IndexUnchanged(p) \/ IndexStillUnprinted(p)
  <2>1. /\ UNCHANGED <<lastId, jobs, held>> /\ todo' \subseteq todo /\ anyFile' = TRUE
    BY <1>3 DEF IndexUnchanged, IndexStillUnprinted, Saw
  <2>2. PICK i \in Rows : /\ row' = Shown(i) \/ row' = [row EXCEPT ![i].active = TRUE]
                          /\ seen' = seen \cup {i}
    BY <1>3 DEF IndexUnchanged, IndexStillUnprinted, At
  <2>3. PICK r : /\ r = [row[i] EXCEPT !.active = TRUE, !.fp = TRUE] \/ r = [row[i] EXCEPT !.active = TRUE]
                 /\ row' = [row EXCEPT ![i] = r]
    BY <2>2 DEF Shown
  <2>4. r \in Row /\ r.path = row[i].path /\ r.edit = row[i].edit
    BY <2>3, RowTyped DEF Row
  <2>5. r.edit <= events'
    BY <1>2, <2>4, RowTyped
  <2>6. RowsStay /\ row' \in [Id -> Row \cup {Nothing}] /\ lastId' \in 0 .. MaxRow /\ Fresh'
    BY <1>2, <2>1, <2>3, <2>4, <2>5, RowChange
  <2>7. TypeOK'
    BY <1>1, <1>2, <2>1, <2>2, <2>6, RowTyped DEF Inv, TypeOK
  <2>8. Apart' /\ OneRowPerPath'
    BY <2>1, <2>6, StayApart
  <2> QED
    BY <1>1, <2>1, <2>6, <2>7, <2>8 DEF Inv, Phases
<1>4. ASSUME NEW d \in Path, NEW c \in Content, NEW fp \in BOOLEAN, UpsertVideo(d, c, fp),
             jobs' \subseteq jobs, held' \subseteq held, UNCHANGED <<todo, anyFile>>,
             \A f \in jobs' \cup held' : f.path # d
      PROVE  Inv'
  <2>1. Written(d) /\ seen' \subseteq Id
    BY <1>2, <1>4, Upserted
  <2>2. TypeOK'
    BY <1>1, <1>2, <1>4, <2>1 DEF Inv, TypeOK, Written
  <2>3. Apart'
    BY <1>4, <2>1, WrittenApart
  <2>4. Phases'
    BY <1>1, <1>4 DEF Inv, Phases
  <2> QED
    BY <2>1, <2>2, <2>3, <2>4 DEF Inv, Written
<1>5. ASSUME NEW j \in jobs, IndexCommit(j) \/ IndexUnprinted(j) PROVE Inv'
  <2>1. PICK fp \in BOOLEAN : UpsertVideo(j.path, j.content, fp)
    BY <1>5 DEF IndexCommit, IndexUnprinted
  <2>2. jobs' = jobs \ {j} /\ held' = held /\ UNCHANGED <<todo, anyFile>>
    BY <1>5 DEF IndexCommit, IndexUnprinted
  <2>3. j.path \in Path /\ j.content \in Content
    BY DEF Inv, TypeOK
  <2>4. \A f \in jobs' \cup held' : f.path # j.path
    BY <2>2 DEF Inv, Apart
  <2> QED
    BY <1>4, <2>1, <2>2, <2>3, <2>4
<1>6. ASSUME NEW h \in held, MatchNew(h) PROVE Inv'
  <2>1. UpsertVideo(h.path, h.content, TRUE) /\ jobs' = jobs /\ held' = held \ {h} /\ UNCHANGED <<todo, anyFile>>
    BY <1>6 DEF MatchNew
  <2>3. h.path \in Path /\ h.content \in Content
    BY DEF Inv, TypeOK
  <2>4. \A f \in jobs' \cup held' : f.path # h.path
    BY <2>1 DEF Inv, Apart
  <2> QED
    BY <1>4, <2>1, <2>3, <2>4
<1> QED
  BY <1>3, <1>5, <1>6

LEMMA RepointInv == ASSUME Inv, NEW h \in held, RepointVideo(h) PROVE Inv'
<1>1. PICK i \in Live :
          /\ row' = [row EXCEPT ![i].path = h.path, ![i].content = h.content,
                                ![i].fp = TRUE, ![i].active = TRUE]
          /\ seen' = seen \cup {i}
  BY DEF RepointVideo
<1>2. held' = held \ {h} /\ UNCHANGED <<disk, lastId, pc, todo, jobs, anyFile, cand, folds, purging, events, hist>>
  BY DEF RepointVideo
<1> DEFINE r == [row[i] EXCEPT !.path = h.path, !.content = h.content, !.fp = TRUE, !.active = TRUE]
<1>3. row' = [row EXCEPT ![i] = r]
  BY <1>1
<1>4. i \in Rows /\ i \in Id
  BY RowTyped DEF Live
<1>5. h.path \in Path /\ h.content \in Content /\ At(h.path) = {}
  BY DEF Inv, TypeOK, Apart
<1>6. r \in Row /\ r.path = h.path /\ r.edit = row[i].edit
  BY <1>4, <1>5, RowTyped DEF Row
<1> HIDE DEF r
<1>7. row' \in [Id -> Row \cup {Nothing}] /\ row'[i] = r /\ \A j \in Id : j # i => row'[j] = row[j]
  BY <1>3, <1>4, <1>6 DEF Inv, TypeOK
<1>8. \A j \in Rows' : j \in Rows /\ (j = i \/ row'[j] = row[j])
  BY <1>4, <1>7 DEF Rows
<1>9. Written(h.path)
  <2>1. Fresh'
    BY <1>2, <1>4, <1>6, <1>7, <1>8 DEF Inv, Fresh
  <2>2. OneRowPerPath'
    BY <1>5, <1>6, <1>7, <1>8 DEF Inv, OneRowPerPath, At
  <2>3. \A q : q # h.path => At(q)' \subseteq At(q)
    BY <1>6, <1>7, <1>8 DEF At
  <2> QED
    BY <1>2, <1>7, <2>1, <2>2, <2>3 DEF Written, Inv, TypeOK
<1>10. \A f \in jobs' \cup held' : f.path # h.path
  BY <1>2 DEF Inv, Apart
<1>11. TypeOK'
  BY <1>1, <1>2, <1>4, <1>9 DEF Inv, TypeOK, Written, hist
<1>12. Apart'
  BY <1>2, <1>9, <1>10, WrittenApart
<1> QED
  BY <1>2, <1>9, <1>11, <1>12 DEF Inv, Phases, Written

LEMMA HideInv == ASSUME Inv, DeactivateExcept PROVE Inv'
<1>1. /\ row' = [i \in Id |-> IF i \in Rows \ seen THEN [row[i] EXCEPT !.active = FALSE] ELSE row[i]]
      /\ pc = "match" /\ pc' = "fold" /\ folds' = FoldPairs' /\ held = {}
      /\ UNCHANGED <<disk, lastId, todo, jobs, seen, anyFile, held, cand, purging, events, hist>>
  BY DEF DeactivateExcept
<1>2. ASSUME NEW i \in Rows
      PROVE  row'[i] \in Row /\ row'[i].path = row[i].path /\ row'[i].edit = row[i].edit
  <2>1. row'[i] = row[i] \/ row'[i] = [row[i] EXCEPT !.active = FALSE]
    BY <1>1, RowTyped
  <2> QED
    BY <2>1, RowTyped DEF Row
<1>3. row' \in [Id -> Row \cup {Nothing}] /\ Rows' \subseteq Rows
  BY <1>1, <1>2 DEF Rows
<1>4. RowsStay /\ Fresh'
  BY <1>1, <1>2, <1>3 DEF RowsStay, Fresh, Inv
<1>5. FoldPairs' \subseteq Id \X Id
  BY DEF FoldPairs
<1>6. TypeOK'
  BY <1>1, <1>3, <1>5 DEF Inv, TypeOK, hist
<1>7. Apart' /\ OneRowPerPath'
  BY <1>1, <1>4, StayApart
<1> QED
  BY <1>1, <1>4, <1>6, <1>7 DEF Inv, Phases

\* A fold: the older row takes the newer one's path, which the newer one leaves.
LEMMA FoldInv == ASSUME Inv, NEW q \in folds, FoldMovedVideo(q[1], q[2]) PROVE Inv'
<1> DEFINE o == q[1]
           n == q[2]
<1>1. /\ folds' \subseteq folds /\ row' = IF FoldEvidence(o, n) THEN Folded(o, n) ELSE row
      /\ UNCHANGED <<disk, lastId, pc, todo, jobs, seen, anyFile, held, cand, purging, events, hist>>
  BY DEF FoldMovedVideo
<1> HIDE DEF o, n
<1>2. CASE ~FoldEvidence(o, n)
  <2>1. UNCHANGED row
    BY <1>1, <1>2
  <2>2. RowsStay /\ row' \in [Id -> Row \cup {Nothing}] /\ lastId' \in 0 .. MaxRow /\ Fresh'
    BY <1>1, <2>1, Events, NoRowChange
  <2>3. TypeOK'
    BY <1>1, <2>2 DEF Inv, TypeOK, hist
  <2>4. Apart' /\ OneRowPerPath'
    BY <1>1, <2>2, StayApart
  <2> QED
    BY <1>1, <2>2, <2>3, <2>4 DEF Inv, Phases
<1>3. CASE FoldEvidence(o, n)
  <2>1. o \in Rows /\ n \in Rows /\ o # n
    <3>1. o \in Rows /\ n \in Rows /\ o < n
      BY <1>3 DEF FoldEvidence, Live, Visible
    <3>2. o \in Nat /\ n \in Nat
      BY <3>1 DEF Rows, Id
    <3> QED
      BY <3>1, <3>2
  <2> DEFINE r == [row[n] EXCEPT !.edit = Carried(o, n)]
  <2>2. row' = [row EXCEPT ![o] = r, ![n] = Nothing]
    BY <1>1, <1>3 DEF Folded
  <2>3. Carried(o, n) \in {row[o].edit, row[n].edit}
    BY DEF Carried
  <2>4. r \in Row /\ r.path = row[n].path /\ r.edit <= events
    BY <2>1, <2>3, RowTyped DEF Row
  <2> HIDE DEF r
  <2>5. /\ row' \in [Id -> Row \cup {Nothing}] /\ row'[o] = r /\ row'[n] = Nothing
        /\ \A i \in Id : i # o /\ i # n => row'[i] = row[i]
    BY <2>1, <2>2, <2>4, RowTyped DEF Inv, TypeOK
  <2>6. \A i \in Rows' : i # n /\ i \in Rows /\ (i = o \/ row'[i] = row[i])
    BY <2>1, <2>5 DEF Rows
  <2>7. Fresh'
    BY <1>1, <2>4, <2>5, <2>6 DEF Inv, Fresh
  <2>8. OneRowPerPath'
    BY <2>1, <2>4, <2>5, <2>6 DEF Inv, OneRowPerPath
  <2>9. \A d : At(d) = {} => At(d)' = {}
    BY <2>1, <2>4, <2>5, <2>6 DEF At
  <2>10. Apart'
    BY <1>1, <2>9 DEF Inv, Apart
  <2>11. TypeOK'
    BY <1>1, <2>5 DEF Inv, TypeOK, hist
  <2> QED
    BY <1>1, <2>7, <2>8, <2>10, <2>11 DEF Inv, Phases
<1> QED
  BY <1>2, <1>3

LEMMA RestartInv == ASSUME Inv, Restart PROVE Inv'
<1>1. /\ pc' = "idle" /\ todo' = {} /\ jobs' = {} /\ seen' = {} /\ anyFile' = FALSE
      /\ held' = {} /\ cand' = <<>> /\ folds' = {} /\ purging' = {}
      /\ Fault /\ UNCHANGED <<disk, table, home>>
  BY DEF Restart
<1>2. events' \in 0 .. MaxEvent /\ events' >= events /\ events' \in Nat /\ {quiet', settled'} \subseteq BOOLEAN
  BY <1>1, Events DEF Fault, Disturb
<1>3. RowsStay /\ Fresh'
  BY <1>1, <1>2, NoRowChange DEF table
<1>4. DOMAIN cand' = {}
  <2>1. DOMAIN <<>> = {}
    OBVIOUS
  <2> QED
    BY <1>1, <2>1
<1>5. TypeOK'
  BY <1>1, <1>2, <1>4 DEF Inv, TypeOK, table
<1>6. Apart' /\ OneRowPerPath'
  BY <1>1, <1>3, StayApart
<1> QED
  BY <1>1, <1>3, <1>5, <1>6 DEF Inv, Phases

LEMMA NextInv == Inv /\ [Next]_vars => Inv'
<1> SUFFICES ASSUME Inv, [Next]_vars PROVE Inv'
  OBVIOUS
<1>1. CASE UNCHANGED vars
  <2>1. UNCHANGED <<disk, row, lastId, pc, todo, jobs, seen, anyFile, held, cand, folds, purging, events,
                    quiet, settled, home>>
    BY <1>1 DEF vars, table, pass, hist
  <2>2. TypeOK' /\ Fresh' /\ Phases'
    BY <2>1 DEF Inv, TypeOK, Fresh, Phases, Rows
  <2>3. RowsStay
    BY <2>1 DEF RowsStay, Rows
  <2> QED
    BY <2>1, <2>2, <2>3, StayApart DEF Inv
<1>2. CASE Scan
  BY <1>2, PassInv, IndexInv, RepointInv, HideInv, FoldInv DEF Scan
<1> QED
  BY <1>1, <1>2, FilesInv, OwnerInv, RestartInv DEF Next

\* The rows of the first scan: one for each file, and a home for each content that one
\* file has.
LEMMA InitRows ==
    ASSUME Init
    PROVE  /\ lastId \in 0 .. MaxRow
           /\ \A i \in Rows : /\ i \in Id /\ row[i] \in Row /\ i <= lastId /\ row[i].edit = 0
                              /\ row[i].path \in Path /\ row[i].content = Start[row[i].path]
                              /\ row[i].active /\ row[i].trash = "live"
           /\ \A p \in Path : Start[p] # Nothing => \E i \in Rows : row[i].path = p
           /\ OneRowPerPath
           /\ row \in [Id -> Row \cup {Nothing}]
           /\ home \in [Content -> Id \cup {Nothing}]
           /\ \A c \in Content : home[c] # Nothing =>
                 /\ home[c] \in Rows /\ row[home[c]].content = c
                 /\ \A p, q \in Path : Start[p] = c /\ Start[q] = c => p = q
<1> DEFINE files == {p \in Path : Start[p] # Nothing}
           order == CHOOSE f \in [files -> 1 .. Cardinality(files)] :
                    \A p, q \in files : f[p] = f[q] => p = q
<1>1. Cardinality(files) \in Nat /\ Cardinality(files) <= MaxRow /\ ExistsBijection(1 .. Cardinality(files), files)
  <2>1. IsFiniteSet(files)
    BY BoundsAssumption, FS_Subset
  <2> QED
    BY <2>1, FS_CardinalityType, BoundsAssumption
<1>2. order \in [files -> 1 .. Cardinality(files)] /\ \A p, q \in files : order[p] = order[q] => p = q
  <2>1. \E f \in [files -> 1 .. Cardinality(files)] : \A p, q \in files : f[p] = f[q] => p = q
    <3>1. PICK g \in Bijection(1 .. Cardinality(files), files) : TRUE
      BY <1>1 DEF ExistsBijection
    <3> DEFINE N == 1 .. Cardinality(files)
               f == [p \in files |-> CHOOSE i \in N : g[i] = p]
    <3>2. \A p \in files : \E i \in N : g[i] = p
      BY <3>1 DEF Bijection, Surjection
    <3>3. \A p \in files : f[p] \in N /\ g[f[p]] = p
      BY <3>2
    <3>4. f \in [files -> N]
      BY <3>3
    <3> HIDE DEF f
    <3>6. \A p, q \in files : f[p] = f[q] => p = q
      BY <3>3
    <3> QED
      BY <3>4, <3>6
  <2> QED
    BY <2>1
<1> DEFINE here(i) == CHOOSE p \in files : order[p] = i
<1>3. /\ disk = Start /\ lastId = Cardinality(files)
      /\ row = [i \in Id |-> IF \E p \in files : order[p] = i
                    THEN [path |-> here(i), content |-> Start[here(i)],
                          fp |-> TRUE, active |-> TRUE, trash |-> "live", edit |-> 0]
                    ELSE Nothing]
      /\ home = [c \in Content |->
                    IF Cardinality({p \in files : Start[p] = c}) = 1
                    THEN order[CHOOSE p \in files : Start[p] = c] ELSE Nothing]
      /\ pc = "idle" /\ todo = {} /\ jobs = {} /\ seen = {} /\ anyFile = FALSE
      /\ held = {} /\ cand = <<>> /\ folds = {} /\ purging = {}
      /\ events = 0 /\ quiet = FALSE /\ settled = TRUE
  BY DEF Init
<1> HIDE DEF order
<1>4. \A i \in Rows : i \in Id /\ here(i) \in files /\ order[here(i)] = i /\ row[i].path = here(i)
                      /\ row[i] \in Row /\ row[i].edit = 0 /\ row[i].content = Start[here(i)]
                      /\ row[i].active /\ row[i].trash = "live"
  <2>1. SUFFICES ASSUME NEW i \in Rows
                 PROVE  i \in Id /\ here(i) \in files /\ order[here(i)] = i /\ row[i].path = here(i)
                        /\ row[i] \in Row /\ row[i].edit = 0 /\ row[i].content = Start[here(i)]
                        /\ row[i].active /\ row[i].trash = "live"
    OBVIOUS
  <2>2. i \in Id /\ \E p \in files : order[p] = i
    BY <1>3 DEF Rows
  <2>3. here(i) \in files /\ order[here(i)] = i
    BY <2>2
  <2>4. here(i) \in Path /\ Start[here(i)] \in Content
    BY <2>3, StartAssumption
  <2> HIDE DEF here
  <2>5. row[i] = [path |-> here(i), content |-> Start[here(i)],
                  fp |-> TRUE, active |-> TRUE, trash |-> "live", edit |-> 0]
    BY <1>3, <2>2
  <2> QED
    BY <2>2, <2>3, <2>4, <2>5, BoundsAssumption DEF Row
<1> HIDE DEF here
<1>5. row \in [Id -> Row \cup {Nothing}]
  BY <1>3, <1>4 DEF Rows
<1>6. /\ lastId \in 0 .. MaxRow
      /\ \A i \in Rows : i <= lastId
  <2>1. \A i \in Rows : i \in 1 .. Cardinality(files)
    <3>1. \A i \in Rows : order[here(i)] \in 1 .. Cardinality(files) /\ order[here(i)] = i
      BY <1>2, <1>4
    <3> QED
      BY <3>1
  <2>2. Cardinality(files) \in 0 .. MaxRow
    BY <1>1, BoundsAssumption
  <2> HIDE DEF files
  <2> QED
    BY <1>3, <2>1, <2>2
<1>7. ASSUME NEW p \in files PROVE order[p] \in Rows /\ here(order[p]) = p
  <2>1. order[p] \in 1 .. Cardinality(files) /\ order[p] \in Id
    BY <1>1, <1>2, BoundsAssumption DEF Id
  <2>2. here(order[p]) \in files /\ order[here(order[p])] = order[p]
    BY DEF here
  <2>3. here(order[p]) = p
    BY <1>2, <2>2
  <2>4. row[order[p]] = [path |-> here(order[p]), content |-> Start[here(order[p])],
                         fp |-> TRUE, active |-> TRUE, trash |-> "live", edit |-> 0]
    BY <1>3, <2>1
  <2>5. row[order[p]] \in Row
    BY <2>2, <2>4, StartAssumption, BoundsAssumption DEF Row
  <2> QED
    BY <2>1, <2>3, <2>5, NoRowAssumption DEF Rows
<1>8. ASSUME NEW c \in Content, home[c] # Nothing
      PROVE  /\ home[c] \in Rows /\ row[home[c]].content = c
             /\ \A p, q \in Path : Start[p] = c /\ Start[q] = c => p = q
  <2> DEFINE S == {p \in files : Start[p] = c}
  <2>1. Cardinality(S) = 1 /\ home[c] = order[CHOOSE p \in files : Start[p] = c]
    BY <1>3, <1>8
  <2>2. IsFiniteSet(S)
    BY BoundsAssumption, FS_Subset
  <2>3. PICK z : S = {z}
    BY <2>1, <2>2, FS_Singleton
  <2>4. (CHOOSE p \in files : Start[p] = c) = z /\ z \in files /\ Start[z] = c
    BY <2>3
  <2>5. \A p \in Path : Start[p] = c => p = z
    <3>1. c # Nothing
      BY StartAssumption
    <3> QED
      BY <2>3, <3>1
  <2>6. order[z] \in Rows /\ here(order[z]) = z
    BY <1>7, <2>4
  <2> QED
    BY <1>4, <2>1, <2>4, <2>5, <2>6
<1>9. home \in [Content -> Id \cup {Nothing}]
  BY <1>3, <1>8 DEF Rows
<1>10. OneRowPerPath
  BY <1>4 DEF OneRowPerPath
<1>11. \A p \in Path : Start[p] # Nothing => \E i \in Rows : row[i].path = p
  BY <1>4, <1>7
<1> QED
  BY <1>4, <1>5, <1>6, <1>8, <1>9, <1>10, <1>11

LEMMA InitInv == Init => Inv
<1> SUFFICES ASSUME Init PROVE Inv
  OBVIOUS
<1>1. /\ pc = "idle" /\ todo = {} /\ jobs = {} /\ seen = {} /\ anyFile = FALSE
      /\ held = {} /\ cand = <<>> /\ folds = {} /\ purging = {}
      /\ events = 0 /\ quiet = FALSE /\ settled = TRUE /\ disk = Start
  BY DEF Init
<1>2. TypeOK
  <2>1. DOMAIN <<>> = {}
    OBVIOUS
  <2>2. events \in 0 .. MaxEvent
    BY <1>1, BoundsAssumption
  <2> QED
    BY <1>1, <2>1, <2>2, InitRows, StartAssumption DEF TypeOK
<1>3. Fresh
  BY <1>1, InitRows DEF Fresh
<1> QED
  BY <1>1, <1>2, <1>3, InitRows DEF Inv, Phases, Apart

\* Every row, and whatever a pass or a purge holds, keeps to its type.
THEOREM TypeCorrect == Spec => []TypeOK
<1>1. Inv => TypeOK
  BY DEF Inv
<1> QED
  BY InitInv, NextInv, <1>1, PTL DEF Spec

\* No two rows come to hold one path, so that the UNIQUE of file_path never refuses a
\* repoint, an insert or a fold half-way (RepointVideo, UpsertVideo, FoldMovedVideo).
THEOREM PathsUnique == Spec => []OneRowPerPath
<1>1. Inv => OneRowPerPath
  BY DEF Inv
<1> QED
  BY InitInv, NextInv, <1>1, PTL DEF Spec

(***************************************************************************)
(* Two action properties.  Every step but those of Trash and of a fold      *)
(* keeps every row, and where it stands with Trash.                         *)
(***************************************************************************)
Kept == \A i \in Rows : i \in Rows' /\ row'[i].trash = row[i].trash

LEMMA RewrittenKept ==
    ASSUME Inv, NEW i \in Rows, NEW r \in Row, r.trash = row[i].trash, row' = [row EXCEPT ![i] = r]
    PROVE  Kept
BY NoRowAssumption DEF Kept, Inv, TypeOK, Rows

LEMMA UpsertKept ==
    ASSUME Inv, NEW d \in Path, NEW c \in Content, NEW fp \in BOOLEAN, UpsertVideo(d, c, fp)
    PROVE  Kept
<1>1. ASSUME NEW i \in At(d), row' = Stored(i, c, fp) PROVE Kept
  <2> DEFINE r == [row[i] EXCEPT !.content = c, !.fp = fp, !.active = TRUE]
  <2>1. i \in Rows
    BY DEF At
  <2>2. r \in Row /\ r.trash = row[i].trash
    BY <2>1, RowTyped DEF Row
  <2>3. row' = [row EXCEPT ![i] = r]
    BY <1>1 DEF Stored
  <2> HIDE DEF r
  <2> QED
    BY <2>1, <2>2, <2>3, RewrittenKept
<1>2. ASSUME lastId' = lastId + 1, NEW r, row' = [row EXCEPT ![lastId'] = r] PROVE Kept
  <2>1. \A i \in Rows : i <= lastId /\ i \in Nat /\ lastId \in Nat
    BY BoundsAssumption DEF Inv, TypeOK, Fresh, Rows, Id
  <2>2. \A i \in Rows : i # lastId'
    BY <1>2, <2>1
  <2> QED
    BY <1>2, <2>2 DEF Kept, Rows, Inv, TypeOK
<1> QED
  BY <1>1, <1>2 DEF UpsertVideo

LEMMA ScanKept ==
    ASSUME Inv, Scan, \A q \in folds : ~FoldMovedVideo(q[1], q[2])
    PROVE  Kept
<1>1. CASE UNCHANGED row
  BY <1>1 DEF Kept, Rows
<1>2. ASSUME NEW p \in Path, IndexUnchanged(p) \/ IndexStillUnprinted(p) PROVE Kept
  <2>1. PICK i \in Rows : row' = Shown(i) \/ row' = [row EXCEPT ![i].active = TRUE]
    BY <1>2 DEF IndexUnchanged, IndexStillUnprinted, Live
  <2> DEFINE r == [row[i] EXCEPT !.active = TRUE, !.fp = TRUE]
             s == [row[i] EXCEPT !.active = TRUE]
  <2>2. r \in Row /\ r.trash = row[i].trash /\ s \in Row /\ s.trash = row[i].trash
    BY RowTyped DEF Row
  <2>3. row' = [row EXCEPT ![i] = r] \/ row' = [row EXCEPT ![i] = s]
    BY <2>1 DEF Shown
  <2> HIDE DEF r, s
  <2> QED
    BY <2>2, <2>3, RewrittenKept
<1>3. ASSUME NEW j \in jobs, IndexCommit(j) \/ IndexUnprinted(j) PROVE Kept
  <2>1. j.path \in Path /\ j.content \in Content
    BY DEF Inv, TypeOK
  <2> QED
    BY <1>3, <2>1, UpsertKept DEF IndexCommit, IndexUnprinted
<1>4. ASSUME NEW h \in held, MatchNew(h) PROVE Kept
  <2>1. h.path \in Path /\ h.content \in Content
    BY DEF Inv, TypeOK
  <2> QED
    BY <1>4, <2>1, UpsertKept DEF MatchNew
<1>5. ASSUME NEW h \in held, RepointVideo(h) PROVE Kept
  <2>1. PICK i \in Rows : row' = [row EXCEPT ![i].path = h.path, ![i].content = h.content,
                                             ![i].fp = TRUE, ![i].active = TRUE]
    BY <1>5 DEF RepointVideo, Live
  <2> DEFINE r == [row[i] EXCEPT !.path = h.path, !.content = h.content, !.fp = TRUE, !.active = TRUE]
  <2>2. h.path \in Path /\ h.content \in Content
    BY DEF Inv, TypeOK
  <2>3. r \in Row /\ r.trash = row[i].trash
    BY <2>2, RowTyped DEF Row
  <2>4. row' = [row EXCEPT ![i] = r]
    BY <2>1
  <2> HIDE DEF r
  <2> QED
    BY <2>3, <2>4, RewrittenKept
<1>6. CASE DeactivateExcept
  <2>1. \A i \in Rows : row[i] \in Row /\ [row[i] EXCEPT !.active = FALSE] \in Row
                        /\ [row[i] EXCEPT !.active = FALSE].trash = row[i].trash
    BY RowTyped DEF Row
  <2>2. \A i \in Rows : row'[i] \in {row[i], [row[i] EXCEPT !.active = FALSE]} /\ i \in Id
    BY <1>6 DEF DeactivateExcept, Rows
  <2> QED
    BY <2>1, <2>2, NoRowAssumption DEF Kept, Rows
<1> QED
  BY <1>1, <1>2, <1>3, <1>4, <1>5, <1>6 DEF Scan, StartPass, EndWalk, EndPass, WalkPast, IndexTrashed,
     IndexYoung, IndexRead, IndexFails, WalkSkips, IndexHold, FoldHeldBack, table

\* What a fold does to the rows of its pair, and that it leaves the others as they are.
LEMMA Folding ==
    ASSUME Inv, NEW q \in folds, FoldMovedVideo(q[1], q[2]), ~Kept
    PROVE  \E o, n \in Live :
              /\ o \in Live' /\ n \notin Rows' /\ o # n
              /\ row'[o].path = row[n].path /\ row'[o].edit = Carried(o, n)
              /\ \A i \in Rows : i # n /\ i # o => i \in Rows' /\ row'[i] = row[i]
<1> DEFINE o == q[1]
           n == q[2]
<1>1. row' = IF FoldEvidence(o, n) THEN Folded(o, n) ELSE row
  BY DEF FoldMovedVideo
<1> HIDE DEF o, n
<1>2. FoldEvidence(o, n)
  BY <1>1 DEF Kept, Rows
<1>3. o \in Live /\ n \in Live /\ o # n
  <2>1. o \in Live /\ n \in Live /\ o < n
    BY <1>2 DEF FoldEvidence, Visible
  <2>2. o \in Nat /\ n \in Nat
    BY <2>1 DEF Live, Rows, Id
  <2> QED
    BY <2>1, <2>2
<1>4. o \in Rows /\ n \in Rows /\ row[n].trash = "live"
  BY <1>3 DEF Live
<1> DEFINE r == [row[n] EXCEPT !.edit = Carried(o, n)]
<1>5. row' = [row EXCEPT ![o] = r, ![n] = Nothing]
  BY <1>1, <1>2 DEF Folded
<1>6. Carried(o, n) \in {row[o].edit, row[n].edit}
  BY DEF Carried
<1>7. r \in Row /\ r.path = row[n].path /\ r.edit = Carried(o, n) /\ r.trash = "live"
  BY <1>4, <1>6, RowTyped DEF Row
<1> HIDE DEF r
<1>8. /\ row'[o] = r /\ row'[n] = Nothing
      /\ \A i \in Id : i # o /\ i # n => row'[i] = row[i]
  BY <1>3, <1>4, <1>5, RowTyped DEF Inv, TypeOK
<1>9. o \in Live'
  BY <1>4, <1>7, <1>8, NoRowAssumption DEF Live, Rows
<1> QED
  BY <1>3, <1>7, <1>8, <1>9 DEF Rows

\* The body of OnlyRestored and of EditsFollow.
Restored == \A i \in Id : i \in Rows \ Live /\ i \in Live' => Restore(i)

Followed ==
    \A i \in Live : i \in Rows' \/ (\E t \in purging : HardDelete(t))
          \/ \E o \in Live' : /\ row'[o].path = row[i].path
                               /\ row[i].edit # 0 => row'[o].edit = row[i].edit

LEMMA KeptHolds == Kept => Restored /\ Followed
BY DEF Kept, Restored, Followed, Live

LEMMA NextHolds == Inv /\ [Next]_vars => Restored /\ Followed
<1> SUFFICES ASSUME Inv, [Next]_vars PROVE Restored /\ Followed
  OBVIOUS
<1>1. CASE UNCHANGED row
  <2>1. Kept
    BY <1>1 DEF Kept, Rows
  <2> QED
    BY <2>1, KeptHolds
<1>2. ASSUME NEW q \in folds, FoldMovedVideo(q[1], q[2]), ~Kept PROVE Restored /\ Followed
  <2>1. PICK o, n \in Live :
              /\ o \in Live' /\ n \notin Rows' /\ o # n
              /\ row'[o].path = row[n].path /\ row'[o].edit = Carried(o, n)
              /\ \A i \in Rows : i # n /\ i # o => i \in Rows' /\ row'[i] = row[i]
    BY <1>2, Folding
  <2>2. \A i \in Live : i \in Rows /\ row[i].edit \in Nat
    BY RowTyped DEF Live
  <2>3. row[n].edit # 0 => Carried(o, n) = row[n].edit
    BY <2>2 DEF Carried
  <2>4. Restored
    BY <2>1 DEF Restored, Live
  <2>5. Followed
    BY <2>1, <2>2, <2>3 DEF Followed, Live
  <2> QED
    BY <2>4, <2>5
<1>3. CASE Scan
  BY <1>2, <1>3, ScanKept, KeptHolds
<1>4. CASE \E i \in Id : Edit(i)
  BY <1>4, Edited, RewrittenKept, KeptHolds
<1>5. ASSUME NEW i \in Id, SoftDelete(i) PROVE Restored /\ Followed
  <2>1. i \in Rows /\ row' = [row EXCEPT ![i] = [row[i] EXCEPT !.trash = "trash"]]
    BY <1>5 DEF SoftDelete, Live
  <2>2. [row[i] EXCEPT !.trash = "trash"] \in Row /\ [row[i] EXCEPT !.trash = "trash"].trash = "trash"
    BY <2>1, RowTyped DEF Row
  <2> QED
    BY <2>1, <2>2, NoRowAssumption DEF Restored, Followed, Rows, Live, Inv, TypeOK
<1>6. ASSUME NEW i \in Id, Restore(i) PROVE Restored /\ Followed
  <2>1. i \in Rows /\ row' = [row EXCEPT ![i] = [row[i] EXCEPT !.trash = "live"]]
    BY <1>6 DEF Restore
  <2>2. [row[i] EXCEPT !.trash = "live"] \in Row
    BY <2>1, RowTyped DEF Row
  <2> QED
    BY <1>6, <2>1, <2>2, NoRowAssumption DEF Restored, Followed, Rows, Live, Inv, TypeOK
<1>7. ASSUME NEW t \in purging, PurgeTrash(t), t.id \in Rows PROVE Restored /\ Followed
  <2> DEFINE i == t.id
             r == [row[i] EXCEPT !.trash = IF @ = "live" THEN "trash" ELSE @]
  <2>1. row' = [row EXCEPT ![i] = r]
    BY <1>7 DEF PurgeTrash
  <2>2. r \in Row /\ r.trash # "live"
    BY <1>7, RowTyped DEF Row
  <2> HIDE DEF r
  <2> QED
    BY <1>7, <2>1, <2>2, NoRowAssumption DEF Restored, Followed, Rows, Live, Inv, TypeOK
<1>8. ASSUME NEW t \in purging, HardDelete(t) PROVE Restored /\ Followed
  <2>1. \A j \in Rows' : j \in Rows /\ row'[j] = row[j]
    BY <1>8 DEF HardDelete, Deleted, Rows, Inv, TypeOK
  <2>2. Restored
    BY <2>1 DEF Restored, Live
  <2> QED
    BY <1>8, <2>2 DEF Followed
<1> QED
  BY <1>1, <1>3, <1>4, <1>5, <1>6, <1>7, <1>8
     DEF Next, Trash, Restart, Take, Put, Move, World, PurgeNow, Sweep, PurgeTrash, PurgeFile,
         PurgeFails, table, vars

\* A video in Trash comes back only when the owner restores it: no file found again, no
\* upsert of its path and no fold shows it (IndexFile, UpsertVideo, RepointVideo).
THEOREM TrashStays == Spec => OnlyRestored
<1>1. Inv /\ [Next]_vars => [Restored]_vars
  BY NextHolds
<1> QED
  BY InitInv, NextInv, <1>1, PTL DEF Spec, OnlyRestored, Restored

\* A video outside Trash loses its row only to a purge, or to the survivor of a fold,
\* which then has its path and its edits (FoldMovedVideo, HardDelete).
THEOREM EditsKept == Spec => EditsFollow
<1>1. Inv /\ [Next]_vars => [Followed]_vars
  BY NextHolds
<1> QED
  BY InitInv, NextInv, <1>1, PTL DEF Spec, EditsFollow, Followed

(***************************************************************************)
(* The mirror.  While nothing disturbs a pass, what a worker or the move    *)
(* matching holds is what the disk holds; a row seen is visible, with its   *)
(* file, or in Trash; and a path the walk has passed has such a row or is   *)
(* in some hand.  So what is hidden at the end has no file.                 *)
(***************************************************************************)
Hands == jobs \cup held

Mirror ==
    /\ \A p \in Path : disk[p] # Nothing =>
          \E i \in At(p) : i \notin Live \/ (i \in Visible /\ row[i].content = disk[p])
    /\ \A i \in Visible : disk[row[i].path] = row[i].content

HandsTrue == \A f \in Hands : f.content = disk[f.path]
SeenTrue == \A i \in seen \cap Live : i \in Visible /\ row[i].fp /\ disk[row[i].path] = row[i].content
Passed ==
    \A p \in Path \ todo : disk[p] # Nothing =>
        (\E i \in At(p) : i \notin Live \/ i \in seen) \/ (\E f \in Hands : f.path = p)
\* What a held file is to be matched with has lost its own.
Missed == pc = "match" => \A h \in held, i \in Live : OneToOne(h, i) => disk[row[i].path] = Nothing

Settling ==
    /\ pc = "match" => held \subseteq DOMAIN cand /\ \A g \in DOMAIN cand : cand[g] \subseteq 1 .. lastId
    /\ settled => Mirror /\ jobs = {} /\ held = {} /\ (pc # "idle" => quiet)
    /\ quiet /\ pc = "fold" => Mirror
    /\ quiet /\ pc \in {"walk", "match"} => HandsTrue /\ SeenTrue /\ Passed /\ Missed

\* Row i of row' is r, and every other is as it was.
Only(i, r) ==
    /\ i \in Id /\ r \in Row /\ row'[i] = r /\ \A k \in Id : k # i => row'[k] = row[k]

LEMMA OnlyOf == ASSUME Inv, NEW i \in Id, NEW r \in Row, row' = [row EXCEPT ![i] = r] PROVE Only(i, r)
BY DEF Only, Inv, TypeOK

LEMMA OnlyRows == ASSUME NEW i, NEW r, Only(i, r)
                  PROVE  Rows' = Rows \cup {i} /\ \A k \in Rows : k # i => row'[k] = row[k]
BY NoRowAssumption DEF Only, Rows

\* The steps that leave no quiet and no settled pass behind.
LEMMA DisturbSettles ==
    ASSUME Inv, Settling, Disturb, pc' # "match" \/ (UNCHANGED <<pc, cand, lastId>> /\ held' \subseteq held)
    PROVE  Settling'
BY DEF Settling, Disturb

\* A row changed where it is, which is in Trash, or visible with its file, or what it was.
Sound(i, r) ==
    \/ r.trash # "live"
    \/ r.active /\ r.fp /\ r.content = disk[r.path]
    \/ /\ r.active = row[i].active /\ r.fp = row[i].fp /\ r.content = row[i].content
       /\ r.trash = row[i].trash /\ seen' = seen

LEMMA InPlaceSettles ==
    ASSUME Inv, Settling, NEW i \in Rows, NEW r, Only(i, r), r.path = row[i].path,
           i \notin Live => r.trash # "live",
           UNCHANGED <<disk, lastId, cand, pc, quiet, settled>>,
           jobs' \subseteq jobs, held' \subseteq held, seen' \in {seen, seen \cup {i}},
           quiet \/ settled => Sound(i, r),
           \A p \in todo \ todo' : p = r.path /\ i \in seen',
           \A f \in Hands \ Hands' : f.path = r.path /\ i \in seen'
    PROVE  Settling'
<1>1. Rows' = Rows /\ \A k \in Rows : k # i => row'[k] = row[k]
  BY OnlyRows
<1>2. /\ row'[i] = r /\ \A k \in Rows : row'[k].path = row[k].path
      /\ \A p : At(p)' = At(p)
  BY <1>1 DEF Only, At
<1>3. \A k \in Live' : k \in Live /\ (k # i => row'[k] = row[k])
  BY <1>1, <1>2 DEF Live
<1>4. \A k \in Rows : k \notin Live => k \notin Live'
  BY <1>1, <1>2 DEF Live
<1>5. i \in Live' => r.trash = "live"
  BY <1>2 DEF Live
<1>6. ASSUME Mirror, Sound(i, r) PROVE Mirror'
  <2>1. \A k \in Visible' : disk'[row'[k].path] = row'[k].content
    BY <1>2, <1>3, <1>5, <1>6 DEF Mirror, Sound, Visible
  <2>2. ASSUME NEW p \in Path, disk[p] # Nothing, NEW k \in At(p),
               k \notin Live \/ (k \in Visible /\ row[k].content = disk[p])
        PROVE  k \notin Live' \/ (k \in Visible' /\ row'[k].content = disk[p])
    <3>1. k \in Rows /\ row[k].path = p
      BY <2>2 DEF At
    <3> QED
      BY <1>1, <1>2, <1>4, <1>5, <1>6, <2>2, <3>1 DEF Sound, Visible, Live
  <2>3. ASSUME NEW p \in Path, disk[p] # Nothing
        PROVE  \E k \in At(p) : k \notin Live' \/ (k \in Visible' /\ row'[k].content = disk[p])
    <3>1. PICK k \in At(p) : k \notin Live \/ (k \in Visible /\ row[k].content = disk[p])
      BY <1>6, <2>3 DEF Mirror
    <3> QED
      BY <2>2, <2>3, <3>1
  <2>4. \A p \in Path : At(p)' = At(p) /\ disk'[p] = disk[p]
    BY <1>2
  <2> QED
    BY <2>1, <2>3, <2>4 DEF Mirror
<1>7. ASSUME HandsTrue, SeenTrue, Passed, Missed, Sound(i, r)
      PROVE  HandsTrue' /\ SeenTrue' /\ Passed' /\ Missed'
  <2>1. HandsTrue'
    BY <1>7 DEF HandsTrue, Hands
  <2>2. SeenTrue'
    BY <1>1, <1>2, <1>3, <1>5, <1>7 DEF SeenTrue, Sound, Visible, Live
  <2>3. Passed'
    <3>1. SUFFICES ASSUME NEW p \in Path, p \notin todo', disk[p] # Nothing
                   PROVE  \/ \E k \in At(p)' : k \notin Live' \/ k \in seen'
                          \/ \E f \in Hands' : f.path = p
      BY DEF Passed
    <3>2. CASE p \in todo
      BY <1>2, <3>1, <3>2 DEF At
    <3>3. CASE p \notin todo
      <4>1. CASE \E k \in At(p) : k \notin Live \/ k \in seen
        BY <1>2, <1>4, <4>1 DEF At
      <4>2. CASE \E f \in Hands : f.path = p
        BY <1>2, <4>2 DEF At
      <4> QED
        BY <1>7, <3>1, <3>3, <4>1, <4>2 DEF Passed
    <3> QED
      BY <3>2, <3>3
  <2>4. Missed'
    BY <1>2, <1>3, <1>7 DEF Missed, OneToOne, Live
  <2> QED
    BY <2>1, <2>2, <2>3, <2>4
<1> QED
  BY <1>6, <1>7 DEF Settling

\* A file with no row gets one.
Inserted(p, c, fp) ==
    /\ lastId' = lastId + 1
    /\ Only(lastId', [path |-> p, content |-> c, fp |-> fp, active |-> TRUE, trash |-> "live", edit |-> 0])
    /\ lastId' \notin Rows

LEMMA UpsertCases ==
    ASSUME Inv, NEW p \in Path, NEW c \in Content, NEW fp \in BOOLEAN, UpsertVideo(p, c, fp)
    PROVE  \/ \E i \in At(p) : /\ Only(i, [row[i] EXCEPT !.content = c, !.fp = fp, !.active = TRUE])
                               /\ seen' = seen \cup {i} /\ UNCHANGED lastId
           \/ At(p) = {} /\ Inserted(p, c, fp) /\ seen' = seen \cup {lastId'}
<1>1. ASSUME NEW i \in At(p), row' = Stored(i, c, fp), seen' = seen \cup {i}, UNCHANGED lastId
      PROVE  Only(i, [row[i] EXCEPT !.content = c, !.fp = fp, !.active = TRUE])
  <2>1. i \in Rows /\ i \in Id
    BY RowTyped DEF At
  <2> DEFINE r == [row[i] EXCEPT !.content = c, !.fp = fp, !.active = TRUE]
  <2>2. r \in Row /\ row' = [row EXCEPT ![i] = r]
    BY <1>1, <2>1, RowTyped DEF Row, Stored
  <2> HIDE DEF r
  <2>3. Only(i, r)
    BY <2>1, <2>2, OnlyOf
  <2> QED
    BY <2>3 DEF r
<1>2. ASSUME At(p) = {}, lastId < MaxRow, lastId' = lastId + 1,
             row' = [row EXCEPT ![lastId'] = [path |-> p, content |-> c, fp |-> fp,
                              active |-> TRUE, trash |-> "live", edit |-> 0]]
      PROVE  Inserted(p, c, fp)
  <2> DEFINE r == [path |-> p, content |-> c, fp |-> fp, active |-> TRUE, trash |-> "live", edit |-> 0]
  <2>1. r \in Row
    BY BoundsAssumption DEF Row
  <2>2. lastId' \in Id /\ lastId \in Nat /\ lastId' = lastId + 1
    BY <1>2, BoundsAssumption DEF Inv, TypeOK, Id
  <2>3. row' = [row EXCEPT ![lastId'] = r]
    BY <1>2
  <2> HIDE DEF r
  <2>4. Only(lastId', r)
    BY <2>1, <2>2, <2>3, OnlyOf
  <2>5. lastId' \notin Rows
    BY <2>2 DEF Inv, Fresh
  <2> QED
    BY <2>2, <2>4, <2>5 DEF Inserted, r
<1> QED
  BY <1>1, <1>2 DEF UpsertVideo

LEMMA InsertSettles ==
    ASSUME Inv, Settling, NEW p \in Path, NEW c \in Content, At(p) = {}, Inserted(p, c, TRUE),
           seen' = seen \cup {lastId'}, NEW f \in Hands, f.path = p, f.content = c,
           Hands' \subseteq Hands, \A g \in Hands \ Hands' : g.path = p,
           held' \subseteq held, UNCHANGED <<disk, cand, pc, todo, quiet>>, settled' => settled
    PROVE  Settling'
<1> DEFINE n == lastId'
           r == [path |-> p, content |-> c, fp |-> TRUE, active |-> TRUE, trash |-> "live", edit |-> 0]
<1>1. Only(n, r) /\ n \notin Rows /\ n = lastId + 1 /\ lastId \in Nat
  BY BoundsAssumption DEF Inserted, Inv, TypeOK
<1>2. r.path = p /\ r.content = c /\ r.fp /\ r.active /\ r.trash = "live"
  OBVIOUS
<1> HIDE DEF r
<1>3. /\ Rows' = Rows \cup {n} /\ row'[n] = r
      /\ \A k \in Rows : row'[k] = row[k]
  BY <1>1, OnlyRows DEF Only
<1> HIDE DEF n
<1>4. /\ \A x : At(x) \subseteq At(x)'
      /\ n \in At(p)'
  BY <1>2, <1>3 DEF At
<1>5. /\ \A k \in Rows : k \in Live' <=> k \in Live
      /\ \A k \in Live' : k = n \/ k \in Live
      /\ n \in Visible'
  BY <1>2, <1>3 DEF Live, Visible
<1>6. settled' = FALSE \/ ~settled'
  BY DEF Settling, Hands
<1>7. pc # "fold"
  BY DEF Inv, Phases, Hands
<1>8. ASSUME HandsTrue, SeenTrue, Passed, Missed, pc = "match" => \A g \in DOMAIN cand : cand[g] \subseteq 1 .. lastId,
             pc = "match" => held \subseteq DOMAIN cand
      PROVE  HandsTrue' /\ SeenTrue' /\ Passed' /\ Missed'
  <2>1. HandsTrue' /\ disk[p] = c
    BY <1>8 DEF HandsTrue
  <2>2. SeenTrue'
    BY <1>2, <1>3, <1>5, <1>8, <2>1 DEF SeenTrue, Visible, Live, n
  <2>3. Passed'
    <3>1. SUFFICES ASSUME NEW x \in Path, x \notin todo, disk[x] # Nothing
                   PROVE  \/ \E k \in At(x)' : k \notin Live' \/ k \in seen'
                          \/ \E g \in Hands' : g.path = x
      BY DEF Passed
    <3>2. CASE \E k \in At(x) : k \notin Live \/ k \in seen
      BY <1>3, <1>4, <1>5, <3>2 DEF At
    <3>3. CASE \E g \in Hands : g.path = x
      BY <1>4, <3>3 DEF n
    <3> QED
      BY <1>8, <3>1, <3>2, <3>3 DEF Passed
  <2>4. Missed'
    <3>1. SUFFICES ASSUME pc = "match", NEW h \in held', NEW i \in Live', OneToOne(h, i)
                   PROVE  disk[row'[i].path] = Nothing
      BY DEF Missed, OneToOne
    <3>2. i # n
      BY <1>1, <1>8, <3>1 DEF OneToOne, n
    <3> QED
      BY <1>3, <1>5, <1>8, <3>1, <3>2 DEF Missed, Live
  <2> QED
    BY <2>1, <2>2, <2>3, <2>4
<1>9. pc' = "match" => held' \subseteq DOMAIN cand' /\ \A g \in DOMAIN cand' : cand'[g] \subseteq 1 .. lastId'
  <2>1. 1 .. lastId \subseteq 1 .. lastId'
    BY <1>1 DEF n
  <2> QED
    BY <2>1 DEF Settling
<1> QED
  BY <1>6, <1>7, <1>8, <1>9 DEF Settling

\* The steps of a pass that write no row.
LEMMA WalkSettles ==
    ASSUME Inv, Settling,
           \/ StartPass \/ EndWalk \/ EndPass
           \/ \E p \in Path : WalkPast(p) \/ IndexRead(p)
           \/ \E j \in jobs : IndexHold(j)
    PROVE  Settling'
<1>1. UNCHANGED <<disk, row, lastId>>
  BY DEF StartPass, EndWalk, EndPass, WalkPast, IndexRead, IndexHold, table
<1>2. Mirror' <=> Mirror
  BY <1>1 DEF Mirror, Visible, Live, Rows, At
<1>3. \A x : At(x)' = At(x) /\ Live' = Live /\ Visible' = Visible
  BY <1>1 DEF Visible, Live, Rows, At
<1>4. CASE StartPass
  BY <1>2, <1>4 DEF StartPass, Settling, Inv, Phases, HandsTrue, SeenTrue, Passed, Missed, Hands
<1>5. CASE EndPass
  <2>1. pc' = "idle" /\ jobs' = {} /\ held' = {} /\ (settled' => settled \/ (quiet /\ pc = "fold"))
    BY <1>5 DEF EndPass, Inv, Phases
  <2> QED
    BY <1>2, <2>1 DEF Settling
<1>6. CASE EndWalk
  <2>1. /\ pc = "walk" /\ pc' = "match" /\ todo = {} /\ cand' = [h \in held |-> MoveCandidates(h)]
        /\ UNCHANGED <<todo, jobs, seen, held, quiet, settled>>
    BY <1>6 DEF EndWalk, hist
  <2>2. \A h \in held : cand'[h] \subseteq Live /\ \A i \in cand'[h] : disk[row[i].path] = Nothing
    BY <2>1 DEF MoveCandidates
  <2>3. \A i \in Live : i \in 1 .. lastId
    <3>1. SUFFICES ASSUME NEW i \in Live PROVE i \in 1 .. lastId
      OBVIOUS
    <3>2. i \in Rows
      BY DEF Live
    <3> QED
      BY <3>2, BoundsAssumption DEF Inv, TypeOK, Fresh, Rows, Id
  <2>4. \A g \in DOMAIN cand' : cand'[g] \subseteq 1 .. lastId'
    BY <1>1, <2>1, <2>2, <2>3
  <2>5. HandsTrue' = HandsTrue /\ SeenTrue' = SeenTrue /\ Passed' = Passed
    BY <1>1, <1>3, <2>1 DEF HandsTrue, SeenTrue, Passed, Hands
  <2>6. Missed'
    BY <1>1, <1>3, <2>1, <2>2 DEF Missed, OneToOne
  <2>7. held' \subseteq DOMAIN cand'
    BY <2>1
  <2> QED
    BY <1>2, <2>1, <2>4, <2>5, <2>6, <2>7 DEF Settling
<1>7. ASSUME NEW p \in Path, WalkPast(p) PROVE Settling'
  <2>1. pc = "walk" /\ todo' = todo \ {p} /\ disk[p] = Nothing
        /\ UNCHANGED <<pc, jobs, seen, held, cand, quiet, settled>>
    BY <1>7 DEF WalkPast, hist
  <2>2. HandsTrue' = HandsTrue /\ SeenTrue' = SeenTrue /\ Missed'
    BY <1>1, <1>3, <2>1 DEF HandsTrue, SeenTrue, Missed, Hands
  <2>3. Passed => Passed'
    BY <1>1, <1>3, <2>1 DEF Passed, Hands
  <2> QED
    BY <1>2, <2>1, <2>2, <2>3 DEF Settling
<1>8. ASSUME NEW p \in Path, IndexRead(p) PROVE Settling'
  <2> DEFINE j == [path |-> p, content |-> disk[p], known |-> At(p) # {}]
  <2>1. /\ pc = "walk" /\ disk[p] # Nothing /\ todo' = todo \ {p} /\ jobs' = jobs \cup {j}
        /\ \A i \in At(p) : i \in Live /\ row[i].content # disk[p]
        /\ UNCHANGED <<pc, seen, held, cand, quiet, settled>>
    BY <1>8 DEF IndexRead, Saw, hist
  <2>2. j.path = p /\ j.content = disk[p]
    OBVIOUS
  <2> HIDE DEF j
  <2>3. ~settled
    BY <2>1 DEF Settling, Mirror
  <2>4. HandsTrue => HandsTrue'
    BY <1>1, <2>1, <2>2 DEF HandsTrue, Hands
  <2>5. SeenTrue' = SeenTrue /\ Missed'
    BY <1>1, <1>3, <2>1 DEF SeenTrue, Missed
  <2>6. Passed => Passed'
    BY <1>1, <1>3, <2>1, <2>2 DEF Passed, Hands
  <2> QED
    BY <2>1, <2>3, <2>4, <2>5, <2>6 DEF Settling
<1>9. ASSUME NEW j \in jobs, IndexHold(j) PROVE Settling'
  <2> DEFINE h == [path |-> j.path, content |-> j.content]
  <2>1. /\ jobs' = jobs \ {j} /\ held' = held \cup {h}
        /\ UNCHANGED <<pc, todo, seen, cand, quiet, settled>>
    BY <1>9 DEF IndexHold, hist
  <2>2. h.path = j.path /\ h.content = j.content
    OBVIOUS
  <2> HIDE DEF h
  <2>3. ~settled /\ pc = "walk"
    BY DEF Settling, Inv, Phases
  <2>4. HandsTrue => HandsTrue'
    BY <1>1, <2>1, <2>2 DEF HandsTrue, Hands
  <2>5. SeenTrue' = SeenTrue /\ Missed'
    BY <1>1, <1>3, <2>1, <2>3 DEF SeenTrue, Missed
  <2>6. Passed => Passed'
    BY <1>1, <1>3, <2>1, <2>2 DEF Passed, Hands
  <2> QED
    BY <2>1, <2>3, <2>4, <2>5, <2>6 DEF Settling
<1> QED
  BY <1>4, <1>5, <1>6, <1>7, <1>8, <1>9

\* The steps that change one row where it is, or none.
LEMMA RowSettles ==
    ASSUME Inv, Settling,
           \/ \E p \in Path : IndexTrashed(p) \/ IndexUnchanged(p)
           \/ \E i \in Id : Edit(i) \/ SoftDelete(i)
           \/ \E t \in purging : PurgeTrash(t) /\ t.id \in Rows
    PROVE  Settling'
<1>1. ASSUME NEW p \in Path, IndexTrashed(p) PROVE Settling'
  <2>1. PICK i \in At(p) \ Live : seen' = seen \cup {i}
    BY <1>1 DEF IndexTrashed
  <2>2. i \in Rows /\ i \in Id /\ row[i].path = p /\ row[i] \in Row /\ row[i].trash # "live" /\ row' = row
    BY <1>1, <2>1, RowTyped DEF At, Live, IndexTrashed, table
  <2>3. Only(i, row[i])
    BY <2>2 DEF Only
  <2>4. UNCHANGED <<disk, lastId, cand, pc, quiet, settled, jobs, held>> /\ todo' = todo \ {p}
    BY <1>1 DEF IndexTrashed, Saw, hist, table
  <2>5. Hands' = Hands
    BY <2>4 DEF Hands
  <2>6. Sound(i, row[i])
    BY <2>2 DEF Sound
  <2>7. i \in seen' /\ seen' \in {seen, seen \cup {i}} /\ i \notin Live
    BY <2>1
  <2> QED
    BY <2>2, <2>3, <2>4, <2>5, <2>6, <2>7, InPlaceSettles
<1>2. ASSUME NEW p \in Path, IndexUnchanged(p) PROVE Settling'
  <2>1. PICK i \in At(p) \cap Live : row[i].content = disk[p] /\ row' = Shown(i) /\ seen' = seen \cup {i}
    BY <1>2 DEF IndexUnchanged
  <2> DEFINE r == [row[i] EXCEPT !.active = TRUE, !.fp = TRUE]
  <2>2. i \in Rows /\ i \in Id /\ row[i].path = p /\ i \in Live
    BY <2>1, RowTyped DEF At
  <2>3. r \in Row /\ r.path = row[i].path /\ r.content = row[i].content /\ r.fp /\ r.active
    BY <2>2, RowTyped DEF Row
  <2>4. row' = [row EXCEPT ![i] = r]
    BY <2>1 DEF Shown
  <2> HIDE DEF r
  <2>5. Only(i, r)
    BY <2>2, <2>3, <2>4, OnlyOf
  <2>6. UNCHANGED <<disk, lastId, cand, pc, quiet, settled, jobs, held>> /\ todo' = todo \ {p}
    BY <1>2 DEF IndexUnchanged, Saw, hist
  <2>7. Hands' = Hands
    BY <2>6 DEF Hands
  <2>8. Sound(i, r)
    BY <2>1, <2>2, <2>3 DEF Sound
  <2> QED
    BY <2>1, <2>2, <2>3, <2>5, <2>6, <2>7, <2>8, InPlaceSettles
<1>3. ASSUME NEW i \in Rows, NEW r, Only(i, r), r.path = row[i].path, i \notin Live => r.trash # "live",
             UNCHANGED <<disk, lastId, pass, quiet, settled>>, Sound(i, r)
      PROVE  Settling'
  <2>1. UNCHANGED <<disk, lastId, cand, pc, quiet, settled, jobs, held, todo, seen>> /\ Hands' = Hands
    BY <1>3 DEF pass, Hands
  <2> QED
    BY <1>3, <2>1, InPlaceSettles
<1>4. ASSUME NEW i \in Id, Edit(i) PROVE Settling'
  <2> DEFINE e == 1 + Max({row[j].edit : j \in Rows})
             r == [row[i] EXCEPT !.edit = e]
  <2>1. i \in Rows /\ i \in Live /\ row' = [row EXCEPT ![i] = r] /\ UNCHANGED <<disk, lastId, pass, quiet, settled>>
    BY <1>4 DEF Edit, Visible, Live, hist
  <2> HIDE DEF e
  <2>2. row[i] \in Row
    BY <2>1, RowTyped
  <2>3. r.path = row[i].path /\ r.content = row[i].content /\ r.fp = row[i].fp /\ r.active = row[i].active
        /\ r.trash = row[i].trash
    BY <2>2 DEF Row
  <2>4. r \in Row
    <3>1. PICK s \in Row : row' = [row EXCEPT ![i] = s]
      BY <1>4, Edited
    <3>2. row'[i] = s /\ row'[i] = r
      BY <2>1, <3>1 DEF Inv, TypeOK
    <3> QED
      BY <3>2
  <2> HIDE DEF r
  <2>5. Only(i, r)
    BY <2>1, <2>4, OnlyOf
  <2>6. Sound(i, r)
    BY <2>1, <2>3 DEF Sound, pass
  <2> QED
    BY <1>3, <2>1, <2>3, <2>5, <2>6
<1>5. ASSUME NEW i \in Id, SoftDelete(i) \/ (i \in Rows /\ \E t \in purging : t.id = i /\ PurgeTrash(t)) PROVE Settling'
  <2>1. PICK s \in {"live", "trash"} : row' = [row EXCEPT ![i] = [row[i] EXCEPT !.trash = s]] /\ s # "live"
    <3>1. i \in Rows => row[i].trash \in {"live", "trash"}
      BY RowTyped DEF Row
    <3> QED
      BY <1>5, <3>1 DEF SoftDelete, PurgeTrash
  <2> DEFINE r == [row[i] EXCEPT !.trash = s]
  <2>2. i \in Rows /\ UNCHANGED <<disk, lastId, pass, quiet, settled>>
    BY <1>5 DEF SoftDelete, PurgeTrash, Live
  <2>3. r \in Row /\ r.path = row[i].path /\ r.trash # "live"
    BY <2>1, <2>2, RowTyped DEF Row
  <2>4. Only(i, r)
    BY <2>1, <2>2, <2>3, OnlyOf
  <2> HIDE DEF r
  <2>5. Sound(i, r)
    BY <2>3 DEF Sound
  <2> QED
    BY <1>3, <2>2, <2>3, <2>4, <2>5
<1> QED
  BY <1>1, <1>2, <1>4, <1>5 DEF Rows

\* What was read is stored.
LEMMA StoreSettles ==
    ASSUME Inv, Settling, \/ \E j \in jobs : IndexCommit(j)
                          \/ \E h \in held : MatchNew(h)
    PROVE  Settling'
<1>1. PICK f \in Hands : /\ UpsertVideo(f.path, f.content, TRUE)
                         /\ \/ jobs' = jobs \ {f} /\ held' = held /\ f \in jobs
                            \/ jobs' = jobs /\ held' = held \ {f} /\ f \in held
                         /\ UNCHANGED <<disk, pc, todo, cand, quiet, settled>>
  BY DEF IndexCommit, MatchNew, Hands, hist
<1>2. f.path \in Path /\ f.content \in Content
  BY DEF Hands, Inv, TypeOK
<1>3. Hands' \subseteq Hands /\ \A g \in Hands \ Hands' : g.path = f.path
  BY <1>1 DEF Hands
<1>4. ASSUME NEW i \in At(f.path), seen' = seen \cup {i}, UNCHANGED lastId,
             Only(i, [row[i] EXCEPT !.content = f.content, !.fp = TRUE, !.active = TRUE])
      PROVE  Settling'
  <2> DEFINE r == [row[i] EXCEPT !.content = f.content, !.fp = TRUE, !.active = TRUE]
  <2>1. i \in Rows /\ row[i].path = f.path
    BY DEF At
  <2>2. r.path = row[i].path /\ r.trash = row[i].trash /\ r.content = f.content /\ r.fp /\ r.active
    BY <2>1, RowTyped DEF Row
  <2>3. Only(i, r)
    BY <1>4
  <2> HIDE DEF r
  <2>4. i \notin Live => r.trash # "live"
    BY <2>1, <2>2 DEF Live
  <2>5. ASSUME quiet \/ settled PROVE Sound(i, r)
    <3>1. quiet /\ pc \in {"walk", "match"}
      BY <1>1, <2>5 DEF Settling, Inv, Phases, TypeOK, Hands
    <3> QED
      BY <2>1, <2>2, <3>1 DEF Settling, HandsTrue, Sound
  <2>6. jobs' \subseteq jobs /\ held' \subseteq held /\ todo' = todo /\ seen' \in {seen, seen \cup {i}} /\ i \in seen'
    BY <1>1, <1>4
  <2> QED
    BY <1>1, <1>3, <1>4, <2>1, <2>2, <2>3, <2>4, <2>5, <2>6, InPlaceSettles
<1>5. ASSUME At(f.path) = {}, Inserted(f.path, f.content, TRUE), seen' = seen \cup {lastId'}
      PROVE  Settling'
  <2>1. held' \subseteq held /\ (settled' => settled)
    BY <1>1
  <2> QED
    BY <1>1, <1>2, <1>3, <1>5, <2>1, InsertSettles
<1> QED
  BY <1>1, <1>2, <1>4, <1>5, UpsertCases

\* The row that a held file is matched with.
LEMMA RepointOf ==
    ASSUME Inv, NEW h \in held, RepointVideo(h)
    PROVE  \E i \in Live, r \in Row :
              /\ OneToOne(h, i) /\ Only(i, r) /\ i \in Rows /\ seen' = seen \cup {i}
              /\ r.path = h.path /\ r.content = h.content /\ r.fp /\ r.active /\ r.trash = "live"
<1>1. PICK i \in Live :
          /\ OneToOne(h, i) /\ seen' = seen \cup {i}
          /\ row' = [row EXCEPT ![i].path = h.path, ![i].content = h.content,
                                ![i].fp = TRUE, ![i].active = TRUE]
  BY DEF RepointVideo
<1> DEFINE r == [row[i] EXCEPT !.path = h.path, !.content = h.content, !.fp = TRUE, !.active = TRUE]
<1>2. i \in Rows /\ i \in Id /\ row[i].trash = "live"
  BY RowTyped DEF Live
<1>3. h.path \in Path /\ h.content \in Content
  BY DEF Inv, TypeOK
<1>4. r \in Row /\ r.path = h.path /\ r.content = h.content /\ r.fp /\ r.active /\ r.trash = "live"
  BY <1>2, <1>3, RowTyped DEF Row
<1>5. row' = [row EXCEPT ![i] = r]
  BY <1>1
<1> HIDE DEF r
<1>6. Only(i, r)
  BY <1>2, <1>4, <1>5, OnlyOf
<1> QED
  BY <1>1, <1>2, <1>4, <1>6

LEMMA RepointSettles == ASSUME Inv, Settling, NEW h \in held, RepointVideo(h) PROVE Settling'
<1>1. PICK i \in Live, r \in Row :
              /\ OneToOne(h, i) /\ Only(i, r) /\ i \in Rows /\ seen' = seen \cup {i}
              /\ r.path = h.path /\ r.content = h.content /\ r.fp /\ r.active /\ r.trash = "live"
  BY RepointOf
<1>2. /\ pc = "match" /\ held' = held \ {h}
      /\ UNCHANGED <<disk, lastId, pc, todo, jobs, cand, quiet, settled>>
  BY DEF RepointVideo, hist
<1>3. /\ Rows' = Rows /\ row'[i] = r /\ i \in Live' /\ i \in Visible'
      /\ \A k \in Rows : k # i => row'[k] = row[k]
  BY <1>1, OnlyRows DEF Only, Live, Visible
<1>4. \A k \in Rows : k \in Live' <=> k \in Live
  BY <1>1, <1>3 DEF Live
<1>5. ~settled /\ h \in DOMAIN cand
  BY <1>2 DEF Settling
<1>6. ASSUME HandsTrue, SeenTrue, Passed, Missed
      PROVE  HandsTrue' /\ SeenTrue' /\ Passed' /\ Missed'
  <2>1. HandsTrue' /\ disk[h.path] = h.content
    BY <1>2, <1>6 DEF HandsTrue, Hands
  <2>2. disk[row[i].path] = Nothing
    BY <1>1, <1>2, <1>6 DEF Missed
  <2>3. SeenTrue'
    BY <1>1, <1>2, <1>3, <1>4, <1>6, <2>1 DEF SeenTrue, Visible, Live
  <2>4. Passed'
    <3>1. SUFFICES ASSUME NEW x \in Path, x \notin todo, disk[x] # Nothing
                   PROVE  \/ \E k \in At(x)' : k \notin Live' \/ k \in seen'
                          \/ \E g \in Hands' : g.path = x
      BY <1>2 DEF Passed
    <3>2. CASE \E k \in At(x) : k \notin Live \/ k \in seen
      <4>1. PICK k \in At(x) : k \notin Live \/ k \in seen
        BY <3>2
      <4>2. k # i
        BY <2>2, <3>1 DEF At
      <4> QED
        BY <1>1, <1>3, <1>4, <4>1, <4>2 DEF At
    <3>3. CASE \E g \in Hands : g.path = x
      <4>1. PICK g \in Hands : g.path = x
        BY <3>3
      <4>2. CASE g = h
        BY <1>1, <1>3, <4>1, <4>2 DEF At
      <4>3. CASE g # h
        BY <1>2, <4>1, <4>3 DEF Hands
      <4> QED
        BY <4>2, <4>3
    <3> QED
      BY <1>6, <3>1, <3>2, <3>3 DEF Passed
  <2>5. Missed'
    <3>1. SUFFICES ASSUME NEW g \in held', NEW k \in Live', OneToOne(g, k)
                   PROVE  disk[row'[k].path] = Nothing
      BY <1>2 DEF Missed, OneToOne
    <3>2. k # i
      BY <1>1, <1>2, <1>5, <3>1 DEF OneToOne
    <3>3. k \in Rows
      BY <1>3 DEF Live
    <3> QED
      BY <1>2, <1>3, <1>4, <1>6, <3>1, <3>2, <3>3 DEF Missed
  <2> QED
    BY <2>1, <2>3, <2>4, <2>5
<1>7. held' \subseteq held
  BY <1>2
<1> QED
  BY <1>2, <1>5, <1>6, <1>7 DEF Settling

\* What is hidden at the end of a pass has no file where its row says.
LEMMA HideSettles == ASSUME Inv, Settling, DeactivateExcept PROVE Settling'
<1>1. /\ row' = [i \in Id |-> IF i \in Rows \ seen THEN [row[i] EXCEPT !.active = FALSE] ELSE row[i]]
      /\ pc = "match" /\ pc' = "fold" /\ held = {}
      /\ UNCHANGED <<disk, lastId, todo, jobs, seen, held, cand, quiet, settled>>
  BY DEF DeactivateExcept, hist
<1>2. todo = {} /\ jobs = {} /\ Hands = {}
  BY <1>1 DEF Inv, Phases, Hands
<1>3. ASSUME NEW i \in Rows
      PROVE  /\ row'[i] \in Row /\ row'[i].path = row[i].path /\ row'[i].content = row[i].content
             /\ row'[i].trash = row[i].trash
             /\ row'[i].active <=> row[i].active /\ i \in seen
             /\ i \in seen => row'[i] = row[i]
  <2>1. i \in Id /\ row[i] \in Row
    BY RowTyped
  <2> QED
    BY <1>1, <2>1 DEF Row
<1>4. Rows' = Rows
  BY <1>1, <1>3, NoRowAssumption DEF Rows
<1>5. (\A x : At(x)' = At(x)) /\ Live' = Live
  BY <1>3, <1>4 DEF At, Live
<1>6. Visible' = Visible \cap seen
  <2>1. Live \subseteq Rows
    BY DEF Live
  <2> QED
    BY <1>3, <1>5, <2>1 DEF Visible
<1>7. ASSUME quiet PROVE Mirror'
  <2>1. SeenTrue /\ Passed
    BY <1>1, <1>7 DEF Settling
  <2>2. ASSUME NEW k \in Visible' PROVE disk'[row'[k].path] = row'[k].content
    <3>1. k \in seen \cap Live /\ k \in Rows
      BY <1>6 DEF Visible, Live
    <3> QED
      BY <1>1, <1>3, <2>1, <3>1 DEF SeenTrue
  <2>3. ASSUME NEW p \in Path, disk[p] # Nothing
        PROVE  \E k \in At(p) : k \notin Live \/ (k \in Visible' /\ row'[k].content = disk[p])
    <3>1. PICK k \in At(p) : k \notin Live \/ k \in seen
      BY <1>2, <2>1, <2>3 DEF Passed
    <3>2. k \in Rows /\ row[k].path = p
      BY DEF At
    <3> QED
      BY <1>3, <1>6, <2>1, <3>1, <3>2 DEF SeenTrue
  <2>4. \A p \in Path : At(p)' = At(p) /\ disk'[p] = disk[p]
    BY <1>1, <1>5
  <2> QED
    BY <1>5, <2>2, <2>3, <2>4 DEF Mirror
<1> QED
  BY <1>1, <1>2, <1>7 DEF Settling

\* The survivor of a fold.
LEMMA FoldOf ==
    ASSUME Inv, NEW o, NEW n, FoldMovedVideo(o, n), FoldEvidence(o, n)
    PROVE  /\ o \in Live /\ o \in Rows /\ n \in Rows /\ n \in Live /\ n \in Visible /\ o \notin Visible
           /\ o \in Nat /\ n \in Nat /\ o < n /\ o # n /\ row[o].content = row[n].content
           /\ Rows' = Rows \ {n}
           /\ row'[o].path = row[n].path /\ row'[o].content = row[n].content
           /\ row'[o].fp = row[n].fp /\ row'[o].active /\ row'[o].trash = "live"
           /\ \A k \in Rows : k # o /\ k # n => row'[k] = row[k]
<1>1. /\ o \in Rows /\ n \in Rows /\ o < n /\ o \in Live /\ n \in Live /\ n \in Visible /\ o \notin Visible
      /\ row[o].content = row[n].content /\ row[n].active /\ row[n].trash = "live"
  BY DEF FoldEvidence, Live, Visible, SameContent
<1>2. o \in Nat /\ n \in Nat /\ o \in Id /\ n \in Id
  BY <1>1 DEF Rows, Id
<1> DEFINE r == [row[n] EXCEPT !.edit = Carried(o, n)]
<1>3. row' = [row EXCEPT ![o] = r, ![n] = Nothing]
  BY DEF Folded, FoldMovedVideo
<1>4. r.path = row[n].path /\ r.content = row[n].content /\ r.fp = row[n].fp /\ r.active /\ r.trash = "live"
      /\ r \in Row
  <2>1. Carried(o, n) \in {row[o].edit, row[n].edit}
    BY DEF Carried
  <2> QED
    BY <1>1, <2>1, RowTyped DEF Row
<1> HIDE DEF r
<1>5. row'[o] = r /\ row'[n] = Nothing /\ \A k \in Id : k # o /\ k # n => row'[k] = row[k]
  BY <1>1, <1>2, <1>3 DEF Inv, TypeOK
<1>6. Rows' = Rows \ {n}
  BY <1>1, <1>2, <1>4, <1>5, NoRowAssumption DEF Rows
<1> QED
  BY <1>1, <1>2, <1>4, <1>5, <1>6, RowTyped

LEMMA FoldSettles ==
    ASSUME Inv, Settling, NEW o, NEW n, FoldMovedVideo(o, n)
    PROVE  Settling'
<1>1. pc = "fold" /\ UNCHANGED <<disk, lastId, pc, todo, jobs, seen, held, cand, quiet, settled>>
  BY DEF FoldMovedVideo, hist
<1>2. CASE ~FoldEvidence(o, n)
  <2>1. row' = row
    BY <1>2 DEF FoldMovedVideo
  <2>2. Mirror' = Mirror
    BY <1>1, <2>1 DEF Mirror, At, Live, Visible, Rows
  <2> QED
    BY <1>1, <2>2 DEF Settling
<1>3. CASE FoldEvidence(o, n)
  <2>1. /\ o \in Rows /\ n \in Rows /\ n \in Visible /\ o \notin Visible /\ o # n /\ o \in Live
        /\ Rows' = Rows \ {n}
        /\ row'[o].path = row[n].path /\ row'[o].content = row[n].content
        /\ row'[o].active /\ row'[o].trash = "live"
        /\ \A k \in Rows : k # o /\ k # n => row'[k] = row[k]
    BY <1>3, FoldOf
  <2>2. o \in Visible' /\ \A k \in Rows : k # o /\ k # n => (k \in Live' <=> k \in Live) /\ (k \in Visible' <=> k \in Visible)
    BY <2>1 DEF Visible, Live
  <2>3. ASSUME Mirror PROVE Mirror'
    <3>1. ASSUME NEW k \in Visible' PROVE disk[row'[k].path] = row'[k].content
      <4>1. k \in Rows /\ k # n
        BY <2>1 DEF Visible, Live
      <4> QED
        BY <2>1, <2>2, <2>3, <4>1 DEF Mirror
    <3>2. ASSUME NEW p \in Path, disk[p] # Nothing
          PROVE  \E k \in At(p)' : k \notin Live' \/ (k \in Visible' /\ row'[k].content = disk[p])
      <4>1. PICK k \in At(p) : k \notin Live \/ (k \in Visible /\ row[k].content = disk[p])
        BY <2>3, <3>2 DEF Mirror
      <4>2. k \in Rows /\ k # o /\ row[k].path = p
        BY <2>1, <4>1 DEF At
      <4>3. CASE k = n
        <5>1. k \in Visible
          BY <2>1, <4>3
        <5>2. row[n].content = disk[p]
          BY <2>3, <4>2, <4>3, <5>1 DEF Mirror
        <5> QED
          BY <2>1, <2>2, <4>2, <4>3, <5>2 DEF At
      <4>4. CASE k # n
        BY <2>1, <2>2, <4>1, <4>2, <4>4 DEF At
      <4> QED
        BY <4>3, <4>4
    <3> QED
      BY <1>1, <3>1, <3>2 DEF Mirror
  <2> QED
    BY <1>1, <2>3 DEF Settling
<1> QED
  BY <1>2, <1>3

LEMMA NextSettles == Inv /\ Settling /\ [Next]_vars => Settling'
<1> SUFFICES ASSUME Inv, Settling, [Next]_vars PROVE Settling'
  OBVIOUS
<1>1. CASE \/ Restart
           \/ \E p \in Path : Take(p) \/ (\E c \in Content : Put(p, c)) \/ (\E q \in Path : Move(p, q))
           \/ \E i \in Id : Restore(i)
           \/ \E t \in purging : PurgeFile(t) \/ PurgeFails(t) \/ HardDelete(t)
           \/ \E p \in Path : IndexYoung(p) \/ IndexStillUnprinted(p) \/ IndexFails(p)
           \/ \E P \in SUBSET Path : WalkSkips(P)
           \/ \E j \in jobs : IndexUnprinted(j)
           \/ \E q \in folds : FoldHeldBack(q[1], q[2])
  <2>1. Disturb
    BY <1>1 DEF Restart, Take, Put, Move, World, Restore, PurgeFile, PurgeFails, HardDelete, IndexYoung,
                IndexStillUnprinted, IndexFails, WalkSkips, IndexUnprinted, FoldHeldBack, Fault
  <2>2. pc' # "match" \/ (UNCHANGED <<pc, cand, lastId>> /\ held' \subseteq held)
    <3>1. CASE \E j \in jobs : IndexUnprinted(j)
      BY <3>1 DEF IndexUnprinted, Inv, Phases
    <3>2. CASE Restart
      BY <3>2 DEF Restart
    <3> QED
      BY <1>1, <3>1, <3>2 DEF Take, Put, Move, World, Restore, PurgeFile, PurgeFails, HardDelete, IndexYoung,
              IndexStillUnprinted, IndexFails, WalkSkips, FoldHeldBack, pass, table
  <2> QED
    BY <2>1, <2>2, DisturbSettles
<1>2. CASE UNCHANGED <<disk, row, lastId, pass, hist>>
  <2>1. UNCHANGED <<disk, row, lastId, pc, todo, jobs, seen, held, cand, quiet, settled>>
    BY <1>2 DEF pass, hist
  <2>2. Mirror' = Mirror /\ HandsTrue' = HandsTrue /\ SeenTrue' = SeenTrue /\ Passed' = Passed /\ Missed' = Missed
    BY <2>1 DEF Mirror, HandsTrue, SeenTrue, Passed, Missed, Hands, OneToOne, At, Live, Visible, Rows
  <2> QED
    BY <2>1, <2>2 DEF Settling
<1>3. ASSUME NEW t \in purging, PurgeTrash(t) PROVE Settling'
  <2>1. t.id \notin Rows => UNCHANGED <<disk, row, lastId, pass, hist>>
    BY <1>3 DEF PurgeTrash, hist
  <2> QED
    BY <1>2, <1>3, <2>1, RowSettles
<1>4. (\E i \in Id : PurgeNow(i)) \/ Sweep \/ UNCHANGED vars => UNCHANGED <<disk, row, lastId, pass, hist>>
  BY DEF PurgeNow, Sweep, vars, table
<1>5. CASE Scan
  BY <1>1, <1>5, WalkSettles, RowSettles, StoreSettles, RepointSettles, HideSettles, FoldSettles DEF Scan
<1>6. CASE Trash
  BY <1>1, <1>2, <1>3, <1>4, <1>6, RowSettles DEF Trash
<1> QED
  BY <1>1, <1>2, <1>4, <1>5, <1>6, RowSettles DEF Next

(***************************************************************************)
(* Homes.  While the files of a content only move, at most one path holds   *)
(* it; its home row is the oldest of its rows; and at most one place beside *)
(* the home, a second row or a hand, is about it.  A row whose file was      *)
(* found elsewhere is then repointed, or folded into its home.              *)
(***************************************************************************)
Copies(c) ==
    {x \in Path : \/ \E k \in Rows : k # home[c] /\ row[k].content = c /\ row[k].path = x
                  \/ \E f \in Hands : f.content = c /\ f.path = x}

OneFile(c) == \A x, y \in Path : disk[x] = c /\ disk[y] = c => x = y
ItsRows(c) ==
    \A k \in Rows : row[k].content = c =>
        /\ k \in Live /\ home[c] <= k /\ disk[row[k].path] \in {c, Nothing}
        /\ \A f \in Hands : f.path # row[k].path
ItsHands(c) ==
    /\ \A f \in Hands : f.content = c => disk[f.path] \in {c, Nothing}
    /\ \A j \in jobs : j.content = c => ~j.known
ItsFile(c) ==
    \A x \in Path : disk[x] = c => /\ \A k \in At(x) : row[k].content = c
                                   /\ \A f \in Hands : f.path = x => f.content = c
OneCopy(c) ==
    \A x \in Copies(c) : /\ \A y \in Copies(c) : x = y
                         /\ \A y \in Path : disk[y] = c => x = y

Homely(c) ==
    /\ home[c] \in Rows /\ row[home[c]].content = c
    /\ OneFile(c) /\ ItsRows(c) /\ ItsHands(c) /\ ItsFile(c) /\ OneCopy(c)

Homes == \A c \in Content : home[c] # Nothing => Homely(c)

\* Nothing of it is added: files, rows and hands go, or stay where they are.
LEMMA HomesStay ==
    ASSUME Inv, Homes,
           \A x \in Path : disk'[x] \in {disk[x], Nothing},
           \A k \in Rows' : k \in Rows /\ row'[k].path = row[k].path /\ row'[k].content = row[k].content,
           \A f \in Hands' : \E g \in Hands : g.path = f.path /\ g.content = f.content,
           jobs' \subseteq jobs,
           \A c \in Content : home'[c] # Nothing =>
              /\ home'[c] = home[c] /\ home[c] \in Rows'
              /\ \A k \in Rows' : row[k].content = c => row'[k].trash = row[k].trash
    PROVE  Homes'
<1>1. SUFFICES ASSUME NEW c \in Content, home'[c] # Nothing PROVE Homely(c)'
  BY DEF Homes
<1>2. Homely(c) /\ home'[c] = home[c] /\ home[c] \in Rows'
      /\ \A k \in Rows' : row[k].content = c => row'[k].trash = row[k].trash
  BY <1>1 DEF Homes
<1>3. c # Nothing
  BY StartAssumption
<1>4. \A x \in Path : disk'[x] = c => disk[x] = c
  BY <1>3
<1>5. Copies(c)' \subseteq Copies(c)
  BY <1>2 DEF Copies
<1>6. OneFile(c)' /\ OneCopy(c)'
  BY <1>2, <1>4, <1>5 DEF Homely, OneFile, OneCopy
<1>7. ItsRows(c)'
  <2>1. SUFFICES ASSUME NEW k \in Rows', row'[k].content = c
                 PROVE  /\ k \in Live' /\ home[c] <= k /\ disk'[row'[k].path] \in {c, Nothing}
                        /\ \A f \in Hands' : f.path # row'[k].path
    BY <1>2 DEF ItsRows
  <2>2. /\ k \in Rows /\ row[k].content = c /\ k \in Live /\ home[c] <= k
        /\ disk[row[k].path] \in {c, Nothing} /\ \A f \in Hands : f.path # row[k].path
        /\ row'[k].path = row[k].path /\ row'[k].trash = row[k].trash /\ row[k].path \in Path
    BY <1>2, <2>1, RowTyped DEF Homely, ItsRows
  <2> QED
    BY <2>1, <2>2 DEF Live
<1>8. ItsHands(c)'
  <2>1. \A f \in Hands : f.path \in Path
    BY DEF Hands, Inv, TypeOK
  <2> QED
    BY <1>2, <2>1 DEF Homely, ItsHands
<1>9. ItsFile(c)'
  <2>1. SUFFICES ASSUME NEW x \in Path, disk'[x] = c
                 PROVE  /\ \A k \in At(x)' : row'[k].content = c
                        /\ \A f \in Hands' : f.path = x => f.content = c
    BY DEF ItsFile
  <2>2. disk[x] = c
    BY <1>4, <2>1
  <2> QED
    BY <1>2, <2>2 DEF Homely, ItsFile, At
<1> QED
  BY <1>2, <1>6, <1>7, <1>8, <1>9 DEF Homely

\* Steps that leave rows, files and hands as they are, or take some away.
LEMMA PassHomes ==
    ASSUME Inv, Homes,
           \/ StartPass \/ EndWalk \/ EndPass \/ Restart \/ Sweep \/ UNCHANGED vars
           \/ \E p \in Path : WalkPast(p) \/ IndexTrashed(p) \/ IndexYoung(p) \/ IndexFails(p) \/ Take(p)
           \/ \E P \in SUBSET Path : WalkSkips(P)
           \/ \E j \in jobs : IndexHold(j)
           \/ \E q \in folds : FoldHeldBack(q[1], q[2])
           \/ \E i \in Id : PurgeNow(i)
           \/ \E t \in purging : PurgeFile(t) \/ PurgeFails(t)
    PROVE  Homes'
<1>1. row' = row /\ home' = home
  BY DEF StartPass, EndWalk, EndPass, Restart, Sweep, WalkPast, IndexTrashed, IndexYoung, IndexFails, Take,
         WalkSkips, IndexHold, FoldHeldBack, PurgeNow, PurgeFile, PurgeFails, World, table, hist, vars
<1>2. \A x \in Path : disk'[x] \in {disk[x], Nothing}
  <2>1. CASE \E t \in purging : PurgeFile(t)
    BY <2>1 DEF PurgeFile, Inv, TypeOK
  <2>2. CASE \E p \in Path : Take(p)
    BY <2>2 DEF Take, Inv, TypeOK
  <2> QED
    BY <2>1, <2>2 DEF StartPass, EndWalk, EndPass, Restart, Sweep, WalkPast, IndexTrashed, IndexYoung, IndexFails,
         WalkSkips, IndexHold, FoldHeldBack, PurgeNow, PurgeFails, vars
<1>3. jobs' \subseteq jobs /\ \A f \in Hands' : \E g \in Hands : g.path = f.path /\ g.content = f.content
  <2>1. CASE \E j \in jobs : IndexHold(j)
    <3>1. PICK j \in jobs : IndexHold(j)
      BY <2>1
    <3> DEFINE h == [path |-> j.path, content |-> j.content]
    <3>2. jobs' = jobs \ {j} /\ held' = held \cup {h} /\ h.path = j.path /\ h.content = j.content
      BY <3>1 DEF IndexHold
    <3> HIDE DEF h
    <3> QED
      BY <3>2 DEF Hands
  <2>2. CASE jobs' \subseteq jobs /\ held' \subseteq held
    BY <2>2 DEF Hands
  <2> QED
    BY <2>1, <2>2 DEF StartPass, EndWalk, EndPass, Restart, Sweep, WalkPast, IndexTrashed, IndexYoung, IndexFails, Take,
         WalkSkips, FoldHeldBack, PurgeNow, PurgeFile, PurgeFails, World, pass, vars
<1>4. \A c \in Content : home[c] # Nothing => home[c] \in Rows
  BY DEF Homes, Homely
<1>5. Rows' = Rows
  BY <1>1 DEF Rows
<1> QED
  BY <1>1, <1>2, <1>3, <1>4, <1>5, HomesStay

\* Steps that rewrite a row and leave it its path and content, or take it away.
LEMMA RowHomes ==
    ASSUME Inv, Homes,
           \/ DeactivateExcept
           \/ \E p \in Path : IndexUnchanged(p) \/ IndexStillUnprinted(p)
           \/ \E i \in Id : Edit(i) \/ SoftDelete(i) \/ Restore(i)
           \/ \E t \in purging : PurgeTrash(t) \/ HardDelete(t)
    PROVE  Homes'
<1>1. disk' = disk /\ jobs' = jobs /\ held' = held /\ Hands' = Hands
  BY DEF DeactivateExcept, IndexUnchanged, IndexStillUnprinted, Edit, SoftDelete, Restore, PurgeTrash, HardDelete,
         Saw, pass, Hands
<1>2. ASSUME NEW c \in Content, home[c] # Nothing
      PROVE  home[c] \in Rows /\ row[home[c]].content = c /\ \A k \in Rows : row[k].content = c => k \in Live
  BY <1>2 DEF Homes, Homely, ItsRows
<1>3. ASSUME \A k \in Rows' : k \in Rows /\ row'[k].path = row[k].path /\ row'[k].content = row[k].content,
             \A c \in Content : home'[c] # Nothing =>
                /\ home'[c] = home[c] /\ home[c] \in Rows'
                /\ \A k \in Rows' : row[k].content = c => row'[k].trash = row[k].trash
      PROVE  Homes'
  BY <1>1, <1>3, HomesStay
<1>4. CASE DeactivateExcept
  <2>1. /\ row' = [i \in Id |-> IF i \in Rows \ seen THEN [row[i] EXCEPT !.active = FALSE] ELSE row[i]]
        /\ home' = home
    BY <1>4 DEF DeactivateExcept, hist
  <2>2. ASSUME NEW i \in Rows
        PROVE  /\ row'[i] \in Row /\ row'[i].path = row[i].path /\ row'[i].content = row[i].content
               /\ row'[i].trash = row[i].trash
    <3>1. i \in Id /\ row[i] \in Row
      BY RowTyped
    <3> QED
      BY <2>1, <3>1 DEF Row
  <2>3. Rows' = Rows
    BY <2>1, <2>2, NoRowAssumption DEF Rows
  <2> QED
    BY <1>2, <1>3, <2>1, <2>2, <2>3
<1>5. ASSUME NEW i \in Rows, NEW r, Only(i, r), r.path = row[i].path, r.content = row[i].content,
             \A c \in Content : home'[c] # Nothing =>
                home'[c] = home[c] /\ (row[i].content = c => r.trash = row[i].trash)
      PROVE  Homes'
  <2>1. Rows' = Rows /\ row'[i] = r /\ \A k \in Rows : k # i => row'[k] = row[k]
    BY <1>5, OnlyRows DEF Only
  <2> QED
    BY <1>2, <1>3, <1>5, <2>1
<1>6. ASSUME NEW p \in Path, IndexUnchanged(p) \/ IndexStillUnprinted(p) PROVE Homes'
  <2>1. home' = home /\ \E i \in At(p) : \/ row' = Shown(i)
                                         \/ row' = [row EXCEPT ![i].active = TRUE]
    BY <1>6 DEF IndexUnchanged, IndexStillUnprinted, hist
  <2>2. PICK i \in Rows : \/ row' = [row EXCEPT ![i] = [row[i] EXCEPT !.active = TRUE, !.fp = TRUE]]
                          \/ row' = [row EXCEPT ![i] = [row[i] EXCEPT !.active = TRUE]]
    BY <2>1 DEF Shown, At
  <2>3. PICK r : /\ r = [row[i] EXCEPT !.active = TRUE, !.fp = TRUE] \/ r = [row[i] EXCEPT !.active = TRUE]
                 /\ row' = [row EXCEPT ![i] = r]
    BY <2>2
  <2>4. r \in Row /\ r.path = row[i].path /\ r.content = row[i].content /\ r.trash = row[i].trash /\ i \in Id
    BY <2>3, RowTyped DEF Row
  <2>5. Only(i, r)
    BY <2>3, <2>4, OnlyOf
  <2> QED
    BY <1>5, <2>1, <2>4, <2>5
<1>7. ASSUME NEW i \in Id, Edit(i) PROVE Homes'
  <2> DEFINE e == 1 + Max({row[j].edit : j \in Rows})
             r == [row[i] EXCEPT !.edit = e]
  <2>1. i \in Rows /\ row' = [row EXCEPT ![i] = r] /\ home' = home
    BY <1>7 DEF Edit, Visible, Live, hist
  <2> HIDE DEF e
  <2>2. row[i] \in Row
    BY <2>1, RowTyped
  <2>3. r.path = row[i].path /\ r.content = row[i].content /\ r.trash = row[i].trash
    BY <2>2 DEF Row
  <2>4. r \in Row
    <3>1. PICK s \in Row : row' = [row EXCEPT ![i] = s]
      BY <1>7, Edited
    <3>2. row'[i] = s /\ row'[i] = r
      BY <2>1, <3>1 DEF Inv, TypeOK
    <3> QED
      BY <3>2
  <2> HIDE DEF r
  <2>5. Only(i, r)
    BY <2>1, <2>4, OnlyOf
  <2> QED
    BY <1>5, <2>1, <2>3, <2>5
<1>8. ASSUME NEW i \in Rows, NEW s \in {"live", "trash"}, row' = [row EXCEPT ![i] = [row[i] EXCEPT !.trash = s]],
             (home' = home /\ i \notin Live) \/ Forget({row[i].content})
      PROVE  Homes'
  <2> DEFINE r == [row[i] EXCEPT !.trash = s]
  <2>1. r \in Row /\ r.path = row[i].path /\ r.content = row[i].content /\ i \in Id
    BY <1>8, RowTyped DEF Row
  <2>2. Only(i, r)
    BY <1>8, <2>1, OnlyOf
  <2> HIDE DEF r
  <2>3. \A c \in Content : home'[c] # Nothing => home'[c] = home[c] /\ row[i].content # c
    BY <1>2, <1>8 DEF Forget
  <2> QED
    BY <1>5, <2>1, <2>2, <2>3
<1>9. ASSUME NEW t \in purging, PurgeTrash(t) PROVE Homes'
  <2>1. CASE t.id \in Rows
    <3>1. row[t.id].trash \in {"live", "trash"}
      BY <2>1, RowTyped DEF Row
    <3>2. PICK s \in {"live", "trash"} : row' = [row EXCEPT ![t.id] = [row[t.id] EXCEPT !.trash = s]]
      BY <1>9, <2>1, <3>1 DEF PurgeTrash
    <3> QED
      BY <1>8, <1>9, <2>1, <3>2 DEF PurgeTrash
  <2>2. CASE t.id \notin Rows
    <3>1. row' = row /\ home' = home /\ Rows' = Rows
      BY <1>9, <2>2 DEF PurgeTrash, Rows
    <3> QED
      BY <1>2, <1>3, <3>1
  <2> QED
    BY <2>1, <2>2
<1>10. ASSUME NEW t \in purging, HardDelete(t) PROVE Homes'
  <2>1. t.id \in Id
    BY DEF Inv, TypeOK, Purging
  <2>2. /\ row' = [row EXCEPT ![t.id] = Nothing]
        /\ home' = [c \in Content |-> IF home[c] = t.id THEN Nothing ELSE home[c]]
    BY <1>10 DEF HardDelete, Deleted
  <2>3. Rows' = Rows \ {t.id} /\ \A k \in Rows' : row'[k] = row[k]
    BY <2>1, <2>2 DEF Rows, Inv, TypeOK
  <2> QED
    BY <1>2, <1>3, <2>2, <2>3
<1>11. ASSUME NEW i \in Id, SoftDelete(i) \/ Restore(i) PROVE Homes'
  <2>1. i \in Rows /\ (\E s \in {"live", "trash"} : row' = [row EXCEPT ![i] = [row[i] EXCEPT !.trash = s]])
        /\ ((home' = home /\ i \notin Live) \/ Forget({row[i].content}))
    BY <1>11 DEF SoftDelete, Restore, Live
  <2> QED
    BY <1>8, <2>1
<1> QED
  BY <1>4, <1>6, <1>7, <1>9, <1>10, <1>11

\* A set with at most one element in it.
LEMMA AtMostOne ==
    ASSUME NEW S, IsFiniteSet(S), ~(Cardinality(S) > 1)
    PROVE  \A x, y \in S : x = y
<1>1. Cardinality(S) \in Nat
  BY FS_CardinalityType
<1>2. CASE Cardinality(S) = 0
  BY <1>2, FS_EmptySet
<1>3. CASE Cardinality(S) = 1
  <2>1. PICK z : S = {z}
    BY <1>3, FS_Singleton
  <2> QED
    BY <2>1
<1> QED
  BY <1>1, <1>2, <1>3

\* A file appears at a path, and what it does not muddle keeps its home.
LEMMA AppearsHomes ==
    ASSUME Inv, Homes, NEW p \in Path, NEW c \in Content, disk[p] = Nothing,
           NEW n \in Nat, Forget(Muddled(c, p, n)),
           disk'[p] = c, \A x \in Path : x # p => disk'[x] \in {disk[x], Nothing},
           n > 0 \/ \A x \in Path : x # p => disk'[x] # c,
           UNCHANGED <<row, jobs, held>>
    PROVE  Homes'
<1>1. SUFFICES ASSUME NEW d \in Content, home'[d] # Nothing PROVE Homely(d)'
  BY DEF Homes
<1>2. d \notin Muddled(c, p, n) /\ home'[d] = home[d] /\ Homely(d)
  BY <1>1 DEF Forget, Homes
<1>3. Hands' = Hands /\ Rows' = Rows /\ Live' = Live /\ (\A x : At(x)' = At(x)) /\ Copies(d)' = Copies(d)
  BY <1>2 DEF Hands, Rows, Live, At, Copies
<1>4. d # Nothing
  BY StartAssumption
<1>5. d \notin Foreign(c, p)
  BY <1>2 DEF Muddled
<1>6. /\ \A k \in At(p) : row[k].content # c \/ row[k].trash # "live" => row[k].content # d
      /\ \A f \in Hands : f.path = p => f.content # d
  BY <1>5 DEF Foreign, Hands
<1>7. CASE d # c
  <2>1. \A x \in Path : disk'[x] = d => disk[x] = d /\ x # p
    BY <1>4, <1>7
  <2>2. /\ \A k \in Rows : row[k].content = d => row[k].path # p
        /\ \A f \in Hands : f.content = d => f.path # p
    BY <1>6, <1>7 DEF At
  <2>3. \A f \in Hands : f.path \in Path
    BY DEF Hands, Inv, TypeOK
  <2>4. OneFile(d)' /\ OneCopy(d)'
    BY <1>2, <1>3, <2>1 DEF Homely, OneFile, OneCopy
  <2>5. ItsRows(d)'
    BY <1>2, <1>3, <2>2, RowTyped DEF Homely, ItsRows
  <2>6. ItsHands(d)'
    BY <1>2, <1>3, <2>2, <2>3 DEF Homely, ItsHands
  <2>7. ItsFile(d)'
    BY <1>2, <1>3, <2>1 DEF Homely, ItsFile
  <2> QED
    BY <1>2, <1>3, <2>4, <2>5, <2>6, <2>7 DEF Homely
<1>8. CASE d = c
  <2>1. /\ n = 0 /\ Foreign(c, p) = {} /\ ~(Cardinality({i \in Rows : row[i].content = c}) > 1)
        /\ \A f \in jobs \cup held : f.content # c
    BY <1>2, <1>8 DEF Muddled
  <2>2. IsFiniteSet({i \in Rows : row[i].content = c})
    <3>1. IsFiniteSet(1 .. MaxRow)
      BY BoundsAssumption, FS_Interval
    <3>2. {i \in Rows : row[i].content = c} \subseteq 1 .. MaxRow
      BY DEF Rows, Id
    <3> QED
      BY <3>1, <3>2, FS_Subset
  <2>3. \A k \in Rows : row[k].content = c => k = home[c]
    BY <1>2, <1>8, <2>1, <2>2, AtMostOne DEF Homely
  <2>4. \A x \in Path : disk'[x] = c => x = p
    BY <2>1
  <2>5. Copies(c) = {}
    BY <2>1, <2>3 DEF Copies, Hands
  <2>6. /\ \A k \in At(p) : row[k].content = c
        /\ \A f \in Hands : f.path # p
    <3>1. /\ \A k \in At(p) : row[k].content # c => row[k].content \in Foreign(c, p)
          /\ \A f \in Hands : f.path = p => f.content \in Foreign(c, p)
      BY DEF Foreign, Hands
    <3> QED
      BY <2>1, <3>1
  <2>7. OneFile(c)' /\ OneCopy(c)'
    BY <1>3, <1>8, <2>4, <2>5 DEF OneFile, OneCopy
  <2>8. ItsRows(c)'
    BY <1>2, <1>3, <1>8, RowTyped DEF Homely, ItsRows
  <2>9. ItsHands(c)' /\ ItsFile(c)'
    BY <1>3, <2>1, <2>4, <2>6 DEF ItsHands, ItsFile, Hands
  <2> QED
    BY <1>2, <1>3, <1>8, <2>7, <2>8, <2>9 DEF Homely
<1> QED
  BY <1>7, <1>8

LEMMA FilesHomes ==
    ASSUME Inv, Homes, \E p \in Path : (\E c \in Content : Put(p, c)) \/ (\E q \in Path : Move(p, q))
    PROVE  Homes'
<1>1. ASSUME NEW p \in Path, NEW c \in Content, Put(p, c) PROVE Homes'
  <2> DEFINE S == {q \in Path : disk[q] = c}
             n == Cardinality(S)
  <2>1. /\ disk[p] = Nothing /\ disk' = [disk EXCEPT ![p] = c] /\ Forget(Muddled(c, p, n))
        /\ UNCHANGED <<row, jobs, held>>
    BY <1>1 DEF Put, World, table, pass
  <2>2. IsFiniteSet(S) /\ n \in Nat
    BY BoundsAssumption, FS_Subset, FS_CardinalityType
  <2>3. n > 0 \/ S = {}
    BY <2>2, FS_EmptySet
  <2>4. disk'[p] = c /\ \A x \in Path : x # p => disk'[x] = disk[x]
    BY <2>1 DEF Inv, TypeOK
  <2>5. n > 0 \/ \A x \in Path : x # p => disk'[x] # c
    BY <2>3, <2>4
  <2> HIDE DEF n
  <2> QED
    BY <2>1, <2>2, <2>4, <2>5, AppearsHomes
<1>2. ASSUME NEW p \in Path, NEW q \in Path, Move(p, q) PROVE Homes'
  <2>0. disk[p] # Nothing /\ disk[p] \in Content
    BY <1>2 DEF Move, Inv, TypeOK
  <2> PICK c \in Content : c = disk[p]
    BY <2>0
  <2>1. /\ c # Nothing /\ disk[q] = Nothing /\ disk' = [disk EXCEPT ![p] = Nothing, ![q] = c]
        /\ Forget(Muddled(c, q, 0)) /\ UNCHANGED <<row, jobs, held>>
    BY <1>2, <2>0 DEF Move, World, table, pass
  <2>2. p # q
    BY <2>0, <2>1
  <2>3. disk'[q] = c /\ disk'[p] = Nothing /\ \A x \in Path : x # p /\ x # q => disk'[x] = disk[x]
    BY <2>1, <2>2 DEF Inv, TypeOK
  <2>6. ASSUME NEW n \in Nat, Forget(Muddled(c, q, n)), n > 0 \/ \A x \in Path : x # q => disk'[x] # c
        PROVE  Homes'
    BY <2>1, <2>3, <2>6, AppearsHomes
  <2>4. CASE home[c] # Nothing
    <3>1. OneFile(c)
      BY <2>4 DEF Homes, Homely
    <3>2. \A x \in Path : x # q => disk'[x] # c
      BY <2>0, <2>1, <2>3, <3>1 DEF OneFile
    <3> QED
      BY <2>1, <2>6, <3>2
  <2>5. CASE home[c] = Nothing
    <3>1. Forget(Muddled(c, q, 1))
      <4>1. \A d \in Muddled(c, q, 1) : d \in Muddled(c, q, 0) \/ d = c
        BY DEF Muddled
      <4>2. Muddled(c, q, 0) \subseteq Muddled(c, q, 1)
        BY DEF Muddled
      <4> QED
        BY <2>1, <2>5, <4>1, <4>2 DEF Forget
    <3> QED
      BY <2>6, <3>1
  <2> QED
    BY <2>4, <2>5
<1> QED
  BY <1>1, <1>2

\* A file read for storing: had its content a home, the row at its path would be its
\* own, and the file would not be read.
LEMMA ReadHomes == ASSUME Inv, Homes, NEW p \in Path, IndexRead(p) PROVE Homes'
<1> DEFINE j == [path |-> p, content |-> disk[p], known |-> At(p) # {}]
<1>1. /\ disk[p] # Nothing /\ jobs' = jobs \cup {j} /\ p \in todo
      /\ \A i \in At(p) : i \in Live /\ row[i].content # disk[p]
      /\ UNCHANGED <<disk, row, held, home>>
  BY DEF IndexRead, Saw, hist, table
<1>2. j.path = p /\ j.content = disk[p] /\ (j.known <=> At(p) # {})
  OBVIOUS
<1> HIDE DEF j
<1>3. Hands' = Hands \cup {j} /\ Rows' = Rows /\ Live' = Live /\ \A x : At(x)' = At(x)
  BY <1>1 DEF Hands, Rows, Live, At
<1>4. SUFFICES ASSUME NEW c \in Content, home[c] # Nothing PROVE Homely(c)'
  BY <1>1 DEF Homes
<1>5. Homely(c) /\ c # Nothing
  BY <1>4, StartAssumption DEF Homes
<1>6. disk[p] = c => At(p) = {}
  BY <1>1, <1>5 DEF Homely, ItsFile
<1>7. OneFile(c)' /\ ItsFile(c)'
  BY <1>1, <1>2, <1>3, <1>5 DEF Homely, OneFile, ItsFile
<1>8. ItsHands(c)'
  BY <1>1, <1>2, <1>3, <1>5, <1>6 DEF Homely, ItsHands
<1>9. ItsRows(c)'
  <2>1. \A k \in Rows : row[k].content = c => row[k].path # p
    <3>1. SUFFICES ASSUME NEW k \in Rows, row[k].content = c, row[k].path = p PROVE FALSE
      OBVIOUS
    <3>2. k \in At(p) /\ disk[p] \in {c, Nothing}
      BY <1>5, <3>1 DEF Homely, ItsRows, At
    <3> QED
      BY <1>1, <3>1, <3>2
  <2> QED
    BY <1>1, <1>2, <1>3, <1>5, <2>1 DEF Homely, ItsRows
<1>10. OneCopy(c)'
  <2>1. Copies(c)' \subseteq Copies(c) \cup {x \in Path : x = p /\ disk[p] = c}
    BY <1>1, <1>2, <1>3 DEF Copies
  <2> QED
    BY <1>1, <1>5, <2>1 DEF Homely, OneCopy, OneFile
<1> QED
  BY <1>1, <1>3, <1>5, <1>7, <1>8, <1>9, <1>10 DEF Homely

\* What was read is stored: a row that takes another content is of no content with a
\* home, and a new row is the one other place of its content.
LEMMA StoreHomes ==
    ASSUME Inv, Homes,
           \/ \E j \in jobs : IndexCommit(j) \/ IndexUnprinted(j)
           \/ \E h \in held : MatchNew(h)
    PROVE  Homes'
<1>1. PICK f \in Hands, fp \in BOOLEAN :
          /\ UpsertVideo(f.path, f.content, fp)
          /\ \/ jobs' = jobs \ {f} /\ held' = held /\ f \in jobs
             \/ jobs' = jobs /\ held' = held \ {f} /\ f \in held
          /\ UNCHANGED <<disk, home>>
  BY DEF IndexCommit, IndexUnprinted, MatchNew, Hands, hist
<1>2. f.path \in Path /\ f.content \in Content
  BY DEF Hands, Inv, TypeOK
<1>3. Hands' \subseteq Hands /\ jobs' \subseteq jobs
  BY <1>1 DEF Hands
<1>4. \A g \in Hands' : g.path # f.path
  BY <1>1 DEF Inv, Apart, Hands
<1>5. SUFFICES ASSUME NEW c \in Content, home[c] # Nothing PROVE Homely(c)'
  BY <1>1 DEF Homes
<1>6. Homely(c) /\ c # Nothing
  BY <1>5, StartAssumption DEF Homes
<1>7. disk[f.path] = c => f.content = c
  BY <1>2, <1>6 DEF Homely, ItsFile
<1>8. OneFile(c)' /\ ItsHands(c)'
  BY <1>1, <1>3, <1>6 DEF Homely, OneFile, ItsHands
<1>9. ASSUME NEW i \in At(f.path),
             Only(i, [row[i] EXCEPT !.content = f.content, !.fp = fp, !.active = TRUE])
      PROVE  Homely(c)'
  <2> DEFINE r == [row[i] EXCEPT !.content = f.content, !.fp = fp, !.active = TRUE]
  <2>1. i \in Rows /\ row[i].path = f.path
    BY DEF At
  <2>2. r.path = f.path /\ r.content = f.content
    BY <2>1, RowTyped DEF Row
  <2>3. Only(i, r)
    BY <1>9
  <2> HIDE DEF r
  <2>4. Rows' = Rows /\ row'[i] = r /\ \A k \in Rows : k # i => row'[k] = row[k]
    BY <2>1, <2>3, OnlyRows DEF Only
  <2>5. f.content # c
    <3>1. f \in jobs /\ f.known
      BY <1>1 DEF Inv, Apart
    <3> QED
      BY <1>6, <3>1 DEF Homely, ItsHands
  <2>6. row[i].content # c
    BY <1>6, <2>1 DEF Homely, ItsRows
  <2>7. \A k \in Rows : row'[k].content = c => k # i
    BY <2>2, <2>4, <2>5
  <2>8. home[c] \in Rows /\ row'[home[c]] = row[home[c]]
    BY <1>6, <2>4, <2>6 DEF Homely
  <2>9. ItsRows(c)'
    BY <1>1, <1>3, <1>6, <2>4, <2>7 DEF Homely, ItsRows, Live
  <2>10. ItsFile(c)'
    BY <1>1, <1>3, <1>6, <1>7, <2>1, <2>2, <2>4, <2>5 DEF Homely, ItsFile, At
  <2>11. OneCopy(c)'
    <3>1. Copies(c)' \subseteq Copies(c)
      BY <1>1, <1>3, <2>4, <2>7 DEF Copies
    <3> QED
      BY <1>1, <1>6, <3>1 DEF Homely, OneCopy
  <2> QED
    BY <1>1, <1>6, <1>8, <2>4, <2>8, <2>9, <2>10, <2>11 DEF Homely
<1>10. ASSUME At(f.path) = {}, Inserted(f.path, f.content, fp) PROVE Homely(c)'
  <2> DEFINE n == lastId'
             r == [path |-> f.path, content |-> f.content, fp |-> fp, active |-> TRUE, trash |-> "live", edit |-> 0]
  <2>1. Only(n, r) /\ n \notin Rows /\ n = lastId + 1 /\ lastId \in Nat
    BY <1>10, BoundsAssumption DEF Inserted, Inv, TypeOK
  <2>2. r.path = f.path /\ r.content = f.content /\ r.trash = "live"
    OBVIOUS
  <2> HIDE DEF r, n
  <2>3. Rows' = Rows \cup {n} /\ row'[n] = r /\ \A k \in Rows : row'[k] = row[k]
    BY <2>1, OnlyRows DEF Only
  <2>4. home[c] \in Rows /\ home[c] # n /\ row'[home[c]] = row[home[c]]
    BY <1>6, <2>1, <2>3 DEF Homely
  <2>5. home[c] <= n
    <3>1. home[c] <= lastId /\ home[c] \in Nat
      BY <2>4 DEF Inv, Fresh, Rows, Id
    <3> QED
      BY <2>1, <3>1
  <2>6. ItsRows(c)'
    <3>1. SUFFICES ASSUME NEW k \in Rows', row'[k].content = c
                   PROVE  /\ k \in Live' /\ home[c] <= k /\ disk[row'[k].path] \in {c, Nothing}
                          /\ \A g \in Hands' : g.path # row'[k].path
      BY <1>1 DEF ItsRows
    <3>2. CASE k = n
      <4>1. disk[f.path] \in {c, Nothing}
        BY <1>6, <2>2, <2>3, <3>1, <3>2 DEF Homely, ItsHands
      <4> QED
        BY <1>4, <2>2, <2>3, <2>5, <3>1, <3>2, <4>1 DEF Live
    <3>3. CASE k # n
      BY <1>3, <1>6, <2>3, <3>1, <3>3 DEF Homely, ItsRows, Live
    <3> QED
      BY <3>2, <3>3
  <2>7. ItsFile(c)'
    BY <1>1, <1>3, <1>6, <1>7, <2>2, <2>3 DEF Homely, ItsFile, At
  <2>8. OneCopy(c)'
    <3>1. Copies(c)' \subseteq Copies(c)
      BY <1>1, <1>3, <2>2, <2>3 DEF Copies
    <3> QED
      BY <1>1, <1>6, <3>1 DEF Homely, OneCopy
  <2> QED
    BY <1>1, <1>6, <1>8, <2>3, <2>4, <2>6, <2>7, <2>8 DEF Homely
<1> QED
  BY <1>1, <1>2, <1>9, <1>10, UpsertCases

\* A held file is matched with a row of its own content.
Matched == pc = "match" => \A h \in held, k \in Rows : OneToOne(h, k) => row[k].content = h.content

LEMMA RepointHomes == ASSUME Inv, Homes, Matched, NEW h \in held, RepointVideo(h) PROVE Homes'
<1>1. PICK i \in Live, r \in Row :
              /\ OneToOne(h, i) /\ Only(i, r) /\ i \in Rows
              /\ r.path = h.path /\ r.content = h.content /\ r.trash = "live"
  BY RepointOf
<1>2. pc = "match" /\ held' = held \ {h} /\ UNCHANGED <<disk, jobs, home>>
  BY DEF RepointVideo, hist
<1>3. row[i].content = h.content /\ h.path \in Path /\ At(h.path) = {} /\ h \in Hands
  BY <1>1, <1>2 DEF Matched, Inv, Apart, TypeOK, Hands
<1>4. Hands' \subseteq Hands /\ \A g \in Hands' : g.path # h.path
  BY <1>2 DEF Hands, Inv, Apart
<1>5. Rows' = Rows /\ row'[i] = r /\ \A k \in Rows : k # i => row'[k] = row[k]
  BY <1>1, OnlyRows DEF Only
<1>6. \A k \in Rows : row'[k].content = row[k].content /\ (k \in Live => k \in Live')
  BY <1>1, <1>3, <1>5 DEF Live
<1>7. SUFFICES ASSUME NEW c \in Content, home[c] # Nothing PROVE Homely(c)'
  BY <1>2 DEF Homes
<1>8. Homely(c) /\ c # Nothing
  BY <1>7, StartAssumption DEF Homes
<1>9. h.content = c => i = home[c]
  <2>1. SUFFICES ASSUME h.content = c, i # home[c] PROVE FALSE
    OBVIOUS
  <2>2. row[i].path \in Copies(c) /\ h.path \in Copies(c)
    BY <1>1, <1>3, <2>1, RowTyped DEF Copies
  <2>3. row[i].path = h.path
    BY <1>8, <2>2 DEF Homely, OneCopy
  <2> QED
    BY <1>1, <1>3, <2>3 DEF At
<1>10. OneFile(c)' /\ ItsHands(c)'
  BY <1>2, <1>4, <1>8 DEF Homely, OneFile, ItsHands
<1>11. ItsRows(c)'
  <2>1. SUFFICES ASSUME NEW k \in Rows, row[k].content = c
                 PROVE  /\ k \in Live' /\ home[c] <= k /\ disk[row'[k].path] \in {c, Nothing}
                        /\ \A g \in Hands' : g.path # row'[k].path
    BY <1>2, <1>5, <1>6 DEF ItsRows
  <2>2. CASE k = i
    BY <1>1, <1>3, <1>4, <1>5, <1>6, <1>8, <2>1, <2>2 DEF Homely, ItsRows, ItsHands
  <2>3. CASE k # i
    BY <1>4, <1>5, <1>6, <1>8, <2>1, <2>3 DEF Homely, ItsRows
  <2> QED
    BY <2>2, <2>3
<1>12. ItsFile(c)'
  <2>1. disk[h.path] = c => h.content = c
    BY <1>3, <1>8 DEF Homely, ItsFile
  <2> QED
    BY <1>1, <1>2, <1>3, <1>4, <1>5, <1>8, <2>1 DEF Homely, ItsFile, At
<1>13. OneCopy(c)'
  <2>1. Copies(c)' \subseteq Copies(c)
    BY <1>1, <1>2, <1>3, <1>4, <1>5, <1>9 DEF Copies
  <2> QED
    BY <1>2, <1>8, <2>1 DEF Homely, OneCopy
<1> QED
  BY <1>2, <1>5, <1>6, <1>8, <1>10, <1>11, <1>12, <1>13 DEF Homely

\* What is folded of a content with a home is folded into the home.
LEMMA FoldsHome ==
    ASSUME Inv, Homes, NEW o, NEW n, FoldEvidence(o, n), NEW c \in Content, home[c] # Nothing,
           row[n].content = c
    PROVE  o = home[c]
<1>1. o \in Rows /\ n \in Rows /\ o < n /\ row[o].content = c
  BY DEF FoldEvidence, Live, Visible, SameContent
<1>2. Homely(c) /\ home[c] <= o /\ home[c] \in Rows
  BY <1>1 DEF Homes, Homely, ItsRows
<1>3. home[c] \in Nat /\ o \in Nat /\ n \in Nat
  BY <1>1, <1>2 DEF Rows, Id
<1>4. SUFFICES ASSUME o # home[c] PROVE FALSE
  OBVIOUS
<1>5. n # home[c] /\ o # n
  BY <1>1, <1>2, <1>3
<1>6. row[o].path \in Copies(c) /\ row[n].path \in Copies(c)
  BY <1>1, <1>4, <1>5, RowTyped DEF Copies
<1>7. row[o].path = row[n].path
  BY <1>2, <1>6 DEF Homely, OneCopy
<1> QED
  BY <1>1, <1>5, <1>7 DEF Inv, OneRowPerPath

LEMMA FoldHomes == ASSUME Inv, Homes, NEW o, NEW n, FoldMovedVideo(o, n) PROVE Homes'
<1>1. UNCHANGED <<disk, jobs, held, home, Hands>>
  BY DEF FoldMovedVideo, hist, Hands
<1>2. CASE ~FoldEvidence(o, n)
  <2>1. row' = row /\ Rows' = Rows
    BY <1>2 DEF FoldMovedVideo, Rows
  <2>2. \A c \in Content : home[c] # Nothing => home[c] \in Rows
    BY DEF Homes, Homely
  <2> QED
    BY <1>1, <2>1, <2>2, HomesStay
<1>3. CASE FoldEvidence(o, n)
  <2>1. /\ o \in Live /\ o \in Rows /\ n \in Rows /\ n \in Live /\ o # n
        /\ row[o].content = row[n].content
        /\ Rows' = Rows \ {n}
        /\ row'[o].path = row[n].path /\ row'[o].content = row[n].content /\ row'[o].trash = "live"
        /\ \A k \in Rows : k # o /\ k # n => row'[k] = row[k]
    BY <1>3, FoldOf
  <2>2. SUFFICES ASSUME NEW c \in Content, home[c] # Nothing PROVE Homely(c)'
    BY <1>1 DEF Homes
  <2>3. Homely(c) /\ c # Nothing /\ (row[n].content = c => o = home[c])
    BY <1>3, <2>2, FoldsHome, StartAssumption DEF Homes
  <2>4. \A k \in Rows' : k \in Rows /\ row'[k].content = row[k].content /\ (k \in Live => k \in Live')
    BY <2>1 DEF Live
  <2>5. home[c] \in Rows'
    BY <2>1, <2>3 DEF Homely
  <2>6. OneFile(c)' /\ ItsHands(c)'
    BY <1>1, <2>3 DEF Homely, OneFile, ItsHands
  <2>7. ItsRows(c)'
    <3>1. SUFFICES ASSUME NEW k \in Rows', row[k].content = c
                   PROVE  /\ k \in Live' /\ home[c] <= k /\ disk[row'[k].path] \in {c, Nothing}
                          /\ \A g \in Hands : g.path # row'[k].path
      BY <1>1, <2>4 DEF ItsRows
    <3>2. CASE k = o
      BY <2>1, <2>3, <2>4, <3>1, <3>2 DEF Homely, ItsRows
    <3>3. CASE k # o
      BY <2>1, <2>3, <2>4, <3>1, <3>3 DEF Homely, ItsRows
    <3> QED
      BY <3>2, <3>3
  <2>8. ItsFile(c)'
    BY <1>1, <2>1, <2>3 DEF Homely, ItsFile, At
  <2>9. OneCopy(c)'
    <3>1. Copies(c)' \subseteq Copies(c)
      BY <1>1, <2>1, <2>3 DEF Copies
    <3> QED
      BY <1>1, <2>3, <3>1 DEF Homely, OneCopy
  <2> QED
    BY <1>1, <2>3, <2>4, <2>5, <2>6, <2>7, <2>8, <2>9 DEF Homely
<1> QED
  BY <1>2, <1>3

LEMMA NextHomes == Inv /\ Homes /\ Matched /\ [Next]_vars => Homes'
<1> SUFFICES ASSUME Inv, Homes, Matched, [Next]_vars PROVE Homes'
  OBVIOUS
<1>1. CASE Scan
  BY <1>1, PassHomes, RowHomes, ReadHomes, StoreHomes, RepointHomes, FoldHomes DEF Scan
<1>2. CASE Trash
  BY <1>2, PassHomes, RowHomes DEF Trash
<1> QED
  BY <1>1, <1>2, PassHomes, RowHomes, FilesHomes DEF Next

\* After a quiet pass the home of a content that has a file is the only row of it.
Alone ==
    settled => \A c \in Content : home[c] # Nothing /\ (\E x \in Path : disk[x] = c) =>
                  \A k \in Rows : row[k].content = c => k = home[c]

\* What a quiet pass leaves for the heal: a second row beside a home, to fold into it.
Healing ==
    quiet /\ pc = "fold" =>
        \A c \in Content, n \in Rows :
            home[c] # Nothing /\ n # home[c] /\ row[n].content = c /\ (\E x \in Path : disk[x] = c) =>
                <<home[c], n>> \in folds /\ FoldEvidence(home[c], n)

\* No row takes another path or another content.
FactsStay == \A k \in Rows' : k \in Rows /\ row'[k].path = row[k].path /\ row'[k].content = row[k].content

LEMMA KeepsFacts ==
    ASSUME Inv,
           \/ DeactivateExcept \/ UNCHANGED row
           \/ \E p \in Path : IndexUnchanged(p) \/ IndexStillUnprinted(p)
           \/ \E i \in Id : Edit(i) \/ SoftDelete(i) \/ Restore(i)
           \/ \E t \in purging : PurgeTrash(t) \/ HardDelete(t)
    PROVE  FactsStay
<1>1. ASSUME NEW i \in Rows, NEW r, row' = [row EXCEPT ![i] = r], r.path = row[i].path, r.content = row[i].content
      PROVE  FactsStay
  BY <1>1 DEF FactsStay, Rows, Inv, TypeOK
<1>2. ASSUME NEW i \in Rows, NEW s,
             \/ row' = [row EXCEPT ![i].trash = s]
             \/ row' = [row EXCEPT ![i].edit = s]
             \/ row' = [row EXCEPT ![i].active = s]
             \/ row' = [row EXCEPT ![i].active = s, ![i].fp = s]
      PROVE  FactsStay
  <2>1. PICK r : /\ row' = [row EXCEPT ![i] = r]
                 /\ \/ r = [row[i] EXCEPT !.trash = s]
                    \/ r = [row[i] EXCEPT !.edit = s]
                    \/ r = [row[i] EXCEPT !.active = s]
                    \/ r = [row[i] EXCEPT !.active = s, !.fp = s]
    BY <1>2
  <2>2. r.path = row[i].path /\ r.content = row[i].content
    BY <2>1, RowTyped DEF Row
  <2> QED
    BY <1>1, <2>1, <2>2
<1>3. CASE DeactivateExcept
  <2>1. row' = [i \in Id |-> IF i \in Rows \ seen THEN [row[i] EXCEPT !.active = FALSE] ELSE row[i]]
    BY <1>3 DEF DeactivateExcept
  <2>2. \A i \in Id : i \in Rows => row'[i].path = row[i].path /\ row'[i].content = row[i].content
    BY <2>1, RowTyped DEF Row
  <2>3. Rows' \subseteq Rows
    BY <2>1 DEF Rows
  <2> QED
    BY <2>2, <2>3 DEF FactsStay, Rows
<1>4. ASSUME NEW p \in Path, IndexUnchanged(p) \/ IndexStillUnprinted(p) PROVE FactsStay
  <2>1. PICK i \in Rows : row' = [row EXCEPT ![i].active = TRUE] \/ row' = [row EXCEPT ![i].active = TRUE, ![i].fp = TRUE]
    BY <1>4 DEF IndexUnchanged, IndexStillUnprinted, Shown, At
  <2> QED
    BY <1>2, <2>1
<1>5. ASSUME NEW i \in Id, Edit(i) \/ SoftDelete(i) \/ Restore(i) PROVE FactsStay
  <2>1. i \in Rows
    BY <1>5 DEF Edit, SoftDelete, Restore, Live, Visible
  <2> QED
    BY <1>2, <1>5, <2>1 DEF Edit, SoftDelete, Restore
<1>6. ASSUME NEW t \in purging, PurgeTrash(t) \/ HardDelete(t) PROVE FactsStay
  <2>1. CASE HardDelete(t)
    <3>1. t.id \in Id /\ row' = [row EXCEPT ![t.id] = Nothing]
      BY <2>1 DEF HardDelete, Deleted, Inv, TypeOK, Purging
    <3> QED
      BY <3>1 DEF FactsStay, Rows, Inv, TypeOK
  <2>2. CASE PurgeTrash(t) /\ t.id \in Rows
    <3>1. PICK s : row' = [row EXCEPT ![t.id].trash = s]
      BY <2>2 DEF PurgeTrash
    <3> QED
      BY <1>2, <2>2, <3>1
  <2>3. CASE UNCHANGED row
    BY <2>3 DEF FactsStay, Rows
  <2> QED
    BY <1>6, <2>1, <2>2, <2>3 DEF PurgeTrash
<1> QED
  BY <1>3, <1>4, <1>5, <1>6 DEF FactsStay, Rows

\* Every step but those that store a file, repoint a row or fold one.
LEMMA NextFacts ==
    ASSUME Inv, [Next]_vars
    PROVE  \/ FactsStay
           \/ \E j \in jobs : IndexCommit(j) \/ IndexUnprinted(j)
           \/ \E h \in held : RepointVideo(h) \/ MatchNew(h)
           \/ \E q \in folds : FoldMovedVideo(q[1], q[2])
<1>1. CASE Scan
  BY <1>1, KeepsFacts DEF Scan, StartPass, EndWalk, EndPass, WalkPast, IndexTrashed, IndexYoung, IndexRead, IndexFails,
         WalkSkips, IndexHold, FoldHeldBack, table
<1>2. CASE Trash
  BY <1>2, KeepsFacts DEF Trash, PurgeNow, Sweep, PurgeFile, PurgeFails, table
<1> QED
  BY <1>1, <1>2, KeepsFacts DEF Next, Restart, Take, Put, Move, World, table, vars

LEMMA NextMatched == Inv /\ Settling /\ Matched /\ [Next]_vars => Matched'
<1> SUFFICES ASSUME Inv, Settling, Matched, [Next]_vars, pc' = "match",
                    NEW h \in held', NEW k \in Rows', OneToOne(h, k)'
             PROVE  row'[k].content = h.content
  BY DEF Matched
<1>1. CASE EndWalk
  <2>1. cand' = [g \in held |-> MoveCandidates(g)] /\ held' = held /\ row' = row
    BY <1>1 DEF EndWalk, table
  <2>2. k \in MoveCandidates(h)
    BY <2>1 DEF OneToOne
  <2> QED
    BY <2>1, <2>2 DEF MoveCandidates, SameContent
<1>2. CASE ~EndWalk
  <2>1. pc = "match" /\ cand' = cand /\ held' \subseteq held
    <3>1. CASE Scan
      BY <1>2, <3>1 DEF Scan, StartPass, DeactivateExcept, EndPass, WalkPast, IndexTrashed, IndexYoung,
            IndexUnchanged, IndexStillUnprinted, IndexRead, IndexFails, Saw, WalkSkips, IndexHold, IndexCommit,
            IndexUnprinted, RepointVideo, MatchNew, FoldMovedVideo, FoldHeldBack, Inv, Phases
    <3>2. CASE Trash
      BY <3>2 DEF Trash, SoftDelete, Restore, PurgeNow, Sweep, PurgeTrash, PurgeFile, PurgeFails, HardDelete, pass
    <3>3. pc' = pc \/ pc' # "match" \/ Scan
      BY DEF Next, Trash, SoftDelete, Restore, PurgeNow, Sweep, PurgeTrash, PurgeFile, PurgeFails, HardDelete,
             Restart, Edit, Take, Put, Move, World, pass, vars
    <3> QED
      BY <3>1, <3>2, <3>3 DEF Next, Restart, Edit, Take, Put, Move, World, pass, vars
  <2>2. h \in held /\ h \in Hands /\ OneToOne(h, k) /\ jobs = {}
    BY <2>1 DEF OneToOne, Hands, Inv, Phases
  <2>3. k <= lastId
    <3>1. h \in DOMAIN cand /\ cand[h] \subseteq 1 .. lastId /\ k \in cand[h]
      BY <2>1, <2>2 DEF Settling, OneToOne
    <3> QED
      BY <3>1
  <2>4. CASE FactsStay
    BY <2>1, <2>2, <2>4 DEF Matched, FactsStay
  <2>5. ASSUME NEW g \in held, RepointVideo(g) PROVE row'[k].content = h.content
    <3>1. PICK i \in Live, r \in Row : /\ OneToOne(g, i) /\ Only(i, r) /\ i \in Rows /\ r.content = g.content
      BY <2>5, RepointOf
    <3>2. Rows' = Rows /\ row'[i] = r /\ \A x \in Rows : x # i => row'[x] = row[x]
      BY <3>1, OnlyRows DEF Only
    <3> QED
      BY <2>1, <2>2, <3>1, <3>2 DEF Matched
  <2>6. ASSUME NEW g \in held, MatchNew(g) PROVE row'[k].content = h.content
    <3>1. UpsertVideo(g.path, g.content, TRUE) /\ g.path \in Path /\ g.content \in Content /\ At(g.path) = {}
      BY <2>6 DEF MatchNew, Inv, TypeOK, Apart
    <3>2. Inserted(g.path, g.content, TRUE)
      BY <3>1, UpsertCases
    <3>3. k # lastId'
      <4>1. lastId \in Nat /\ lastId' = lastId + 1
        BY <3>2, BoundsAssumption DEF Inserted, Inv, TypeOK
      <4> QED
        BY <2>3, <4>1
    <3>4. k \in Rows /\ row'[k] = row[k]
      BY <3>2, <3>3, OnlyRows DEF Inserted
    <3> QED
      BY <2>1, <2>2, <3>4 DEF Matched
  <2>7. pc # "fold" /\ pc # "walk"
    BY <2>1
  <2>8. ~\E q \in folds : FoldMovedVideo(q[1], q[2])
    BY <2>7 DEF FoldMovedVideo
  <2> QED
    BY <2>2, <2>4, <2>5, <2>6, <2>8, NextFacts
<1> QED
  BY <1>1, <1>2

\* While a pass is settled no step changes a file, or gives a row another content.
LEMMA NextAlone == Inv /\ Settling /\ Homes /\ Alone /\ Healing /\ [Next]_vars => Alone'
<1> SUFFICES ASSUME Inv, Settling, Homes, Alone, Healing, [Next]_vars, settled',
                    NEW c \in Content, home'[c] # Nothing, NEW x \in Path, disk'[x] = c,
                    NEW k \in Rows', row'[k].content = c
             PROVE  k = home'[c]
  BY DEF Alone
<1>1. ~Disturb
  BY DEF Disturb
<1>2. disk' = disk /\ home'[c] = home[c] /\ (settled' = settled \/ EndPass)
  <2>1. CASE Scan
    BY <1>1, <2>1 DEF Scan, StartPass, EndWalk, DeactivateExcept, WalkPast, IndexTrashed, IndexYoung, IndexUnchanged,
          IndexStillUnprinted, IndexRead, IndexFails, Saw, WalkSkips, IndexHold, IndexCommit, IndexUnprinted,
          RepointVideo, MatchNew, FoldMovedVideo, FoldHeldBack, EndPass, Fault, hist
  <2>2. CASE Trash
    <3>1. ~\E i \in Id : Restore(i)
      BY <1>1 DEF Restore, Fault
    <3>2. ~\E t \in purging : PurgeFile(t) \/ PurgeFails(t) \/ HardDelete(t)
      BY <1>1 DEF PurgeFile, PurgeFails, HardDelete, Fault
    <3>3. disk' = disk /\ settled' = settled /\ (UNCHANGED home \/ \E C : Forget(C))
      BY <2>2, <3>1, <3>2 DEF Trash, SoftDelete, PurgeNow, Sweep, PurgeTrash, hist
    <3> QED
      BY <3>3 DEF Forget
  <2>3. CASE \/ Restart \/ UNCHANGED vars \/ \E i \in Id : Edit(i)
             \/ \E p \in Path : Take(p) \/ (\E d \in Content : Put(p, d)) \/ (\E q \in Path : Move(p, q))
    BY <1>1, <2>3 DEF Restart, Edit, Take, Put, Move, World, Fault, hist, vars
  <2> QED
    BY <2>1, <2>2, <2>3 DEF Next
<1>3. CASE EndPass
  <2>1. row' = row /\ Rows' = Rows /\ (settled \/ (quiet /\ pc = "fold" /\ folds = {}))
    BY <1>3 DEF EndPass, Rows, table
  <2> QED
    BY <1>2, <2>1 DEF Alone, Healing
<1>4. CASE settled' = settled
  <2>1. settled /\ jobs = {} /\ held = {}
    BY <1>4 DEF Settling
  <2>2. CASE FactsStay
    BY <1>2, <2>1, <2>2 DEF Alone, FactsStay
  <2>3. ASSUME NEW q \in folds, FoldMovedVideo(q[1], q[2]) PROVE k \in Rows /\ row'[k].content = row[k].content
    <3>1. CASE ~FoldEvidence(q[1], q[2])
      BY <2>3, <3>1 DEF FoldMovedVideo, Rows
    <3>2. CASE FoldEvidence(q[1], q[2])
      BY <2>3, <3>2, FoldOf
    <3> QED
      BY <3>1, <3>2
  <2> QED
    BY <1>2, <2>1, <2>2, <2>3, NextFacts DEF Alone
<1> QED
  BY <1>2, <1>3, <1>4

\* At the end of a quiet pass, a second row beside a home has its content's file, and
\* the home has lost its own: they are a pair to fold, and no other row is in it.
LEMMA HideHeals == ASSUME Inv, Settling, Homes, DeactivateExcept PROVE Healing'
<1>1. /\ row' = [i \in Id |-> IF i \in Rows \ seen THEN [row[i] EXCEPT !.active = FALSE] ELSE row[i]]
      /\ pc = "match" /\ pc' = "fold" /\ held = {} /\ folds' = FoldPairs'
      /\ UNCHANGED <<disk, todo, jobs, seen, held, quiet, home>>
  BY DEF DeactivateExcept, hist
<1>2. todo = {} /\ Hands = {}
  BY <1>1 DEF Inv, Phases, Hands
<1>3. ASSUME NEW i \in Rows
      PROVE  /\ row'[i] \in Row /\ row'[i].path = row[i].path /\ row'[i].content = row[i].content
             /\ row'[i].trash = row[i].trash
             /\ row'[i].active <=> row[i].active /\ i \in seen
             /\ i \in seen => row'[i] = row[i]
  <2>1. i \in Id /\ row[i] \in Row
    BY RowTyped
  <2> QED
    BY <1>1, <2>1 DEF Row
<1>4. Rows' = Rows /\ Live' = Live /\ Live \subseteq Rows
  <2>1. Rows' = Rows
    BY <1>1, <1>3, NoRowAssumption DEF Rows
  <2> QED
    BY <1>3, <2>1 DEF Live
<1>5. \A i \in Rows : i \in Visible' <=> i \in Visible /\ i \in seen
  BY <1>3, <1>4 DEF Visible
<1>6. SUFFICES ASSUME quiet, NEW c \in Content, NEW n \in Rows, NEW o, o = home[c], o # Nothing, n # o,
                      row[n].content = c, NEW x \in Path, disk[x] = c
               PROVE  <<o, n>> \in folds' /\ FoldEvidence(o, n)'
  <2>1. SUFFICES ASSUME quiet, NEW c \in Content, NEW n \in Rows', NEW o, o = home'[c], o # Nothing, n # o,
                        row'[n].content = c, NEW x \in Path, disk'[x] = c
                 PROVE  <<o, n>> \in folds' /\ FoldEvidence(o, n)'
    BY <1>1 DEF Healing
  <2>2. n \in Rows /\ row[n].content = c /\ home[c] = o /\ disk[x] = c
    BY <1>1, <1>3, <1>4, <2>1
  <2> QED
    BY <1>6, <2>1, <2>2
<1>7. Homely(c) /\ c # Nothing /\ SeenTrue /\ Passed
  BY <1>1, <1>6, StartAssumption DEF Homes, Settling
<1>8. ASSUME NEW m \in Rows, row[m].content = c, m # o PROVE m = n /\ row[m].path = x
  <2>1. row[m].path \in Copies(c) /\ row[n].path \in Copies(c)
    BY <1>6, <1>8, RowTyped DEF Copies
  <2>2. row[m].path = x /\ row[n].path = x
    BY <1>6, <1>7, <2>1 DEF Homely, OneCopy
  <2> QED
    BY <1>6, <1>8, <2>2 DEF Inv, OneRowPerPath
<1>9. o \in Rows /\ row[o].content = c /\ o \in Live /\ n \in Live /\ o < n /\ o \in Id /\ n \in Id
  <2>1. o \in Rows /\ row[o].content = c /\ o <= n /\ n \in Live /\ o \in Live
    BY <1>6, <1>7 DEF Homely, ItsRows
  <2>2. o \in Nat /\ n \in Nat /\ o \in Id /\ n \in Id
    BY <2>1 DEF Rows, Id
  <2> QED
    BY <1>6, <2>1, <2>2
<1>10. row[n].path = x
  BY <1>6, <1>8
<1>11. n \in seen
  <2>1. PICK k \in At(x) : k \notin Live \/ k \in seen
    BY <1>2, <1>6, <1>7 DEF Passed
  <2>2. k = n
    BY <1>10, <2>1 DEF At, Inv, OneRowPerPath
  <2> QED
    BY <1>9, <2>1, <2>2
<1>12. o \notin seen
  <2>1. SUFFICES ASSUME o \in seen PROVE FALSE
    OBVIOUS
  <2>2. disk[row[o].path] = c /\ row[o].path \in Path
    BY <1>7, <1>9, <2>1, RowTyped DEF SeenTrue
  <2>3. row[o].path = x
    BY <1>6, <1>7, <2>2 DEF Homely, OneFile
  <2> QED
    BY <1>6, <1>9, <1>10, <2>3 DEF Inv, OneRowPerPath
<1>13. n \in Visible /\ row[n].fp
  BY <1>7, <1>9, <1>11 DEF SeenTrue
<1>14. n \in Visible' /\ o \in Live' /\ ~row'[o].active /\ row'[n] = row[n] /\ row'[o].content = c
  BY <1>3, <1>4, <1>5, <1>9, <1>11, <1>12, <1>13
<1>15. FoldEvidence(o, n)'
  <2>1. SameContent(o, row[n].content, row[n].fp)'
    BY <1>6, <1>13, <1>14 DEF SameContent
  <2> QED
    BY <1>9, <1>14, <2>1 DEF FoldEvidence
<1>16. ASSUME NEW h \in Id, NEW m \in Id, FoldEvidence(h, m)', h = o \/ m = n PROVE h = o /\ m = n
  <2>1. /\ h \in Rows /\ m \in Rows /\ h < m /\ m \in Visible' /\ row'[h].content = row'[m].content
    BY <1>4, <1>16 DEF FoldEvidence, SameContent, Visible
  <2>2. row[h].content = c /\ row[m].content = c
    BY <1>3, <1>6, <1>9, <1>16, <2>1
  <2>3. m # o
    BY <1>5, <1>12, <2>1
  <2>4. m = n
    BY <1>8, <2>1, <2>2, <2>3
  <2>5. h # n
    <3>1. h \in Nat /\ n \in Nat
      BY <1>9, <1>16 DEF Id
    <3> QED
      BY <2>1, <2>4, <3>1
  <2> QED
    BY <1>8, <2>1, <2>2, <2>4, <2>5
<1>17. <<o, n>> \in FoldPairs'
  <2> DEFINE all == {q \in Id \X Id : FoldEvidence(q[1], q[2])'}
  <2>1. <<o, n>> \in all
    BY <1>9, <1>15
  <2>2. \A q \in all : q[1] = o \/ q[2] = n => q = <<o, n>>
    <3>1. SUFFICES ASSUME NEW q \in Id \X Id, FoldEvidence(q[1], q[2])', q[1] = o \/ q[2] = n
                   PROVE  q = <<o, n>>
      OBVIOUS
    <3>2. q[1] \in Id /\ q[2] \in Id /\ q = <<q[1], q[2]>>
      OBVIOUS
    <3>3. q[1] = o /\ q[2] = n
      BY <1>16, <3>1, <3>2
    <3> QED
      BY <3>2, <3>3
  <2>3. FoldPairs' = {q \in all : \A r \in all : (r[1] = q[1] \/ r[2] = q[2]) => r = q}
    BY DEF FoldPairs
  <2> HIDE DEF all
  <2>4. <<o, n>>[1] = o /\ <<o, n>>[2] = n
    OBVIOUS
  <2> QED
    BY <2>1, <2>2, <2>3, <2>4
<1> QED
  BY <1>1, <1>15, <1>17

\* What is left to fold stays so, whatever else the pass folds and the owner does.
LEMMA HealingStays ==
    ASSUME Inv, Homes, Healing, quiet => (pc = "fold" => UNCHANGED <<folds, disk>>),
           pc' = "fold" /\ quiet' => pc = "fold" /\ quiet,
           \A c \in Content : home'[c] # Nothing =>
              /\ home'[c] = home[c]
              /\ \A k \in Rows : row[k].content = c =>
                    /\ row'[k].content = c /\ row'[k].trash = row[k].trash /\ row'[k].active = row[k].active
                    /\ row'[k].fp = row[k].fp /\ k \in Rows',
           FactsStay
    PROVE  Healing'
<1>1. SUFFICES ASSUME pc' = "fold", quiet', NEW c \in Content, NEW n \in Rows', NEW o, o = home'[c], o # Nothing,
                      n # o, row'[n].content = c, NEW x \in Path, disk'[x] = c
               PROVE  <<o, n>> \in folds' /\ FoldEvidence(o, n)'
  BY DEF Healing
<1>2. n \in Rows /\ row[n].content = c /\ home[c] = o /\ disk[x] = c /\ folds' = folds
  BY <1>1 DEF FactsStay
<1>3. <<o, n>> \in folds /\ FoldEvidence(o, n)
  BY <1>1, <1>2 DEF Healing
<1>4. o \in Rows /\ row[o].content = c
  BY <1>1, <1>2 DEF Homes, Homely
<1>5. FoldEvidence(o, n)'
  BY <1>1, <1>2, <1>3, <1>4 DEF FoldEvidence, Visible, Live, SameContent
<1> QED
  BY <1>2, <1>3, <1>5

LEMMA FoldHeals == ASSUME Inv, Homes, Healing, NEW o, NEW n, FoldMovedVideo(o, n) PROVE Healing'
<1>1. folds' = folds \ {<<o, n>>} /\ UNCHANGED <<disk, pc, quiet, home>>
  BY DEF FoldMovedVideo, hist
<1>2. SUFFICES ASSUME pc = "fold", quiet, NEW c \in Content, NEW m \in Rows', NEW g, g = home[c], g # Nothing,
                      m # g, row'[m].content = c, NEW x \in Path, disk[x] = c
               PROVE  <<g, m>> \in folds' /\ FoldEvidence(g, m)'
  BY <1>1 DEF Healing
<1>3. CASE ~FoldEvidence(o, n)
  <2>1. row' = row /\ Rows' = Rows
    BY <1>3 DEF FoldMovedVideo, Rows
  <2>2. <<g, m>> \in folds /\ FoldEvidence(g, m)
    BY <1>2, <2>1 DEF Healing
  <2>3. FoldEvidence(g, m)'
    BY <1>1, <2>1, <2>2 DEF FoldEvidence, Visible, Live, SameContent, Rows
  <2> QED
    BY <1>1, <1>3, <2>2, <2>3
<1>4. CASE FoldEvidence(o, n)
  <2>1. /\ o \in Rows /\ n \in Rows /\ o # n /\ row[o].content = row[n].content
        /\ Rows' = Rows \ {n} /\ row'[o].content = row[n].content
        /\ \A k \in Rows : k # o /\ k # n => row'[k] = row[k]
    BY <1>4, FoldOf
  <2>2. Homely(c) /\ g \in Rows /\ row[g].content = c
    BY <1>2 DEF Homes, Homely
  <2>3. row[n].content # c
    <3>1. SUFFICES ASSUME row[n].content = c PROVE FALSE
      OBVIOUS
    <3>2. o = g /\ n # g
      BY <1>2, <1>4, <2>1, <3>1, FoldsHome
    <3>3. m # o /\ m # n /\ m \in Rows /\ row[m].content = c
      BY <1>2, <2>1, <3>2
    <3>4. row[m].path \in Copies(c) /\ row[n].path \in Copies(c)
      BY <1>2, <2>1, <3>1, <3>2, <3>3, RowTyped DEF Copies
    <3>5. row[m].path = row[n].path
      BY <2>2, <3>4 DEF Homely, OneCopy
    <3> QED
      BY <2>1, <3>3, <3>5 DEF Inv, OneRowPerPath
  <2>4. m # o /\ m # n /\ m \in Rows /\ g # o /\ g # n
    BY <1>2, <2>1, <2>2, <2>3
  <2>5. row'[m] = row[m] /\ row'[g] = row[g] /\ g \in Rows'
    BY <2>1, <2>2, <2>4
  <2>6. <<g, m>> \in folds /\ FoldEvidence(g, m)
    BY <1>2, <2>4, <2>5 DEF Healing
  <2>7. FoldEvidence(g, m)'
    BY <1>1, <1>2, <2>5, <2>6 DEF FoldEvidence, Visible, Live, SameContent
  <2>8. <<g, m>> # <<o, n>>
    BY <2>4
  <2> QED
    BY <1>1, <2>6, <2>7, <2>8
<1> QED
  BY <1>3, <1>4

LEMMA NextHealing == Inv /\ Settling /\ Homes /\ Healing /\ [Next]_vars => Healing'
<1> SUFFICES ASSUME Inv, Settling, Homes, Healing, [Next]_vars, pc' = "fold", quiet' PROVE Healing'
  BY DEF Healing
<1>1. ~Disturb
  BY DEF Disturb
<1>2. CASE UNCHANGED <<row, home, pass, quiet, disk>>
  BY <1>2, HealingStays DEF pass, FactsStay, Rows
<1>3. CASE Scan
  <2>1. DeactivateExcept \/ \E q \in folds : FoldMovedVideo(q[1], q[2])
    BY <1>1, <1>3 DEF Scan, StartPass, EndWalk, WalkPast, IndexTrashed, IndexYoung, IndexUnchanged,
          IndexStillUnprinted, IndexRead, IndexFails, Saw, WalkSkips, IndexHold, IndexCommit, IndexUnprinted,
          RepointVideo, MatchNew, FoldHeldBack, EndPass, Fault, Inv, Phases
  <2> QED
    BY <2>1, HideHeals, FoldHeals
<1>4. ASSUME NEW i \in Rows, UNCHANGED <<pass, quiet, disk>>,
             \/ \E e : row' = [row EXCEPT ![i].edit = e] /\ home' = home /\ i \in Rows'
             \/ \E s : row' = [row EXCEPT ![i].trash = s] /\ Forget({row[i].content}),
             FactsStay
      PROVE  Healing'
  <2>1. row[i] \in Row /\ i \in Id
    BY RowTyped
  <2>2. \A k \in Rows : k # i => row'[k] = row[k] /\ k \in Rows'
    BY <1>4 DEF Rows, Inv, TypeOK
  <2>3. CASE \E e : row' = [row EXCEPT ![i].edit = e] /\ home' = home /\ i \in Rows'
    <3>1. /\ row'[i].content = row[i].content /\ row'[i].trash = row[i].trash /\ row'[i].active = row[i].active
          /\ row'[i].fp = row[i].fp
      BY <2>1, <2>3 DEF Row, Inv, TypeOK
    <3> QED
      BY <1>4, <2>2, <2>3, <3>1, HealingStays DEF pass
  <2>4. CASE \E s : row' = [row EXCEPT ![i].trash = s] /\ Forget({row[i].content})
    <3>1. \A c \in Content : home'[c] # Nothing => home'[c] = home[c] /\ row[i].content # c
      BY <2>4 DEF Forget
    <3> QED
      BY <1>4, <2>2, <3>1, HealingStays DEF pass
  <2> QED
    BY <1>4, <2>3, <2>4
<1>5. CASE Trash
  <2>1. ~\E i \in Id : Restore(i)
    BY <1>1 DEF Restore, Fault
  <2>2. ~\E t \in purging : PurgeFile(t) \/ PurgeFails(t) \/ HardDelete(t)
    BY <1>1 DEF PurgeFile, PurgeFails, HardDelete, Fault
  <2>3. CASE Sweep \/ (\E i \in Id : PurgeNow(i))
    BY <1>2, <2>3 DEF Sweep, PurgeNow, table, hist
  <2>4. ASSUME NEW i \in Id, SoftDelete(i) PROVE Healing'
    BY <1>4, <2>4, KeepsFacts DEF SoftDelete, Live
  <2>5. ASSUME NEW t \in purging, PurgeTrash(t) PROVE Healing'
    BY <1>2, <1>4, <2>5, KeepsFacts DEF PurgeTrash
  <2> QED
    BY <1>5, <2>1, <2>2, <2>3, <2>4, <2>5 DEF Trash
<1>6. ASSUME NEW i \in Id, Edit(i) PROVE Healing'
  <2>1. i \in Rows /\ \E r \in Row : row' = [row EXCEPT ![i] = r]
    BY <1>6, Edited
  <2>2. i \in Rows'
    BY <2>1, NoRowAssumption DEF Rows, Inv, TypeOK
  <2> QED
    BY <1>4, <1>6, <2>1, <2>2, KeepsFacts DEF Edit, hist
<1> QED
  BY <1>1, <1>2, <1>3, <1>5, <1>6 DEF Next, Restart, Take, Put, Move, World, Fault, vars, table, hist

(***************************************************************************)
(* The whole of it: each part is kept by every step that starts in all.    *)
(***************************************************************************)
Entire == Inv /\ Settling /\ Homes /\ Matched /\ Alone /\ Healing

LEMMA NextEntire == Entire /\ [Next]_vars => Entire'
BY NextInv, NextSettles, NextHomes, NextMatched, NextAlone, NextHealing DEF Entire

LEMMA InitEntire == Init => Entire
<1> SUFFICES ASSUME Init PROVE Entire
  OBVIOUS
<1>1. /\ pc = "idle" /\ jobs = {} /\ held = {} /\ quiet = FALSE /\ settled = TRUE /\ disk = Start
  BY DEF Init
<1>2. Inv /\ Hands = {}
  BY <1>1, InitInv DEF Hands
<1>3. \A i \in Rows : i \in Live /\ i \in Visible
  BY InitRows DEF Live, Visible
<1>4. Mirror
  <2>1. \A p \in Path : disk[p] # Nothing => \E i \in At(p) : i \in Visible /\ row[i].content = disk[p]
    BY <1>1, <1>3, InitRows DEF At
  <2>2. \A i \in Visible : i \in Rows
    BY DEF Visible, Live
  <2> QED
    BY <1>1, <2>1, <2>2, InitRows DEF Mirror
<1>5. Settling /\ Matched /\ Healing
  BY <1>1, <1>4 DEF Settling, Matched, Healing
<1>6. ASSUME NEW c \in Content, home[c] # Nothing
      PROVE  Homely(c) /\ ((\E x \in Path : disk[x] = c) => \A k \in Rows : row[k].content = c => k = home[c])
  <2>1. /\ home[c] \in Rows /\ row[home[c]].content = c /\ OneFile(c)
    BY <1>1, <1>6, InitRows DEF OneFile
  <2>2. ASSUME NEW k \in Rows, row[k].content = c PROVE k = home[c]
    <3>1. row[k].path = row[home[c]].path
      BY <1>1, <2>1, <2>2, InitRows DEF OneFile
    <3> QED
      BY <2>1, <3>1 , InitRows DEF OneRowPerPath
  <2>3. home[c] \in Nat
    BY <2>1 DEF Rows, Id
  <2>4. ItsRows(c)
    BY <1>1, <1>2, <1>3, <2>1, <2>2, <2>3, InitRows DEF ItsRows
  <2>5. ItsHands(c) /\ OneCopy(c)
    <3>1. Copies(c) = {}
      BY <1>2, <2>2 DEF Copies
    <3> QED
      BY <1>1, <1>2, <3>1 DEF ItsHands, OneCopy
  <2>6. ItsFile(c)
    BY <1>1, <1>2, InitRows DEF ItsFile, At
  <2> QED
    BY <2>1, <2>2, <2>4, <2>5, <2>6 DEF Homely
<1> QED
  BY <1>2, <1>5, <1>6 DEF Entire, Homes, Alone

LEMMA EntireMeans == Entire => Mirrored /\ MovesKeepTheRow
<1>1. ASSUME Entire PROVE Mirrored
  BY <1>1 DEF Entire, Settling, Mirror, Mirrored
<1>2. ASSUME Entire, settled, NEW p \in Path, disk[p] # Nothing, home[disk[p]] # Nothing
      PROVE  home[disk[p]] \in Visible /\ row[home[disk[p]]].path = p
  <2>1. PICK c \in Content : c = disk[p]
    BY <1>2 DEF Entire, Inv, TypeOK
  <2>2. Homely(c) /\ Mirror
    BY <1>2, <2>1 DEF Entire, Homes, Settling
  <2>3. PICK i \in At(p) : i \notin Live \/ (i \in Visible /\ row[i].content = disk[p])
    BY <1>2, <2>2 DEF Mirror
  <2>4. i \in Rows /\ row[i].path = p /\ row[i].content = c
    BY <2>1, <2>2, <2>3 DEF At, Homely, ItsFile
  <2>5. i \in Visible
    BY <2>2, <2>3, <2>4 DEF Homely, ItsRows
  <2>6. i = home[c]
    BY <1>2, <2>1, <2>4 DEF Entire, Alone
  <2> QED
    BY <2>1, <2>4, <2>5, <2>6
<1> QED
  BY <1>1, <1>2 DEF MovesKeepTheRow

\* After a pass that nothing disturbed, every file is a visible video with its facts or is
\* in Trash, and every visible video has its file: the index, the match of moves, the
\* hiding of missing rows and the heal together leave no gap (scanner.go, ADR-018).
THEOREM RowsMirrorDisk == Spec => []Mirrored
<1> QED
  BY InitEntire, NextEntire, EntireMeans, PTL DEF Spec

\* A file that only moved has, once a quiet pass has ended, the row it had before it moved,
\* through whatever faults, deletions of others and passes lay between (move.go,
\* video_fold.go: F79).
THEOREM MovedFilesKeepRows == Spec => []MovesKeepTheRow
<1> QED
  BY InitEntire, NextEntire, EntireMeans, PTL DEF Spec

\* All that a run keeps of the library: its types, the mirror, the homes of moved files,
\* and one row for a path.
THEOREM LibraryHolds == Spec => []LibraryKept
<1>1. Entire => LibraryKept
  BY EntireMeans DEF Entire, Inv, LibraryKept
<1> QED
  BY InitEntire, NextEntire, <1>1, PTL DEF Spec

=============================================================================
