---------------------------- MODULE Images_proofs ----------------------------
(***************************************************************************)
(* The poster of a video: what its served pair, its slots' rows and the    *)
(* ledger say, for any number of threads and images.  The images of        *)
(* people: ImagesAsChosen, for any number of people, passes, requests,     *)
(* records and images.                                                     *)
(***************************************************************************)
EXTENDS MCImages, Sequences, FiniteSets, FiniteSetTheorems, WellFoundedInduction, TLAPS

(***************************************************************************)
(* The poster of a video.                                                  *)
(***************************************************************************)
\* Where an actor can stand, and with what in hand.
Steps == {"idle", "lock", "slot", "row", "present", "slots", "thumb", "poster", "check", "decide",
          "reset", "clear", "art", "cover", "embedded", "stage", "write", "generate", "generated",
          "done"}
Ops == {"none", "set", "remove", "decide", "reset", "index", "write", "reread", "fill"}
ActorType == [op : Ops, step : Steps, kind : Kind \cup {"other", None},
              img : AnyImage \cup {None}, dec : Kind \cup {"other", None}]
Presenting == {"slots", "thumb", "poster"}
Owning == {"slot", "row", "present"} \cup Presenting

\* What each step of a thread and of the worker takes for granted of its actor.
StepOK(a) ==
    LET s == actor[a].step
        o == actor[a].op
    IN  /\ a = Worker => o = "none" /\ s \in {"idle", "generate", "row", "present", "generated",
                                              "done"} \cup Presenting
        /\ a # Worker => /\ s \notin {"generate", "generated", "done"}
                         /\ s \in {"lock", "slot", "row"} => o \in {"set", "remove"}
        /\ o \in {"set", "remove"} => actor[a].kind \in Owner
        /\ s \in {"stage", "write"} => actor[a].kind \in Kind
        /\ s \in {"write", "cover"} => actor[a].img \in AnyImage
        /\ s = "check" => o = "remove"
        /\ s = "decide" => o = "decide"
        /\ s \in {"reset", "clear"} => o = "reset"
        /\ s \in {"art", "cover", "embedded"} => o \in {"index", "fill", "reread"}

\* An owner's request holds ownerMu from its slot to its pair; a Present holds presentMu.
Locked ==
    /\ ownerMu \in Actor \cup {None} /\ presentMu \in Actor \cup {None}
    /\ \A a \in Actor :
        /\ ownerMu = a <=> actor[a].op \in {"set", "remove"} /\ actor[a].step \in Owning
        /\ presentMu = a <=> actor[a].step \in Presenting

Typed ==
    /\ slot \in [Slot -> AnyImage \cup {None}] /\ row \in [Kind -> AnyImage \cup {None}]
    /\ decision \in Kind \cup {"other", None}
    /\ {thumb, poster, art} \subseteq AnyImage \cup {None}
    /\ state \in {"none", "embedded", "generated", "failed", "uploaded"}
    /\ boot \in {"seed", "row", "reset", "up", "swept"}
    /\ events \in 0 .. MaxEvent
    /\ unnamed \subseteq Kind
    /\ actor \in [Actor -> ActorType]
    /\ \A a \in Actor : StepOK(a)

\* Nothing runs before the upgrade is done, and the upgrade ends the state "uploaded".
Booted ==
    /\ ~Up => \A a \in Actor : actor[a] = Idle
    /\ Up => state # "uploaded"
    /\ state = "uploaded" => poster # None /\ ledger = None
    /\ boot = "row" => Seeds \in {"auto", "upload"}
    /\ boot = "reset" => state = "uploaded"

\* A row names its slot, save where it is about to be written.
RowDue(k) ==
    \/ \E a \in Actor : At(a, "row") /\ k = IF a = Worker THEN "auto" ELSE actor[a].kind
    \/ boot = "row" /\ k = Seeds
Named ==
    /\ \A k \in Kind \ unnamed : row[k] = slot[k] \/ RowDue(k)
    /\ \A t \in Thread : At(t, "row") => slot[actor[t].kind] = actor[t].img
    /\ boot = "row" /\ state # "uploaded" /\ Seeds \notin unnamed => row[Seeds] = None

Recorded ==
    ledger # None => ledger.kind \in Kind /\ ledger.hash = art /\ art # None

\* A picture of the file or of the queue, once made, stays.
Made ==
    /\ \A a \in Actor : At(a, "embedded") => slot["file"] # None
    /\ actor[Worker].step \in {"row", "present", "generated"} \cup Presenting => slot["auto"] # None
    /\ state \in {"embedded", "generated"} /\ slot[Seeds] = None =>
        /\ boot = "seed" /\ decision = None /\ poster # None
        /\ \A s \in Slot : slot[s] = None
    /\ state = "uploaded" =>
        /\ \A s \in Slot \ {"upload"} : slot[s] = None
        /\ decision \in {None, "upload"}
        /\ slot["upload"] \in {None, poster}
        /\ boot \in {"row", "reset"} \/ decision = "upload" => slot["upload"] = poster
        /\ boot = "reset" => decision = "upload"

\* The pair is the chosen image once nobody has still to present a change: an actor that
\* presents has read the decision as it is, and has the image it is to write.
Whole ==
    /\ \A a \in Actor : At(a, "poster") => thumb = actor[a].img
    /\ ~torn /\ (\A a \in Actor : ~At(a, "poster")) => thumb = poster
Due == \E a \in Actor : actor[a].step \in {"row", "embedded", "present"}
Shown ==
    ~gap /\ ~Due =>
        /\ \A a \in Actor :
            /\ At(a, "slots") => actor[a].dec = decision
            /\ actor[a].step \in {"thumb", "poster"} => actor[a].img = Chosen(decision)
        /\ \/ torn
           \/ \E a \in Actor : actor[a].step \in Presenting
           \/ state = "uploaded"
           \/ state \in {"embedded", "generated"} /\ slot[Seeds] = None
           \/ poster = Chosen(decision)

\* A video never attempted, with neither slot that needs no owner, is in the queue, or a
\* request of a thread will make its picture or enqueue it.
NoPicture == slot["file"] = None /\ slot["auto"] = None
Seeking(t) ==
    \/ actor[t].op = "fill" /\ actor[t].step \in {"art", "cover"}
    \/ actor[t].op = "reset" /\ actor[t].step \in {"clear", "present"} \cup Presenting
Sought ==
    /\ ~At(Worker, "idle") => pending
    /\ (boot = "swept" /\ state = "none" /\ ~dropped /\ NoPicture) =>
         \/ pending /\ ~At(Worker, "done")
         \/ \E t \in Thread : Seeking(t)

PosterInv == Typed /\ Locked /\ Booted /\ Named /\ Recorded /\ Made /\ Whole /\ Shown /\ Sought


LEMMA IdleType == Idle \in ActorType /\ Idle.op = "none" /\ Idle.step = "idle"
BY DEF Idle, ActorType, Ops, Steps

\* What an actor goes on with after its Present is again an actor.
LEMMA AfterType ==
    ASSUME Typed, NEW a \in Actor, actor[a].step \in Presenting
    PROVE  /\ After(a) \in ActorType
           /\ After(a).step \in {"check", "art", "generated", "idle"}
           /\ a = Worker => After(a).op = "none" /\ After(a).step = "generated"
           /\ a # Worker => /\ After(a).step # "generated"
                            /\ After(a).op \in {"set", "remove"}
                                  => After(a).step = "check" /\ After(a).op = "remove"
                                     /\ After(a).kind \in Owner
                            /\ After(a).step = "check" => After(a).op = "remove"
                            /\ After(a).step = "art" => After(a).op = "fill"
                            /\ actor[a].op = "reset" => After(a).step = "art"
<1>1. actor[a] \in ActorType /\ StepOK(a)
  BY DEF Typed
<1>3. CASE actor[a].op = "remove"
  <2>1. After(a) = [actor[a] EXCEPT !.step = "check"]
    BY <1>1, <1>3 DEF After, StepOK
  <2> QED
    BY <1>1, <1>3, <2>1 DEF ActorType, Steps, StepOK
<1>4. CASE actor[a].op = "reset"
  <2>1. After(a) = [actor[a] EXCEPT !.op = "fill", !.step = "art"]
    BY <1>1, <1>4 DEF After, StepOK
  <2> QED
    BY <1>1, <1>4, <2>1 DEF ActorType, Steps, Ops, StepOK
<1>5. CASE a = Worker
  <2>1. After(a) = [actor[a] EXCEPT !.step = "generated"] /\ actor[a].op = "none"
    BY <1>1, <1>5 DEF After, StepOK
  <2> QED
    BY <1>1, <1>5, <2>1 DEF ActorType, Steps, Ops, StepOK
<1>6. CASE actor[a].op \notin {"remove", "reset"} /\ a # Worker
  <2>1. After(a) = Idle
    BY <1>6 DEF After
  <2> QED
    BY <1>1, <1>6, <2>1, IdleType
<1> QED
  BY <1>3, <1>4, <1>5, <1>6

\* So is what is left of a request or a job that fails.
LEMMA LeftType ==
    ASSUME Typed, NEW a \in Actor
    PROVE  /\ Left(a) \in ActorType /\ Left(a).step \in {"idle", "art"}
           /\ Left(a).step = "idle" => Left(a) = Idle
           /\ Left(a).step = "art" => a # Worker /\ Left(a).op = "fill" /\ actor[a].op = "reset"
           /\ actor[a].op = "reset" /\ Owing(a) => Left(a).step = "art"
<1>1. actor[a] \in ActorType /\ StepOK(a)
  BY DEF Typed
<1>2. CASE actor[a].op = "reset" /\ Owing(a)
  <2>1. Left(a) = [actor[a] EXCEPT !.op = "fill", !.step = "art"] /\ a # Worker
    BY <1>1, <1>2 DEF Left, After, StepOK
  <2> QED
    BY <1>1, <1>2, <2>1 DEF ActorType, Steps, Ops
<1>3. CASE ~(actor[a].op = "reset" /\ Owing(a))
  BY <1>3, IdleType DEF Left
<1> QED
  BY <1>2, <1>3

LEMMA SeedsOf ==
    ASSUME Typed
    PROVE  /\ state = "embedded" => Seeds = "file"
           /\ state = "generated" => Seeds = "auto"
           /\ state = "uploaded" => Seeds = "upload"
           /\ state \in {"none", "failed"} => Seeds = None
BY DEF Seeds, Typed

LEMMA TypedNext == Typed /\ Booted /\ [Next]_vars => Typed'
<1> SUFFICES ASSUME Typed, Booted, [Next]_vars PROVE Typed'
  OBVIOUS
<1> USE ThreadAssumption, BoundAssumption, IdleType DEF Typed, Actor, ActorType, AnyImage, Kind,
       Slot, Owner, StepOK, At, Goto, End, Event, Ops, Steps, Presenting, local, served, hist,
       Cleared, Seeds, Booted
<1>1. ASSUME NEW t \in Thread, Request(t) PROVE Typed'
  BY <1>1 DEF Request, Begin, Event
<1>2. ASSUME NEW t \in Thread, LockOwner(t) PROVE Typed'
  BY <1>2 DEF LockOwner
<1>3. ASSUME NEW t \in Thread, OwnerSlot(t) PROVE Typed'
  BY <1>3 DEF OwnerSlot
<1>4. ASSUME NEW t \in Thread, OwnerRow(t) PROVE Typed'
  BY <1>4 DEF OwnerRow
<1>5. ASSUME NEW t \in Thread, SetDecision(t) PROVE Typed'
  BY <1>5 DEF SetDecision
<1>6. ASSUME NEW t \in Thread, ResetState(t) PROVE Typed'
  BY <1>6 DEF ResetState
<1>7. ASSUME NEW t \in Thread, ClearDecision(t) PROVE Typed'
  BY <1>7 DEF ClearDecision
<1>8. ASSUME NEW t \in Thread, CheckPoster(t) PROVE Typed'
  BY <1>8 DEF CheckPoster
<1>9. ASSUME NEW t \in Thread, Stage(t) PROVE Typed'
  BY <1>9 DEF Stage
<1>10. ASSUME NEW t \in Thread, WritePoster(t) PROVE Typed'
  BY <1>10 DEF WritePoster
<1>11. ASSUME NEW t \in Thread, ReadArt(t) PROVE Typed'
  <2>1. CASE art # None
    BY <1>11, <2>1 DEF ReadArt
  <2>2. CASE art = None
    <3>1. actor' = [actor EXCEPT ![t] = Idle]
      BY <1>11, <2>2 DEF ReadArt
    <3> QED
      BY <1>11, <3>1 DEF ReadArt
  <2> QED
    BY <2>1, <2>2
<1>12. ASSUME NEW t \in Thread, WriteCover(t) PROVE Typed'
  BY <1>12 DEF WriteCover
<1>13. ASSUME NEW t \in Thread, SetEmbedded(t) PROVE Typed'
  BY <1>13 DEF SetEmbedded
<1>14. ASSUME NEW a \in Actor, PresentDecision(a) PROVE Typed'
  BY <1>14 DEF PresentDecision
<1>15. ASSUME NEW a \in Actor, PresentSlots(a) PROVE Typed'
  <2>1. CASE Unlock(a)
    <3>1. actor' = [actor EXCEPT ![a] = After(a)] /\ actor[a].step \in Presenting
      BY <2>1, <1>15 DEF Unlock, PresentSlots
    <3>2. actor' \in [Actor -> ActorType] /\ \A b \in Actor : b # a => StepOK(b)'
      BY <3>1, <1>15, AfterType DEF PresentSlots
    <3>4. actor'[a] = After(a)
      BY <3>1
    <3>3. StepOK(a)'
      BY <3>1, <3>4, <1>15, AfterType DEF PresentSlots
    <3> QED
      BY <3>2, <3>3, <1>15 DEF PresentSlots
  <2> QED
    BY <2>1, <1>15 DEF PresentSlots
<1>16. ASSUME NEW a \in Actor, PresentThumb(a) PROVE Typed'
  BY <1>16 DEF PresentThumb
<1>17. ASSUME NEW a \in Actor, PresentPoster(a) PROVE Typed'
  <2>1. CASE Unlock(a)
    <3>1. actor' = [actor EXCEPT ![a] = After(a)] /\ actor[a].step \in Presenting
      BY <2>1, <1>17 DEF Unlock, PresentPoster
    <3>2. actor' \in [Actor -> ActorType] /\ \A b \in Actor : b # a => StepOK(b)'
      BY <3>1, <1>17, AfterType DEF PresentPoster
    <3>4. actor'[a] = After(a)
      BY <3>1
    <3>3. StepOK(a)'
      BY <3>1, <3>4, <1>17, AfterType DEF PresentPoster
    <3> QED
      BY <3>2, <3>3, <1>17 DEF PresentPoster
  <2> QED
    BY <2>1, <1>17 DEF PresentPoster
<1>18. CASE Pop
  BY <1>18 DEF Pop
<1>19. CASE Generate
  BY <1>19 DEF Generate
<1>20. CASE GenerateFails
  BY <1>20 DEF GenerateFails
<1>21. CASE AutoRow
  BY <1>21 DEF AutoRow
<1>22. CASE SetGenerated
  BY <1>22 DEF SetGenerated
<1>23. CASE Done
  BY <1>23 DEF Done
<1>24. CASE BootSeed
  BY <1>24 DEF BootSeed
<1>25. CASE BootRow
  BY <1>25 DEF BootRow
<1>26. CASE BootReset
  BY <1>26 DEF BootReset
<1>27. CASE Backfill
  BY <1>27 DEF Backfill
<1>28. CASE Browse
  BY <1>28 DEF Browse
<1>29. ASSUME NEW a \in Actor, Fails(a) PROVE Typed'
  <2>1. actor' = [actor EXCEPT ![a] = Left(a)] /\ actor'[a] = Left(a)
    BY <1>29 DEF Fails
  <2>2. actor' \in [Actor -> ActorType] /\ \A b \in Actor : b # a => StepOK(b)'
    BY <2>1, LeftType
  <2>3. StepOK(a)'
    BY <2>1, LeftType
  <2> QED
    BY <1>29, <2>2, <2>3 DEF Fails, Lose, Event
<1>30. CASE Restart
  <2>1. actor' = [a \in Actor |-> Idle]
    BY <1>30 DEF Restart
  <2>2. unnamed' \subseteq Kind
    BY <1>30 DEF Restart, Lose
  <2>3. \A a \in Actor : actor'[a] = Idle
    BY <2>1
  <2>4. actor' \in [Actor -> ActorType] /\ \A a \in Actor : StepOK(a)'
    BY <2>1, <2>3
  <2> QED
    BY <1>30, <2>2, <2>4 DEF Restart, Lose, Event
<1>31. CASE UNCHANGED vars
  BY <1>31 DEF vars
<1> HIDE DEF Typed, StepOK, Booted
<1> QED
  BY <1>1, <1>2, <1>3, <1>4, <1>5, <1>6, <1>7, <1>8, <1>9, <1>10, <1>11, <1>12, <1>13, <1>14,
     <1>15, <1>16, <1>17, <1>18, <1>19, <1>20, <1>21, <1>22, <1>23, <1>24, <1>25, <1>26, <1>27,
     <1>28, <1>29, <1>30, <1>31
     DEF Next, BackfillSlots, WorkerStep, Handler, Present, Actor
LEMMA LockedNext == Typed /\ Locked /\ Booted /\ [Next]_vars => Locked'
<1> SUFFICES ASSUME Typed, Locked, Booted, [Next]_vars PROVE Locked'
  OBVIOUS
<1> USE ThreadAssumption, IdleType, AfterType DEF Typed, Actor, ActorType, StepOK, At, Goto,
       End, Presenting, Owning, locks, Unlock, Locked, OwnerFree
<1>1. ASSUME NEW t \in Thread, Request(t) PROVE Locked'
  BY <1>1 DEF Request, Begin, Event
<1>2. ASSUME NEW t \in Thread, LockOwner(t) PROVE Locked'
  BY <1>2 DEF LockOwner
<1>3. ASSUME NEW t \in Thread, OwnerSlot(t) PROVE Locked'
  BY <1>3 DEF OwnerSlot
<1>4. ASSUME NEW t \in Thread, OwnerRow(t) PROVE Locked'
  BY <1>4 DEF OwnerRow
<1>5. ASSUME NEW t \in Thread, SetDecision(t) PROVE Locked'
  BY <1>5 DEF SetDecision
<1>6. ASSUME NEW t \in Thread, ResetState(t) PROVE Locked'
  BY <1>6 DEF ResetState
<1>7. ASSUME NEW t \in Thread, ClearDecision(t) PROVE Locked'
  BY <1>7 DEF ClearDecision
<1>8. ASSUME NEW t \in Thread, CheckPoster(t) PROVE Locked'
  BY <1>8 DEF CheckPoster
<1>9. ASSUME NEW t \in Thread, Stage(t) PROVE Locked'
  BY <1>9 DEF Stage
<1>10. ASSUME NEW t \in Thread, WritePoster(t) PROVE Locked'
  BY <1>10 DEF WritePoster
<1>11. ASSUME NEW t \in Thread, ReadArt(t) PROVE Locked'
  BY <1>11 DEF ReadArt
<1>12. ASSUME NEW t \in Thread, WriteCover(t) PROVE Locked'
  BY <1>12 DEF WriteCover
<1>13. ASSUME NEW t \in Thread, SetEmbedded(t) PROVE Locked'
  BY <1>13 DEF SetEmbedded
<1>14. ASSUME NEW a \in Actor, PresentDecision(a) PROVE Locked'
  BY <1>14 DEF PresentDecision
<1>15. ASSUME NEW a \in Actor, PresentSlots(a) PROVE Locked'
  BY <1>15 DEF PresentSlots
<1>16. ASSUME NEW a \in Actor, PresentThumb(a) PROVE Locked'
  BY <1>16 DEF PresentThumb
<1>17. ASSUME NEW a \in Actor, PresentPoster(a) PROVE Locked'
  BY <1>17 DEF PresentPoster
<1>18. CASE Pop
  BY <1>18 DEF Pop
<1>19. CASE Generate
  BY <1>19 DEF Generate
<1>20. CASE GenerateFails
  BY <1>20 DEF GenerateFails
<1>21. CASE AutoRow
  BY <1>21 DEF AutoRow
<1>22. CASE SetGenerated
  BY <1>22 DEF SetGenerated
<1>23. CASE Done
  BY <1>23 DEF Done
<1>24. CASE BootSeed
  BY <1>24 DEF BootSeed
<1>25. CASE BootRow
  BY <1>25 DEF BootRow
<1>26. CASE BootReset
  BY <1>26 DEF BootReset
<1>27. CASE Backfill
  BY <1>27 DEF Backfill
<1>28. CASE Browse
  BY <1>28 DEF Browse
<1>29. ASSUME NEW a \in Actor, Fails(a) PROVE Locked'
  BY <1>29, LeftType DEF Fails, Lose
<1>30. CASE Restart
  BY <1>30 DEF Restart, Lose, Event
<1>31. CASE UNCHANGED vars
  BY <1>31 DEF vars
<1> HIDE DEF Typed, StepOK, Locked
<1> QED
  BY <1>1, <1>2, <1>3, <1>4, <1>5, <1>6, <1>7, <1>8, <1>9, <1>10, <1>11, <1>12, <1>13, <1>14,
     <1>15, <1>16, <1>17, <1>18, <1>19, <1>20, <1>21, <1>22, <1>23, <1>24, <1>25, <1>26, <1>27,
     <1>28, <1>29, <1>30, <1>31
     DEF Next, BackfillSlots, WorkerStep, Handler, Present, Actor
LEMMA BootedNext == Typed /\ Locked /\ Booted /\ [Next]_vars => Booted'
<1> SUFFICES ASSUME Typed, Locked, Booted, [Next]_vars PROVE Booted'
  OBVIOUS
<1> USE SlotAssumption, IdleType DEF Typed, Actor, Kind, Slot, Owner, At, Up, served, Booted
<1>1. ASSUME NEW t \in Thread, Request(t) PROVE Booted'
  BY <1>1 DEF Request, Begin, Event
<1>2. ASSUME NEW t \in Thread, LockOwner(t) PROVE Booted'
  BY <1>2 DEF LockOwner
<1>3. ASSUME NEW t \in Thread, OwnerSlot(t) PROVE Booted'
  BY <1>3 DEF OwnerSlot
<1>4. ASSUME NEW t \in Thread, OwnerRow(t) PROVE Booted'
  BY <1>4 DEF OwnerRow
<1>5. ASSUME NEW t \in Thread, SetDecision(t) PROVE Booted'
  BY <1>5 DEF SetDecision
<1>6. ASSUME NEW t \in Thread, ResetState(t) PROVE Booted'
  BY <1>6 DEF ResetState
<1>7. ASSUME NEW t \in Thread, ClearDecision(t) PROVE Booted'
  BY <1>7 DEF ClearDecision
<1>8. ASSUME NEW t \in Thread, CheckPoster(t) PROVE Booted'
  BY <1>8 DEF CheckPoster
<1>9. ASSUME NEW t \in Thread, Stage(t) PROVE Booted'
  BY <1>9 DEF Stage
<1>10. ASSUME NEW t \in Thread, WritePoster(t) PROVE Booted'
  BY <1>10 DEF WritePoster
<1>11. ASSUME NEW t \in Thread, ReadArt(t) PROVE Booted'
  BY <1>11 DEF ReadArt
<1>12. ASSUME NEW t \in Thread, WriteCover(t) PROVE Booted'
  BY <1>12 DEF WriteCover
<1>13. ASSUME NEW t \in Thread, SetEmbedded(t) PROVE Booted'
  BY <1>13 DEF SetEmbedded
<1>14. ASSUME NEW a \in Actor, PresentDecision(a) PROVE Booted'
  BY <1>14 DEF PresentDecision
<1>15. ASSUME NEW a \in Actor, PresentSlots(a) PROVE Booted'
  BY <1>15 DEF PresentSlots
<1>16. ASSUME NEW a \in Actor, PresentThumb(a) PROVE Booted'
  BY <1>16 DEF PresentThumb
<1>17. ASSUME NEW a \in Actor, PresentPoster(a) PROVE Booted'
  BY <1>17 DEF PresentPoster
<1>18. CASE Pop
  BY <1>18 DEF Pop
<1>19. CASE Generate
  BY <1>19 DEF Generate
<1>20. CASE GenerateFails
  BY <1>20 DEF GenerateFails
<1>21. CASE AutoRow
  BY <1>21 DEF AutoRow
<1>22. CASE SetGenerated
  BY <1>22 DEF SetGenerated
<1>23. CASE Done
  BY <1>23 DEF Done
<1>24. CASE BootSeed
  <2>1. \/ boot' # "seed" /\ UNCHANGED <<state, actor, poster, ledger, boot>>
        \/ UNCHANGED <<state, actor, poster, ledger>>
    BY <1>24 DEF BootSeed
  <2>2. Seeds' = Seeds
    BY <2>1 DEF Seeds
  <2>3. state = "uploaded" => boot' = "row"
    BY <1>24, SeedsOf DEF BootSeed, Seeded
  <2>4. boot' = "row" => Seeds \in {"auto", "upload"}
    BY <1>24, SeedsOf DEF BootSeed
  <2>5. ~Up /\ boot' # "reset"
    BY <1>24 DEF BootSeed
  <2> QED
    BY <2>1, <2>2, <2>3, <2>4, <2>5
<1>25. CASE BootRow
  BY <1>25, SeedsOf DEF BootRow, Seeds
<1>26. CASE BootReset
  BY <1>26 DEF BootReset
<1>27. CASE Backfill
  BY <1>27 DEF Backfill
<1>28. CASE Browse
  BY <1>28 DEF Browse
<1>29. ASSUME NEW a \in Actor, Fails(a) PROVE Booted'
  BY <1>29 DEF Fails, Lose, Event
<1>30. CASE Restart
  BY <1>30 DEF Restart, Lose, Event
<1>31. CASE UNCHANGED vars
  BY <1>31 DEF vars, Seeds
<1> HIDE DEF Typed, Booted
<1> QED
  BY <1>1, <1>2, <1>3, <1>4, <1>5, <1>6, <1>7, <1>8, <1>9, <1>10, <1>11, <1>12, <1>13, <1>14,
     <1>15, <1>16, <1>17, <1>18, <1>19, <1>20, <1>21, <1>22, <1>23, <1>24, <1>25, <1>26, <1>27,
     <1>28, <1>29, <1>30, <1>31
     DEF Next, BackfillSlots, WorkerStep, Handler, Present, Actor
LEMMA NamedNext == Typed /\ Locked /\ Booted /\ Named /\ [Next]_vars => Named'
<1> SUFFICES ASSUME Typed, Locked, Booted, Named, [Next]_vars PROVE Named'
  OBVIOUS
<1> USE ThreadAssumption, IdleType, AfterType DEF Typed, Actor, ActorType, Kind, Slot, Owner,
       StepOK, At, Goto, End, Up, Presenting, Owning, local, hist, Unlock, Locked, Booted,
       Named, RowDue
<1>1. ASSUME NEW t \in Thread, Request(t) PROVE Named'
  BY <1>1 DEF Request, Begin, Event
<1>2. ASSUME NEW t \in Thread, LockOwner(t) PROVE Named'
  BY <1>2 DEF LockOwner
<1>3. ASSUME NEW t \in Thread, OwnerSlot(t) PROVE Named'
  BY <1>3 DEF OwnerSlot
<1>4. ASSUME NEW t \in Thread, OwnerRow(t) PROVE Named'
  BY <1>4 DEF OwnerRow
<1>5. ASSUME NEW t \in Thread, SetDecision(t) PROVE Named'
  BY <1>5 DEF SetDecision
<1>6. ASSUME NEW t \in Thread, ResetState(t) PROVE Named'
  BY <1>6 DEF ResetState
<1>7. ASSUME NEW t \in Thread, ClearDecision(t) PROVE Named'
  BY <1>7 DEF ClearDecision
<1>8. ASSUME NEW t \in Thread, CheckPoster(t) PROVE Named'
  BY <1>8 DEF CheckPoster
<1>9. ASSUME NEW t \in Thread, Stage(t) PROVE Named'
  BY <1>9 DEF Stage
<1>10. ASSUME NEW t \in Thread, WritePoster(t) PROVE Named'
  BY <1>10 DEF WritePoster
<1>11. ASSUME NEW t \in Thread, ReadArt(t) PROVE Named'
  BY <1>11 DEF ReadArt
<1>12. ASSUME NEW t \in Thread, WriteCover(t) PROVE Named'
  BY <1>12 DEF WriteCover
<1>13. ASSUME NEW t \in Thread, SetEmbedded(t) PROVE Named'
  BY <1>13 DEF SetEmbedded
<1>14. ASSUME NEW a \in Actor, PresentDecision(a) PROVE Named'
  BY <1>14 DEF PresentDecision
<1>15. ASSUME NEW a \in Actor, PresentSlots(a) PROVE Named'
  BY <1>15 DEF PresentSlots
<1>16. ASSUME NEW a \in Actor, PresentThumb(a) PROVE Named'
  BY <1>16 DEF PresentThumb
<1>17. ASSUME NEW a \in Actor, PresentPoster(a) PROVE Named'
  BY <1>17 DEF PresentPoster
<1>18. CASE Pop
  BY <1>18 DEF Pop
<1>19. CASE Generate
  BY <1>19 DEF Generate
<1>20. CASE GenerateFails
  BY <1>20 DEF GenerateFails
<1>21. CASE AutoRow
  BY <1>21 DEF AutoRow
<1>22. CASE SetGenerated
  BY <1>22 DEF SetGenerated
<1>23. CASE Done
  BY <1>23 DEF Done
<1>24. CASE BootSeed
  <2>1. /\ boot = "seed" /\ UNCHANGED <<row, actor, state, unnamed>>
        /\ \A a \in Actor : actor[a] = Idle /\ ~At(a, "row")
        /\ \A k \in Kind \ unnamed : row[k] = slot[k]
    BY <1>24 DEF BootSeed
  <2>2. Seeds' = Seeds
    BY <2>1 DEF Seeds
  <2>3. CASE UNCHANGED slot /\ boot' = "up"
    BY <2>1, <2>3
  <2>4. CASE /\ slot' = [slot EXCEPT ![Seeds] = poster]
             /\ boot' = IF Seeds = "file" THEN "up" ELSE "row"
             /\ ~Seeded /\ Seeds # None
    <3>1. Seeds \in {"file", "auto", "upload"}
      BY <2>4, SeedsOf
    <3>2. \A k \in Kind \ unnamed : row'[k] = slot'[k] \/ RowDue(k)'
      BY <2>1, <2>2, <2>4, <3>1
    <3>3. Seeds = "auto" => slot["auto"] = None
      BY <2>4 DEF Seeded
    <3>4. boot' = "row" /\ state # "uploaded" => Seeds = "auto"
      BY <2>4, <3>1, SeedsOf DEF Seeds
    <3> QED
      BY <2>1, <2>2, <3>2, <3>3, <3>4
  <2> QED
    BY <1>24, <2>3, <2>4 DEF BootSeed
<1>25. CASE BootRow
  BY <1>25 DEF BootRow
<1>26. CASE BootReset
  BY <1>26 DEF BootReset
<1>27. CASE Backfill
  BY <1>27 DEF Backfill
<1>28. CASE Browse
  BY <1>28 DEF Browse
<1>29. ASSUME NEW a \in Actor, Fails(a) PROVE Named'
  BY <1>29, LeftType DEF Fails, Lose, Seeds
<1>30. CASE Restart
  BY <1>30 DEF Restart, Lose, Event, Seeds
<1>31. CASE UNCHANGED vars
  BY <1>31 DEF vars, Seeds
<1> HIDE DEF Typed, StepOK, Locked, Booted, Named
<1> QED
  BY <1>1, <1>2, <1>3, <1>4, <1>5, <1>6, <1>7, <1>8, <1>9, <1>10, <1>11, <1>12, <1>13, <1>14,
     <1>15, <1>16, <1>17, <1>18, <1>19, <1>20, <1>21, <1>22, <1>23, <1>24, <1>25, <1>26, <1>27,
     <1>28, <1>29, <1>30, <1>31
     DEF Next, BackfillSlots, WorkerStep, Handler, Present, Actor
LEMMA RecordedNext == Typed /\ Recorded /\ [Next]_vars => Recorded'
<1> SUFFICES ASSUME Typed, Recorded, [Next]_vars PROVE Recorded'
  OBVIOUS
<1> USE DEF Typed, Actor, ActorType, At, Recorded
<1>1. ASSUME NEW t \in Thread, Request(t) PROVE Recorded'
  BY <1>1 DEF Request, Begin, Event
<1>2. ASSUME NEW t \in Thread, LockOwner(t) PROVE Recorded'
  BY <1>2 DEF LockOwner
<1>3. ASSUME NEW t \in Thread, OwnerSlot(t) PROVE Recorded'
  BY <1>3 DEF OwnerSlot
<1>4. ASSUME NEW t \in Thread, OwnerRow(t) PROVE Recorded'
  BY <1>4 DEF OwnerRow
<1>5. ASSUME NEW t \in Thread, SetDecision(t) PROVE Recorded'
  BY <1>5 DEF SetDecision
<1>6. ASSUME NEW t \in Thread, ResetState(t) PROVE Recorded'
  BY <1>6 DEF ResetState
<1>7. ASSUME NEW t \in Thread, ClearDecision(t) PROVE Recorded'
  BY <1>7 DEF ClearDecision
<1>8. ASSUME NEW t \in Thread, CheckPoster(t) PROVE Recorded'
  BY <1>8 DEF CheckPoster
<1>9. ASSUME NEW t \in Thread, Stage(t) PROVE Recorded'
  BY <1>9 DEF Stage
<1>10. ASSUME NEW t \in Thread, WritePoster(t) PROVE Recorded'
  BY <1>10 DEF WritePoster
<1>11. ASSUME NEW t \in Thread, ReadArt(t) PROVE Recorded'
  BY <1>11 DEF ReadArt
<1>12. ASSUME NEW t \in Thread, WriteCover(t) PROVE Recorded'
  BY <1>12 DEF WriteCover
<1>13. ASSUME NEW t \in Thread, SetEmbedded(t) PROVE Recorded'
  BY <1>13 DEF SetEmbedded
<1>14. ASSUME NEW a \in Actor, PresentDecision(a) PROVE Recorded'
  BY <1>14 DEF PresentDecision
<1>15. ASSUME NEW a \in Actor, PresentSlots(a) PROVE Recorded'
  BY <1>15 DEF PresentSlots
<1>16. ASSUME NEW a \in Actor, PresentThumb(a) PROVE Recorded'
  BY <1>16 DEF PresentThumb
<1>17. ASSUME NEW a \in Actor, PresentPoster(a) PROVE Recorded'
  BY <1>17 DEF PresentPoster
<1>18. CASE Pop
  BY <1>18 DEF Pop
<1>19. CASE Generate
  BY <1>19 DEF Generate
<1>20. CASE GenerateFails
  BY <1>20 DEF GenerateFails
<1>21. CASE AutoRow
  BY <1>21 DEF AutoRow
<1>22. CASE SetGenerated
  BY <1>22 DEF SetGenerated
<1>23. CASE Done
  BY <1>23 DEF Done
<1>24. CASE BootSeed
  BY <1>24 DEF BootSeed
<1>25. CASE BootRow
  BY <1>25 DEF BootRow
<1>26. CASE BootReset
  BY <1>26 DEF BootReset
<1>27. CASE Backfill
  BY <1>27 DEF Backfill
<1>28. CASE Browse
  BY <1>28 DEF Browse
<1>29. ASSUME NEW a \in Actor, Fails(a) PROVE Recorded'
  BY <1>29 DEF Fails, Lose, Event
<1>30. CASE Restart
  BY <1>30 DEF Restart, Lose, Event
<1>31. CASE UNCHANGED vars
  BY <1>31 DEF vars
<1> HIDE DEF Typed, Recorded
<1> QED
  BY <1>1, <1>2, <1>3, <1>4, <1>5, <1>6, <1>7, <1>8, <1>9, <1>10, <1>11, <1>12, <1>13, <1>14,
     <1>15, <1>16, <1>17, <1>18, <1>19, <1>20, <1>21, <1>22, <1>23, <1>24, <1>25, <1>26, <1>27,
     <1>28, <1>29, <1>30, <1>31
     DEF Next, BackfillSlots, WorkerStep, Handler, Present, Actor
LEMMA MadeNext == Typed /\ Locked /\ Booted /\ Made /\ [Next]_vars => Made'
<1> SUFFICES ASSUME Typed, Locked, Booted, Made, [Next]_vars PROVE Made'
  OBVIOUS
<1> USE ImagesDistinct, SlotAssumption, IdleType, AfterType DEF Typed, Actor, ActorType,
       AnyImage, Kind, Slot, Owner, StepOK, At, Goto, End, Up, Presenting, local, served,
       Unlock, Booted, Made, Seeds
<1>1. ASSUME NEW t \in Thread, Request(t) PROVE Made'
  BY <1>1 DEF Request, Begin, Event
<1>2. ASSUME NEW t \in Thread, LockOwner(t) PROVE Made'
  BY <1>2 DEF LockOwner
<1>3. ASSUME NEW t \in Thread, OwnerSlot(t) PROVE Made'
  BY <1>3 DEF OwnerSlot
<1>4. ASSUME NEW t \in Thread, OwnerRow(t) PROVE Made'
  BY <1>4 DEF OwnerRow
<1>5. ASSUME NEW t \in Thread, SetDecision(t) PROVE Made'
  BY <1>5 DEF SetDecision
<1>6. ASSUME NEW t \in Thread, ResetState(t) PROVE Made'
  BY <1>6 DEF ResetState
<1>7. ASSUME NEW t \in Thread, ClearDecision(t) PROVE Made'
  BY <1>7 DEF ClearDecision
<1>8. ASSUME NEW t \in Thread, CheckPoster(t) PROVE Made'
  BY <1>8 DEF CheckPoster
<1>9. ASSUME NEW t \in Thread, Stage(t) PROVE Made'
  BY <1>9 DEF Stage
<1>10. ASSUME NEW t \in Thread, WritePoster(t) PROVE Made'
  BY <1>10 DEF WritePoster
<1>11. ASSUME NEW t \in Thread, ReadArt(t) PROVE Made'
  BY <1>11 DEF ReadArt
<1>12. ASSUME NEW t \in Thread, WriteCover(t) PROVE Made'
  BY <1>12 DEF WriteCover
<1>13. ASSUME NEW t \in Thread, SetEmbedded(t) PROVE Made'
  BY <1>13 DEF SetEmbedded
<1>14. ASSUME NEW a \in Actor, PresentDecision(a) PROVE Made'
  BY <1>14 DEF PresentDecision
<1>15. ASSUME NEW a \in Actor, PresentSlots(a) PROVE Made'
  BY <1>15 DEF PresentSlots
<1>16. ASSUME NEW a \in Actor, PresentThumb(a) PROVE Made'
  BY <1>16 DEF PresentThumb
<1>17. ASSUME NEW a \in Actor, PresentPoster(a) PROVE Made'
  BY <1>17 DEF PresentPoster
<1>18. CASE Pop
  BY <1>18 DEF Pop
<1>19. CASE Generate
  BY <1>19 DEF Generate
<1>20. CASE GenerateFails
  BY <1>20 DEF GenerateFails
<1>21. CASE AutoRow
  BY <1>21 DEF AutoRow
<1>22. CASE SetGenerated
  BY <1>22 DEF SetGenerated
<1>23. CASE Done
  BY <1>23 DEF Done
<1>24. CASE BootSeed
  <2> USE SeedsOf
  <2>1. /\ boot = "seed" /\ UNCHANGED <<actor, state, poster, decision>>
        /\ \A a \in Actor : actor[a].step = "idle"
    BY <1>24 DEF BootSeed
  <2>2. Seeds' = Seeds
    BY <2>1 DEF Seeds
  <2> HIDE DEF Seeds
  <2>3. CASE UNCHANGED slot /\ boot' = "up" /\ (Seeds = None \/ Seeded \/ poster = None)
    <3>1. state = "uploaded" => poster # None /\ Seeds = "upload"
      OBVIOUS
    <3>2. state # "uploaded"
      BY <2>3, <3>1 DEF Seeded
    <3>3. state \in {"embedded", "generated"} => slot[Seeds] # None
      <4>1. state \in {"embedded", "generated"} => Seeds \in {"file", "auto"}
        OBVIOUS
      <4> QED
        BY <2>3, <4>1 DEF Seeded
    <3> QED
      BY <2>1, <2>2, <2>3, <3>2, <3>3
  <2>4. CASE /\ slot' = [slot EXCEPT ![Seeds] = poster] /\ poster # None /\ Seeds # None
             /\ boot' = IF Seeds = "file" THEN "up" ELSE "row"
    <3>1. Seeds \in {"file", "auto", "upload"} /\ slot'[Seeds] = poster
          /\ \A s \in Slot : s # Seeds => slot'[s] = slot[s]
      BY <2>4
    <3>2. state \in {"embedded", "generated"} => slot'[Seeds] # None
      BY <2>4, <3>1
    <3>3. state = "uploaded" => Seeds = "upload"
      OBVIOUS
    <3> QED
      BY <2>1, <2>2, <2>4, <3>1, <3>2, <3>3
  <2> QED
    BY <1>24, <2>3, <2>4 DEF BootSeed
<1>25. CASE BootRow
  BY <1>25 DEF BootRow
<1>26. CASE BootReset
  BY <1>26 DEF BootReset
<1>27. CASE Backfill
  BY <1>27 DEF Backfill
<1>28. CASE Browse
  BY <1>28 DEF Browse
<1>29. ASSUME NEW a \in Actor, Fails(a) PROVE Made'
  BY <1>29, LeftType DEF Fails, Lose
<1>30. CASE Restart
  BY <1>30 DEF Restart, Lose, Event
<1>31. CASE UNCHANGED vars
  BY <1>31 DEF vars
<1> HIDE DEF Typed, StepOK, Booted, Made
<1> QED
  BY <1>1, <1>2, <1>3, <1>4, <1>5, <1>6, <1>7, <1>8, <1>9, <1>10, <1>11, <1>12, <1>13, <1>14,
     <1>15, <1>16, <1>17, <1>18, <1>19, <1>20, <1>21, <1>22, <1>23, <1>24, <1>25, <1>26, <1>27,
     <1>28, <1>29, <1>30, <1>31
     DEF Next, BackfillSlots, WorkerStep, Handler, Present, Actor
LEMMA WholeNext == Typed /\ Locked /\ Booted /\ Whole /\ [Next]_vars => Whole'
<1> SUFFICES ASSUME Typed, Locked, Booted, Whole, [Next]_vars PROVE Whole'
  OBVIOUS
<1> USE IdleType, AfterType DEF Typed, Actor, ActorType, At, Goto, End, Presenting, served,
       hist, Unlock, Locked, Whole
<1>1. ASSUME NEW t \in Thread, Request(t) PROVE Whole'
  BY <1>1 DEF Request, Begin, Event
<1>2. ASSUME NEW t \in Thread, LockOwner(t) PROVE Whole'
  BY <1>2 DEF LockOwner
<1>3. ASSUME NEW t \in Thread, OwnerSlot(t) PROVE Whole'
  BY <1>3 DEF OwnerSlot
<1>4. ASSUME NEW t \in Thread, OwnerRow(t) PROVE Whole'
  BY <1>4 DEF OwnerRow
<1>5. ASSUME NEW t \in Thread, SetDecision(t) PROVE Whole'
  BY <1>5 DEF SetDecision
<1>6. ASSUME NEW t \in Thread, ResetState(t) PROVE Whole'
  BY <1>6 DEF ResetState
<1>7. ASSUME NEW t \in Thread, ClearDecision(t) PROVE Whole'
  BY <1>7 DEF ClearDecision
<1>8. ASSUME NEW t \in Thread, CheckPoster(t) PROVE Whole'
  BY <1>8 DEF CheckPoster
<1>9. ASSUME NEW t \in Thread, Stage(t) PROVE Whole'
  BY <1>9 DEF Stage
<1>10. ASSUME NEW t \in Thread, WritePoster(t) PROVE Whole'
  BY <1>10 DEF WritePoster
<1>11. ASSUME NEW t \in Thread, ReadArt(t) PROVE Whole'
  BY <1>11 DEF ReadArt
<1>12. ASSUME NEW t \in Thread, WriteCover(t) PROVE Whole'
  BY <1>12 DEF WriteCover
<1>13. ASSUME NEW t \in Thread, SetEmbedded(t) PROVE Whole'
  BY <1>13 DEF SetEmbedded
<1>14. ASSUME NEW a \in Actor, PresentDecision(a) PROVE Whole'
  BY <1>14 DEF PresentDecision
<1>15. ASSUME NEW a \in Actor, PresentSlots(a) PROVE Whole'
  BY <1>15 DEF PresentSlots
<1>16. ASSUME NEW a \in Actor, PresentThumb(a) PROVE Whole'
  BY <1>16 DEF PresentThumb
<1>17. ASSUME NEW a \in Actor, PresentPoster(a) PROVE Whole'
  BY <1>17 DEF PresentPoster
<1>18. CASE Pop
  BY <1>18 DEF Pop
<1>19. CASE Generate
  BY <1>19 DEF Generate
<1>20. CASE GenerateFails
  BY <1>20 DEF GenerateFails
<1>21. CASE AutoRow
  BY <1>21 DEF AutoRow
<1>22. CASE SetGenerated
  BY <1>22 DEF SetGenerated
<1>23. CASE Done
  BY <1>23 DEF Done
<1>24. CASE BootSeed
  BY <1>24 DEF BootSeed
<1>25. CASE BootRow
  BY <1>25 DEF BootRow
<1>26. CASE BootReset
  BY <1>26 DEF BootReset
<1>27. CASE Backfill
  BY <1>27 DEF Backfill
<1>28. CASE Browse
  BY <1>28 DEF Browse
<1>29. ASSUME NEW a \in Actor, Fails(a) PROVE Whole'
  BY <1>29, LeftType DEF Fails, Lose
<1>30. CASE Restart
  BY <1>30 DEF Restart, Lose, Event
<1>31. CASE UNCHANGED vars
  BY <1>31 DEF vars
<1> HIDE DEF Typed, Locked, Whole
<1> QED
  BY <1>1, <1>2, <1>3, <1>4, <1>5, <1>6, <1>7, <1>8, <1>9, <1>10, <1>11, <1>12, <1>13, <1>14,
     <1>15, <1>16, <1>17, <1>18, <1>19, <1>20, <1>21, <1>22, <1>23, <1>24, <1>25, <1>26, <1>27,
     <1>28, <1>29, <1>30, <1>31
     DEF Next, BackfillSlots, WorkerStep, Handler, Present, Actor
LEMMA ShownNext == Typed /\ Locked /\ Booted /\ Made /\ Whole /\ Shown /\ [Next]_vars => Shown'
<1> SUFFICES ASSUME Typed, Locked, Booted, Made, Whole, Shown, [Next]_vars PROVE Shown'
  OBVIOUS
<1> USE ThreadAssumption, SlotAssumption, IdleType, AfterType DEF Typed, Actor, ActorType, Kind,
       Slot, Owner, StepOK, At, Goto, End, Up, Presenting, local, served, hist, Unlock, Booted,
       Made, Shown, Due, Chosen, Seeds
<1>1. ASSUME NEW t \in Thread, Request(t) PROVE Shown'
  BY <1>1 DEF Request, Begin, Event
<1>2. ASSUME NEW t \in Thread, LockOwner(t) PROVE Shown'
  BY <1>2 DEF LockOwner
<1>3. ASSUME NEW t \in Thread, OwnerSlot(t) PROVE Shown'
  BY <1>3 DEF OwnerSlot
<1>4. ASSUME NEW t \in Thread, OwnerRow(t) PROVE Shown'
  BY <1>4 DEF OwnerRow
<1>5. ASSUME NEW t \in Thread, SetDecision(t) PROVE Shown'
  BY <1>5 DEF SetDecision
<1>6. ASSUME NEW t \in Thread, ResetState(t) PROVE Shown'
  BY <1>6 DEF ResetState
<1>7. ASSUME NEW t \in Thread, ClearDecision(t) PROVE Shown'
  BY <1>7 DEF ClearDecision
<1>8. ASSUME NEW t \in Thread, CheckPoster(t) PROVE Shown'
  BY <1>8 DEF CheckPoster
<1>9. ASSUME NEW t \in Thread, Stage(t) PROVE Shown'
  BY <1>9 DEF Stage
<1>10. ASSUME NEW t \in Thread, WritePoster(t) PROVE Shown'
  BY <1>10 DEF WritePoster
<1>11. ASSUME NEW t \in Thread, ReadArt(t) PROVE Shown'
  BY <1>11 DEF ReadArt
<1>12. ASSUME NEW t \in Thread, WriteCover(t) PROVE Shown'
  BY <1>12 DEF WriteCover
<1>13. ASSUME NEW t \in Thread, SetEmbedded(t) PROVE Shown'
  BY <1>13 DEF SetEmbedded
<1>14. ASSUME NEW a \in Actor, PresentDecision(a) PROVE Shown'
  BY <1>14 DEF PresentDecision
<1>15. ASSUME NEW a \in Actor, PresentSlots(a) PROVE Shown'
  BY <1>15 DEF PresentSlots
<1>16. ASSUME NEW a \in Actor, PresentThumb(a) PROVE Shown'
  BY <1>16 DEF PresentThumb
<1>17. ASSUME NEW a \in Actor, PresentPoster(a) PROVE Shown'
  BY <1>17 DEF PresentPoster
<1>18. CASE Pop
  BY <1>18 DEF Pop
<1>19. CASE Generate
  BY <1>19 DEF Generate
<1>20. CASE GenerateFails
  BY <1>20 DEF GenerateFails
<1>21. CASE AutoRow
  BY <1>21 DEF AutoRow
<1>22. CASE SetGenerated
  BY <1>22 DEF SetGenerated
<1>23. CASE Done
  BY <1>23 DEF Done
<1>24. CASE BootSeed
  BY <1>24 DEF BootSeed
<1>25. CASE BootRow
  BY <1>25 DEF BootRow
<1>26. CASE BootReset
  BY <1>26 DEF BootReset
<1>27. CASE Backfill
  BY <1>27 DEF Backfill
<1>28. CASE Browse
  BY <1>28 DEF Browse
<1>29. ASSUME NEW a \in Actor, Fails(a) PROVE Shown'
  <2>1. UNCHANGED <<slot, decision, poster, state>> /\ actor' = [actor EXCEPT ![a] = Left(a)]
    BY <1>29 DEF Fails
  <2>2. (~gap' => ~gap /\ ~Owing(a)) /\ (~torn' => ~torn)
    BY <1>29 DEF Fails, Lose
  <2> QED
    BY <2>1, <2>2, LeftType DEF Owing
<1>30. CASE Restart
  <2>1. UNCHANGED <<slot, decision, poster, state>> /\ \A a \in Actor : actor'[a] = Idle
    BY <1>30 DEF Restart
  <2>2. ~gap' => ~gap /\ \A a \in Actor : ~Owing(a)
    BY <1>30 DEF Restart, Lose
  <2>3. ~torn' => ~torn
    BY <1>30 DEF Restart, Lose
  <2> QED
    BY <2>1, <2>2, <2>3 DEF Owing
<1>31. CASE UNCHANGED vars
  BY <1>31 DEF vars
<1> HIDE DEF Typed, StepOK, Booted, Made, Shown
<1> QED
  BY <1>1, <1>2, <1>3, <1>4, <1>5, <1>6, <1>7, <1>8, <1>9, <1>10, <1>11, <1>12, <1>13, <1>14,
     <1>15, <1>16, <1>17, <1>18, <1>19, <1>20, <1>21, <1>22, <1>23, <1>24, <1>25, <1>26, <1>27,
     <1>28, <1>29, <1>30, <1>31
     DEF Next, BackfillSlots, WorkerStep, Handler, Present, Actor
LEMMA SoughtNext == Typed /\ Locked /\ Booted /\ Made /\ Sought /\ [Next]_vars => Sought'
<1> SUFFICES ASSUME Typed, Locked, Booted, Made, Sought, [Next]_vars PROVE Sought'
  OBVIOUS
<1> USE ThreadAssumption, SlotAssumption, IdleType, AfterType DEF Typed, Actor, ActorType, Kind,
       Slot, Owner, StepOK, At, Goto, End, Presenting, local, served, hist, locks, Unlock, Made,
       NoPicture, Seeking, Sought
<1>1. ASSUME NEW t \in Thread, Request(t) PROVE Sought'
  BY <1>1 DEF Request, Begin, Event
<1>2. ASSUME NEW t \in Thread, LockOwner(t) PROVE Sought'
  BY <1>2 DEF LockOwner
<1>3. ASSUME NEW t \in Thread, OwnerSlot(t) PROVE Sought'
  BY <1>3 DEF OwnerSlot
<1>4. ASSUME NEW t \in Thread, OwnerRow(t) PROVE Sought'
  BY <1>4 DEF OwnerRow
<1>5. ASSUME NEW t \in Thread, SetDecision(t) PROVE Sought'
  BY <1>5 DEF SetDecision
<1>6. ASSUME NEW t \in Thread, ResetState(t) PROVE Sought'
  BY <1>6 DEF ResetState
<1>7. ASSUME NEW t \in Thread, ClearDecision(t) PROVE Sought'
  BY <1>7 DEF ClearDecision
<1>8. ASSUME NEW t \in Thread, CheckPoster(t) PROVE Sought'
  BY <1>8 DEF CheckPoster
<1>9. ASSUME NEW t \in Thread, Stage(t) PROVE Sought'
  BY <1>9 DEF Stage
<1>10. ASSUME NEW t \in Thread, WritePoster(t) PROVE Sought'
  BY <1>10 DEF WritePoster
<1>11. ASSUME NEW t \in Thread, ReadArt(t) PROVE Sought'
  <2>1. actor'[Worker] = actor[Worker] /\ \A u \in Thread : u # t => actor'[u] = actor[u]
    BY <1>11 DEF ReadArt
  <2>2. CASE art # None
    <3>1. Seeking(t) => Seeking(t)'
      BY <1>11, <2>2 DEF ReadArt
    <3> QED
      BY <1>11, <2>1, <2>2, <3>1 DEF ReadArt
  <2>3. CASE art = None
    <3>1. ~dropped' => ~dropped /\ ~At(Worker, "done")
      BY <1>11, <2>3 DEF ReadArt
    <3>2. pending' = TRUE \/ (pending' = pending /\ ~Seeking(t))
      BY <1>11, <2>3 DEF ReadArt, Push
    <3> QED
      BY <1>11, <2>1, <3>1, <3>2 DEF ReadArt
  <2> QED
    BY <2>2, <2>3
<1>12. ASSUME NEW t \in Thread, WriteCover(t) PROVE Sought'
  BY <1>12, ImagesDistinct DEF WriteCover, AnyImage
<1>13. ASSUME NEW t \in Thread, SetEmbedded(t) PROVE Sought'
  BY <1>13 DEF SetEmbedded
<1>14. ASSUME NEW a \in Actor, PresentDecision(a) PROVE Sought'
  BY <1>14 DEF PresentDecision
<1>15. ASSUME NEW a \in Actor, PresentSlots(a) PROVE Sought'
  <2>1. \A b \in Actor : b # a => actor'[b] = actor[b]
    BY <1>15 DEF PresentSlots
  <2>2. UNCHANGED <<slot, pending, state, boot, dropped>> /\ actor[a].step \in Presenting
    BY <1>15 DEF PresentSlots
  <2>3. CASE a = Worker
    <3>1. ~NoPicture
      BY <2>2, <2>3
    <3>2. pending
      BY <2>2, <2>3
    <3> QED
      BY <2>2, <3>1, <3>2
  <2>4. CASE a # Worker
    <3>1. Seeking(a) => Seeking(a)'
      BY <1>15, <2>2, <2>4 DEF PresentSlots
    <3> QED
      BY <2>1, <2>2, <2>4, <3>1
  <2> QED
    BY <2>3, <2>4
<1>16. ASSUME NEW a \in Actor, PresentThumb(a) PROVE Sought'
  BY <1>16 DEF PresentThumb
<1>17. ASSUME NEW a \in Actor, PresentPoster(a) PROVE Sought'
  <2>1. \A b \in Actor : b # a => actor'[b] = actor[b]
    BY <1>17 DEF PresentPoster
  <2>2. UNCHANGED <<slot, pending, state, boot, dropped>> /\ actor[a].step \in Presenting
    BY <1>17 DEF PresentPoster
  <2>3. CASE a = Worker
    <3>1. ~NoPicture
      BY <2>2, <2>3
    <3>2. pending
      BY <2>2, <2>3
    <3> QED
      BY <2>2, <3>1, <3>2
  <2>4. CASE a # Worker
    <3>1. Seeking(a) => Seeking(a)'
      BY <1>17, <2>2, <2>4 DEF PresentPoster
    <3> QED
      BY <2>1, <2>2, <2>4, <3>1
  <2> QED
    BY <2>3, <2>4
<1>18. CASE Pop
  BY <1>18 DEF Pop
<1>19. CASE Generate
  BY <1>19 DEF Generate
<1>20. CASE GenerateFails
  BY <1>20 DEF GenerateFails, Event
<1>21. CASE AutoRow
  BY <1>21 DEF AutoRow
<1>22. CASE SetGenerated
  BY <1>22 DEF SetGenerated
<1>23. CASE Done
  BY <1>23 DEF Done
<1>24. CASE BootSeed
  BY <1>24 DEF BootSeed
<1>25. CASE BootRow
  BY <1>25 DEF BootRow
<1>26. CASE BootReset
  BY <1>26 DEF BootReset
<1>27. CASE Backfill
  BY <1>27 DEF Backfill, Wanting, Push
<1>28. CASE Browse
  BY <1>28 DEF Browse, Event, Push
<1>29. ASSUME NEW a \in Actor, Fails(a) PROVE Sought'
  <2>1. /\ UNCHANGED <<slot, state, boot>> /\ \A b \in Actor : b # a => actor'[b] = actor[b]
        /\ actor'[a] = Left(a) /\ ~At(a, "idle")
        /\ pending' = ((pending /\ a # Worker) \/ actor[a].op = "index")
    BY <1>29 DEF Fails
  <2>2. ~dropped' => ~dropped /\ (actor[a].op = "index" \/ actor[a].step \notin {"clear", "art", "cover", "generate"})
    BY <1>29 DEF Fails, Lose
  <2>3. CASE a = Worker
    <3>1. At(Worker, "idle")'
      BY <2>1, <2>3, LeftType
    <3>2. ~dropped' => ~NoPicture
      BY <1>29, <2>2, <2>3 DEF Fails
    <3> QED
      BY <2>1, <3>1, <3>2
  <2>4. CASE a # Worker
    <3>1. ~dropped' /\ Seeking(a) => Seeking(a)'
      BY <2>1, <2>2, <2>4, LeftType DEF Owing
    <3>2. actor'[Worker] = actor[Worker] /\ (pending => pending')
      BY <2>1, <2>4
    <3>3. \A t \in Thread : ~dropped' /\ Seeking(t) => Seeking(t)'
      BY <2>1, <3>1
    <3>4. ~dropped' => ~dropped
      BY <2>2
    <3> QED
      BY <2>1, <3>2, <3>3, <3>4
  <2> QED
    BY <2>3, <2>4
<1>30. CASE Restart
  BY <1>30 DEF Restart, Lose, Event
<1>31. CASE UNCHANGED vars
  BY <1>31 DEF vars
<1> HIDE DEF Typed, StepOK, Locked, Booted, Made, Sought
<1> QED
  BY <1>1, <1>2, <1>3, <1>4, <1>5, <1>6, <1>7, <1>8, <1>9, <1>10, <1>11, <1>12, <1>13, <1>14,
     <1>15, <1>16, <1>17, <1>18, <1>19, <1>20, <1>21, <1>22, <1>23, <1>24, <1>25, <1>26, <1>27,
     <1>28, <1>29, <1>30, <1>31
     DEF Next, BackfillSlots, WorkerStep, Handler, Present, Actor
LEMMA PosterInit == Init => PosterInv
<1> SUFFICES ASSUME Init PROVE PosterInv
  OBVIOUS
<1> USE ImagesDistinct, ThreadAssumption, SlotAssumption, BoundAssumption DEF Init
<1>1. Typed
  BY IdleType DEF Typed, Slot, Kind, Owner, AnyImage, StepOK, Idle
<1>2. Locked
  BY IdleType DEF Locked, Owning, Presenting, Actor
<1>3. Booted
  BY DEF Booted, Up
<1>4. Named /\ Recorded
  BY IdleType DEF Named, Recorded, At, Kind, Owner, Slot, Actor
<1>5. Made
  <2>1. \A s \in Slot : slot[s] = None
    OBVIOUS
  <2>2. \A a \in Actor : actor[a].step = "idle"
    BY IdleType
  <2>3. Worker \in Actor /\ "upload" \in Slot
    BY DEF Actor, Slot, Kind, Owner
  <2>4. state \in {"embedded", "generated"} => poster # None
    OBVIOUS
  <2> QED
    BY <2>1, <2>2, <2>3, <2>4 DEF Made, At, Presenting
<1>6. Whole
  BY IdleType DEF Whole, At
<1>7. Shown
  <2>1. \A a \in Actor : actor[a].step = "idle"
    BY IdleType
  <2>2. state \in {"embedded", "generated"} => Seeds \in Slot /\ slot[Seeds] = None
    BY <1>1, SeedsOf DEF Slot, Kind
  <2>3. state = "none" => poster = Chosen(decision)
    BY DEF Chosen, Slot, Kind
  <2> QED
    BY <2>1, <2>2, <2>3 DEF Shown, At
<1>8. Sought
  BY IdleType DEF Sought, At, Actor
<1> QED
  BY <1>1, <1>2, <1>3, <1>4, <1>5, <1>6, <1>7, <1>8 DEF PosterInv

LEMMA PosterNext == PosterInv /\ [Next]_vars => PosterInv'
BY TypedNext, LockedNext, BootedNext, NamedNext, RecordedNext, MadeNext, WholeNext, ShownNext,
   SoughtNext DEF PosterInv

LEMMA PosterTyped == PosterInv => TypeOK
<1> SUFFICES ASSUME Typed, Locked, Booted PROVE TypeOK
  BY DEF PosterInv
<1>1. presentMu # None => actor[presentMu].step \in {"slots", "thumb", "poster"}
  BY DEF Locked, Presenting
<1>2. ownerMu # None => actor[ownerMu].op \in {"set", "remove"}
  BY DEF Locked
<1>3. boot \in {"up", "swept"} => state # "uploaded"
  BY DEF Booted, Up
<1> QED
  BY <1>1, <1>2, <1>3 DEF Typed, TypeOK

\* Type correctness, with who holds which lock.
THEOREM TypeCorrect == Spec => []TypeOK
BY PosterTyped, PosterInit, PosterNext, PTL DEF Spec

LEMMA ProjectionOf == PosterInv => Projection
<1> SUFFICES ASSUME PosterInv, Up, ~gap, ~torn, \A a \in Actor : ~Owing(a)
             PROVE  poster = Chosen(decision) /\ thumb = poster
  BY DEF Projection
<1>1. ~Due /\ ~\E a \in Actor : actor[a].step \in Presenting
  BY DEF Due, Owing, Presenting
<1>2. boot # "seed" /\ state # "uploaded"
  BY DEF Up, PosterInv, Booted
<1>3. poster = Chosen(decision)
  BY <1>1, <1>2 DEF PosterInv, Shown, Made
<1> QED
  BY <1>1, <1>3 DEF PosterInv, Whole, Presenting, At

\* When nobody owes a Present and none was cut off, the pair is the chosen image.
THEOREM PairChosen == Spec => []Projection
BY ProjectionOf, PosterInit, PosterNext, PTL DEF Spec

LEMMA NamedOf == PosterInv => NamedBytes
BY DEF PosterInv, Named, NamedBytes, RowDue, Up

\* A slot's row names the image in it, but while they change.
THEOREM RowsName == Spec => []NamedBytes
BY NamedOf, PosterInit, PosterNext, PTL DEF Spec

\* A poster the ledger shows as in sync with the file is in sync.
THEOREM InSync == Spec => []InSyncTrue
<1>1. PosterInv => InSyncTrue
  <2> SUFFICES ASSUME PosterInv, NEW k \in Kind \ unnamed, ledger # None, ledger.kind = k,
                      ledger.hash = row[k], \A a \in Actor : ~At(a, "row")
               PROVE  art = slot[k]
    BY DEF InSyncTrue
  <2>1. row[k] = art /\ art # None /\ state # "uploaded"
    BY DEF PosterInv, Recorded, Booted
  <2>2. ~(boot = "row" /\ k = Seeds)
    BY <2>1 DEF PosterInv, Named
  <2> QED
    BY <2>1, <2>2 DEF PosterInv, Named, RowDue
<1> QED
  BY <1>1, PosterInit, PosterNext, PTL DEF Spec

\* A video without a picture is being given one or could not be, unless a Present was cut
\* off, or a request or a job was since the boot's sweep.
THEOREM PictureSought == Spec => []NeverPosterless
<1>1. PosterInv => NeverPosterless
  <2> SUFFICES ASSUME PosterInv, boot = "swept", poster = None, ~pending, ~gap, ~torn, ~dropped,
                      \A a \in Actor : At(a, "idle")
               PROVE  state = "failed"
    BY DEF NeverPosterless
  <2>1. poster = Chosen(decision) /\ state # "uploaded"
    <3>1. PosterInv => Projection
      BY ProjectionOf
    <3> QED
      BY <3>1 DEF Projection, Up, Owing, At, PosterInv, Booted
  <2>2. NoPicture
    BY <2>1 DEF Chosen, NoPicture
  <2>3. state \notin {"embedded", "generated"}
    BY <2>2, SeedsOf DEF PosterInv, Made, NoPicture
  <2>4. state # "none"
    BY <2>2 DEF PosterInv, Sought, Seeking, At, Presenting, Actor
  <2> QED
    BY <2>1, <2>3, <2>4 DEF PosterInv, Typed
<1> QED
  BY <1>1, PosterInit, PosterNext, PTL DEF Spec

(* The images of people.  What a task carries.                             *)

Fact == UNION {Keys[r] : r \in Record}
PassStep == {"match", "detach", "names", "images", "fields", "upsert", "adopt", "reads",
             "assets", "file", "seed"}
PassTask ==
    [pc : PassStep, person : Person, prov : People!Provider, record : Record,
     prev : Record \cup {People!NoRecord}, i : Nat \ {0}, done : SUBSET People!Role,
     locked : SUBSET People!Core, skip : SUBSET Url, have : SUBSET Url, head : Url \cup {People!NoUrl},
     id : Nat, seed : BOOLEAN, since : Nat, knew : SUBSET Url, blind : BOOLEAN]
ClearTask ==
    [pc : {"match", "detach", "names", "images", "fields"}, person : Person, prov : People!Provider,
     record : {People!NoRecord}, prev : Record \cup {People!NoRecord}]
FileTask == [pc : {"file", "unlink"}, person : Person, prov : {People!NoProvider}, id : Nat]
PromoteTask == [pc : {"promote"}, person : Person, prov : {People!NoProvider}, role : People!Core, bytes : Nat]
SettleTask == [pc : {"settle"}, person : Person, prov : {People!NoProvider}, loser : Person]
AskerTask == ClearTask \cup FileTask \cup PromoteTask \cup SettleTask

\* A pass that stores a file has an asset for it, or seeds the poster with a headshot it stored.
Fetching(w) ==
    /\ (w.pc = "file" /\ ~w.seed) => w.i \in DOMAIN Assets[w.record]
    /\ w.pc = "seed" => w.head # People!NoUrl
PassOK(e) == task[e] = People!Idle \/ (task[e] \in PassTask /\ From[task[e].record] = task[e].prov /\ Fetching(task[e]))
AskerOK(o) == task[o] = People!Idle \/ task[o] \in AskerTask
TaskShape ==
    /\ task = [t \in People!Task |-> task[t]]
    /\ \A e \in Pass : PassOK(e)
    /\ \A o \in Asker : AskerOK(o)

(* What the tables and files hold.                                         *)
Held(i) == rows[i] # People!Free
RowOK(i) ==
    Held(i) => /\ rows[i] \in People!Row /\ i < next /\ rows[i].person \in live
               /\ rows[i].hash \in {People!NoHash, rows[i].bytes}
               /\ rows[i].source = "enrichment" => rows[i].record \in Record
               /\ (rows[i].source = "enrichment" /\ i \notin DOMAIN Images) => rows[i].hash # People!NoHash
SlotsSingle ==
    \A i, j \in People!Id :
        (/\ Held(i) /\ Held(j) /\ rows[i].person = rows[j].person
         /\ rows[i].role = rows[j].role /\ rows[i].role \in People!Core) => i = j
RowShape ==
    /\ rows = [i \in People!Id |-> rows[i]] /\ next \in 1 .. MaxId + 1
    /\ \A i \in People!Id : RowOK(i)
    /\ SlotsSingle
FactsType == [fields : SUBSET (Record \X Fact), ids : SUBSET Record, names : SUBSET Record]
StoreShape ==
    /\ files \subseteq Person \X (1 .. next - 1) /\ unfiled \subseteq 1 .. next - 1
    /\ suppressed \in [Person -> SUBSET Url] /\ gone \in [Person -> SUBSET Url]
    /\ \A p \in Person : gone[p] \subseteq suppressed[p]
    /\ known \in [Person -> FactsType]
    /\ live \subseteq Person /\ over \subseteq Person /\ muddled \subseteq Person \X People!Provider
    /\ up \in BOOLEAN
IdsOK ==
    /\ up \/ \A t \in People!Task : task[t] = People!Idle
    /\ \A t \in People!Task : task[t].pc \in {"file", "unlink"} => task[t].id \in 1 .. next - 1
    /\ \A e \in Pass : task[e] # People!Idle => task[e].since <= next

PeopleShape == TaskShape /\ RowShape /\ StoreShape /\ IdsOK

LEMMA PeopleFacts ==
    /\ GalleryCap \in Nat /\ MaxId \in Nat
    /\ Pass \cap Asker = {} /\ Bypass \subseteq Pass
    /\ Offered \subseteq Person \X Record /\ People!NoRecord \notin Record /\ People!NoUrl \notin Url
    /\ Picked \subseteq Nat \ {0}
    /\ Bytes \in [Url -> Nat \ {0}]
    /\ \A r \in Record : Keys[r] # {} /\ From[r] # People!NoProvider /\ Assets[r] \in Seq([role : People!Role, url : Url])
    /\ People!NoProvider \notin People!Provider
BY PartsAssumption DEF People!ImageConstants, People!NoHash, People!Provider

LEMMA NotFree == People!Free \notin People!Row
BY DEF People!Free, People!Row, People!Role, People!Core

LEMMA NotIdle == People!Idle \notin PassTask /\ People!Idle \notin AskerTask
<1>1. People!Idle.pc = "idle"
  BY DEF People!Idle
<1> QED
  BY <1>1 DEF PassTask, PassStep, AskerTask, ClearTask, FileTask, PromoteTask, SettleTask

(***************************************************************************)
(* The next asset a pass fetches.                                          *)
(***************************************************************************)
LEMMA LeastOf ==
    ASSUME NEW S \in SUBSET Nat, S # {}
    PROVE  People!Min(S) \in S /\ \A n \in S : People!Min(S) <= n
<1> DEFINE R == {ss \in Nat \X Nat : ss[1] < ss[2]}
<1>1. IsWellFoundedOn(R, Nat)
  BY NatLessThanWellFounded DEF OpToRel
<1>2. PICK m \in S : \A n \in S : ~(<<n, m>> \in R)
  BY <1>1, WFMin
<1>3. ASSUME NEW n \in S PROVE m <= n
  <2>1. n \in Nat /\ m \in Nat /\ (n < m => <<n, m>> \in R)
    OBVIOUS
  <2> HIDE DEF R
  <2> QED
    BY <1>2, <2>1
<1> QED
  BY <1>3 DEF People!Min

LEMMA NextAsset ==
    ASSUME NEW e \in Pass, task[e] \in PassTask, People!More(e)
    PROVE  /\ People!Upcoming(task[e]) \in DOMAIN Assets[task[e].record]
           /\ People!Upcoming(task[e]) \in Nat \ {0}
           /\ People!Asset(e) \in [role : People!Role, url : Url]
           /\ ~People!Skipped(task[e], People!Asset(e))
<1> DEFINE w == task[e]
           all == Assets[w.record]
           S == {j \in w.i .. Len(all) : ~People!Skipped(w, all[j])} \cup {Len(all) + 1}
           m == People!Upcoming(w)
<1>1. w.record \in Record /\ w.i \in Nat \ {0}
  BY DEF PassTask
<1> DEFINE A == [role : People!Role, url : Url]
<1>2. all \in Seq(A) /\ Len(all) \in Nat /\ DOMAIN all = 1 .. Len(all)
  <2>1. all \in Seq(A)
    BY <1>1, PeopleFacts
  <2> HIDE DEF A, all
  <2> QED
    BY <2>1
<1>3. S \in SUBSET Nat /\ S # {}
  BY <1>1, <1>2
<1>4. m = People!Min(S)
  BY DEF People!Upcoming
<1>5. m \in S /\ m \in Nat
  BY <1>3, <1>4, LeastOf
<1>6. m <= Len(all)
  BY DEF People!More
<1>7. m \in w.i .. Len(all) /\ ~People!Skipped(w, all[m])
  BY <1>2, <1>5, <1>6
<1>8. m \in DOMAIN all /\ all[m] \in A /\ m \in Nat \ {0}
  <2>1. m \in 1 .. Len(all) /\ m \in Nat \ {0}
    BY <1>1, <1>2, <1>5, <1>7
  <2> HIDE DEF A, all, m
  <2> QED
    BY <1>2, <2>1
<1>9. People!Asset(e) = all[m]
  BY DEF People!Asset
<1> QED
  BY <1>5, <1>7, <1>8, <1>9

(***************************************************************************)
(* What a step does to the tasks.                                          *)
(***************************************************************************)
PassMay(w) == w = People!Idle \/ (w \in PassTask /\ From[w.record] = w.prov /\ Fetching(w))
AskerMay(w) == w = People!Idle \/ w \in AskerTask

LEMMA OneTask ==
    ASSUME TaskShape, NEW t \in People!Task, NEW w, task' = [task EXCEPT ![t] = w],
           t \in Pass => PassMay(w), t \in Asker => AskerMay(w)
    PROVE  TaskShape' /\ task'[t] = w /\ \A u \in People!Task \ {t} : task'[u] = task[u]
BY DEF TaskShape, PassOK, AskerOK, PassMay, AskerMay, People!Task

LEMMA PassGoes ==
    ASSUME NEW w \in PassTask, NEW pc \in PassStep \ {"file", "seed"}
    PROVE  LET v == [w EXCEPT !.pc = pc] IN
           v \in PassTask /\ Fetching(v) /\ v.pc = pc /\ v.person = w.person /\ v.prov = w.prov /\ v.record = w.record /\ v.prev = w.prev
           /\ v.i = w.i /\ v.done = w.done /\ v.locked = w.locked /\ v.skip = w.skip /\ v.have = w.have
           /\ v.head = w.head /\ v.id = w.id /\ v.seed = w.seed /\ v.since = w.since /\ v.knew = w.knew /\ v.blind = w.blind
BY DEF PassTask, Fetching

Moved(w, pc, n, d, h) == [w EXCEPT !.pc = pc, !.i = n, !.done = d, !.head = h]
LEMMA PassMoves ==
    ASSUME NEW w \in PassTask, NEW pc \in PassStep, NEW n \in Nat \ {0}, NEW d \in SUBSET People!Role,
           NEW h \in Url \cup {People!NoUrl}
    PROVE  /\ Moved(w, pc, n, d, h) \in PassTask
           /\ Moved(w, pc, n, d, h).pc = pc /\ Moved(w, pc, n, d, h).i = n
           /\ Moved(w, pc, n, d, h).record = w.record /\ Moved(w, pc, n, d, h).prov = w.prov
<1> DEFINE v == [w EXCEPT !.pc = pc, !.i = n, !.done = d, !.head = h]
<1>1. DOMAIN v = {"pc", "person", "prov", "record", "prev", "i", "done", "locked", "skip", "have", "head", "id", "seed", "since", "knew", "blind"}
  BY DEF PassTask
<1>2. v.pc = pc /\ v.i = n /\ v.done = d /\ v.head = h /\ v.person = w.person /\ v.prov = w.prov /\ v.record = w.record /\ v.prev = w.prev
      /\ v.locked = w.locked /\ v.skip = w.skip /\ v.have = w.have
      /\ v.id = w.id /\ v.seed = w.seed /\ v.since = w.since /\ v.knew = w.knew /\ v.blind = w.blind
  BY DEF PassTask
<1>3. v \in PassTask
  BY <1>1, <1>2 DEF PassTask
<1> QED
  BY <1>2, <1>3 DEF Moved

LEMMA ClearGoes ==
    ASSUME NEW w \in ClearTask, NEW pc \in {"match", "detach", "names", "images", "fields"}
    PROVE  LET v == [w EXCEPT !.pc = pc] IN
           v \in ClearTask /\ v.pc = pc /\ v.person = w.person /\ v.prov = w.prov /\ v.record = w.record /\ v.prev = w.prev
BY DEF ClearTask

\* Who is at a step that only some tasks come to.
LEMMA Standing ==
    ASSUME TaskShape, NEW t \in People!Task
    PROVE  /\ t \in Pass => t \notin Asker
           /\ (t \in Pass /\ task[t].pc # "idle") =>
                 task[t] \in PassTask /\ From[task[t].record] = task[t].prov /\ Fetching(task[t])
           /\ (t \in Asker /\ task[t].pc \in {"match", "detach", "names", "images", "fields"}) => task[t] \in ClearTask
           /\ (t \in Asker /\ task[t].pc \in {"file", "unlink"}) => task[t] \in FileTask
           /\ (t \in Asker /\ task[t].pc = "promote") => task[t] \in PromoteTask
           /\ (t \in Asker /\ task[t].pc = "settle") => task[t] \in SettleTask
           /\ (t \in Asker /\ task[t] # People!Idle) => task[t] \in AskerTask
           /\ (t \in Asker /\ task[t].pc # "idle") => task[t] \in AskerTask
           /\ task[t].pc = "idle" <=> task[t] = People!Idle
           /\ task[t] # People!Idle => task[t].person \in Person
BY PeopleFacts DEF TaskShape, PassOK, AskerOK, People!Task, People!Idle, AskerTask, ClearTask, FileTask,
   PromoteTask, SettleTask, PassTask, PassStep

\* The step of a pass or a clear: its own task alone changes, to one of its kind.
Turns(t) == \E w : /\ task' = [task EXCEPT ![t] = w]
                   /\ t \in Pass => PassMay(w)
                   /\ t \in Asker => AskerMay(w)

LEMMA DoneTurns == ASSUME TaskShape, NEW t \in People!Task, People!Done(t) PROVE Turns(t)
BY DEF Turns, People!Done, PassMay, AskerMay

LEMMA GotoTurns ==
    ASSUME TaskShape, NEW t \in People!Task, NEW pc, People!Goto(t, pc), task[t].pc # "idle",
           t \in Pass => pc \in PassStep \ {"file", "seed"},
           t \in Asker => task[t] \in ClearTask /\ pc \in {"match", "detach", "names", "images", "fields"}
    PROVE  Turns(t) /\ task'[t] = [task[t] EXCEPT !.pc = pc]
<1>1. task' = [task EXCEPT ![t] = [task[t] EXCEPT !.pc = pc]]
  BY DEF People!Goto
<1>2. t \in Pass => PassMay([task[t] EXCEPT !.pc = pc])
  BY Standing, PassGoes DEF PassMay
<1>3. t \in Asker => AskerMay([task[t] EXCEPT !.pc = pc])
  BY ClearGoes DEF AskerMay, AskerTask
<1> QED
  BY <1>1, <1>2, <1>3 DEF Turns, TaskShape

LEMMA PassSteps ==
    ASSUME PeopleShape, NEW e \in Pass,
           \/ \E p \in Person, r \in Record : People!Fetched(e, p, r)
           \/ People!UpsertEnrichment(e) \/ People!Adopt(e) \/ People!Reads(e)
           \/ People!AssetFails(e) \/ People!AssetRefused(e) \/ People!AssetInserted(e)
           \/ People!Assembled(e) \/ People!SeedPoster(e) \/ People!SeedFails(e)
    PROVE  Turns(e)
<1> e \in People!Task /\ TaskShape
  BY DEF People!Task, PeopleShape
<1> e \notin Asker
  BY PeopleFacts
<1>1. ASSUME NEW p \in Person, NEW r \in Record, People!Fetched(e, p, r) PROVE Turns(e)
  <2> DEFINE w == [pc |-> "match", person |-> p, prov |-> From[r], record |-> r, prev |-> People!NoRecord,
           i |-> 1, done |-> {}, locked |-> {}, skip |-> {}, have |-> {},
           head |-> People!NoUrl, id |-> 0, seed |-> FALSE,
           since |-> 0, knew |-> {}, blind |-> FALSE]
  <2>1. task' = [task EXCEPT ![e] = w]
    BY <1>1 DEF People!Fetched
  <2>2. PassMay(w)
    BY DEF PassMay, PassTask, PassStep, People!Provider, Fetching
  <2> HIDE DEF w
  <2> QED
    BY <2>1, <2>2 DEF Turns
<1>2. CASE People!UpsertEnrichment(e)
  BY <1>2, GotoTurns DEF People!UpsertEnrichment, People!At, PassStep
<1>3. CASE People!Adopt(e)
  BY <1>3, GotoTurns DEF People!Adopt, People!At, PassStep
<1>4. CASE People!Reads(e)
  <2> DEFINE p == task[e].person
  <2>1. task[e] \in PassTask /\ From[task[e].record] = task[e].prov
    BY <1>4, Standing DEF People!Reads, People!At
  <2>2. p \in Person /\ suppressed[p] \subseteq Url /\ gone[p] \subseteq Url /\ next \in Nat
    BY <2>1 DEF PassTask, PeopleShape, StoreShape, RowShape
  <2>3. People!LockedCoreRoles(p) \subseteq People!Core /\ People!ExistingURLs(p) \subseteq Url
    <3>1. \A i \in People!Of(p) : rows[i].url \in Url \cup {People!NoUrl}
      BY DEF People!Of, PeopleShape, RowShape, RowOK, Held, People!Row
    <3> QED
      BY <3>1 DEF People!LockedCoreRoles, People!ExistingURLs
  <2> DEFINE v(fail) == [task[e] EXCEPT !.pc = "assets", !.since = next, !.knew = gone[p],
             !.skip = IF fail THEN {} ELSE suppressed[p],
             !.locked = IF fail THEN {} ELSE People!LockedCoreRoles(p),
             !.have = IF fail THEN {} ELSE People!ExistingURLs(p),
             !.blind = @ \/ fail]
  <2>4. PICK fail \in BOOLEAN : task' = [task EXCEPT ![e] = v(fail)]
    <3>1. PICK fail \in BOOLEAN :
          task' = [task EXCEPT ![e].pc = "assets", ![e].since = next, ![e].knew = gone[p],
             ![e].skip = IF fail THEN {} ELSE suppressed[p],
             ![e].locked = IF fail THEN {} ELSE People!LockedCoreRoles(p),
             ![e].have = IF fail THEN {} ELSE People!ExistingURLs(p),
             ![e].blind = @ \/ fail]
      BY <1>4, Zenon DEF People!Reads
    <3>2. task' = [task EXCEPT ![e] = v(fail)]
      BY <3>1
    <3> QED
      BY <3>2
  <2>5. PassMay(v(fail))
    BY <2>1, <2>2, <2>3 DEF PassMay, PassTask, PassStep, Fetching
  <2> HIDE DEF v
  <2> QED
    BY <2>4, <2>5 DEF Turns
<1>5. CASE People!AssetFails(e) \/ People!AssetRefused(e) \/ People!AssetInserted(e)
  <2>1. People!More(e)
    BY <1>5 DEF People!AssetFails, People!AssetRefused, People!AssetInserted
  <2>2. task[e] \in PassTask /\ From[task[e].record] = task[e].prov
    BY <2>1, Standing DEF People!More, People!At
  <2>3. People!Upcoming(task[e]) \in Nat \ {0}
    BY <2>1, <2>2, NextAsset
  <2>4. next \in Nat
    BY DEF PeopleShape, RowShape
  <2> DEFINE m == People!Upcoming(task[e])
             fails == [task[e] EXCEPT !.i = m + 1]
             fills == [task[e] EXCEPT !.i = m + 1, !.done = @ \cup {"extra"}]
             files_ == [task[e] EXCEPT !.pc = "file", !.i = m, !.id = next]
  <2> HIDE DEF m
  <2>a. m \in Nat \ {0} /\ m \in DOMAIN Assets[task[e].record] /\ task[e].pc = "assets"
    BY <2>1, <2>2, NextAsset DEF m, People!More, People!At
  <2>b. PassMay(fails)
    BY <2>2, <2>a DEF PassMay, PassTask, Fetching
  <2>c. PassMay(fills)
    <3>1. task[e].done \cup {"extra"} \in SUBSET People!Role
      BY <2>2 DEF PassTask, People!Role
    <3>2. fills = Moved(task[e], "assets", m + 1, task[e].done \cup {"extra"}, task[e].head)
      BY <2>2, <2>a DEF PassTask, Moved
    <3>3. task[e].head \in Url \cup {People!NoUrl} /\ m + 1 \in Nat \ {0} /\ "assets" \in PassStep
      BY <2>2, <2>a DEF PassTask, PassStep
    <3> HIDE DEF fills
    <3> QED
      BY <2>2, <3>1, <3>2, <3>3, PassMoves DEF PassMay, Fetching
  <2>d. PassMay(files_)
    BY <2>2, <2>a, <2>4 DEF PassMay, PassTask, PassStep, Fetching
  <2>5. PassMay(fails) /\ PassMay(fills) /\ PassMay(files_)
    BY <2>b, <2>c, <2>d
  <2>6. \/ task' = [task EXCEPT ![e] = fails]
        \/ task' = [task EXCEPT ![e] = fills]
        \/ task' = [task EXCEPT ![e] = files_]
    BY <1>5 DEF People!AssetFails, People!AssetRefused, People!AssetInserted, m
  <2> QED
    BY <2>5, <2>6 DEF Turns
<1>6. CASE People!Assembled(e)
  <2>1. CASE People!Done(e)
    BY <2>1, DoneTurns
  <2>2. CASE People!Goto(e, "seed") /\ task[e].head # People!NoUrl
    <3> DEFINE v == [task[e] EXCEPT !.pc = "seed"]
    <3>1. task[e] \in PassTask /\ From[task[e].record] = task[e].prov
      BY <1>6, Standing DEF People!Assembled, People!At
    <3>2. v \in PassTask /\ v.pc = "seed" /\ v.head = task[e].head /\ v.record = task[e].record /\ v.prov = task[e].prov
      BY <3>1 DEF PassTask, PassStep
    <3>3. task' = [task EXCEPT ![e] = v]
      BY <2>2 DEF People!Goto
    <3> HIDE DEF v
    <3> QED
      BY <2>2, <3>1, <3>2, <3>3 DEF Turns, PassMay, Fetching
  <2> QED
    BY <1>6, <2>1, <2>2 DEF People!Assembled
<1>7. CASE People!SeedPoster(e)
  <2>1. task[e] \in PassTask /\ From[task[e].record] = task[e].prov
    BY <1>7, Standing DEF People!SeedPoster, People!At
  <2>2. next \in Nat
    BY DEF PeopleShape, RowShape
  <2> QED
    BY <1>7, <2>1, <2>2 DEF People!SeedPoster, Turns, PassMay, PassTask, PassStep, Fetching
<1>8. CASE People!SeedFails(e)
  BY <1>8, DoneTurns DEF People!SeedFails
<1> QED
  BY <1>1, <1>2, <1>3, <1>4, <1>5, <1>6, <1>7, <1>8

LEMMA FiledTurns ==
    ASSUME TaskShape, NEW t \in People!Task, NEW ok \in BOOLEAN, People!At(t, "file"), People!Filed(t, ok)
    PROVE  Turns(t) /\ (task'[t] = People!Idle \/ (t \in Pass /\ task'[t].pc = "assets"))
<1>1. CASE t \in Asker \/ task[t].seed
  BY <1>1, DoneTurns DEF People!Filed, People!Done, TaskShape
<1>2. CASE ~(t \in Asker \/ task[t].seed)
  <2> DEFINE w == task[t]
             a == Assets[w.record][w.i]
             v == [w EXCEPT !.pc = "assets", !.i = @ + 1,
                     !.done = IF ok /\ a.role \in People!Core THEN @ \cup {a.role} ELSE @,
                     !.head = IF ok /\ a.role = "headshot" THEN a.url ELSE @]
  <2>1. t \in Pass /\ w \in PassTask /\ From[w.record] = w.prov /\ w.i \in DOMAIN Assets[w.record]
    BY <1>2, Standing DEF People!At, People!Task, Fetching
  <2>2. task' = [task EXCEPT ![t] = v]
    BY <1>2 DEF People!Filed
  <2>3. w.i \in Nat \ {0} /\ w.record \in Record /\ w.done \subseteq People!Role /\ w.head \in Url \cup {People!NoUrl}
    BY <2>1 DEF PassTask
  <2> DEFINE A == [role : People!Role, url : Url]
  <2>4. a \in A
    <3>1. Assets[w.record] \in Seq(A)
      BY <2>3, PeopleFacts
    <3> HIDE DEF A, w
    <3> QED
      BY <2>1, <3>1
  <2>5. a.role \in People!Role /\ a.url \in Url
    BY <2>4
  <2> DEFINE d == IF ok /\ a.role \in People!Core THEN w.done \cup {a.role} ELSE w.done
             h == IF ok /\ a.role = "headshot" THEN a.url ELSE w.head
  <2>6. d \in SUBSET People!Role /\ h \in Url \cup {People!NoUrl}
    BY <2>3, <2>5
  <2>7. v = Moved(w, "assets", w.i + 1, d, h)
    BY DEF Moved
  <2> HIDE DEF d, h, v, a, A
  <2>8. PassMay(v) /\ v.pc = "assets"
    <3>1. w.i + 1 \in Nat \ {0} /\ "assets" \in PassStep
      BY <2>3 DEF PassStep
    <3> QED
      BY <2>1, <2>6, <2>7, <3>1, PassMoves DEF PassMay, Fetching
  <2> QED
    BY <2>1, <2>2, <2>8, PeopleFacts DEF Turns, TaskShape
<1> QED
  BY <1>1, <1>2

LEMMA TaskSteps ==
    ASSUME PeopleShape, NEW t \in People!Task,
           \/ People!Match(t) \/ People!Detach(t) \/ People!DeleteProviderAliases(t) \/ People!RemoveProviderAssets(t)
           \/ People!DeleteEnrichmentByProvider(t) \/ People!Fails(t) \/ People!Store(t) \/ People!StoreFails(t)
    PROVE  Turns(t)
<1> TaskShape
  BY DEF PeopleShape
<1>1. CASE People!Match(t)
  <2> DEFINE r0 == task[t].record
  <2>1. task[t].pc = "match"
    BY <1>1 DEF People!Match, People!At
  <2>2. CASE People!Goto(t, IF t \in Pass THEN "upsert" ELSE "names")
    BY <2>1, <2>2, GotoTurns, Standing, PeopleFacts DEF PassStep, People!Task
  <2>3. ASSUME NEW r \in Record, task' = [task EXCEPT ![t].pc = "detach", ![t].prev = r] PROVE Turns(t)
    <3>1. task' = [task EXCEPT ![t] = [task[t] EXCEPT !.pc = "detach", !.prev = r]]
      BY <2>3
    <3>2. ASSUME t \in Pass PROVE PassMay([task[t] EXCEPT !.pc = "detach", !.prev = r])
      <4> DEFINE v == [task[t] EXCEPT !.pc = "detach", !.prev = r]
      <4>1. task[t] \in PassTask /\ From[task[t].record] = task[t].prov
        BY <2>1, <3>2, Standing
      <4>2. v \in PassTask /\ v.pc = "detach" /\ v.record = task[t].record /\ v.prov = task[t].prov
        BY <4>1 DEF PassTask, PassStep
      <4> HIDE DEF v
      <4>3. PassMay(v)
        BY <4>1, <4>2 DEF PassMay, Fetching
      <4> QED
        BY <4>3 DEF v
    <3>3. t \in Asker => AskerMay([task[t] EXCEPT !.pc = "detach", !.prev = r])
      <4>1. t \in Asker => [task[t] EXCEPT !.pc = "detach", !.prev = r] \in ClearTask
        BY <2>1, Standing DEF ClearTask
      <4> QED
        BY <4>1 DEF AskerMay, AskerTask
    <3> QED
      BY <3>1, <3>2, <3>3 DEF Turns
  <2> QED
    BY <1>1, <2>2, <2>3 DEF People!Match, People!Written
<1>2. CASE People!Detach(t)
  BY <1>2, GotoTurns, Standing DEF People!Detach, People!At, PassStep
<1>3. CASE People!DeleteProviderAliases(t)
  BY <1>3, GotoTurns, Standing DEF People!DeleteProviderAliases, People!At, PassStep
<1>4. CASE People!RemoveProviderAssets(t)
  BY <1>4, GotoTurns, Standing DEF People!RemoveProviderAssets, People!At, PassStep
<1>5. CASE People!DeleteEnrichmentByProvider(t)
  <2>1. task[t].pc = "fields"
    BY <1>5 DEF People!DeleteEnrichmentByProvider, People!At
  <2>2. (t \in Pass /\ People!Goto(t, "upsert")) \/ People!Done(t)
    BY <1>5 DEF People!DeleteEnrichmentByProvider
  <2>3. t \in Pass => t \notin Asker
    BY PeopleFacts
  <2> QED
    BY <2>1, <2>2, <2>3, GotoTurns, DoneTurns DEF PassStep
<1>6. CASE People!Fails(t)
  BY <1>6, DoneTurns DEF People!Fails
<1>7. CASE People!Store(t)
  BY <1>7, FiledTurns DEF People!Store
<1>8. CASE People!StoreFails(t)
  BY <1>8, FiledTurns DEF People!StoreFails
<1> QED
  BY <1>1, <1>2, <1>3, <1>4, <1>5, <1>6, <1>7, <1>8

LEMMA AskerSteps ==
    ASSUME PeopleShape, NEW o \in Asker,
           \/ \E p \in Person, role \in People!Role, b \in Picked, overCap \in BOOLEAN :
                 People!Upload(o, p, role, b, overCap)
           \/ \E i \in People!Id : People!Delete(o, i) \/ \E role \in People!Core : People!Promote(o, i, role)
           \/ People!Promoted(o) \/ People!PromoteFails(o) \/ People!Unlink(o)
           \/ \E p \in Person, q \in People!Provider : People!Clear(o, p, q)
           \/ People!Settle(o)
    PROVE  Turns(o)
<1> TaskShape /\ o \in People!Task /\ o \notin Pass /\ next \in Nat
  BY PeopleFacts DEF PeopleShape, People!Task, RowShape
<1>1. ASSUME NEW w, task' = [task EXCEPT ![o] = w], w \in AskerTask PROVE Turns(o)
  BY <1>1 DEF Turns, AskerMay
<1>a. \A i \in People!Id : rows[i] # People!Free => rows[i] \in People!Row /\ rows[i].person \in Person /\ rows[i].bytes \in Nat
  BY DEF PeopleShape, RowShape, RowOK, Held, People!Row
<1>2. ASSUME NEW p \in Person, People!Filing(o, p) \in AskerTask PROVE TRUE
  OBVIOUS
<1>f. ASSUME NEW p \in Person PROVE People!Filing(o, p) \in AskerTask
  BY DEF People!Filing, AskerTask, FileTask
<1>3. ASSUME NEW p \in Person, NEW role \in People!Role, NEW b \in Picked, NEW overCap \in BOOLEAN,
             People!Upload(o, p, role, b, overCap) PROVE Turns(o)
  BY <1>1, <1>3, <1>f DEF People!Upload
<1>4. ASSUME NEW i \in People!Id, People!Delete(o, i) PROVE Turns(o)
  <2> DEFINE w == [pc |-> "unlink", person |-> rows[i].person, prov |-> People!NoProvider, id |-> i]
  <2>1. w \in AskerTask
    <3>1. i \in Nat /\ rows[i].person \in Person
      BY <1>4, <1>a DEF People!Delete, People!Id
    <3> QED
      BY <3>1 DEF AskerTask, FileTask
  <2>2. task' = [task EXCEPT ![o] = w]
    BY <1>4 DEF People!Delete
  <2> HIDE DEF w
  <2> QED
    BY <1>1, <2>1, <2>2
<1>5. ASSUME NEW i \in People!Id, NEW role \in People!Core, People!Promote(o, i, role) PROVE Turns(o)
  <2>1. PICK b \in People!Again(rows[i].bytes) : task' = [task EXCEPT ![o] = [pc |-> "promote", person |-> rows[i].person,
             prov |-> People!NoProvider, role |-> role, bytes |-> b]]
    BY <1>5 DEF People!Promote
  <2> DEFINE w == [pc |-> "promote", person |-> rows[i].person, prov |-> People!NoProvider, role |-> role, bytes |-> b]
  <2>2. w \in AskerTask
    <3>1. b \in Nat /\ rows[i].person \in Person
      BY <1>5, <1>a DEF People!Promote, People!Again
    <3> QED
      BY <3>1 DEF AskerTask, PromoteTask
  <2> HIDE DEF w
  <2>3. task' = [task EXCEPT ![o] = w]
    BY <2>1 DEF w
  <2> QED
    BY <1>1, <2>2, <2>3
<1>6. CASE People!Promoted(o)
  <2>1. task[o].person \in Person
    BY <1>6, Standing DEF People!Promoted, People!At, PromoteTask
  <2> QED
    BY <1>1, <1>6, <1>f, <2>1 DEF People!Promoted
<1>7. CASE People!PromoteFails(o) \/ People!Unlink(o) \/ People!Settle(o)
  BY <1>7, DoneTurns DEF People!PromoteFails, People!Unlink, People!Settle
<1>8. ASSUME NEW p \in Person, NEW q \in People!Provider, People!Clear(o, p, q) PROVE Turns(o)
  <2> DEFINE w == [pc |-> "match", person |-> p, prov |-> q, record |-> People!NoRecord, prev |-> People!NoRecord]
  <2>1. w \in AskerTask
    BY DEF AskerTask, ClearTask
  <2>2. task' = [task EXCEPT ![o] = w]
    BY <1>8 DEF People!Clear
  <2> HIDE DEF w
  <2> QED
    BY <1>1, <2>1, <2>2
<1> QED
  BY <1>3, <1>4, <1>5, <1>6, <1>7, <1>8

\* A merge is of two living people; it blinds the passes at work on them.
LEMMA MergeSteps ==
    ASSUME PeopleShape, NEW o \in Asker, NEW s \in Person, NEW l \in Person, People!Merge(o, s, l)
    PROVE  /\ TaskShape'
           /\ task'[o] = [pc |-> "settle", person |-> s, prov |-> People!NoProvider, loser |-> l]
           /\ \A t \in Asker \ {o} : task'[t] = task[t]
           /\ \A e \in Pass : IF task[e] # People!Idle /\ task[e].person \in {s, l}
                              THEN task'[e] = [task[e] EXCEPT !.blind = TRUE] ELSE task'[e] = task[e]
<1> TaskShape /\ o \in People!Task /\ o \notin Pass
  BY PeopleFacts DEF PeopleShape, People!Task
<1> DEFINE w == [pc |-> "settle", person |-> s, prov |-> People!NoProvider, loser |-> l]
<1>1. task' = [People!Blinded(s, l) EXCEPT ![o] = w]
  BY DEF People!Merge
<1>2. w \in AskerTask
  BY DEF AskerTask, SettleTask
<1> HIDE DEF w
<1>3. People!Blinded(s, l) = [t \in People!Task |-> People!Blinded(s, l)[t]]
  BY DEF People!Blinded
<1>4. task'[o] = w /\ task' = [t \in People!Task |-> task'[t]]
  BY <1>1, <1>3
<1>5. \A t \in Asker \ {o} : task'[t] = task[t]
  BY <1>1, PeopleFacts DEF People!Blinded, People!Task
<1>6. ASSUME NEW e \in Pass
      PROVE  IF task[e] # People!Idle /\ task[e].person \in {s, l}
             THEN task'[e] = [task[e] EXCEPT !.blind = TRUE] ELSE task'[e] = task[e]
  BY <1>1 DEF People!Blinded, People!Task
<1>7. ASSUME NEW e \in Pass PROVE PassOK(e)'
  <2>1. PassOK(e)
    BY DEF TaskShape
  <2>2. task[e] \in PassTask => LET v == [task[e] EXCEPT !.blind = TRUE] IN
           v \in PassTask /\ v.record = task[e].record /\ v.prov = task[e].prov /\ v.pc = task[e].pc /\ v.seed = task[e].seed /\ v.i = task[e].i
           /\ v.head = task[e].head
    BY DEF PassTask
  <2> QED
    BY <1>6, <2>1, <2>2 DEF PassOK, Fetching
<1>8. TaskShape'
  BY <1>2, <1>4, <1>5, <1>7 DEF TaskShape, AskerOK
<1> QED
  BY <1>4, <1>5, <1>6, <1>8 DEF w

LEMMA TaskNext == PeopleShape /\ [People!Next]_(People!vars) => TaskShape'
<1> SUFFICES ASSUME PeopleShape, [People!Next]_(People!vars) PROVE TaskShape'
  OBVIOUS
<1> TaskShape
  BY DEF PeopleShape
<1>1. ASSUME NEW t \in People!Task, Turns(t) PROVE TaskShape'
  BY <1>1, OneTask DEF Turns
<1>2. CASE UNCHANGED People!vars
  BY <1>2 DEF People!vars, TaskShape, PassOK, AskerOK, Fetching
<1>3. CASE People!Crash
  BY <1>3 DEF People!Crash, TaskShape, PassOK, AskerOK, People!Task
<1>4. CASE People!Boot
  BY <1>4 DEF People!Boot, TaskShape, PassOK, AskerOK, Fetching
<1>5. ASSUME NEW o \in Asker, NEW s \in Person, NEW l \in Person, People!Merge(o, s, l) PROVE TaskShape'
  BY <1>5, MergeSteps
<1> QED
  BY <1>1, <1>2, <1>3, <1>4, <1>5, PassSteps, TaskSteps, AskerSteps DEF People!Next, People!Task

(***************************************************************************)
(* What a step does to the rows.                                           *)
(***************************************************************************)
NewRow(img) ==
    /\ img \in People!Row /\ img.hash = img.bytes
    /\ img.source = "enrichment" => img.record \in Record /\ img.hash # People!NoHash
Removes(S) == rows' = [i \in People!Id |-> IF i \in S THEN People!Free ELSE rows[i]]

LEMMA EnrichedIsNew ==
    ASSUME NEW e \in Pass, task[e] \in PassTask, NEW role \in People!Role, NEW url \in Url
    PROVE  NewRow(People!EnrichedRow(e, role, url))
<1>1. task[e].person \in Person /\ task[e].record \in Record /\ Bytes[url] \in Nat \ {0}
  BY PeopleFacts DEF PassTask
<1> QED
  BY <1>1, PeopleFacts DEF NewRow, People!EnrichedRow, People!Row, People!NoHash

LEMMA RowSteps ==
    ASSUME PeopleShape, [People!Next]_(People!vars)
    PROVE  \/ UNCHANGED <<rows, next, live>>
           \/ \E S \in SUBSET People!Id : Removes(S) /\ UNCHANGED <<next, live>>
           \/ \E img : NewRow(img) /\ People!Inserted(img) /\ UNCHANGED live
           \/ \E o \in Asker, s, l \in Person : People!Merge(o, s, l)
           \/ People!Boot
<1> DEFINE Goal == \/ UNCHANGED <<rows, next, live>>
                   \/ \E S \in SUBSET People!Id : Removes(S) /\ UNCHANGED <<next, live>>
                   \/ \E img : NewRow(img) /\ People!Inserted(img) /\ UNCHANGED live
                   \/ \E o \in Asker, s, l \in Person : People!Merge(o, s, l)
                   \/ People!Boot
<1> SUFFICES Goal
  OBVIOUS
<1> TaskShape /\ RowShape
  BY DEF PeopleShape
<1>1. ASSUME UNCHANGED <<rows, next, live>> PROVE Goal
  BY <1>1
<1>2. ASSUME NEW S \in SUBSET People!Id, Removes(S), UNCHANGED <<next, live>> PROVE Goal
  BY <1>2
<1>3. ASSUME NEW img, NewRow(img), People!Inserted(img), UNCHANGED live PROVE Goal
  BY <1>3
<1>d. ASSUME NEW i \in People!Id, People!DeletePersonImage(i), UNCHANGED <<next, live>> PROVE Goal
  <2>1. Removes({i})
    BY <1>d DEF People!DeletePersonImage, Removes, RowShape
  <2> QED
    BY <1>2, <1>d, <2>1
<1>4. ASSUME NEW e \in Pass,
             \/ \E p \in Person, r \in Record : People!Fetched(e, p, r)
             \/ People!UpsertEnrichment(e) \/ People!Adopt(e) \/ People!Reads(e)
             \/ People!AssetFails(e) \/ People!AssetRefused(e) \/ People!AssetInserted(e)
             \/ People!Assembled(e) \/ People!SeedPoster(e) \/ People!SeedFails(e)
      PROVE  Goal
  <2>1. CASE People!AssetInserted(e)
    <3>1. task[e] \in PassTask /\ People!More(e)
      BY <2>1, Standing DEF People!AssetInserted, People!More, People!At, People!Task
    <3>2. People!Asset(e).role \in People!Role /\ People!Asset(e).url \in Url
      BY <3>1, NextAsset
    <3> QED
      BY <1>3, EnrichedIsNew, <2>1, <3>1, <3>2 DEF People!AssetInserted, People!AssetRow
  <2>2. CASE People!SeedPoster(e)
    <3>1. task[e] \in PassTask /\ task[e].head \in Url
      BY <2>2, Standing DEF People!SeedPoster, People!At, People!Task, PassTask, Fetching
    <3> QED
      BY <1>3, EnrichedIsNew, <2>2, <3>1 DEF People!SeedPoster, People!Role, People!Core
  <2> QED
    BY <1>1, <1>4, <2>1, <2>2 DEF People!store, People!Fetched, People!UpsertEnrichment,
       People!Adopt, People!Reads,
       People!AssetFails, People!AssetRefused, People!Assembled, People!SeedFails
<1>5. ASSUME NEW t \in People!Task,
             \/ People!Match(t) \/ People!Detach(t) \/ People!DeleteProviderAliases(t) \/ People!RemoveProviderAssets(t)
             \/ People!DeleteEnrichmentByProvider(t) \/ People!Fails(t) \/ People!Store(t) \/ People!StoreFails(t)
      PROVE  Goal
  <2>1. CASE People!RemoveProviderAssets(t)
    <3> DEFINE S == People!Provided(task[t].person, task[t].prov)
    <3>1. Removes(S) /\ S \in SUBSET People!Id
      BY <2>1 DEF People!RemoveProviderAssets, Removes, People!Provided, People!Of
    <3> QED
      BY <1>2, <2>1, <3>1 DEF People!RemoveProviderAssets
  <2>2. CASE People!StoreFails(t)
    BY <1>1, <1>d, <2>2 DEF People!StoreFails, People!RollsBack, People!Of
  <2> QED
    BY <1>1, <1>5, <2>1, <2>2 DEF People!store, People!Match, People!Detach,
       People!DeleteProviderAliases,
       People!DeleteEnrichmentByProvider, People!Fails, People!Store
<1>6. ASSUME NEW o \in Asker,
             \/ \E p \in Person, role \in People!Role, b \in Picked, overCap \in BOOLEAN :
                   People!Upload(o, p, role, b, overCap)
             \/ \E i \in People!Id : People!Delete(o, i) \/ \E role \in People!Core : People!Promote(o, i, role)
             \/ People!Promoted(o) \/ People!PromoteFails(o) \/ People!Unlink(o)
             \/ \E p \in Person, q \in People!Provider : People!Clear(o, p, q)
             \/ People!Settle(o)
      PROVE  Goal
  <2>u. ASSUME NEW p \in Person, NEW role \in People!Role, NEW b \in Nat
        PROVE  /\ NewRow(People!Uploaded(p, role, b))
               /\ NewRow([People!Uploaded(p, role, b) EXCEPT !.source = "promoted"])
    BY DEF NewRow, People!Uploaded, People!Row
  <2>1. ASSUME NEW p \in Person, NEW role \in People!Role, NEW b \in Picked, NEW overCap \in BOOLEAN,
               People!Upload(o, p, role, b, overCap) PROVE Goal
    <3>1. b \in Nat
      BY PeopleFacts
    <3> QED
      BY <1>3, <2>1, <2>u, <3>1 DEF People!Upload
  <2>2. CASE People!Promoted(o)
    <3>1. task[o].person \in Person /\ task[o].role \in People!Role /\ task[o].bytes \in Nat
      BY <2>2, Standing DEF People!Promoted, People!At, PromoteTask, People!Task, People!Role
    <3> QED
      BY <1>3, <2>2, <2>u, <3>1 DEF People!Promoted
  <2>3. ASSUME NEW i \in People!Id, People!Delete(o, i) PROVE Goal
    BY <1>d, <2>3 DEF People!Delete
  <2> QED
    BY <1>1, <1>6, <2>1, <2>2, <2>3 DEF People!store, People!Promote, People!PromoteFails,
       People!Unlink, People!Clear, People!Settle
<1>7. CASE UNCHANGED People!vars \/ People!Crash
  BY <1>1, <1>7 DEF People!vars, People!store, People!Crash
<1> HIDE DEF Goal
<1>8. ASSUME NEW o \in Asker, NEW s \in Person, NEW l \in Person, People!Merge(o, s, l) PROVE Goal
  BY <1>8 DEF Goal
<1>9. CASE People!Boot
  BY <1>9 DEF Goal
<1> QED
  BY <1>4, <1>5, <1>6, <1>7, <1>8, <1>9, ZenonT(60) DEF People!Next

LEMMA IdFacts == People!Id \subseteq Nat \ {0} /\ MaxId \in Nat
BY PeopleFacts DEF People!Id

\* Rows that are there after a step, other than a merge or a boot, were there or are new.
LEMMA InsertedRows ==
    ASSUME PeopleShape, NEW img, NewRow(img), People!Inserted(img)
    PROVE  /\ next \in People!Id /\ next' = next + 1 /\ img.person \in live /\ ~Held(next)
           /\ rows'[next] = img
           /\ \A i \in People!Id \ {next} : rows'[i] = rows[i] \/ rows'[i] = People!Free
           /\ \A i \in People!Id \ {next} : (rows'[i] # rows[i]) =>
                 Held(i) /\ img.role \in People!Core /\ rows[i].person = img.person /\ rows[i].role = img.role
           /\ \A i \in People!Id \ {next} : (Held(i) /\ img.role \in People!Core
                 /\ rows[i].person = img.person /\ rows[i].role = img.role) => rows'[i] = People!Free
<1>1. next \in 1 .. MaxId + 1 /\ next <= MaxId /\ MaxId \in Nat
  BY IdFacts DEF People!Inserted, PeopleShape, RowShape
<1>2. next \in People!Id
  BY <1>1 DEF People!Id
<1>3. ~Held(next)
  BY <1>1, <1>2 DEF PeopleShape, RowShape, RowOK
<1>4. \A i \in People!Id : i \in People!InRole(img.person, img.role) <=>
          Held(i) /\ rows[i].person = img.person /\ rows[i].role = img.role
  BY DEF People!InRole, People!Of, Held
<1>5. rows' = [i \in People!Id |->
          IF i = next THEN img
          ELSE IF img.role \in People!Core /\ i \in People!InRole(img.person, img.role) THEN People!Free
          ELSE rows[i]]
  BY DEF People!Inserted
<1> QED
  BY <1>2, <1>3, <1>4, <1>5 DEF People!Inserted

LEMMA BootRows ==
    ASSUME PeopleShape, People!Boot
    PROVE  /\ rows' = [i \in People!Id |-> rows'[i]] /\ UNCHANGED <<next, live, task>>
           /\ \A i \in People!Id :
                 \/ rows'[i] = rows[i]
                 \/ Held(i) /\ rows'[i] = People!Free
                 \/ /\ Held(i) /\ rows[i].hash = People!NoHash /\ rows'[i] = [rows[i] EXCEPT !.hash = rows[i].bytes]
<1>1. rows = [i \in People!Id |-> rows[i]]
  BY DEF PeopleShape, RowShape
<1>2. CASE rows' = rows
  BY <1>1, <1>2 DEF People!Boot, People!store
<1>3. ASSUME NEW S \in SUBSET {i \in People!Id : rows[i] # People!Free /\ rows[i].hash = People!NoHash /\ People!Filled(i)},
             \/ rows' = People!Hashed(S)
             \/ rows' = [i \in People!Id |-> IF i \in People!Twins(People!Hashed(S)) THEN People!Free ELSE People!Hashed(S)[i]]
      PROVE  /\ rows' = [i \in People!Id |-> rows'[i]]
             /\ \A i \in People!Id :
                 \/ rows'[i] = rows[i]
                 \/ Held(i) /\ rows'[i] = People!Free
                 \/ /\ Held(i) /\ rows[i].hash = People!NoHash /\ rows'[i] = [rows[i] EXCEPT !.hash = rows[i].bytes]
  <2>1. \A i \in People!Id : People!Hashed(S)[i] = IF i \in S THEN [rows[i] EXCEPT !.hash = rows[i].bytes] ELSE rows[i]
    BY DEF People!Hashed
  <2>2. \A i \in People!Twins(People!Hashed(S)) : i \in People!Id /\ People!Hashed(S)[i] # People!Free
    BY DEF People!Twins
  <2>3. \A i \in People!Twins(People!Hashed(S)) : Held(i)
    BY <2>1, <2>2 DEF Held
  <2>4. CASE rows' = People!Hashed(S)
    BY <2>1, <2>4 DEF People!Hashed, Held
  <2>5. CASE rows' = [i \in People!Id |-> IF i \in People!Twins(People!Hashed(S)) THEN People!Free ELSE People!Hashed(S)[i]]
    <3> DEFINE T == People!Twins(People!Hashed(S))
    <3> HIDE DEF T
    <3> QED
      BY <2>1, <2>3, <2>5 DEF T, Held
  <2> QED
    BY <1>3, <2>4, <2>5
<1>4. UNCHANGED <<next, live, task>>
  BY DEF People!Boot
<1>5. \/ rows' = rows
      \/ \E S \in SUBSET {i \in People!Id : rows[i] # People!Free /\ rows[i].hash = People!NoHash /\ People!Filled(i)} :
             \/ rows' = People!Hashed(S)
             \/ rows' = [i \in People!Id |-> IF i \in People!Twins(People!Hashed(S)) THEN People!Free ELSE People!Hashed(S)[i]]
  BY DEF People!Boot
<1> QED
  BY <1>2, <1>3, <1>4, <1>5

\* What a merge carries over: core images into slots that are empty, and of the loser's
\* photos some that the survivor lacks.
Carries(s, l, X) ==
    /\ X \subseteq People!Lacking(s, l)
    /\ \A i \in People!Id : rows'[i] =
          IF i \in X \cup People!CarriedCore(s, l) THEN [rows[i] EXCEPT !.person = s]
          ELSE IF i \in People!Of(l) THEN People!Free ELSE rows[i]

LEMMA MergeRows ==
    ASSUME PeopleShape, NEW o \in Asker, NEW s \in Person, NEW l \in Person, People!Merge(o, s, l)
    PROVE  /\ s \in live /\ l \in live /\ s # l /\ live' = live \ {l} /\ next' = next
           /\ rows' = [i \in People!Id |-> rows'[i]]
           /\ \E X \in People!CarriedExtras(s, l) : Carries(s, l, X)
           /\ \A i \in People!Id :
                 \/ rows'[i] = rows[i] /\ (Held(i) => rows[i].person # l)
                 \/ Held(i) /\ rows[i].person = l /\ rows'[i] = People!Free
                 \/ Held(i) /\ rows[i].person = l /\ rows'[i] = [rows[i] EXCEPT !.person = s]
                    /\ (rows[i].role \in People!Core => \A j \in People!Id : Held(j) /\ rows[j].person = s => rows[j].role # rows[i].role)
<1>1. PICK X \in People!CarriedExtras(s, l) :
          rows' = [i \in People!Id |-> IF i \in X \cup People!CarriedCore(s, l)
                                THEN [rows[i] EXCEPT !.person = s]
                                ELSE IF i \in People!Of(l) THEN People!Free ELSE rows[i]]
  BY DEF People!Merge
<1>2. X \subseteq People!Lacking(s, l)
  BY DEF People!CarriedExtras, People!kSubset
<1>3. Carries(s, l, X) /\ rows' = [i \in People!Id |-> rows'[i]]
  BY <1>1, <1>2 DEF Carries
<1>4. \A i \in X : i \in People!Id /\ Held(i) /\ rows[i].person = l /\ rows[i].role = "extra"
  BY <1>2 DEF People!Lacking, People!InRole, People!Of, Held
<1>5. \A i \in People!CarriedCore(s, l) : /\ i \in People!Id /\ Held(i) /\ rows[i].person = l /\ rows[i].role \in People!Core
                                        /\ \A j \in People!Id : Held(j) /\ rows[j].person = s => rows[j].role # rows[i].role
  BY DEF People!CarriedCore, People!InRole, People!Of, Held
<1>6. "extra" \notin People!Core
  BY DEF People!Core
<1>7. \A i \in People!Id : i \in People!Of(l) <=> Held(i) /\ rows[i].person = l
  BY DEF People!Of, Held
<1>8. s \in live /\ l \in live /\ s # l /\ live' = live \ {l} /\ next' = next
  BY DEF People!Merge
<1> QED
  BY <1>1, <1>3, <1>4, <1>5, <1>6, <1>7, <1>8 DEF Carries

LEMMA RowNext == PeopleShape /\ [People!Next]_(People!vars) => RowShape'
<1> SUFFICES ASSUME PeopleShape, [People!Next]_(People!vars) PROVE RowShape'
  OBVIOUS
<1> RowShape
  BY DEF PeopleShape
<1>n. next \in 1 .. MaxId + 1 /\ MaxId \in Nat
  BY IdFacts DEF RowShape
<1>1. CASE UNCHANGED <<rows, next, live>>
  BY <1>1 DEF RowShape, RowOK, SlotsSingle, Held
<1>2. ASSUME NEW S \in SUBSET People!Id, Removes(S), UNCHANGED <<next, live>> PROVE RowShape'
  <2>1. \A i \in People!Id : rows'[i] = rows[i] \/ rows'[i] = People!Free
    BY <1>2 DEF Removes
  <2>2. rows' = [i \in People!Id |-> rows'[i]]
    BY <1>2 DEF Removes
  <2>3. \A i \in People!Id : RowOK(i)'
    BY <1>2, <2>1 DEF RowShape, RowOK, Held
  <2>4. SlotsSingle'
    BY <2>1 DEF RowShape, SlotsSingle, Held
  <2> QED
    BY <1>2, <2>2, <2>3, <2>4, <1>n DEF RowShape
<1>3. ASSUME NEW img, NewRow(img), People!Inserted(img), UNCHANGED live PROVE RowShape'
  <2>1. \A i \in People!Id : RowOK(i)'
    <3> SUFFICES ASSUME NEW i \in People!Id PROVE RowOK(i)'
      OBVIOUS
    <3>1. CASE i = next
      BY <1>3, <3>1, InsertedRows, <1>n DEF RowOK, Held, NewRow
    <3>2. CASE i # next
      <4>1. rows'[i] = rows[i] \/ rows'[i] = People!Free
        BY <1>3, <3>2, InsertedRows
      <4>2. i \in Nat /\ next' = next + 1 /\ RowOK(i)
        BY <1>3, InsertedRows, IdFacts DEF RowShape
      <4> QED
        BY <4>1, <4>2, <1>3, <1>n DEF RowOK, Held
    <3> QED
      BY <3>1, <3>2
  <2>2. SlotsSingle'
    <3> SUFFICES ASSUME NEW i \in People!Id, NEW j \in People!Id, i # j, Held(i)', Held(j)', rows'[i].person = rows'[j].person,
                        rows'[i].role = rows'[j].role, rows'[i].role \in People!Core
                 PROVE  FALSE
      BY DEF SlotsSingle
    <3>1. ASSUME NEW k \in People!Id, k # next, Held(k)' PROVE rows'[k] = rows[k] /\ Held(k)
      BY <1>3, <3>1, InsertedRows DEF Held
    <3>2. CASE i # next /\ j # next
      BY <3>1, <3>2 DEF RowShape, SlotsSingle
    <3>3. ASSUME NEW k \in People!Id, k # next, Held(k)', img.role \in People!Core, rows'[k].person = img.person, rows'[k].role = img.role
          PROVE  FALSE
      BY <1>3, <3>1, <3>3, InsertedRows DEF Held
    <3>4. rows'[next] = img
      BY <1>3, InsertedRows
    <3> QED
      BY <3>2, <3>3, <3>4
  <2> QED
    BY <1>3, <2>1, <2>2, <1>n, InsertedRows DEF RowShape, People!Inserted
<1>4. ASSUME NEW o \in Asker, NEW s \in Person, NEW l \in Person, People!Merge(o, s, l) PROVE RowShape'
  <2>1. \A i \in People!Id : RowOK(i)'
    <3> SUFFICES ASSUME NEW i \in People!Id PROVE RowOK(i)'
      OBVIOUS
    <3>1. RowOK(i) /\ s \in live' /\ next' = next /\ live' = live \ {l}
      BY <1>4, MergeRows DEF RowShape
    <3>2. CASE rows'[i] = rows[i] /\ (Held(i) => rows[i].person # l)
      BY <3>1, <3>2 DEF RowOK, Held
    <3>3. CASE rows'[i] = People!Free
      BY <3>3 DEF RowOK, Held
    <3>4. CASE Held(i) /\ rows'[i] = [rows[i] EXCEPT !.person = s]
      <4>1. /\ rows'[i] \in People!Row /\ rows'[i].person = s /\ rows'[i].hash = rows[i].hash
            /\ rows'[i].bytes = rows[i].bytes /\ rows'[i].source = rows[i].source /\ rows'[i].record = rows[i].record
        BY <3>1, <3>4 DEF RowOK, People!Row
      <4> QED
        BY <3>1, <3>4, <4>1 DEF RowOK
    <3> QED
      BY <1>4, <3>2, <3>3, <3>4, MergeRows
  <2>2. \A i \in People!Id : Held(i)' => Held(i) /\ rows'[i].role = rows[i].role
                       /\ (rows[i].person # l => rows'[i].person = rows[i].person) /\ (rows[i].person = l => rows'[i].person = s)
                       /\ ((rows[i].person = l /\ rows[i].role \in People!Core) =>
                             \A j \in People!Id : Held(j) /\ rows[j].person = s => rows[j].role # rows[i].role)
    <3> SUFFICES ASSUME NEW i \in People!Id, Held(i)'
                 PROVE  Held(i) /\ rows'[i].role = rows[i].role
                       /\ (rows[i].person # l => rows'[i].person = rows[i].person) /\ (rows[i].person = l => rows'[i].person = s)
                       /\ ((rows[i].person = l /\ rows[i].role \in People!Core) =>
                             \A j \in People!Id : Held(j) /\ rows[j].person = s => rows[j].role # rows[i].role)
      OBVIOUS
    <3>1. CASE rows'[i] = rows[i] /\ (Held(i) => rows[i].person # l)
      BY <3>1 DEF Held
    <3>2. CASE Held(i) /\ rows[i].person = l /\ rows'[i] = [rows[i] EXCEPT !.person = s]
                    /\ (rows[i].role \in People!Core => \A j \in People!Id : Held(j) /\ rows[j].person = s => rows[j].role # rows[i].role)
      <4>1. rows'[i].role = rows[i].role /\ rows'[i].person = s
        BY <3>2 DEF RowShape, RowOK, People!Row
      <4> QED
        BY <3>2, <4>1
    <3> QED
      BY <1>4, <3>1, <3>2, MergeRows DEF Held
  <2>3. SlotsSingle'
    <3> SUFFICES ASSUME NEW i \in People!Id, NEW j \in People!Id, Held(i)', Held(j)', rows'[i].person = rows'[j].person,
                        rows'[i].role = rows'[j].role, rows'[i].role \in People!Core
                 PROVE  i = j
      BY DEF SlotsSingle
    <3> QED
      BY <2>2 DEF RowShape, SlotsSingle
  <2> QED
    BY <1>4, <1>n, <2>1, <2>3, MergeRows DEF RowShape
<1>5. CASE People!Boot
  <2>0. ASSUME NEW i \in People!Id, Held(i)'
        PROVE  /\ Held(i) /\ rows'[i] \in People!Row /\ rows'[i].role = rows[i].role /\ rows'[i].person = rows[i].person
               /\ rows'[i].source = rows[i].source /\ rows'[i].record = rows[i].record /\ rows'[i].bytes = rows[i].bytes
               /\ rows'[i].hash = rows[i].hash \/ rows'[i].hash = rows[i].bytes
               /\ rows'[i].hash # rows[i].hash => rows[i].hash = People!NoHash
    <3>1. CASE rows'[i] = rows[i]
      BY <2>0, <3>1 DEF RowShape, RowOK, Held
    <3>2. CASE Held(i) /\ rows[i].hash = People!NoHash /\ rows'[i] = [rows[i] EXCEPT !.hash = rows[i].bytes]
      BY <3>2 DEF RowShape, RowOK, People!Row
    <3> QED
      BY <1>5, <2>0, <3>1, <3>2, BootRows DEF Held
  <2>1. \A i \in People!Id : RowOK(i)'
    BY <1>5, <2>0, BootRows DEF RowOK, RowShape
  <2>2. SlotsSingle'
    BY <2>0 DEF RowShape, SlotsSingle
  <2> QED
    BY <1>5, <1>n, <2>1, <2>2, BootRows DEF RowShape
<1> QED
  BY <1>1, <1>2, <1>3, <1>4, <1>5, RowSteps

(***************************************************************************)
(* The files, the suppressions and what providers wrote keep their types.  *)
(***************************************************************************)
LEMMA UpTo == ASSUME NEW a \in Nat, NEW b \in Nat, a <= b PROVE 1 .. a - 1 \subseteq 1 .. b - 1
<1>1. ASSUME NEW k \in 1 .. a - 1 PROVE k \in 1 .. b - 1
  OBVIOUS
<1> QED
  BY <1>1

LEMMA StoreNext == PeopleShape /\ [People!Next]_(People!vars) => StoreShape'
<1> SUFFICES ASSUME PeopleShape, [People!Next]_(People!vars) PROVE StoreShape'
  OBVIOUS
<1> TaskShape /\ RowShape /\ StoreShape /\ IdsOK
  BY DEF PeopleShape
<1> USE DEF People!store, People!history
<1>n. next \in Nat /\ next' \in Nat /\ next <= next'
  BY RowNext, RowSteps, InsertedRows, MergeRows, BootRows DEF RowShape
<1>r. \A i \in People!Id : Held(i) => /\ rows[i] \in People!Row /\ i \in 1 .. next - 1 /\ rows[i].person \in live /\ rows[i].person \in Person
                                    /\ rows[i].url \in Url \cup {People!NoUrl}
  BY <1>n, IdFacts DEF RowShape, RowOK, People!Row
<1>o. 1 .. next - 1 \subseteq 1 .. next' - 1
  BY <1>n, UpTo
\* A step that leaves the people alive, and writes of files and rows only what it should.
<1>1. ASSUME files' \subseteq Person \X (1 .. next' - 1), unfiled' \subseteq 1 .. next' - 1,
             UNCHANGED <<suppressed, gone, known, live, over, muddled, up>> PROVE StoreShape'
  BY <1>1 DEF StoreShape
<1>q. \A p \in Person : known[p] \in FactsType
  BY DEF StoreShape
<1>t. ASSUME NEW t \in People!Task, task[t] # People!Idle PROVE task[t].person \in Person
  BY <1>t, Standing
<1>2. ASSUME NEW e \in Pass,
             \/ \E p \in Person, r \in Record : People!Fetched(e, p, r)
             \/ People!UpsertEnrichment(e) \/ People!Adopt(e) \/ People!Reads(e)
             \/ People!AssetFails(e) \/ People!AssetRefused(e) \/ People!AssetInserted(e)
             \/ People!Assembled(e) \/ People!SeedPoster(e) \/ People!SeedFails(e)
      PROVE  StoreShape'
  <2>1. ASSUME NEW p \in Person, NEW r \in Record, People!Fetched(e, p, r) PROVE StoreShape'
    <3>1. From[r] \in People!Provider
      BY DEF People!Provider
    <3> QED
      BY <2>1, <3>1 DEF People!Fetched, People!Muddle, StoreShape
  <2>2. CASE People!UpsertEnrichment(e)
    <3>1. task[e] \in PassTask
      BY <2>2, Standing DEF People!UpsertEnrichment, People!At, People!Task
    <3> DEFINE p == task[e].person
               r == task[e].record
               F == {f \in known[p].fields : From[f[1]] # From[r] \/ f[2] \notin Keys[r]} \cup ({r} \X Keys[r])
    <3>2. p \in Person /\ r \in Record
      BY <3>1 DEF PassTask
    <3>3. F \in SUBSET (Record \X Fact)
      BY <3>2, <1>q DEF Fact, FactsType
    <3>4. known' = [known EXCEPT ![p].fields = F]
      BY <2>2 DEF People!UpsertEnrichment
    <3> HIDE DEF F, p, r
    <3>5. known' \in [Person -> FactsType]
      BY <3>2, <3>3, <3>4 DEF StoreShape, FactsType
    <3> QED
      BY <2>2, <3>5 DEF People!UpsertEnrichment, StoreShape
  <2>3. CASE People!Adopt(e)
    <3>1. task[e] \in PassTask
      BY <2>3, Standing DEF People!Adopt, People!At, People!Task
    <3>2. PICK kept \in SUBSET {task[e].record} :
             known' = [known EXCEPT ![task[e].person].ids = @ \cup kept, ![task[e].person].names = @ \cup kept]
      BY <2>3 DEF People!Adopt
    <3>3. task[e].person \in Person /\ kept \subseteq Record
      BY <3>1, <3>2 DEF PassTask
    <3>4. known' \in [Person -> FactsType]
      BY <3>2, <3>3 DEF StoreShape, FactsType
    <3> QED
      BY <2>3, <3>4 DEF People!Adopt, StoreShape
  <2>4. CASE People!AssetInserted(e) \/ People!SeedPoster(e)
    <3>1. \E img : img.person \in live /\ over' = IF People!Full(img, FALSE) THEN over \cup {img.person} ELSE over
      BY <2>4 DEF People!AssetInserted, People!SeedPoster, People!Inserted
    <3>2. over' \subseteq Person
      BY <3>1 DEF StoreShape
    <3> QED
      BY <2>4, <3>2, <1>o DEF People!AssetInserted, People!SeedPoster, StoreShape
  <2> QED
    BY <1>1, <1>2, <1>o, <2>1, <2>2, <2>3, <2>4 DEF People!Reads, People!AssetFails,
       People!AssetRefused, People!Assembled,
       People!SeedFails, StoreShape
<1>3. ASSUME NEW t \in People!Task,
             \/ People!Match(t) \/ People!Detach(t) \/ People!DeleteProviderAliases(t) \/ People!RemoveProviderAssets(t)
             \/ People!DeleteEnrichmentByProvider(t) \/ People!Fails(t) \/ People!Store(t) \/ People!StoreFails(t)
      PROVE  StoreShape'
  <2>t. ASSUME task[t].pc # "idle" PROVE task[t].person \in Person
    BY <1>t, <2>t DEF People!Idle
  <2>1. CASE People!Detach(t) \/ People!DeleteProviderAliases(t) \/ People!DeleteEnrichmentByProvider(t)
    <3>1. task[t].person \in Person
      BY <2>1, <2>t DEF People!Detach, People!DeleteProviderAliases,
         People!DeleteEnrichmentByProvider, People!At
    <3> DEFINE p == task[t].person
    <3>2. \/ \E I \in SUBSET known[p].ids : known' = [known EXCEPT ![p].ids = I]
          \/ \E N \in SUBSET known[p].names : known' = [known EXCEPT ![p].names = N]
          \/ \E F \in SUBSET known[p].fields : known' = [known EXCEPT ![p].fields = F]
      BY <2>1 DEF People!Detach, People!DeleteProviderAliases, People!DeleteEnrichmentByProvider
    <3> HIDE DEF p
    <3>p. p \in Person /\ known \in [Person -> FactsType] /\ known[p].fields \subseteq Record \X Fact
          /\ known[p].ids \subseteq Record /\ known[p].names \subseteq Record
      BY <3>1 DEF p, StoreShape, FactsType
    <3>4. ASSUME NEW I \in SUBSET known[p].ids, known' = [known EXCEPT ![p].ids = I] PROVE known' \in [Person -> FactsType]
      BY <3>p, <3>4 DEF FactsType
    <3>5. ASSUME NEW N \in SUBSET known[p].names, known' = [known EXCEPT ![p].names = N] PROVE known' \in [Person -> FactsType]
      BY <3>p, <3>5 DEF FactsType
    <3>6. ASSUME NEW F \in SUBSET known[p].fields, known' = [known EXCEPT ![p].fields = F] PROVE known' \in [Person -> FactsType]
      BY <3>p, <3>6 DEF FactsType
    <3>3. known' \in [Person -> FactsType]
      BY <3>2, <3>4, <3>5, <3>6
    <3> QED
      BY <2>1, <3>3 DEF People!Detach, People!DeleteProviderAliases,
         People!DeleteEnrichmentByProvider, StoreShape
  <2>2. CASE People!RemoveProviderAssets(t)
    BY <1>1, <2>2 DEF People!RemoveProviderAssets, StoreShape
  <2>3. CASE People!Store(t)
    <3>1. task[t].person \in Person /\ task[t].id \in 1 .. next - 1
      BY <2>3, <2>t DEF People!Store, People!At, IdsOK
    <3> QED
      BY <1>1, <2>3, <3>1 DEF People!Store, StoreShape
  <2>4. CASE People!StoreFails(t)
    <3>1. task[t].person \in Person /\ task[t].id \in 1 .. next - 1
      BY <2>4, <2>t DEF People!StoreFails, People!At, IdsOK
    <3> DEFINE i == task[t].id
    <3>2. suppressed' \in [Person -> SUBSET Url] /\ (\A q \in Person : suppressed[q] \subseteq suppressed'[q])
      <4>1. \/ suppressed' = suppressed
            \/ /\ i \in People!Of(task[t].person) /\ rows[i].url # People!NoUrl
               /\ suppressed' = [suppressed EXCEPT ![rows[i].person] = @ \cup {rows[i].url}]
        BY <2>4 DEF People!StoreFails, People!RollsBack, People!DeletePersonImage, People!SuppressedWith
      <4>2. i \in People!Of(task[t].person) => i \in People!Id /\ Held(i)
        BY DEF People!Of, Held
      <4> QED
        BY <4>1, <4>2, <1>r DEF StoreShape
    <3>3. unfiled' \subseteq 1 .. next - 1
      BY <2>4, <3>1 DEF People!StoreFails, People!RollsBack, StoreShape
    <3> QED
      BY <2>4, <3>2, <3>3 DEF People!StoreFails, StoreShape
  <2> QED
    BY <1>3, <2>1, <2>2, <2>3, <2>4 DEF People!Match, People!Fails, StoreShape
<1>4. ASSUME NEW o \in Asker,
             \/ \E p \in Person, role \in People!Role, b \in Picked, overCap \in BOOLEAN :
                   People!Upload(o, p, role, b, overCap)
             \/ \E i \in People!Id : People!Delete(o, i) \/ \E role \in People!Core : People!Promote(o, i, role)
             \/ People!Promoted(o) \/ People!PromoteFails(o) \/ People!Unlink(o)
             \/ \E p \in Person, q \in People!Provider : People!Clear(o, p, q)
             \/ People!Settle(o)
      PROVE  StoreShape'
  <2>1. ASSUME NEW img, People!Inserted(img), UNCHANGED <<files, suppressed, known, live, up, gone, unfiled, muddled>> PROVE StoreShape'
    <3>1. over' \subseteq Person
      BY <2>1 DEF People!Inserted, StoreShape
    <3> QED
      BY <2>1, <3>1, <1>o DEF StoreShape
  <2>2. ASSUME NEW p \in Person, NEW role \in People!Role, NEW b \in Picked, NEW overCap \in BOOLEAN,
               People!Upload(o, p, role, b, overCap) PROVE StoreShape'
    BY <2>1, <2>2 DEF People!Upload
  <2>3. CASE People!Promoted(o)
    BY <2>1, <2>3 DEF People!Promoted
  <2>4. ASSUME NEW i \in People!Id, People!Delete(o, i) PROVE StoreShape'
    <3>1. Held(i)
      BY <2>4 DEF People!Delete, Held
    <3> DEFINE p == rows[i].person
    <3>2. p \in Person /\ rows[i].url \in Url \cup {People!NoUrl}
      BY <1>r, <3>1
    <3>3. \/ suppressed' = suppressed /\ gone' = gone
          \/ /\ rows[i].url # People!NoUrl
             /\ suppressed' = [suppressed EXCEPT ![p] = @ \cup {rows[i].url}]
             /\ gone' = [gone EXCEPT ![p] = @ \cup {rows[i].url}]
      BY <2>4 DEF People!Delete, People!DeletePersonImage, People!SuppressedWith
    <3>4. suppressed' \in [Person -> SUBSET Url] /\ gone' \in [Person -> SUBSET Url] /\ \A q \in Person : gone'[q] \subseteq suppressed'[q]
      BY <3>2, <3>3 DEF StoreShape
    <3> QED
      BY <2>4, <3>4 DEF People!Delete, StoreShape
  <2>5. ASSUME NEW p \in Person, NEW q \in People!Provider, People!Clear(o, p, q) PROVE StoreShape'
    BY <2>5 DEF People!Clear, People!Muddle, StoreShape
  <2>6. CASE People!Settle(o)
    <3> DEFINE s == task[o].person
               l == task[o].loser
               ids == {i \in People!Of(s) : <<l, i>> \in files}
    <3>1. s \in Person /\ ids \subseteq 1 .. next - 1
      <4>1. s \in Person
        BY <2>6, <1>t DEF People!Settle, People!At, People!Idle, People!Task
      <4> QED
        BY <4>1 DEF StoreShape
    <3> HIDE DEF s, l, ids
    <3>2. \/ files' = ((files \ ({l} \X ids)) \cup ({s} \X ids)) \ ({l} \X People!Id) /\ unfiled' = unfiled
          \/ \E S \in SUBSET ids : files' = (files \ ({l} \X S)) \cup ({s} \X S) /\ unfiled' = unfiled \cup (ids \ S)
      BY <2>6 DEF People!Settle, s, l, ids
    <3>3. files' \subseteq Person \X (1 .. next - 1) /\ unfiled' \subseteq 1 .. next - 1
      BY <3>1, <3>2 DEF StoreShape
    <3> QED
      BY <1>1, <2>6, <3>3 DEF People!Settle
  <2> QED
    BY <1>4, <2>2, <2>3, <2>4, <2>5, <2>6 DEF People!Promote, People!PromoteFails, People!Unlink,
       StoreShape
<1>5. ASSUME NEW o \in Asker, NEW s \in Person, NEW l \in Person, People!Merge(o, s, l) PROVE StoreShape'
  <2>1. PICK dismissed \in SUBSET People!Provider : known' = People!CarriedKnown(s, l, dismissed)
    BY <1>5 DEF People!Merge
  <2>2. known' \in [Person -> FactsType]
    <3> DEFINE F == known[s].fields \cup {f \in known[l].fields :
            People!Written(s, From[f[1]]) = {} /\ From[f[1]] \notin dismissed}
    <3>1. F \in SUBSET (Record \X Fact)
      BY <1>q DEF FactsType
    <3>2. known' = [known EXCEPT ![s].fields = F, ![s].ids = @ \cup known[l].ids, ![s].names = @ \cup known[l].names]
      BY <2>1 DEF People!CarriedKnown
    <3> HIDE DEF F
    <3> QED
      BY <1>q, <3>1, <3>2 DEF StoreShape, FactsType
  <2>3. suppressed' = [suppressed EXCEPT ![s] = @ \cup suppressed[l]] /\ gone' = [gone EXCEPT ![s] = @ \cup gone[l]]
    BY <1>5 DEF People!Merge, People!CarriedSuppressions
  <2>4. suppressed' \in [Person -> SUBSET Url] /\ gone' \in [Person -> SUBSET Url] /\ \A q \in Person : gone'[q] \subseteq suppressed'[q]
    BY <2>3 DEF StoreShape
  <2>5. unfiled' \subseteq 1 .. next' - 1
    <3>1. \A i \in People!Of(l) : i \in 1 .. next - 1
      BY <1>r DEF People!Of, Held
    <3> QED
      BY <1>5, <3>1, <1>o DEF People!Merge, StoreShape
  <2>6. muddled' \subseteq Person \X People!Provider /\ live' \subseteq Person
    BY <1>5 DEF People!Merge, StoreShape
  <2> QED
    BY <1>5, <2>2, <2>4, <2>5, <2>6 DEF People!Merge, StoreShape
<1>6. CASE People!Crash
  BY <1>6, <1>r DEF People!Crash, StoreShape, Held
<1>7. CASE People!Boot
  <2>1. files' \subseteq files
    BY <1>7 DEF People!Boot
  <2> QED
    BY <1>7, <2>1 DEF People!Boot, StoreShape
<1>8. CASE UNCHANGED People!vars
  BY <1>8 DEF People!vars, StoreShape
<1> QED
  BY <1>2, <1>3, <1>4, <1>5, <1>6, <1>7, <1>8, ZenonT(60) DEF People!Next

(***************************************************************************)
(* Where the step of a task takes it.                                      *)
(***************************************************************************)
PassStepOf(e) ==
    \/ \E p \in Person, r \in Record : People!Fetched(e, p, r)
    \/ People!UpsertEnrichment(e) \/ People!Adopt(e) \/ People!Reads(e)
    \/ People!AssetFails(e) \/ People!AssetRefused(e) \/ People!AssetInserted(e)
    \/ People!Assembled(e) \/ People!SeedPoster(e) \/ People!SeedFails(e)
TaskStepOf(t) ==
    \/ People!Match(t) \/ People!Detach(t) \/ People!DeleteProviderAliases(t) \/ People!RemoveProviderAssets(t)
    \/ People!DeleteEnrichmentByProvider(t) \/ People!Fails(t) \/ People!Store(t) \/ People!StoreFails(t)
AskerStepOf(o) ==
    \/ \E p \in Person, role \in People!Role, b \in Picked, overCap \in BOOLEAN :
          People!Upload(o, p, role, b, overCap)
    \/ \E i \in People!Id : People!Delete(o, i) \/ \E role \in People!Core : People!Promote(o, i, role)
    \/ People!Promoted(o) \/ People!PromoteFails(o) \/ People!Unlink(o)
    \/ \E p \in Person, q \in People!Provider : People!Clear(o, p, q)
    \/ People!Settle(o)
MergeOf(o, s, l) == People!Merge(o, s, l)

LEMMA StepCases ==
    ASSUME [People!Next]_(People!vars)
    PROVE  \/ UNCHANGED People!vars
           \/ \E e \in Pass : PassStepOf(e)
           \/ \E t \in People!Task : TaskStepOf(t)
           \/ \E o \in Asker : AskerStepOf(o)
           \/ \E o \in Asker, s, l \in Person : MergeOf(o, s, l)
           \/ People!Crash \/ People!Boot
<1> DEFINE Goal == \/ UNCHANGED People!vars
                   \/ \E e \in Pass : PassStepOf(e)
                   \/ \E t \in People!Task : TaskStepOf(t)
                   \/ \E o \in Asker : AskerStepOf(o)
                   \/ \E o \in Asker, s, l \in Person : MergeOf(o, s, l)
                   \/ People!Crash \/ People!Boot
<1> SUFFICES Goal
  OBVIOUS
<1>1. ASSUME NEW e \in Pass, PassStepOf(e) PROVE Goal
  BY <1>1
<1>2. ASSUME NEW t \in People!Task, TaskStepOf(t) PROVE Goal
  BY <1>2
<1>3. ASSUME NEW o \in Asker, AskerStepOf(o) PROVE Goal
  BY <1>3
<1>4. ASSUME NEW o \in Asker, NEW s \in Person, NEW l \in Person, People!Merge(o, s, l) PROVE Goal
  BY <1>4 DEF MergeOf
<1>5. CASE UNCHANGED People!vars \/ People!Crash \/ People!Boot
  BY <1>5
<1> HIDE DEF Goal
<1> QED
  BY <1>1, <1>2, <1>3, <1>4, <1>5, ZenonT(60) DEF People!Next, PassStepOf, TaskStepOf, AskerStepOf

\* A step of a task leaves the others where they are.
LEMMA OthersStay ==
    ASSUME PeopleShape, NEW t \in People!Task,
           (t \in Pass /\ PassStepOf(t)) \/ TaskStepOf(t) \/ (t \in Asker /\ AskerStepOf(t))
    PROVE  /\ \A u \in People!Task \ {t} : task'[u] = task[u]
           /\ up /\ up' = up
<1>1. Turns(t)
  BY PassSteps, TaskSteps, AskerSteps, Zenon DEF PassStepOf, TaskStepOf, AskerStepOf
<1>2. up /\ up' = up
  BY DEF PassStepOf, TaskStepOf, AskerStepOf, People!Fetched, People!UpsertEnrichment,
     People!Adopt, People!Reads,
     People!AssetFails, People!AssetRefused, People!AssetInserted, People!More, People!Assembled,
     People!SeedPoster, People!SeedFails,
     People!Match, People!Detach, People!DeleteProviderAliases, People!RemoveProviderAssets,
     People!DeleteEnrichmentByProvider,
     People!Fails, People!Store, People!StoreFails, People!At, People!Act, People!Upload,
     People!Delete, People!Promote, People!Promoted, People!PromoteFails,
     People!Unlink, People!Clear, People!Settle
<1> QED
  BY <1>1, <1>2, OneTask DEF Turns, PeopleShape

\* What a pass looked at, and whom it works on, stays once it looked.
Same(w, v) ==
    /\ v.person = w.person /\ v.prov = w.prov /\ v.record = w.record
    /\ v.locked = w.locked /\ v.skip = w.skip /\ v.since = w.since /\ v.knew = w.knew /\ v.blind = w.blind
Early == {"match", "detach", "names", "images", "fields", "upsert", "adopt", "reads"}
\* A row's insertion, and the task that will write its file.
Starts(t) ==
    /\ task'[t].pc = "file" /\ task'[t].id = next /\ next' = next + 1
    /\ next \in People!Id /\ rows'[next].person = task'[t].person /\ UNCHANGED <<files, unfiled>>
PassTo(e) ==
    \/ task'[e] = People!Idle
    \/ /\ task[e] = People!Idle /\ task'[e].pc = "match" /\ task'[e].since = 0
    \/ /\ Same(task[e], task'[e]) /\ task[e].pc \in Early /\ task'[e].pc \in Early
    \/ /\ task[e].pc = "reads" /\ task'[e].pc = "assets" /\ task'[e].since = next
       /\ task'[e].person = task[e].person /\ task'[e].prov = task[e].prov /\ task'[e].record = task[e].record
       /\ \/ task'[e].blind
          \/ /\ task'[e].skip = suppressed[task[e].person] /\ task'[e].knew = gone[task[e].person]
             /\ task'[e].locked = People!LockedCoreRoles(task[e].person)
    \/ /\ Same(task[e], task'[e]) /\ task[e].pc \in {"assets", "file"} /\ task'[e].pc = "assets"
    \/ /\ Same(task[e], task'[e]) /\ task[e].pc \in {"assets", "seed"} /\ task'[e].pc = "file"
       /\ Starts(e)
    \/ /\ Same(task[e], task'[e]) /\ task[e].pc = "assets" /\ task'[e].pc = "seed" /\ "poster" \notin task'[e].locked

LEMMA InsertedNext ==
    ASSUME PeopleShape, NEW img, People!Inserted(img)
    PROVE  next \in People!Id /\ rows'[next] = img /\ next' = next + 1
<1>1. next \in 1 .. MaxId + 1 /\ next <= MaxId /\ MaxId \in Nat
  BY IdFacts DEF People!Inserted, PeopleShape, RowShape
<1>2. next \in People!Id
  BY <1>1 DEF People!Id
<1> QED
  BY <1>2 DEF People!Inserted

LEMMA PassGoesTo == ASSUME PeopleShape, NEW e \in Pass, PassStepOf(e) PROVE PassTo(e)
<1> TaskShape /\ task = [t \in People!Task |-> task[t]] /\ e \in People!Task
  BY DEF PeopleShape, TaskShape, People!Task
<1>d. ASSUME People!Done(e) PROVE PassTo(e)
  BY <1>d DEF People!Done, PassTo
<1>t. task[e].pc # "idle" => task[e] \in PassTask
  BY Standing
<1>1. ASSUME NEW p \in Person, NEW r \in Record, People!Fetched(e, p, r) PROVE PassTo(e)
  BY <1>1 DEF People!Fetched, PassTo
<1>2. CASE People!UpsertEnrichment(e) \/ People!Adopt(e)
  <2>1. PICK pc \in {"adopt", "reads"} : task' = [task EXCEPT ![e].pc = pc]
    BY <1>2 DEF People!UpsertEnrichment, People!Adopt, People!Goto
  <2>2. task[e].pc \in {"upsert", "adopt"} /\ task[e] \in PassTask
    BY <1>2, <1>t DEF People!UpsertEnrichment, People!Adopt, People!At
  <2>3. task'[e] = [task[e] EXCEPT !.pc = pc]
    BY <2>1
  <2> QED
    BY <2>2, <2>3 DEF PassTo, Same, Early, PassTask
<1>4. CASE People!Reads(e)
  <2> DEFINE p == task[e].person
  <2>1. task[e] \in PassTask /\ task[e].pc = "reads"
    BY <1>4, <1>t DEF People!Reads, People!At
  <2>2. PICK fail \in BOOLEAN :
          task' = [task EXCEPT ![e].pc = "assets", ![e].since = next, ![e].knew = gone[p],
             ![e].skip = IF fail THEN {} ELSE suppressed[p],
             ![e].locked = IF fail THEN {} ELSE People!LockedCoreRoles(p),
             ![e].have = IF fail THEN {} ELSE People!ExistingURLs(p),
             ![e].blind = @ \/ fail]
    BY <1>4, Zenon DEF People!Reads
  <2>3. task'[e] = [task[e] EXCEPT !.pc = "assets", !.since = next, !.knew = gone[p],
             !.skip = IF fail THEN {} ELSE suppressed[p],
             !.locked = IF fail THEN {} ELSE People!LockedCoreRoles(p),
             !.have = IF fail THEN {} ELSE People!ExistingURLs(p),
             !.blind = @ \/ fail]
    BY <2>2
  <2>4. /\ task'[e].pc = "assets" /\ task'[e].person = p /\ task'[e].since = next
        /\ task'[e].prov = task[e].prov /\ task'[e].record = task[e].record
        /\ task'[e].knew = gone[p] /\ task'[e].skip = (IF fail THEN {} ELSE suppressed[p])
        /\ task'[e].locked = (IF fail THEN {} ELSE People!LockedCoreRoles(p))
        /\ task'[e].blind = (task[e].blind \/ fail)
    BY <2>1, <2>3 DEF PassTask
  <2> QED
    BY <2>1, <2>4 DEF PassTo
<1>5. CASE People!AssetFails(e) \/ People!AssetRefused(e) \/ People!AssetInserted(e)
  <2>1. task[e] \in PassTask /\ task[e].pc = "assets"
    BY <1>5, <1>t DEF People!AssetFails, People!AssetRefused, People!AssetInserted, People!More,
       People!At
  <2>2. CASE People!AssetInserted(e)
    <3>1. task'[e] = [task[e] EXCEPT !.pc = "file", !.i = People!Upcoming(task[e]), !.id = next]
      BY <2>2 DEF People!AssetInserted
    <3>2. next \in People!Id /\ next' = next + 1 /\ rows'[next].person = task[e].person /\ UNCHANGED <<files, unfiled>>
      BY <2>2, InsertedNext DEF People!AssetInserted, People!AssetRow, People!EnrichedRow
    <3> QED
      BY <2>1, <3>1, <3>2 DEF PassTo, Same, PassTask, Starts
  <2>3. CASE People!AssetFails(e) \/ People!AssetRefused(e)
    <3> DEFINE n == People!Upcoming(task[e]) + 1
    <3>1. \/ task'[e] = [task[e] EXCEPT !.i = n]
          \/ task'[e] = [task[e] EXCEPT !.i = n, !.done = @ \cup {"extra"}]
      BY <2>3 DEF People!AssetFails, People!AssetRefused
    <3> HIDE DEF n
    <3>2. CASE task'[e] = [task[e] EXCEPT !.i = n]
      BY <2>1, <3>2 DEF PassTo, Same, PassTask
    <3>3. CASE task'[e] = [task[e] EXCEPT !.i = n, !.done = @ \cup {"extra"}]
      <4> DEFINE d == task[e].done \cup {"extra"}
      <4>1. task'[e] = [task[e] EXCEPT !.i = n, !.done = d]
        BY <3>3
      <4> HIDE DEF d
      <4> QED
        BY <2>1, <4>1 DEF PassTo, Same, PassTask
    <3> QED
      BY <3>1, <3>2, <3>3
  <2> QED
    BY <1>5, <2>2, <2>3
<1>6. CASE People!Assembled(e)
  <2>1. task[e] \in PassTask /\ task[e].pc = "assets"
    BY <1>6, <1>t DEF People!Assembled, People!At
  <2>2. ASSUME People!Goto(e, "seed"), "poster" \notin task[e].done \cup task[e].locked PROVE PassTo(e)
    <3>1. task'[e] = [task[e] EXCEPT !.pc = "seed"]
      BY <2>2 DEF People!Goto
    <3> QED
      BY <2>1, <2>2, <3>1 DEF PassTo, Same, PassTask
  <2> QED
    BY <1>6, <1>d, <2>2 DEF People!Assembled
<1>7. CASE People!SeedPoster(e)
  <2>1. task[e] \in PassTask /\ task[e].pc = "seed"
    BY <1>7, <1>t DEF People!SeedPoster, People!At
  <2>2. task'[e] = [task[e] EXCEPT !.pc = "file", !.id = next, !.seed = TRUE]
    BY <1>7 DEF People!SeedPoster
  <2>3. next \in People!Id /\ next' = next + 1 /\ rows'[next].person = task[e].person /\ UNCHANGED <<files, unfiled>>
    BY <1>7, InsertedNext DEF People!SeedPoster, People!EnrichedRow
  <2> QED
    BY <2>1, <2>2, <2>3 DEF PassTo, Same, PassTask, Starts
<1>8. CASE People!SeedFails(e)
  BY <1>8, <1>d DEF People!SeedFails
<1> QED
  BY <1>1, <1>2, <1>4, <1>5, <1>6, <1>7, <1>8 DEF PassStepOf

LEMMA TaskGoesTo == ASSUME PeopleShape, NEW e \in Pass, TaskStepOf(e) PROVE PassTo(e)
<1> TaskShape /\ task = [t \in People!Task |-> task[t]] /\ e \in People!Task /\ e \notin Asker
  BY PeopleFacts DEF PeopleShape, TaskShape, People!Task
<1>d. ASSUME People!Done(e) PROVE PassTo(e)
  BY <1>d DEF People!Done, PassTo
<1>t. task[e].pc # "idle" => task[e] \in PassTask
  BY Standing
<1>g. ASSUME NEW pc \in Early, People!Goto(e, pc), task[e].pc \in Early PROVE PassTo(e)
  <2>1. task'[e] = [task[e] EXCEPT !.pc = pc] /\ task[e] \in PassTask
    BY <1>g, <1>t DEF People!Goto, Early
  <2> QED
    BY <1>g, <2>1 DEF PassTo, Same, PassTask
<1>1. CASE People!Match(e)
  <2>1. ASSUME NEW r \in Record, task' = [task EXCEPT ![e].pc = "detach", ![e].prev = r], task[e].pc = "match" PROVE PassTo(e)
    <3>1. task'[e] = [task[e] EXCEPT !.pc = "detach", !.prev = r] /\ task[e] \in PassTask
      BY <2>1, <1>t
    <3> QED
      BY <2>1, <3>1 DEF PassTo, Same, PassTask, Early
  <2> QED
    BY <1>1, <1>g, <2>1 DEF People!Match, People!At, Early, People!Written
<1>2. CASE People!Detach(e) \/ People!DeleteProviderAliases(e) \/ People!RemoveProviderAssets(e) \/ People!DeleteEnrichmentByProvider(e)
  BY <1>2, <1>g, <1>d DEF People!Detach, People!DeleteProviderAliases, People!RemoveProviderAssets,
     People!DeleteEnrichmentByProvider, People!At, Early
<1>3. CASE People!Fails(e)
  BY <1>3, <1>d DEF People!Fails
<1>4. CASE People!Store(e) \/ People!StoreFails(e)
  <2>1. PICK ok \in BOOLEAN : People!Filed(e, ok) /\ task[e].pc = "file"
    BY <1>4 DEF People!Store, People!StoreFails, People!At
  <2>2. CASE task[e].seed
    BY <1>d, <2>1, <2>2 DEF People!Filed
  <2>3. CASE ~task[e].seed
    <3> DEFINE a == Assets[task[e].record][task[e].i]
               d == IF ok /\ a.role \in People!Core THEN task[e].done \cup {a.role} ELSE task[e].done
               h == IF ok /\ a.role = "headshot" THEN a.url ELSE task[e].head
    <3>1. task'[e] = [task[e] EXCEPT !.pc = "assets", !.i = @ + 1, !.done = d, !.head = h]
      BY <2>1, <2>3 DEF People!Filed
    <3> HIDE DEF d, h
    <3> QED
      BY <1>t, <2>1, <3>1 DEF PassTo, Same, PassTask
  <2> QED
    BY <2>2, <2>3
<1> QED
  BY <1>1, <1>2, <1>3, <1>4 DEF TaskStepOf

Clearing == {"match", "detach", "names", "images", "fields"}
AskerTo(o) ==
    \/ task'[o] = People!Idle
    \/ /\ task[o].pc \in {"idle", "promote"} /\ Starts(o)
    \/ task[o] = People!Idle /\ task'[o].pc = "promote"
    \/ task[o] = People!Idle /\ task'[o].pc = "unlink" /\ task'[o].id \in People!Id /\ Held(task'[o].id)
       /\ rows'[task'[o].id] = People!Free
    \/ task[o].pc \in Clearing \cup {"idle"} /\ task'[o].pc \in Clearing

LEMMA AskerGoesTo == ASSUME PeopleShape, NEW o \in Asker, AskerStepOf(o) \/ TaskStepOf(o) PROVE AskerTo(o)
<1> TaskShape /\ task = [t \in People!Task |-> task[t]] /\ o \in People!Task /\ o \notin Pass
  BY PeopleFacts DEF PeopleShape, TaskShape, People!Task
<1>d. ASSUME People!Done(o) PROVE AskerTo(o)
  BY <1>d DEF People!Done, AskerTo
<1>1. ASSUME NEW p \in Person, NEW role \in People!Role, NEW b \in Picked, NEW overCap \in BOOLEAN,
             People!Upload(o, p, role, b, overCap) PROVE AskerTo(o)
  <2>1. next \in People!Id /\ next' = next + 1 /\ rows'[next].person = p /\ UNCHANGED <<files, unfiled>>
    BY <1>1, InsertedNext DEF People!Upload, People!Uploaded
  <2> QED
    BY <1>1, <2>1 DEF People!Upload, People!Act, People!Idle, People!Filing, AskerTo, Starts
<1>2. ASSUME NEW i \in People!Id, People!Delete(o, i) PROVE AskerTo(o)
  <2>1. rows'[i] = People!Free
    BY <1>2 DEF People!Delete, People!DeletePersonImage, PeopleShape, RowShape
  <2> QED
    BY <1>2, <2>1 DEF People!Delete, People!Act, AskerTo, Held
<1>3. ASSUME NEW i \in People!Id, NEW role \in People!Core, People!Promote(o, i, role) PROVE AskerTo(o)
  BY <1>3 DEF People!Promote, People!Act, AskerTo
<1>4. CASE People!Promoted(o)
  <2>1. next \in People!Id /\ next' = next + 1 /\ rows'[next].person = task[o].person /\ UNCHANGED <<files, unfiled>>
    BY <1>4, InsertedNext DEF People!Promoted, People!Uploaded
  <2> QED
    BY <1>4, <2>1 DEF People!Promoted, People!At, People!Filing, AskerTo, Starts
<1>5. ASSUME NEW p \in Person, NEW q \in People!Provider, People!Clear(o, p, q) PROVE AskerTo(o)
  BY <1>5 DEF People!Clear, People!Act, People!Idle, AskerTo, Clearing
<1>6. CASE People!PromoteFails(o) \/ People!Unlink(o) \/ People!Settle(o) \/ People!Fails(o)
  BY <1>6, <1>d DEF People!PromoteFails, People!Unlink, People!Settle, People!Fails
<1>g. ASSUME NEW pc \in Clearing, People!Goto(o, pc), task[o].pc \in Clearing PROVE AskerTo(o)
  <2>1. task'[o] = [task[o] EXCEPT !.pc = pc] /\ task[o] \in ClearTask
    BY <1>g, Standing DEF People!Goto, Clearing
  <2> QED
    BY <1>g, <2>1 DEF AskerTo, ClearTask
<1>7. CASE People!Match(o)
  <2>1. ASSUME NEW r \in Record, task' = [task EXCEPT ![o].pc = "detach", ![o].prev = r], task[o].pc = "match" PROVE AskerTo(o)
    <3>1. task'[o] = [task[o] EXCEPT !.pc = "detach", !.prev = r] /\ task[o] \in ClearTask
      BY <2>1, Standing
    <3> QED
      BY <2>1, <3>1 DEF AskerTo, ClearTask, Clearing
  <2> QED
    BY <1>7, <1>g, <2>1 DEF People!Match, People!At, Clearing, People!Written
<1>8. CASE People!Detach(o) \/ People!DeleteProviderAliases(o) \/ People!RemoveProviderAssets(o) \/ People!DeleteEnrichmentByProvider(o)
  BY <1>8, <1>g, <1>d DEF People!Detach, People!DeleteProviderAliases, People!RemoveProviderAssets,
     People!DeleteEnrichmentByProvider, People!At, Clearing
<1>9. CASE People!Store(o) \/ People!StoreFails(o)
  BY <1>9, <1>d DEF People!Store, People!StoreFails, People!Filed
<1> QED
  BY <1>1, <1>2, <1>3, <1>4, <1>5, <1>6, <1>7, <1>8, <1>9 DEF AskerStepOf, TaskStepOf

\* Ids are given out in order, never twice.
LEMMA NextGrows == PeopleShape /\ [People!Next]_(People!vars) => next \in Nat /\ next' \in Nat /\ next <= next'
BY RowNext, RowSteps, InsertedRows, MergeRows, BootRows DEF PeopleShape, RowShape

\* A task that waits for a file, or to unlink one, came to it with the id it has now, with
\* the next one, or with a row's.
Waits(t) ==
    task'[t].pc \in {"file", "unlink"} =>
        \/ task[t].pc = task'[t].pc /\ task'[t].id = task[t].id /\ task'[t].person = task[t].person
        \/ Starts(t) /\ \A u \in People!Task \ {t} : task'[u] = task[u]
        \/ /\ task'[t].pc = "unlink" /\ task'[t].id \in People!Id /\ Held(task'[t].id)
           /\ rows'[task'[t].id] = People!Free
LEMMA TaskWaits ==
    ASSUME PeopleShape, [People!Next]_(People!vars), NEW t \in People!Task
    PROVE  Waits(t) /\ (task'[t] # People!Idle => up /\ up')
<1> DEFINE Goal == Waits(t) /\ (task'[t] # People!Idle => up /\ up')
<1> SUFFICES Goal
  OBVIOUS
<1> TaskShape /\ IdsOK
  BY DEF PeopleShape
<1>1. ASSUME task'[t] = task[t], up' = up PROVE Goal
  BY <1>1 DEF Waits, IdsOK
<1>2. ASSUME task'[t] = People!Idle PROVE Goal
  BY <1>2 DEF Waits, People!Idle
<1>3. ASSUME NEW u \in People!Task, (u \in Pass /\ PassStepOf(u)) \/ TaskStepOf(u) \/ (u \in Asker /\ AskerStepOf(u)) PROVE Goal
  <2>1. CASE u # t
    <3>1. task'[t] = task[t] /\ up' = up
      BY <1>3, <2>1, OthersStay
    <3> HIDE DEF Goal
    <3> QED
      BY <1>1, <3>1
  <2>2. CASE u = t
    <3>1. up /\ up' /\ \A v \in People!Task \ {t} : task'[v] = task[v]
      BY <1>3, <2>2, OthersStay
    <3>2. CASE t \in Pass
      <4>1. PassTo(t)
        BY <1>3, <2>2, <3>2, PassGoesTo, TaskGoesTo, PeopleFacts
      <4> QED
        BY <3>1, <4>1 DEF PassTo, Waits, Early, People!Idle
    <3>3. CASE t \in Asker
      <4>1. AskerTo(t)
        BY <1>3, <2>2, <3>3, AskerGoesTo, PeopleFacts
      <4> QED
        BY <3>1, <4>1 DEF AskerTo, Waits, Clearing, People!Idle
    <3> QED
      BY <3>2, <3>3 DEF People!Task
  <2> QED
    BY <2>1, <2>2
<1>4. ASSUME NEW o \in Asker, NEW s \in Person, NEW l \in Person, MergeOf(o, s, l) PROVE Goal
  <2>0. up /\ up' = up
    BY <1>4 DEF MergeOf, People!Merge, People!Act
  <2>1. CASE t \in Asker \ {o}
    <3>1. task'[t] = task[t]
      BY <1>4, <2>1, MergeSteps DEF MergeOf
    <3> HIDE DEF Goal
    <3> QED
      BY <1>1, <2>0, <3>1
  <2>2. CASE t = o
    <3>1. task'[o] = [pc |-> "settle", person |-> s, prov |-> People!NoProvider, loser |-> l]
      BY <1>4, MergeSteps DEF MergeOf
    <3>2. task'[t].pc = "settle"
      BY <2>2, <3>1
    <3> QED
      BY <2>0, <3>2 DEF Waits
  <2>3. CASE t \in Pass
    <3>1. task'[t] = task[t] \/ (task[t] # People!Idle /\ task'[t] = [task[t] EXCEPT !.blind = TRUE])
      BY <1>4, <2>3, MergeSteps DEF MergeOf
    <3>2. task[t] # People!Idle => task[t] \in PassTask
      BY <2>3, Standing
    <3>3. /\ task'[t].pc = task[t].pc /\ (task'[t].pc = "unlink" => FALSE)
          /\ task[t].pc = "file" => task'[t].id = task[t].id /\ task'[t].person = task[t].person
      BY <3>1, <3>2 DEF PassTask, PassStep, People!Idle
    <3> QED
      BY <2>0, <3>3 DEF Waits
  <2> QED
    BY <2>1, <2>2, <2>3 DEF People!Task
<1>5. CASE People!Crash
  <2>1. task'[t] = People!Idle
    BY <1>5 DEF People!Crash
  <2> HIDE DEF Goal
  <2> QED
    BY <1>2, <2>1
<1>6. CASE People!Boot
  <2>1. task'[t] = People!Idle
    BY <1>6 DEF People!Boot, IdsOK
  <2> HIDE DEF Goal
  <2> QED
    BY <1>2, <2>1
<1>7. CASE UNCHANGED People!vars
  <2>1. task'[t] = task[t] /\ up' = up
    BY <1>7 DEF People!vars
  <2> HIDE DEF Goal
  <2> QED
    BY <1>1, <2>1
<1> HIDE DEF Goal
<1> QED
  BY <1>3, <1>4, <1>5, <1>6, <1>7, StepCases DEF People!Task

LEMMA IdsNext == PeopleShape /\ [People!Next]_(People!vars) => IdsOK'
<1> SUFFICES ASSUME PeopleShape, [People!Next]_(People!vars) PROVE IdsOK'
  OBVIOUS
<1> TaskShape /\ IdsOK /\ next \in Nat /\ next' \in Nat /\ next <= next'
  BY NextGrows DEF PeopleShape
<1>1. up' \/ \A t \in People!Task : task'[t] = People!Idle
  BY TaskWaits
<1>2. ASSUME NEW t \in People!Task, task'[t].pc \in {"file", "unlink"} PROVE task'[t].id \in 1 .. next' - 1
  <2>1. CASE task[t].pc = task'[t].pc /\ task'[t].id = task[t].id
    BY <1>2, <2>1 DEF IdsOK
  <2>2. CASE Starts(t)
    <3>1. next \in 1 .. MaxId + 1 /\ MaxId \in Nat
      BY IdFacts DEF PeopleShape, RowShape
    <3> QED
      BY <2>2, <3>1 DEF Starts
  <2>3. CASE task'[t].id \in People!Id /\ Held(task'[t].id)
    <3>1. task'[t].id < next /\ task'[t].id \in Nat \ {0}
      BY <2>3, IdFacts DEF PeopleShape, RowShape, RowOK
    <3> QED
      BY <3>1
  <2> QED
    BY <1>2, <2>1, <2>2, <2>3, TaskWaits DEF Waits
<1>3. ASSUME NEW e \in Pass, task'[e] # People!Idle PROVE task'[e].since <= next'
  <2> e \in People!Task
    BY DEF People!Task
  <2>s. task[e] # People!Idle => task[e].since <= next /\ task[e].since \in Nat
    BY Standing DEF IdsOK, PassTask, TaskShape, PassOK
  <2>1. CASE task'[e] = task[e]
    BY <1>3, <2>1, <2>s
  <2>2. CASE PassStepOf(e) \/ TaskStepOf(e)
    <3>1. PassTo(e)
      BY <2>2, PassGoesTo, TaskGoesTo
    <3>2. task[e].pc \in Early \cup {"assets", "file", "seed"} => task[e] # People!Idle
      BY DEF Early, People!Idle
    <3> QED
      BY <1>3, <2>s, <3>1, <3>2 DEF PassTo, Same
  <2>3. ASSUME NEW o \in Asker, NEW s \in Person, NEW l \in Person, MergeOf(o, s, l) PROVE task'[e].since <= next'
    <3>1. task'[e] = task[e] \/ (task[e] # People!Idle /\ task'[e] = [task[e] EXCEPT !.blind = TRUE])
      BY <2>3, MergeSteps DEF MergeOf
    <3>2. task[e] # People!Idle => task[e] \in PassTask
      BY Standing
    <3> QED
      BY <2>s, <3>1, <3>2, <1>3 DEF PassTask
  <2>4. ASSUME NEW u \in People!Task \ {e}, (u \in Pass /\ PassStepOf(u)) \/ TaskStepOf(u) \/ (u \in Asker /\ AskerStepOf(u)) PROVE task'[e] = task[e]
    BY <2>4, OthersStay
  <2>5. CASE People!Crash \/ People!Boot
    <3>1. task'[e] = People!Idle
      BY <2>5 DEF People!Crash, People!Boot, IdsOK
    <3> QED
      BY <1>3, <3>1
  <2>6. UNCHANGED People!vars => task'[e] = task[e]
    BY DEF People!vars
  <2>7. e \notin Asker /\ Asker \subseteq People!Task /\ Pass \subseteq People!Task
    BY PeopleFacts DEF People!Task
  <2> QED
    BY <2>1, <2>2, <2>3, <2>4, <2>5, <2>6, <2>7, StepCases
<1> QED
  BY <1>1, <1>2, <1>3 DEF IdsOK

LEMMA ShapeNext == PeopleShape /\ [People!Next]_(People!vars) => PeopleShape'
BY TaskNext, RowNext, StoreNext, IdsNext DEF PeopleShape

LEMMA StartFacts ==
    /\ Images \in Seq(People!Row) /\ Len(Images) \in Nat /\ Len(Images) <= MaxId /\ DOMAIN Images = 1 .. Len(Images)
    /\ DOMAIN Images \subseteq People!Id
    /\ \A i \in DOMAIN Images : Images[i] \in People!Row
    /\ Deleted \in [Person -> SUBSET Url]
    /\ \A i \in DOMAIN Images :
          /\ Images[i].hash \in {People!NoHash, Images[i].bytes}
          /\ Images[i].source = "enrichment" => Images[i].record \in Record
    /\ \A i, j \in DOMAIN Images : i # j /\ Images[i].person = Images[j].person =>
          /\ Images[i].role = Images[j].role => Images[i].role \notin People!Core
          /\ Images[i].source = "enrichment" /\ Images[j].source = "enrichment"
                /\ From[Images[i].record] = From[Images[j].record] => Images[i].record = Images[j].record
<1>1. Images \in Seq(People!Row) /\ Len(Images) <= MaxId /\ MaxId \in Nat
  BY PartsAssumption, IdFacts DEF People!StartAssumption
<1> DEFINE R == People!Row
<1>2. Len(Images) \in Nat /\ DOMAIN Images = 1 .. Len(Images) /\ \A i \in DOMAIN Images : Images[i] \in R
  <2>1. Images \in Seq(R)
    BY <1>1
  <2> HIDE DEF R
  <2> QED
    BY <2>1
<1>3. DOMAIN Images \subseteq People!Id
  BY <1>1, <1>2 DEF People!Id
<1> QED
  BY <1>1, <1>2, <1>3, PartsAssumption DEF People!StartAssumption

LEMMA StartRows ==
    ASSUME People!Init
    PROVE  /\ next = Len(Images) + 1
           /\ \A i \in People!Id : rows[i] = IF i \in DOMAIN Images THEN Images[i] ELSE People!Free
           /\ \A i \in People!Id : Held(i) <=> i \in DOMAIN Images
<1>1. \A i \in People!Id : i <= Len(Images) <=> i \in DOMAIN Images
  <2> DEFINE n == Len(Images)
             D == DOMAIN Images
  <2>1. n \in Nat /\ D = 1 .. n
    BY StartFacts
  <2> HIDE DEF n, D
  <2>2. ASSUME NEW i \in People!Id PROVE i <= n <=> i \in D
    BY <2>1, IdFacts
  <2> QED
    BY <2>2 DEF n, D
<1>2. next = Len(Images) + 1 /\ \A i \in People!Id : rows[i] = IF i <= Len(Images) THEN Images[i] ELSE People!Free
  BY DEF People!Init
<1> QED
  BY <1>1, <1>2, StartFacts, NotFree DEF Held

LEMMA StartShape == People!Init => PeopleShape
<1> SUFFICES ASSUME People!Init PROVE PeopleShape
  OBVIOUS
<1>1. TaskShape
  BY DEF People!Init, TaskShape, PassOK, AskerOK, People!Task
<1>n. next \in Nat /\ next \in 1 .. MaxId + 1 /\ DOMAIN Images = 1 .. next - 1
  BY StartRows, StartFacts, IdFacts
<1>2. RowShape
  <2>1. rows = [i \in People!Id |-> rows[i]] /\ live = Person
    BY DEF People!Init
  <2>2. ASSUME NEW i \in People!Id PROVE RowOK(i)
    <3>1. CASE i \in DOMAIN Images
      <4>1. rows[i] = Images[i] /\ Images[i] \in People!Row /\ i < next
        BY <3>1, StartRows, StartFacts, <1>n, IdFacts
      <4> QED
        BY <2>1, <3>1, <4>1, StartFacts DEF RowOK, People!Row
    <3>2. CASE i \notin DOMAIN Images
      BY <3>2, StartRows DEF RowOK
    <3> QED
      BY <3>1, <3>2
  <2>3. SlotsSingle
    BY StartRows, StartFacts DEF SlotsSingle
  <2> QED
    BY <1>n, <2>1, <2>2, <2>3 DEF RowShape
<1>3. StoreShape
  <2>1. files \subseteq Person \X (1 .. next - 1)
    <3>1. files = {<<Images[i].person, i>> : i \in DOMAIN Images}
      BY DEF People!Init
    <3> QED
      BY <1>n, <3>1, StartFacts DEF People!Row
  <2>2. known \in [Person -> FactsType]
    <3> DEFINE from(p) == {Images[i].record : i \in {j \in DOMAIN Images :
                          Images[j].person = p /\ Images[j].source = "enrichment"}}
               k(p) == [fields |-> {f \in from(p) \X UNION {Keys[r] : r \in from(p)} : f[2] \in Keys[f[1]]},
                        ids |-> from(p), names |-> from(p)]
    <3>1. known = [p \in Person |-> k(p)]
      BY DEF People!Init
    <3>2. ASSUME NEW p \in Person PROVE k(p) \in FactsType
      <4>1. from(p) \subseteq Record
        BY StartFacts
      <4> HIDE DEF from
      <4>2. UNION {Keys[r] : r \in from(p)} \subseteq Fact
        BY <4>1 DEF Fact
      <4> QED
        BY <4>1, <4>2 DEF FactsType
    <3> HIDE DEF k
    <3> QED
      BY <3>1, <3>2
  <2> QED
    BY <2>1, <2>2, StartFacts DEF People!Init, StoreShape
<1>4. IdsOK
  BY DEF People!Init, IdsOK, People!Idle, People!Task
<1> QED
  BY <1>1, <1>2, <1>3, <1>4 DEF PeopleShape

LEMMA IdsFinite == IsFiniteSet(People!Id) /\ \A S \in SUBSET People!Id : IsFiniteSet(S) /\ Cardinality(S) \in Nat
<1>1. IsFiniteSet(People!Id)
  BY IdFacts, FS_Interval DEF People!Id
<1>2. ASSUME NEW S \in SUBSET People!Id PROVE IsFiniteSet(S) /\ Cardinality(S) \in Nat
  BY <1>1, FS_Subset, FS_CardinalityType
<1> QED
  BY <1>1, <1>2

\* The cardinality that an instance of a module knows is the cardinality.
LEMMA SameSize == ASSUME NEW S PROVE People!Cardinality(S) = Cardinality(S)
BY DEF People!Cardinality, Cardinality

LEMMA ShapeTyped == PeopleShape => People!TypeOK
<1> SUFFICES ASSUME PeopleShape PROVE People!TypeOK
  OBVIOUS
<1> TaskShape /\ RowShape /\ StoreShape /\ IdsOK
  BY DEF PeopleShape
<1>1. rows \in [People!Id -> People!Row \cup {People!Free}]
  BY DEF RowShape, RowOK, Held
<1>2. \A i \in People!Id : rows[i] # People!Free => i < next /\ rows[i].person \in live
  BY DEF RowShape, RowOK, Held
<1>3. ASSUME NEW p \in Person, NEW role \in People!Core PROVE Cardinality(People!InRole(p, role)) <= 1
  <2> DEFINE S == People!InRole(p, role)
  <2>1. \A i, j \in S : i = j
    BY DEF RowShape, SlotsSingle, People!InRole, People!Of, Held
  <2> HIDE DEF S
  <2>2. CASE S = {}
    BY <2>2, FS_EmptySet DEF S
  <2>3. CASE S # {}
    <3>1. PICK i \in S : S = {i}
      BY <2>1, <2>3
    <3>2. Cardinality({i}) = 1
      BY FS_Singleton
    <3> QED
      BY <3>1, <3>2 DEF S
  <2> QED
    BY <2>2, <2>3
<1>4. \A p \in Person : suppressed[p] \cup gone[p] \subseteq Url
  BY DEF StoreShape
<1>5. \A p \in Person : known[p].ids \cup known[p].names \subseteq Record
  BY DEF StoreShape, FactsType
<1> QED
  <2>1. files \subseteq Person \X (1 .. next - 1) /\ unfiled \subseteq 1 .. next - 1
        /\ live \subseteq Person /\ over \subseteq Person /\ muddled \subseteq Person \X People!Provider
    BY DEF StoreShape
  <2>2. next \in 1 .. MaxId + 1
    BY DEF RowShape
  <2>3. /\ up \/ \A t \in People!Task : task[t] = People!Idle
        /\ \A t \in People!Task : task[t].pc \in {"file", "unlink"} => task[t].id \in 1 .. next - 1
    BY DEF IdsOK
  <2>4. \A p \in Person, role \in People!Core : People!Cardinality(People!InRole(p, role)) <= 1
    BY <1>3, SameSize
  <2> QED
    BY <1>1, <1>2, <1>4, <1>5, <2>1, <2>2, <2>3, <2>4 DEF People!TypeOK

\* A row that is there after a step was there before, the same but for what a merge or the
\* backfill changes, or it is the one row the step inserted.
Endures(i) ==
    /\ Held(i) /\ rows'[i].role = rows[i].role /\ rows'[i].source = rows[i].source /\ rows'[i].record = rows[i].record
    /\ rows'[i].url = rows[i].url /\ rows'[i].bytes = rows[i].bytes
Stays(i) == Endures(i) /\ rows'[i].person = rows[i].person
Fresh(i) ==
    /\ i = next /\ ~Held(i) /\ next' = next + 1
    /\ NewRow(rows'[i]) /\ People!Inserted(rows'[i]) /\ UNCHANGED live

LEMMA RowsKeep ==
    ASSUME PeopleShape, [People!Next]_(People!vars), NEW i \in People!Id, Held(i)'
    PROVE  \/ Stays(i) /\ rows'[i].hash = rows[i].hash
           \/ Stays(i) /\ People!Boot /\ rows[i].hash = People!NoHash
           \/ /\ Endures(i) /\ rows'[i].hash = rows[i].hash
              /\ \E o \in Asker, s, l \in Person : MergeOf(o, s, l) /\ rows[i].person = l /\ rows'[i].person = s
           \/ Fresh(i)
<1> DEFINE Goal ==
           \/ Stays(i) /\ rows'[i].hash = rows[i].hash
           \/ Stays(i) /\ People!Boot /\ rows[i].hash = People!NoHash
           \/ /\ Endures(i) /\ rows'[i].hash = rows[i].hash
              /\ \E o \in Asker, s, l \in Person : MergeOf(o, s, l) /\ rows[i].person = l /\ rows'[i].person = s
           \/ Fresh(i)
<1> SUFFICES Goal
  OBVIOUS
<1>1. ASSUME rows'[i] = rows[i] PROVE Goal
  BY <1>1 DEF Stays, Endures, Held
<1>r. Held(i) => rows[i] \in People!Row
  BY DEF PeopleShape, RowShape, RowOK
<1>2. CASE UNCHANGED <<rows, next, live>>
  BY <1>1, <1>2
<1>3. ASSUME NEW S \in SUBSET People!Id, Removes(S) PROVE Goal
  <2>1. rows'[i] = rows[i]
    BY <1>3 DEF Removes, Held
  <2> HIDE DEF Goal
  <2> QED
    BY <1>1, <2>1
<1>4. ASSUME NEW img, NewRow(img), People!Inserted(img), UNCHANGED live PROVE Goal
  <2>1. CASE i = next
    BY <1>4, <2>1, InsertedRows DEF Fresh
  <2>2. CASE i # next
    <3>1. rows'[i] = rows[i]
      BY <1>4, <2>2, InsertedRows DEF Held
    <3> HIDE DEF Goal
    <3> QED
      BY <1>1, <3>1
  <2> QED
    BY <2>1, <2>2
<1>5. ASSUME NEW o \in Asker, NEW s \in Person, NEW l \in Person, People!Merge(o, s, l) PROVE Goal
  <2>1. CASE rows'[i] = rows[i]
    BY <1>1, <2>1
  <2>2. CASE Held(i) /\ rows[i].person = l /\ rows'[i] = [rows[i] EXCEPT !.person = s]
    <3>1. Endures(i) /\ rows'[i].hash = rows[i].hash /\ rows'[i].person = s
      BY <1>r, <2>2 DEF Endures, People!Row
    <3> QED
      BY <1>5, <2>2, <3>1 DEF MergeOf
  <2> QED
    BY <1>5, <2>1, <2>2, MergeRows DEF Held
<1>6. CASE People!Boot
  <2>1. CASE rows'[i] = rows[i]
    BY <1>1, <2>1
  <2>2. CASE Held(i) /\ rows[i].hash = People!NoHash /\ rows'[i] = [rows[i] EXCEPT !.hash = rows[i].bytes]
    <3>1. Stays(i)
      BY <1>r, <2>2 DEF Endures, Stays, People!Row
    <3> QED
      BY <1>6, <2>2, <3>1
  <2> QED
    BY <1>6, <2>1, <2>2, BootRows DEF Held
<1> HIDE DEF Goal
<1> QED
  BY <1>2, <1>3, <1>4, <1>5, <1>6, RowSteps

\* The steps that touch files, or the rows that wait for them.
FileSteps ==
    \/ UNCHANGED <<rows, files, unfiled, live>>
    \/ \E t \in People!Task : Starts(t) /\ up'
    \/ \E t \in People!Task : People!RemoveProviderAssets(t) \/ People!Store(t) \/ People!StoreFails(t)
    \/ \E o \in Asker, i \in People!Id : People!Delete(o, i)
    \/ \E o \in Asker : People!Unlink(o) \/ People!Settle(o)
    \/ \E o \in Asker, s, l \in Person : MergeOf(o, s, l)
    \/ People!Crash \/ People!Boot

LEMMA FileNext == ASSUME PeopleShape, [People!Next]_(People!vars) PROVE FileSteps
<1> USE DEF People!store, People!history
<1>0. ASSUME UNCHANGED <<rows, files, unfiled, live>> PROVE FileSteps
  BY <1>0 DEF FileSteps
<1>1. ASSUME NEW e \in Pass, PassStepOf(e) PROVE FileSteps
  <2>1. e \in People!Task /\ up'
    BY <1>1, OthersStay DEF People!Task
  <2>2. CASE Starts(e)
    BY <2>1, <2>2 DEF FileSteps
  <2>3. CASE People!AssetInserted(e)
    <3>1. Starts(e)
      <4>1. PassTo(e) /\ task'[e].pc = "file" /\ task[e].pc = "assets"
        <5>1. task[e].pc = "assets" /\ task[e] \in PassTask
          BY <2>1, <2>3, Standing DEF People!AssetInserted, People!More, People!At, PeopleShape
        <5>2. task'[e] = [task[e] EXCEPT !.pc = "file", !.i = People!Upcoming(task[e]), !.id = next]
          BY <2>1, <2>3 DEF People!AssetInserted, PeopleShape, TaskShape
        <5> QED
          BY <1>1, <5>1, <5>2, PassGoesTo DEF PassTask
      <4> QED
        BY <4>1 DEF PassTo, Early, People!Idle
    <3> QED
      BY <2>2, <3>1
  <2>4. CASE People!SeedPoster(e)
    <3>1. Starts(e)
      <4>1. PassTo(e) /\ task'[e].pc = "file" /\ task[e].pc = "seed"
        <5>1. task[e].pc = "seed" /\ task[e] \in PassTask
          BY <2>1, <2>4, Standing DEF People!SeedPoster, People!At, PeopleShape
        <5>2. task'[e] = [task[e] EXCEPT !.pc = "file", !.id = next, !.seed = TRUE]
          BY <2>1, <2>4 DEF People!SeedPoster, PeopleShape, TaskShape
        <5> QED
          BY <1>1, <5>1, <5>2, PassGoesTo DEF PassTask
      <4> QED
        BY <4>1 DEF PassTo, Early, People!Idle
    <3> QED
      BY <2>2, <3>1
  <2> QED
    BY <1>0, <1>1, <2>3, <2>4 DEF PassStepOf, People!Fetched, People!UpsertEnrichment,
       People!Adopt, People!Reads,
       People!AssetFails, People!AssetRefused, People!Assembled, People!SeedFails
<1>2. ASSUME NEW t \in People!Task, TaskStepOf(t) PROVE FileSteps
  <2>1. CASE People!RemoveProviderAssets(t) \/ People!Store(t) \/ People!StoreFails(t)
    BY <2>1 DEF FileSteps
  <2> QED
    BY <1>0, <1>2, <2>1 DEF TaskStepOf, People!Match, People!Detach, People!DeleteProviderAliases,
       People!DeleteEnrichmentByProvider, People!Fails
<1>3. ASSUME NEW o \in Asker, AskerStepOf(o) PROVE FileSteps
  <2>1. o \in People!Task /\ up'
    BY <1>3, OthersStay DEF People!Task
  <2>2. CASE task'[o].pc = "file" /\ task[o].pc \in {"idle", "promote"}
    BY <1>3, <2>1, <2>2, AskerGoesTo DEF FileSteps, AskerTo, Clearing, People!Idle
  <2>3. ASSUME NEW p \in Person, NEW role \in People!Role, NEW b \in Picked, NEW overCap \in BOOLEAN,
               People!Upload(o, p, role, b, overCap) PROVE FileSteps
    <3>1. task'[o] = People!Filing(o, p) /\ task[o] = People!Idle
      BY <2>1, <2>3 DEF People!Upload, People!Act, PeopleShape, TaskShape
    <3> QED
      BY <2>2, <3>1 DEF People!Filing, People!Idle
  <2>4. CASE People!Promoted(o)
    <3>1. task'[o] = People!Filing(o, task[o].person) /\ task[o].pc = "promote"
      BY <2>1, <2>4 DEF People!Promoted, People!At, PeopleShape, TaskShape
    <3> QED
      BY <2>2, <3>1 DEF People!Filing
  <2>5. ASSUME NEW i \in People!Id, People!Delete(o, i) PROVE FileSteps
    BY <2>5 DEF FileSteps
  <2>6. CASE People!Unlink(o) \/ People!Settle(o)
    BY <2>6 DEF FileSteps
  <2> QED
    BY <1>0, <1>3, <2>3, <2>4, <2>5, <2>6 DEF AskerStepOf, People!Promote, People!PromoteFails,
       People!Clear
<1>4. ASSUME NEW o \in Asker, NEW s \in Person, NEW l \in Person, MergeOf(o, s, l) PROVE FileSteps
  BY <1>4 DEF FileSteps
<1>5. CASE UNCHANGED People!vars
  BY <1>0, <1>5 DEF People!vars
<1>6. CASE People!Crash \/ People!Boot
  BY <1>6 DEF FileSteps
<1> QED
  BY <1>1, <1>2, <1>3, <1>4, <1>5, <1>6, StepCases

(***************************************************************************)
(* Filing: what a row and the task that writes its file know of each other.*)
(***************************************************************************)
\* The file a task is to write is not there yet, and is no other task's to write.
FileAwaited(t) ==
    task[t].pc = "file" =>
        /\ task[t].id \in People!Id
        /\ \A p \in Person : <<p, task[t].id>> \notin files
        /\ (Held(task[t].id) /\ task[t].id \notin unfiled) => rows[task[t].id].person = task[t].person
        /\ \A u \in People!Task \ {t} : task[u].pc = "file" => task[u].id # task[t].id
\* A file is unlinked after its row is gone, and a directory settled after its person.
RowGone(t) == task[t].pc = "unlink" => task[t].id \in People!Id /\ ~Held(task[t].id)
LoserGone(o) ==
    task[o].pc = "settle" =>
        /\ task[o].loser \notin live /\ task[o].loser \in Person
        /\ \A u \in Asker \ {o} : task[u].pc = "settle" => task[u].loser # task[o].loser
Filing ==
    /\ \A t \in People!Task : FileAwaited(t) /\ RowGone(t)
    /\ \A o \in Asker : LoserGone(o)
    /\ People!RowHasFile

LEMMA Grows ==
    ASSUME PeopleShape, [People!Next]_(People!vars)
    PROVE  unfiled \subseteq unfiled' /\ live' \subseteq live
<1>1. unfiled \subseteq unfiled'
  BY FileNext DEF FileSteps, Starts, People!RemoveProviderAssets, People!Store,
     People!StoreFails, People!RollsBack, People!Delete,
     People!Unlink, People!Settle, MergeOf, People!Merge, People!Crash, People!Boot,
     People!history, People!store
<1>2. live' \subseteq live
  BY RowSteps, MergeRows, BootRows
<1> QED
  BY <1>1, <1>2

LEMMA Settling ==
    ASSUME PeopleShape, [People!Next]_(People!vars), NEW o \in Asker, task'[o].pc = "settle"
    PROVE  \/ task'[o] = task[o]
           \/ \E s, l \in Person : MergeOf(o, s, l) /\ task'[o].loser = l /\ task'[o].person = s
                                   /\ \A u \in Asker \ {o} : task'[u] = task[u]
<1> DEFINE Goal ==
           \/ task'[o] = task[o]
           \/ \E s, l \in Person : MergeOf(o, s, l) /\ task'[o].loser = l /\ task'[o].person = s
                                   /\ \A u \in Asker \ {o} : task'[u] = task[u]
<1> SUFFICES Goal
  OBVIOUS
<1> o \in People!Task /\ o \notin Pass
  BY PeopleFacts DEF People!Task
<1>1. ASSUME NEW u \in People!Task, (u \in Pass /\ PassStepOf(u)) \/ TaskStepOf(u) \/ (u \in Asker /\ AskerStepOf(u)) PROVE Goal
  <2>1. CASE u # o
    BY <1>1, <2>1, OthersStay
  <2>2. CASE u = o
    <3>1. AskerTo(o)
      BY <1>1, <2>2, AskerGoesTo
    <3> QED
      BY <3>1 DEF AskerTo, Starts, Clearing, People!Idle
  <2> QED
    BY <2>1, <2>2
<1>2. ASSUME NEW u \in Asker, NEW s \in Person, NEW l \in Person, MergeOf(u, s, l) PROVE Goal
  <2>1. task'[u] = [pc |-> "settle", person |-> s, prov |-> People!NoProvider, loser |-> l]
        /\ \A t \in Asker \ {u} : task'[t] = task[t]
    BY <1>2, MergeSteps DEF MergeOf
  <2>2. CASE u # o
    BY <2>1, <2>2
  <2>3. CASE u = o
    <3>1. task'[o].loser = l /\ task'[o].person = s
      BY <2>1, <2>3
    <3> QED
      BY <1>2, <2>1, <2>3, <3>1
  <2> QED
    BY <2>2, <2>3
<1>3. CASE People!Crash
  BY <1>3 DEF People!Crash, People!Idle
<1>4. CASE People!Boot \/ UNCHANGED People!vars
  BY <1>4 DEF People!Boot, People!vars
<1> HIDE DEF Goal
<1> QED
  BY <1>1, <1>2, <1>3, <1>4, StepCases DEF People!Task

\* Where the steps of passes and of the owner start.
LEMMA StepsFrom ==
    ASSUME NEW t
    PROVE  /\ PassStepOf(t) => task[t].pc \in {"idle", "upsert", "adopt", "reads", "assets", "seed"}
           /\ AskerStepOf(t) => task[t].pc \in {"idle", "promote", "unlink", "settle"}
<1>1. People!Idle.pc = "idle"
  BY DEF People!Idle
<1>2. \A p, r : People!Fetched(t, p, r) => task[t] = People!Idle
  BY DEF People!Fetched
<1>3. /\ People!UpsertEnrichment(t) => task[t].pc = "upsert"
      /\ People!Adopt(t) => task[t].pc = "adopt"
      /\ People!Reads(t) => task[t].pc = "reads"
  BY DEF People!UpsertEnrichment, People!Adopt, People!Reads, People!At
<1>4. /\ People!AssetFails(t) \/ People!AssetRefused(t) \/ People!AssetInserted(t) \/ People!Assembled(t) => task[t].pc = "assets"
      /\ People!SeedPoster(t) \/ People!SeedFails(t) => task[t].pc = "seed"
  BY DEF People!AssetFails, People!AssetRefused, People!AssetInserted, People!More,
     People!Assembled, People!SeedPoster,
     People!SeedFails, People!At
<1>5. /\ \A p, role, b, overCap : People!Upload(t, p, role, b, overCap) => task[t] = People!Idle
      /\ \A i : People!Delete(t, i) => task[t] = People!Idle
      /\ \A i, role : People!Promote(t, i, role) => task[t] = People!Idle
      /\ \A p, q : People!Clear(t, p, q) => task[t] = People!Idle
  BY DEF People!Upload, People!Delete, People!Promote, People!Clear, People!Act
<1>6. /\ People!Promoted(t) \/ People!PromoteFails(t) => task[t].pc = "promote"
      /\ People!Unlink(t) => task[t].pc = "unlink"
      /\ People!Settle(t) => task[t].pc = "settle"
  BY DEF People!Promoted, People!PromoteFails, People!Unlink, People!Settle, People!At
<1>7. PassStepOf(t) => task[t].pc \in {"idle", "upsert", "adopt", "reads", "assets", "seed"}
  BY <1>1, <1>2, <1>3, <1>4 DEF PassStepOf
<1>8. AskerStepOf(t) => task[t].pc \in {"idle", "promote", "unlink", "settle"}
  BY <1>1, <1>5, <1>6 DEF AskerStepOf
<1> QED
  BY <1>7, <1>8

\* A file that is awaited stays so until the task that writes it is through.
LEMMA Awaited ==
    ASSUME PeopleShape, [People!Next]_(People!vars), NEW t \in People!Task, task[t].pc = "file"
    PROVE  \/ task'[t].pc = "file" /\ task'[t].id = task[t].id /\ up'
           \/ People!Store(t) \/ People!StoreFails(t) \/ People!Crash
<1> DEFINE Goal == \/ task'[t].pc = "file" /\ task'[t].id = task[t].id /\ up'
                   \/ People!Store(t) \/ People!StoreFails(t) \/ People!Crash
<1> SUFFICES Goal
  OBVIOUS
<1>u. up
  BY DEF PeopleShape, IdsOK, People!Idle
<1>0. ASSUME task'[t] = task[t], up' PROVE Goal
  BY <1>0
<1>1. ASSUME NEW u \in People!Task, (u \in Pass /\ PassStepOf(u)) \/ TaskStepOf(u) \/ (u \in Asker /\ AskerStepOf(u)) PROVE Goal
  <2>1. CASE u # t
    <3>1. task'[t] = task[t] /\ up'
      BY <1>1, <2>1, OthersStay
    <3> HIDE DEF Goal
    <3> QED
      BY <1>0, <3>1
  <2>2. CASE u = t
    <3>1. ~PassStepOf(t) /\ ~AskerStepOf(t)
      BY StepsFrom
    <3>3. TaskStepOf(t) => People!Store(t) \/ People!StoreFails(t)
      BY DEF TaskStepOf, People!Match, People!Detach, People!DeleteProviderAliases,
         People!RemoveProviderAssets,
         People!DeleteEnrichmentByProvider, People!Fails, People!At
    <3> QED
      BY <1>1, <2>2, <3>1, <3>3
  <2> QED
    BY <2>1, <2>2
<1>2. ASSUME NEW o \in Asker, NEW s \in Person, NEW l \in Person, MergeOf(o, s, l) PROVE Goal
  <2>0. up' /\ task[o] = People!Idle
    BY <1>2 DEF MergeOf, People!Merge, People!Act
  <2>1. CASE t \in Asker
    <3>1. t # o
      BY <2>0 DEF People!Idle
    <3>a. \A u \in Asker \ {o} : task'[u] = task[u]
      BY <1>2, MergeSteps DEF MergeOf
    <3>2. task'[t] = task[t]
      BY <2>1, <3>1, <3>a
    <3> HIDE DEF Goal
    <3> QED
      BY <1>0, <2>0, <3>2
  <2>2. CASE t \in Pass
    <3>1. task'[t] = task[t] \/ task'[t] = [task[t] EXCEPT !.blind = TRUE]
      BY <1>2, <2>2, MergeSteps DEF MergeOf
    <3>2. task[t] \in PassTask
      BY <2>2, Standing DEF PeopleShape
    <3> QED
      BY <2>0, <3>1, <3>2 DEF PassTask
  <2> QED
    BY <2>1, <2>2 DEF People!Task
<1>3. CASE People!Crash
  BY <1>3
<1>4. CASE People!Boot
  BY <1>4, <1>u DEF People!Boot
<1>5. CASE UNCHANGED People!vars
  <2>1. task'[t] = task[t] /\ up'
    BY <1>5, <1>u DEF People!vars
  <2> HIDE DEF Goal
  <2> QED
    BY <1>0, <2>1
<1> HIDE DEF Goal
<1> QED
  BY <1>1, <1>2, <1>3, <1>4, <1>5, StepCases DEF People!Task

\* A merge leaves off the rows whose file was not there.
LEMMA MergeTears ==
    ASSUME PeopleShape, NEW o \in Asker, NEW s \in Person, NEW l \in Person, MergeOf(o, s, l), NEW i \in People!Id,
           Held(i), rows[i].person = l, i \notin unfiled'
    PROVE  <<l, i>> \in files
BY DEF MergeOf, People!Merge, People!Of, People!Filled, Held

\* Files come only of the task that writes them, or are moved.
LEMMA NewFiles ==
    ASSUME PeopleShape, [People!Next]_(People!vars), NEW p, NEW i, <<p, i>> \in files'
    PROVE  \/ \E q \in Person : <<q, i>> \in files
           \/ \E t \in People!Task : People!Store(t) /\ i = task[t].id
<1> StoreShape /\ TaskShape
  BY DEF PeopleShape
<1>1. CASE files' \subseteq files
  BY <1>1 DEF StoreShape
<1>2. ASSUME NEW t \in People!Task, People!Store(t)
      PROVE  (\E q \in Person : <<q, i>> \in files) \/ (\E u \in People!Task : People!Store(u) /\ i = task[u].id)
  BY <1>2 DEF People!Store, StoreShape
<1>3. ASSUME NEW o \in Asker, People!Settle(o) PROVE \E q \in Person : <<q, i>> \in files
  <2>1. CASE <<p, i>> \in files
    BY <2>1 DEF StoreShape
  <2>2. CASE <<p, i>> \notin files
    <3>1. <<task[o].loser, i>> \in files
      BY <1>3, <2>2 DEF People!Settle
    <3> QED
      BY <3>1 DEF StoreShape
  <2> QED
    BY <2>1, <2>2
<1> QED
  BY <1>1, <1>2, <1>3, FileNext DEF FileSteps, Starts, People!RemoveProviderAssets,
     People!StoreFails, People!Delete,
     People!Unlink, MergeOf, People!Merge, People!Crash, People!Boot, People!store

LEMMA StoreMoves == ASSUME PeopleShape, NEW t \in People!Task, People!Store(t) \/ People!StoreFails(t) PROVE task'[t].pc # "file"
<1>1. PICK ok \in BOOLEAN : People!Filed(t, ok) /\ People!At(t, "file")
  BY DEF People!Store, People!StoreFails
<1>2. task'[t] = People!Idle \/ task'[t].pc = "assets"
  BY <1>1, FiledTurns DEF PeopleShape
<1> QED
  BY <1>2 DEF People!Idle

LEMMA AwaitedNext ==
    ASSUME PeopleShape, Filing, [People!Next]_(People!vars), NEW t \in People!Task
    PROVE  FileAwaited(t)' /\ RowGone(t)'
<1> TaskShape /\ RowShape /\ StoreShape /\ IdsOK /\ next \in Nat
  BY NextGrows DEF PeopleShape
<1>i. ASSUME NEW u \in People!Task, task[u].pc \in {"file", "unlink"} PROVE task[u].id # next
  <2>1. task[u].id \in 1 .. next - 1
    BY <1>i DEF IdsOK
  <2> QED
    BY <2>1
<1>1. ASSUME task'[t].pc = "file", task[t].pc = "file", task'[t].id = task[t].id, task'[t].person = task[t].person
      PROVE  FileAwaited(t)'
  <2>0. FileAwaited(t) /\ task[t].id \in People!Id /\ task[t].id # next
    BY <1>1, <1>i DEF Filing, FileAwaited
  <2> PICK i \in People!Id : i = task[t].id
    BY <2>0
  <2>1. FileAwaited(t) /\ i \in People!Id /\ i # next /\ i = task[t].id
    BY <2>0
  <2>2. ASSUME NEW p \in Person PROVE <<p, i>> \notin files'
    <3> SUFFICES ASSUME <<p, i>> \in files' PROVE FALSE
      OBVIOUS
    <3>1. \A q \in Person : <<q, i>> \notin files
      BY <1>1, <2>1 DEF FileAwaited
    <3>2. PICK u \in People!Task : People!Store(u) /\ i = task[u].id
      BY <3>1, NewFiles
    <3>3. task[u].pc = "file" /\ task'[u].pc # "file"
      BY <3>2, StoreMoves DEF People!Store, People!At
    <3>4. u # t
      BY <1>1, <3>3
    <3> QED
      BY <1>1, <2>1, <3>2, <3>3, <3>4 DEF FileAwaited
  <2>3. ASSUME Held(i)', i \notin unfiled' PROVE rows'[i].person = task'[t].person
    <3>1. i \notin unfiled
      BY <2>3, Grows
    <3>2. CASE Stays(i)
      BY <1>1, <2>1, <3>1, <3>2 DEF Stays, Endures, FileAwaited
    <3>3. ASSUME NEW o \in Asker, NEW s \in Person, NEW l \in Person, MergeOf(o, s, l), Held(i), rows[i].person = l PROVE FALSE
      <4>1. <<l, i>> \in files
        BY <2>1, <2>3, <3>3, MergeTears
      <4> QED
        BY <1>1, <2>1, <4>1 DEF FileAwaited
    <3> QED
      BY <2>1, <2>3, <3>2, <3>3, RowsKeep DEF Fresh, Endures
  <2>4. ASSUME NEW u \in People!Task \ {t}, task'[u].pc = "file" PROVE task'[u].id # i
    <3>1. CASE task[u].pc = "file" /\ task'[u].id = task[u].id
      BY <1>1, <2>1, <3>1 DEF FileAwaited
    <3>2. CASE Starts(u)
      BY <2>1, <3>2 DEF Starts
    <3> QED
      BY <2>4, <3>1, <3>2, TaskWaits DEF Waits
  <2>5. i = task'[t].id
    BY <1>1
  <2> QED
    BY <2>1, <2>2, <2>3, <2>4, <2>5 DEF FileAwaited, Held
<1>2. ASSUME Starts(t), \A u \in People!Task \ {t} : task'[u] = task[u] PROVE FileAwaited(t)'
  <2>1. \A p \in Person : <<p, next>> \notin files'
    <3>1. files' \subseteq Person \X (1 .. next - 1)
      BY <1>2 DEF Starts, StoreShape
    <3> QED
      BY <3>1
  <2>2. \A u \in People!Task \ {t} : task'[u].pc = "file" => task'[u].id # next
    BY <1>2, <1>i
  <2> QED
    BY <1>2, <2>1, <2>2 DEF Starts, FileAwaited
<1>3. FileAwaited(t)'
  <2>1. CASE task'[t].pc # "file"
    BY <2>1 DEF FileAwaited
  <2>2. CASE task'[t].pc = "file"
    BY <1>1, <1>2, <2>2, TaskWaits DEF Waits
  <2> QED
    BY <2>1, <2>2
<1>4. ASSUME task'[t].pc = "unlink" PROVE task'[t].id \in People!Id /\ rows'[task'[t].id] = People!Free
  <2>1. CASE task[t].pc = "unlink" /\ task'[t].id = task[t].id
    <3>0. task[t].id \in People!Id /\ ~Held(task[t].id) /\ task[t].id # next
      BY <2>1, <1>i DEF Filing, RowGone
    <3> PICK i \in People!Id : i = task[t].id
      BY <3>0
    <3>1. ~Held(i) /\ i # next
      BY <3>0
    <3>2. ~Held(i)'
      BY <3>1, RowsKeep DEF Stays, Endures, Fresh
    <3> QED
      BY <2>1, <3>1, <3>2 DEF Held
  <2>2. CASE task'[t].id \in People!Id /\ rows'[task'[t].id] = People!Free
    BY <2>2 DEF Held
  <2> QED
    BY <1>4, <2>1, <2>2, TaskWaits DEF Waits, Starts
<1> QED
  BY <1>3, <1>4 DEF RowGone, Held

LEMMA LosersNext ==
    ASSUME PeopleShape, Filing, [People!Next]_(People!vars), NEW o \in Asker
    PROVE  LoserGone(o)'
<1> SUFFICES ASSUME task'[o].pc = "settle"
             PROVE  /\ task'[o].loser \notin live' /\ task'[o].loser \in Person
                    /\ \A u \in Asker \ {o} : task'[u].pc = "settle" => task'[u].loser # task'[o].loser
  BY DEF LoserGone
<1>m. ASSUME NEW u \in Asker, NEW s \in Person, NEW l \in Person, MergeOf(u, s, l) PROVE l \in live /\ live' = live \ {l}
  BY <1>m DEF MergeOf, People!Merge
<1>g. \A u \in Asker : task[u].pc = "settle" => task[u].loser \notin live /\ task[u].loser \in Person
  BY DEF Filing, LoserGone
<1>1. CASE task'[o] = task[o]
  <2>1. task'[o].loser \notin live' /\ task'[o].loser \in Person
    BY <1>1, <1>g, Grows
  <2>2. ASSUME NEW u \in Asker \ {o}, task'[u].pc = "settle" PROVE task'[u].loser # task'[o].loser
    <3>1. CASE task'[u] = task[u]
      BY <1>1, <2>2, <3>1 DEF Filing, LoserGone
    <3>2. ASSUME NEW s \in Person, NEW l \in Person, MergeOf(u, s, l), task'[u].loser = l PROVE task'[u].loser # task'[o].loser
      BY <1>1, <1>m, <1>g, <3>2
    <3> QED
      BY <2>2, <3>1, <3>2, Settling
  <2> QED
    BY <2>1, <2>2
<1>2. ASSUME NEW s \in Person, NEW l \in Person, MergeOf(o, s, l), task'[o].loser = l, \A u \in Asker \ {o} : task'[u] = task[u]
      PROVE  /\ task'[o].loser \notin live' /\ task'[o].loser \in Person
             /\ \A u \in Asker \ {o} : task'[u].pc = "settle" => task'[u].loser # task'[o].loser
  BY <1>2, <1>m, <1>g
<1> QED
  BY <1>1, <1>2, Settling

\* A row that a step inserts has a task that will write its file.
LEMMA FreshStarts ==
    ASSUME PeopleShape, [People!Next]_(People!vars), NEW i \in People!Id, ~Held(i), Held(i)', i = next
    PROVE  \E t \in People!Task : Starts(t) /\ up'
<1> RowShape
  BY DEF PeopleShape
<1>1. ASSUME NEW S, rows' = [j \in People!Id |-> IF j \in S THEN People!Free ELSE rows[j]] PROVE FALSE
  BY <1>1 DEF Held
<1>2. ASSUME NEW j, rows' = [rows EXCEPT ![j] = People!Free] \/ rows' = rows PROVE FALSE
  BY <1>2 DEF Held, RowShape
<1>3. ASSUME NEW o \in Asker, NEW s \in Person, NEW l \in Person, MergeOf(o, s, l) PROVE FALSE
  BY <1>3, MergeRows DEF MergeOf, Held
<1>4. ~People!Boot
  BY BootRows DEF Held
<1> QED
  BY <1>1, <1>2, <1>3, <1>4, FileNext DEF FileSteps, People!RemoveProviderAssets, People!Store,
     People!StoreFails,
     People!RollsBack, People!DeletePersonImage, People!Delete, People!Unlink, People!Settle,
     People!Crash, People!store

LEMMA SettleWaits ==
    ASSUME PeopleShape, [People!Next]_(People!vars), NEW o \in Asker, task[o].pc = "settle"
    PROVE  (task'[o] = task[o] /\ up') \/ People!Settle(o) \/ People!Crash
<1> DEFINE Goal == (task'[o] = task[o] /\ up') \/ People!Settle(o) \/ People!Crash
<1> SUFFICES Goal
  OBVIOUS
<1> o \in People!Task /\ o \notin Pass
  BY PeopleFacts DEF People!Task
<1>u. up
  BY DEF PeopleShape, IdsOK, People!Idle
<1>1. ASSUME NEW u \in People!Task, (u \in Pass /\ PassStepOf(u)) \/ TaskStepOf(u) \/ (u \in Asker /\ AskerStepOf(u)) PROVE Goal
  <2>1. CASE u # o
    BY <1>1, <2>1, OthersStay
  <2>2. CASE u = o
    <3>1. ~TaskStepOf(o)
      BY <2>2 DEF TaskStepOf, People!Match, People!Detach, People!DeleteProviderAliases,
         People!RemoveProviderAssets,
         People!DeleteEnrichmentByProvider, People!Fails, People!Store, People!StoreFails, People!At
    <3>2. AskerStepOf(o) => People!Settle(o)
      <4>1. People!Idle.pc = "idle"
        BY DEF People!Idle
      <4> QED
        BY <4>1 DEF AskerStepOf, People!Upload, People!Delete, People!Promote, People!Promoted,
           People!PromoteFails, People!Unlink,
           People!Clear, People!Act, People!At
    <3> QED
      BY <1>1, <2>2, <3>1, <3>2
  <2> QED
    BY <2>1, <2>2
<1>2. ASSUME NEW u \in Asker, NEW s \in Person, NEW l \in Person, MergeOf(u, s, l) PROVE Goal
  <2>1. u # o /\ up'
    BY <1>2 DEF MergeOf, People!Merge, People!Act, People!Idle
  <2>2. \A t \in Asker \ {u} : task'[t] = task[t]
    BY <1>2, MergeSteps DEF MergeOf
  <2> QED
    BY <2>1, <2>2
<1>3. CASE People!Crash
  BY <1>3
<1>4. CASE People!Boot \/ UNCHANGED People!vars
  BY <1>4, <1>u DEF People!Boot, People!vars
<1> HIDE DEF Goal
<1> QED
  BY <1>1, <1>2, <1>3, <1>4, StepCases DEF People!Task

HasFile(i) ==
    \/ People!Filled(i)
    \/ \E t \in People!Task : People!At(t, "file") /\ task[t].id = i
    \/ \E o \in Asker :
          People!At(o, "settle") /\ task[o].person = rows[i].person /\ <<task[o].loser, i>> \in files

LEMMA AliveRows == ASSUME PeopleShape, NEW i \in People!Id, Held(i)
                   PROVE  rows[i].person \in live /\ rows[i].person \in Person /\ rows[i] \in People!Row
BY DEF PeopleShape, RowShape, RowOK, People!Row

LEMMA FilledStays ==
    ASSUME PeopleShape, Filing, [People!Next]_(People!vars), NEW i \in People!Id, Held(i)', Stays(i), People!Filled(i)
    PROVE  People!Filled(i)'
<1> DEFINE p == rows[i].person
<1>1. <<p, i>> \in files /\ p \in live /\ Held(i)
  BY AliveRows DEF People!Filled, Stays, Endures
<1>2. SUFFICES <<p, i>> \in files'
  BY DEF People!Filled, Stays
<1> HIDE DEF p
<1>3. CASE files' = files
  BY <1>1, <1>3
<1>4. ASSUME NEW t \in People!Task, People!RemoveProviderAssets(t) PROVE <<p, i>> \in files'
  <2>1. i \notin People!Provided(task[t].person, task[t].prov)
    BY <1>4 DEF People!RemoveProviderAssets, Held
  <2> QED
    BY <1>1, <1>4, <2>1 DEF People!RemoveProviderAssets
<1>5. ASSUME NEW t \in People!Task, People!Store(t) PROVE <<p, i>> \in files'
  BY <1>1, <1>5 DEF People!Store
<1>6. ASSUME NEW o \in Asker, People!Unlink(o) PROVE <<p, i>> \in files'
  <2>1. task[o].id # i
    BY <1>1, <1>6 DEF People!Unlink, People!At, Filing, RowGone, People!Task
  <2> QED
    BY <1>1, <1>6, <2>1 DEF People!Unlink
<1>7. ASSUME NEW o \in Asker, People!Settle(o) PROVE <<p, i>> \in files'
  <2>1. task[o].loser # p
    BY <1>1, <1>7 DEF People!Settle, People!At, Filing, LoserGone
  <2> QED
    BY <1>1, <1>7, <2>1 DEF People!Settle
<1>8. CASE People!Boot
  <2>1. CASE files' = files
    BY <1>1, <2>1
  <2>2. ASSUME NEW S, rows' = [j \in People!Id |-> IF j \in People!Twins(People!Hashed(S)) THEN People!Free ELSE People!Hashed(S)[j]],
               files' = files \ {<<rows[j].person, j>> : j \in People!Twins(People!Hashed(S))} PROVE <<p, i>> \in files'
    <3> DEFINE T == People!Twins(People!Hashed(S))
    <3> HIDE DEF T
    <3>1. i \notin T
      BY <2>2 DEF T, Held
    <3> QED
      BY <1>1, <2>2, <3>1 DEF T
  <2> QED
    BY <1>8, <2>1, <2>2 DEF People!Boot
<1> QED
  BY <1>3, <1>4, <1>5, <1>6, <1>7, <1>8, FileNext DEF FileSteps, Starts, People!StoreFails,
     People!Delete, MergeOf, People!Merge, People!Crash, People!store

LEMMA RowHasFileNext ==
    ASSUME PeopleShape, Filing, [People!Next]_(People!vars), NEW i \in People!Id, i \notin unfiled', Held(i)'
    PROVE  HasFile(i)'
<1> DEFINE Goal == HasFile(i)'
<1> SUFFICES Goal
  OBVIOUS
<1>u. i \notin unfiled
  BY Grows
<1>t. ASSUME NEW t \in People!Task, up', task'[t].pc = "file", task'[t].id = i PROVE Goal
  BY <1>t DEF HasFile, People!At
<1>f. CASE People!Filled(i)'
  BY <1>f DEF HasFile
<1>1. CASE Fresh(i)
  <2>1. PICK t \in People!Task : Starts(t) /\ up'
    BY <1>1, FreshStarts DEF Fresh
  <2>2. task'[t].pc = "file" /\ task'[t].id = i
    BY <1>1, <2>1 DEF Starts, Fresh
  <2> HIDE DEF Goal
  <2> QED
    BY <1>t, <2>1, <2>2
<1>m. ASSUME NEW o \in Asker, NEW s \in Person, NEW l \in Person, MergeOf(o, s, l), Held(i), rows[i].person = l, rows'[i].person = s
      PROVE  Goal
  <2>a. <<l, i>> \in files
    BY <1>m, MergeTears
  <2>1. <<l, i>> \in files /\ files' = files
    BY <1>m, <2>a DEF MergeOf, People!Merge
  <2>2. task'[o] = [pc |-> "settle", person |-> s, prov |-> People!NoProvider, loser |-> l]
    BY <1>m, MergeSteps DEF MergeOf
  <2>3. up'
    BY <1>m DEF MergeOf, People!Merge, People!Act
  <2> QED
    BY <1>m, <2>1, <2>2, <2>3 DEF HasFile, People!At
<1>2. CASE Stays(i)
  <2>0. Held(i) /\ HasFile(i) /\ rows'[i].person = rows[i].person
    BY <1>2, <1>u DEF Stays, Endures, Filing, People!RowHasFile, HasFile, Held
  <2>1. CASE People!Filled(i)
    <3>1. People!Filled(i)'
      BY <1>2, <2>1, FilledStays
    <3> HIDE DEF Goal
    <3> QED
      BY <1>f, <3>1
  <2>2. ASSUME NEW t \in People!Task, People!At(t, "file"), task[t].id = i PROVE Goal
    <3>0. task[t].pc = "file" /\ rows[i].person = task[t].person /\ <<rows[i].person, i>> \notin files
      <4>1. FileAwaited(t) /\ task[t].pc = "file"
        BY <2>2 DEF Filing, People!At
      <4> QED
        BY <1>u, <2>0, <2>2, <4>1, AliveRows DEF FileAwaited
    <3>1. CASE task'[t].pc = "file" /\ task'[t].id = task[t].id /\ up'
      <4> HIDE DEF Goal
      <4> QED
        BY <1>t, <2>2, <3>1
    <3>2. CASE People!Store(t)
      <4>1. People!Filled(i)'
        BY <2>0, <2>2, <3>0, <3>2 DEF People!Store, People!Filled
      <4> HIDE DEF Goal
      <4> QED
        BY <1>f, <4>1
    <3>3. CASE People!StoreFails(t)
      <4>1. i \in People!Of(task[t].person)
        BY <2>0, <3>0 DEF People!Of, Held
      <4>2. CASE People!DeletePersonImage(i)
        BY <4>2 DEF People!DeletePersonImage, Held, PeopleShape, RowShape
      <4> QED
        BY <2>2, <3>3, <4>1, <4>2 DEF People!StoreFails, People!RollsBack
    <3>4. CASE People!Crash
      BY <2>0, <3>0, <3>4 DEF People!Crash, People!Filled, Held
    <3> HIDE DEF Goal
    <3> QED
      BY <3>0, <3>1, <3>2, <3>3, <3>4, Awaited
  <2>3. ASSUME NEW o \in Asker, People!At(o, "settle"), task[o].person = rows[i].person, <<task[o].loser, i>> \in files PROVE Goal
    <3>0. task[o].pc = "settle" /\ up /\ task[o].loser # rows[i].person
      BY <2>0, <2>3, AliveRows DEF People!At, Filing, LoserGone
    <3>1. CASE People!Settle(o)
      <4>1. i \in {j \in People!Of(task[o].person) : <<task[o].loser, j>> \in files} /\ rows' = rows
        BY <2>0, <2>3, <3>1 DEF People!Of, Held, People!Settle
      <4>2. People!Filled(i)'
        BY <2>3, <3>0, <3>1, <4>1 DEF People!Settle, People!Filled
      <4> HIDE DEF Goal
      <4> QED
        BY <1>f, <4>2
    <3>2. CASE People!Crash
      <4>1. People!Filled(i)'
        BY <2>0, <3>2 DEF People!Crash, People!Filled, Held, People!store
      <4> HIDE DEF Goal
      <4> QED
        BY <1>f, <4>1
    <3>3. CASE task'[o] = task[o] /\ up'
      <4> DEFINE l == task[o].loser
      <4>0. <<l, i>> \in files
        BY <2>3
      <4> HIDE DEF l
      <4>1. <<l, i>> \in files'
        <5>1. CASE files' = files
          BY <4>0, <5>1
        <5>2. ASSUME NEW t \in People!Task, People!RemoveProviderAssets(t) PROVE <<l, i>> \in files'
          <6>1. i \notin People!Provided(task[t].person, task[t].prov)
            BY <5>2 DEF People!RemoveProviderAssets, Held
          <6> QED
            BY <4>0, <5>2, <6>1 DEF People!RemoveProviderAssets
        <5>3. ASSUME NEW t \in People!Task, People!Store(t) PROVE <<l, i>> \in files'
          BY <4>0, <5>3 DEF People!Store
        <5>4. ASSUME NEW v \in Asker, People!Unlink(v) PROVE <<l, i>> \in files'
          <6>1. task[v].id # i
            BY <2>0, <5>4 DEF People!Unlink, People!At, Filing, RowGone, People!Task
          <6> QED
            BY <4>0, <5>4, <6>1 DEF People!Unlink
        <5>5. ASSUME NEW v \in Asker, People!Settle(v) PROVE <<l, i>> \in files'
          <6>1. task[v].pc = "settle" /\ task'[v] = People!Idle
            BY <5>5 DEF People!Settle, People!At, People!Done, PeopleShape, TaskShape, People!Task
          <6>2. v # o
            BY <3>0, <3>3, <6>1 DEF People!Idle
          <6>3. task[v].loser # l
            BY <3>0, <6>1, <6>2 DEF l, Filing, LoserGone
          <6> QED
            BY <4>0, <5>5, <6>3 DEF People!Settle
        <5>6. ~People!Boot
          BY <3>0 DEF People!Boot
        <5> QED
          BY <5>1, <5>2, <5>3, <5>4, <5>5, <5>6, FileNext DEF FileSteps, Starts,
             People!StoreFails, People!Delete, MergeOf,
             People!Merge, People!Crash, People!store
      <4>2. People!At(o, "settle")' /\ task'[o].person = rows'[i].person
        BY <2>0, <2>3, <3>0, <3>3 DEF People!At
      <4> QED
        BY <3>3, <4>1, <4>2 DEF HasFile, l
    <3> HIDE DEF Goal
    <3> QED
      BY <3>0, <3>1, <3>2, <3>3, SettleWaits
  <2> HIDE DEF Goal
  <2> QED
    BY <2>0, <2>1, <2>2, <2>3 DEF HasFile
<1> HIDE DEF Goal
<1>3. ASSUME \E o \in Asker, s, l \in Person : MergeOf(o, s, l) /\ rows[i].person = l /\ rows'[i].person = s, Held(i) PROVE Goal
  BY <1>m, <1>3
<1> QED
  BY <1>1, <1>2, <1>3, RowsKeep DEF Endures

LEMMA FilingNext == PeopleShape /\ Filing /\ [People!Next]_(People!vars) => Filing'
<1> SUFFICES ASSUME PeopleShape, Filing, [People!Next]_(People!vars) PROVE Filing'
  OBVIOUS
<1>1. \A t \in People!Task : FileAwaited(t)' /\ RowGone(t)'
  BY AwaitedNext
<1>2. \A o \in Asker : LoserGone(o)'
  BY LosersNext
<1>3. People!RowHasFile'
  BY RowHasFileNext DEF HasFile, Held, People!RowHasFile
<1> QED
  BY <1>1, <1>2, <1>3 DEF Filing

LEMMA FilingStart == People!Init => Filing
<1> SUFFICES ASSUME People!Init PROVE Filing
  OBVIOUS
<1>1. \A t \in People!Task : task[t].pc = "idle"
  BY DEF People!Init, People!Idle
<1>2. People!RowHasFile
  <2>1. \A i \in People!Id : Held(i) => i \in DOMAIN Images /\ rows[i] = Images[i]
    BY StartRows
  <2>2. files = {<<Images[i].person, i>> : i \in DOMAIN Images}
    BY DEF People!Init
  <2> QED
    BY <2>1, <2>2 DEF People!RowHasFile, People!Filled, Held
<1> QED
  BY <1>1, <1>2 DEF Filing, FileAwaited, RowGone, LoserGone, People!Task

(***************************************************************************)
(* Twins: who inserts a row, and what a merge brings together.             *)
(***************************************************************************)
\* Who inserts a row, and which.
ByAsset(e, i) == People!AssetInserted(e) /\ rows'[i] = People!AssetRow(e) /\ task[e] \in PassTask
BySeed(e, i) == People!SeedPoster(e) /\ rows'[i] = People!EnrichedRow(e, "poster", task[e].head) /\ task[e] \in PassTask
ByAsker(o, i) ==
    /\ rows'[i].source \in {"upload", "promoted"} /\ rows'[i].person = task'[o].person
    /\ task[o].pc \in {"idle", "promote"} /\ task'[o].pc = "file"
LEMMA FreshBy ==
    ASSUME PeopleShape, [People!Next]_(People!vars), NEW i \in People!Id, ~Held(i), Held(i)'
    PROVE  \/ \E e \in Pass : ByAsset(e, i) \/ BySeed(e, i)
           \/ \E o \in Asker : ByAsker(o, i)
<1> DEFINE Goal == \/ \E e \in Pass : ByAsset(e, i) \/ BySeed(e, i)
                   \/ \E o \in Asker : ByAsker(o, i)
<1> SUFFICES Goal
  OBVIOUS
<1> RowShape /\ TaskShape
  BY DEF PeopleShape
<1>0. rows' # rows
  BY DEF Held
<1>i. i = next
  BY RowsKeep DEF Stays, Endures, Fresh
<1>r. ASSUME NEW img, People!Inserted(img) PROVE rows'[i] = img
  BY <1>i, <1>r, InsertedNext
<1>1. ASSUME NEW e \in Pass, PassStepOf(e) PROVE Goal
  <2>1. CASE People!AssetInserted(e)
    <3>1. task[e] \in PassTask
      BY <2>1, Standing DEF People!AssetInserted, People!More, People!At, People!Task
    <3>2. rows'[i] = People!AssetRow(e)
      BY <1>r, <2>1 DEF People!AssetInserted
    <3> QED
      BY <2>1, <3>1, <3>2 DEF ByAsset
  <2>2. CASE People!SeedPoster(e)
    <3>1. task[e] \in PassTask
      BY <2>2, Standing DEF People!SeedPoster, People!At, People!Task
    <3>2. rows'[i] = People!EnrichedRow(e, "poster", task[e].head)
      BY <1>r, <2>2 DEF People!SeedPoster
    <3> QED
      BY <2>2, <3>1, <3>2 DEF BySeed
  <2> HIDE DEF Goal
  <2> QED
    BY <1>0, <1>1, <2>1, <2>2 DEF PassStepOf, People!Fetched, People!UpsertEnrichment,
       People!Adopt, People!Reads,
       People!AssetFails, People!AssetRefused, People!Assembled, People!SeedFails, People!store
<1>d. ASSUME NEW j, rows' = [rows EXCEPT ![j] = People!Free] PROVE FALSE
  BY <1>d DEF Held, RowShape
<1>2. ASSUME NEW t \in People!Task, TaskStepOf(t) PROVE Goal
  <2>1. ~People!RemoveProviderAssets(t)
    BY DEF People!RemoveProviderAssets, Held
  <2> HIDE DEF Goal
  <2> QED
    BY <1>0, <1>2, <1>d, <2>1 DEF TaskStepOf, People!Match, People!Detach, People!DeleteProviderAliases,
       People!DeleteEnrichmentByProvider, People!Fails, People!Store, People!StoreFails,
       People!RollsBack, People!DeletePersonImage,
       People!store
<1>3. ASSUME NEW o \in Asker, AskerStepOf(o) PROVE Goal
  <2> o \in People!Task
    BY DEF People!Task
  <2>1. ASSUME NEW p \in Person, NEW role \in People!Role, NEW b \in Picked, NEW overCap \in BOOLEAN,
               People!Upload(o, p, role, b, overCap) PROVE Goal
    <3>1. rows'[i] = People!Uploaded(p, role, b)
      BY <1>r, <2>1 DEF People!Upload
    <3>2. task'[o] = People!Filing(o, p) /\ task[o].pc = "idle"
      BY <2>1 DEF People!Upload, People!Act, TaskShape, People!Idle
    <3> QED
      BY <3>1, <3>2 DEF ByAsker, People!Uploaded, People!Filing
  <2>2. CASE People!Promoted(o)
    <3>1. rows'[i] = [People!Uploaded(task[o].person, task[o].role, task[o].bytes) EXCEPT !.source = "promoted"]
      BY <1>r, <2>2 DEF People!Promoted
    <3>2. task'[o] = People!Filing(o, task[o].person) /\ task[o].pc = "promote"
      BY <2>2 DEF People!Promoted, People!At, TaskShape
    <3> QED
      BY <3>1, <3>2 DEF ByAsker, People!Uploaded, People!Filing
  <2>3. ASSUME NEW j \in People!Id, People!Delete(o, j) PROVE FALSE
    BY <1>d, <2>3 DEF People!Delete, People!DeletePersonImage
  <2> HIDE DEF Goal
  <2> QED
    BY <1>0, <1>3, <2>1, <2>2, <2>3 DEF AskerStepOf, People!Promote, People!PromoteFails,
       People!Clear, People!Unlink, People!Settle, People!store
<1>4. ASSUME NEW o \in Asker, NEW s \in Person, NEW l \in Person, MergeOf(o, s, l) PROVE FALSE
  BY <1>4, MergeRows DEF MergeOf, Held
<1>5. ~People!Boot
  BY BootRows DEF Held
<1> HIDE DEF Goal
<1> QED
  BY <1>0, <1>1, <1>2, <1>3, <1>4, <1>5, StepCases DEF People!vars, People!Crash, People!store

\* Two people who go in one step are one.
LEMMA OneMerge ==
    ASSUME NEW o \in Asker, NEW s \in Person, NEW l \in Person, MergeOf(o, s, l),
           NEW o2 \in Asker, NEW s2 \in Person, NEW l2 \in Person, MergeOf(o2, s2, l2)
    PROVE  l = l2
<1>1. l \in live /\ live' = live \ {l} /\ l2 \in live /\ live' = live \ {l2}
  BY DEF MergeOf, People!Merge
<1> QED
  BY <1>1

\* A photo that a merge brings is one the survivor lacked.
LEMMA Brought ==
    ASSUME PeopleShape, NEW o \in Asker, NEW s \in Person, NEW l \in Person, MergeOf(o, s, l),
           NEW i \in People!Id, Held(i), rows[i].person = l, Held(i)', rows[i].role = "extra",
           NEW j \in People!Id, Held(j), rows[j].person = s, rows[i].hash # People!NoHash
    PROVE  rows[i].hash # rows[j].hash
<1>1. PICK X : Carries(s, l, X)
  BY MergeRows DEF MergeOf
<1>2. i \in X \cup People!CarriedCore(s, l)
  BY <1>1 DEF Carries, People!Of, Held
<1>3. i \in People!Lacking(s, l)
  BY <1>1, <1>2 DEF Carries, People!CarriedCore, People!Core
<1>4. j \in People!Of(s)
  BY DEF People!Of, Held
<1> QED
  BY <1>3, <1>4 DEF People!Lacking

LEMMA NoTwinsNext == PeopleShape /\ People!NoTwins /\ [People!Next]_(People!vars) => People!NoTwins'
<1> SUFFICES ASSUME PeopleShape, People!NoTwins, [People!Next]_(People!vars) PROVE People!NoTwins'
  OBVIOUS
<1> DEFINE Photo(i) == i \in People!Id \ DOMAIN Images /\ Held(i) /\ rows[i].source = "enrichment" /\ rows[i].role = "extra"
<1>0. \A i, j : Photo(i) /\ Photo(j) /\ i # j /\ rows[i].person = rows[j].person => rows[i].hash # rows[j].hash
  BY DEF People!NoTwins, People!Enriched, Held
<1>1. SUFFICES ASSUME NEW i \in People!Id \ DOMAIN Images, NEW j \in People!Id \ DOMAIN Images, i # j, Photo(i)', Photo(j)',
                      rows'[i].person = rows'[j].person
               PROVE  rows'[i].hash # rows'[j].hash
  BY DEF People!NoTwins, People!Enriched, Held
<1>h. ASSUME NEW k \in People!Id \ DOMAIN Images, Photo(k)', ~Fresh(k)
      PROVE  /\ Photo(k) /\ rows'[k].hash = rows[k].hash /\ rows[k].hash # People!NoHash
             /\ \/ rows'[k].person = rows[k].person
                \/ \E o \in Asker, s, l \in Person : MergeOf(o, s, l) /\ rows[k].person = l /\ rows'[k].person = s
  <2>1. Endures(k)
    BY <1>h, RowsKeep DEF Stays
  <2>2. Photo(k) /\ rows[k].hash # People!NoHash
    BY <1>h, <2>1 DEF Endures, PeopleShape, RowShape, RowOK
  <2> QED
    BY <1>h, <2>2, RowsKeep DEF Stays
\* A photo that is new is one of a pass, which looked for its like.
<1>f. ASSUME NEW k \in People!Id \ DOMAIN Images, NEW m \in People!Id \ DOMAIN Images, k # m, Photo(k)', Photo(m)', Fresh(k),
             rows'[k].person = rows'[m].person
      PROVE  rows'[k].hash # rows'[m].hash
  <2>1. Photo(m) /\ rows'[m].hash = rows[m].hash /\ rows'[m].person = rows[m].person
    <3>1. ~Fresh(m)
      BY <1>f DEF Fresh
    <3>2. ~ \E o \in Asker, s, l \in Person : MergeOf(o, s, l)
      BY <1>f DEF Fresh, MergeOf, People!Merge
    <3> QED
      BY <1>f, <1>h, <3>1, <3>2
  <2>2. ~Held(k)
    BY <1>f DEF Fresh
  <2>3. ASSUME NEW e \in Pass, ByAsset(e, k) PROVE rows'[k].hash # rows[m].hash
    <3>1. ~People!Duplicate(rows'[k])
      BY <2>3 DEF ByAsset, People!AssetInserted
    <3>2. m \in People!Of(rows'[k].person)
      BY <1>f, <2>1 DEF People!Of, Held
    <3> QED
      BY <1>f, <3>1, <3>2 DEF People!Duplicate
  <2>4. ASSUME NEW e \in Pass, BySeed(e, k) PROVE FALSE
    BY <1>f, <2>4 DEF BySeed, People!EnrichedRow
  <2>5. ASSUME NEW o \in Asker, ByAsker(o, k) PROVE FALSE
    BY <1>f, <2>5 DEF ByAsker
  <2> HIDE DEF Photo
  <2>6. Held(k)'
    BY <1>f DEF Photo
  <2> QED
    BY <1>f, <2>1, <2>2, <2>3, <2>4, <2>5, <2>6, FreshBy
<1>2. CASE Fresh(i) \/ Fresh(j)
  <2> HIDE DEF Photo
  <2> QED
    BY <1>1, <1>2, <1>f
<1>3. CASE ~Fresh(i) /\ ~Fresh(j)
  <2>1. /\ Photo(i) /\ rows'[i].hash = rows[i].hash /\ rows[i].hash # People!NoHash
        /\ Photo(j) /\ rows'[j].hash = rows[j].hash /\ rows[j].hash # People!NoHash
    BY <1>1, <1>3, <1>h
  <2>m. ASSUME NEW k \in People!Id \ DOMAIN Images, NEW m \in People!Id \ DOMAIN Images, k # m, Photo(k), Photo(m), Photo(k)', Photo(m)',
               rows[k].hash # People!NoHash, rows'[k].person = rows'[m].person,
               NEW o \in Asker, NEW s \in Person, NEW l \in Person, MergeOf(o, s, l), rows[k].person = l, rows'[k].person = s,
               \/ rows'[m].person = rows[m].person
               \/ \E o2 \in Asker, s2, l2 \in Person : MergeOf(o2, s2, l2) /\ rows[m].person = l2 /\ rows'[m].person = s2
        PROVE  rows[k].hash # rows[m].hash
    <3>1. CASE rows'[m].person = rows[m].person
      BY <2>m, <3>1, Brought
    <3>2. CASE \E o2 \in Asker, s2, l2 \in Person : MergeOf(o2, s2, l2) /\ rows[m].person = l2 /\ rows'[m].person = s2
      <4>1. rows[m].person = l
        BY <2>m, <3>2, OneMerge
      <4> QED
        BY <1>0, <2>m, <4>1
    <3> QED
      BY <2>m, <3>1, <3>2
  <2>2. CASE rows'[i].person = rows[i].person /\ rows'[j].person = rows[j].person
    BY <1>0, <1>1, <2>1, <2>2
  <2> HIDE DEF Photo
  <2>3. CASE \E o \in Asker, s, l \in Person : MergeOf(o, s, l) /\ rows[i].person = l /\ rows'[i].person = s
    BY <1>1, <1>3, <1>h, <2>1, <2>3, <2>m
  <2>4. CASE \E o \in Asker, s, l \in Person : MergeOf(o, s, l) /\ rows[j].person = l /\ rows'[j].person = s
    <3>1. rows[j].hash # rows[i].hash
      BY <1>1, <1>3, <1>h, <2>1, <2>4, <2>m
    <3> QED
      BY <2>1, <3>1
  <2> QED
    BY <1>1, <1>3, <1>h, <2>2, <2>3, <2>4
<1> QED
  BY <1>2, <1>3

LEMMA NoTwinsStart == People!Init => People!NoTwins
<1> SUFFICES ASSUME People!Init PROVE People!NoTwins
  OBVIOUS
<1>1. \A i \in People!Id \ DOMAIN Images : rows[i] = People!Free
  BY StartRows
<1> QED
  BY <1>1 DEF People!NoTwins

(***************************************************************************)
(* The gallery's cap: an insertion is refused there, a merge fills up to it. *)
(***************************************************************************)
LEMMA OverGrows == ASSUME [People!Next]_(People!vars) PROVE over \subseteq over'
<1> USE DEF People!store, People!history
<1>1. ASSUME NEW img, People!Inserted(img) PROVE over \subseteq over'
  BY <1>1 DEF People!Inserted
<1>2. ASSUME NEW e \in Pass, PassStepOf(e) PROVE over \subseteq over'
  BY <1>1, <1>2 DEF PassStepOf, People!Fetched, People!UpsertEnrichment, People!Adopt,
     People!Reads, People!AssetInserted,
     People!AssetFails, People!AssetRefused, People!Assembled, People!SeedPoster, People!SeedFails
<1>3. ASSUME NEW t \in People!Task, TaskStepOf(t) PROVE over \subseteq over'
  BY <1>3 DEF TaskStepOf, People!Match, People!Detach, People!DeleteProviderAliases,
     People!RemoveProviderAssets,
     People!DeleteEnrichmentByProvider, People!Fails, People!Store, People!StoreFails
<1>4. ASSUME NEW o \in Asker, AskerStepOf(o) PROVE over \subseteq over'
  BY <1>1, <1>4 DEF AskerStepOf, People!Upload, People!Promoted, People!Promote,
     People!PromoteFails, People!Clear,
     People!Unlink, People!Settle, People!Delete
<1>5. ASSUME NEW o \in Asker, NEW s \in Person, NEW l \in Person, MergeOf(o, s, l) PROVE over \subseteq over'
  BY <1>5 DEF MergeOf, People!Merge
<1>6. CASE People!Crash \/ People!Boot \/ UNCHANGED People!vars
  BY <1>6 DEF People!Crash, People!Boot, People!vars
<1> QED
  BY <1>2, <1>3, <1>4, <1>5, <1>6, StepCases

\* What fits below a cap.
LEMMA RoomBound ==
    ASSUME NEW a \in Nat, NEW b \in Nat, a <= GalleryCap
    PROVE  People!Min({People!Max({0, GalleryCap - a}), b}) + a <= GalleryCap
           /\ People!Min({People!Max({0, GalleryCap - a}), b}) \in Nat
<1> DEFINE n == GalleryCap - a
           m == People!Max({0, n})
           k == People!Min({m, b})
<1>1. n \in Nat
  BY PeopleFacts
<1>2. m \in {0, n} /\ \A z \in {0, n} : z <= m
  BY <1>1 DEF People!Max
<1>3. m = n
  BY <1>1, <1>2
<1>4. {m, b} \in SUBSET Nat /\ {m, b} # {}
  BY <1>1, <1>3
<1>5. k \in {m, b} /\ k <= m
  BY <1>4, LeastOf
<1>6. k \in Nat /\ k <= n
  BY <1>1, <1>3, <1>5
<1> HIDE DEF k
<1>7. k + a <= GalleryCap
  BY <1>6, PeopleFacts
<1> QED
  BY <1>6, <1>7 DEF k

LEMMA Fewer ==
    ASSUME NEW S \in SUBSET People!Id, NEW T \in SUBSET People!Id, T \subseteq S
    PROVE  Cardinality(T) \in Nat /\ Cardinality(S) \in Nat /\ Cardinality(T) <= Cardinality(S)
BY IdsFinite, FS_Subset

LEMMA Joined ==
    ASSUME NEW S \in SUBSET People!Id, NEW T \in SUBSET People!Id
    PROVE  Cardinality(S \cup T) <= Cardinality(S) + Cardinality(T)
<1>1. IsFiniteSet(S) /\ IsFiniteSet(T) /\ IsFiniteSet(S \cap T)
  BY IdsFinite
<1>2. Cardinality(S \cup T) = Cardinality(S) + Cardinality(T) - Cardinality(S \cap T)
  BY <1>1, FS_Union
<1>3. Cardinality(S) \in Nat /\ Cardinality(T) \in Nat /\ Cardinality(S \cap T) \in Nat
  BY <1>1, FS_CardinalityType
<1> QED
  BY <1>2, <1>3

LEMMA GalleryNext == PeopleShape /\ People!GalleryBound /\ [People!Next]_(People!vars) => People!GalleryBound'
<1> SUFFICES ASSUME PeopleShape, People!GalleryBound, [People!Next]_(People!vars), NEW p \in live', p \notin over'
             PROVE  Cardinality(People!InRole(p, "extra")') <= GalleryCap
  BY SameSize DEF People!GalleryBound
<1>0. p \in live /\ p \notin over /\ GalleryCap \in Nat
  BY Grows, OverGrows, PeopleFacts
<1> DEFINE S == People!InRole(p, "extra")
           T == {i \in People!Id : rows'[i] # People!Free /\ rows'[i].person = p /\ rows'[i].role = "extra"}
<1>t. T = People!InRole(p, "extra")'
  BY DEF People!InRole, People!Of
<1>s. S \in SUBSET People!Id /\ T \in SUBSET People!Id /\ Cardinality(S) <= GalleryCap
      /\ S = {i \in People!Id : Held(i) /\ rows[i].person = p /\ rows[i].role = "extra"}
  BY <1>0, SameSize DEF People!GalleryBound, People!InRole, People!Of, Held
<1>1. SUFFICES Cardinality(T) <= GalleryCap
  BY <1>t
<1>k. ASSUME NEW i \in T PROVE \/ i \in S \/ Fresh(i)
                               \/ \E o \in Asker, l \in Person : MergeOf(o, p, l) /\ Held(i) /\ rows[i].person = l /\ rows[i].role = "extra"
  <2>1. Held(i)' /\ rows'[i].person = p /\ rows'[i].role = "extra"
    BY <1>k DEF Held
  <2> QED
    BY <1>s, <1>k, <2>1, RowsKeep DEF Stays, Endures
<1> HIDE DEF T
<1>h. \A i \in T : Held(i)' /\ rows'[i].person = p /\ rows'[i].role = "extra"
  BY DEF T, Held
<1> HIDE DEF S
<1>2. CASE T \subseteq S
  BY <1>0, <1>s, <1>2, Fewer
<1>3. ASSUME NEW i \in T, Fresh(i) PROVE Cardinality(T) <= GalleryCap
  <2>1. People!Inserted(rows'[i]) /\ live' = live
    BY <1>3 DEF Fresh
  <2>2. ~People!Full(rows'[i], FALSE)
    BY <1>3, <1>h, <2>1 DEF People!Inserted
  <2>3. ~(Cardinality(S) >= GalleryCap)
    BY <1>3, <1>h, <2>2, SameSize DEF People!Full, S
  <2>4. T \subseteq S \cup {i}
    <3>1. ASSUME NEW j \in T, Fresh(j) PROVE j = i
      BY <1>3, <3>1 DEF Fresh
    <3>2. ASSUME NEW o \in Asker, NEW l \in Person, MergeOf(o, p, l) PROVE FALSE
      BY <2>1, <3>2 DEF MergeOf, People!Merge
    <3> QED
      BY <1>k, <3>1, <3>2
  <2>5. {i} \in SUBSET People!Id /\ S \cup {i} \in SUBSET People!Id /\ Cardinality({i}) = 1
    BY <1>3, <1>s, FS_Singleton
  <2>6. Cardinality(T) <= Cardinality(S \cup {i}) /\ Cardinality(S \cup {i}) <= Cardinality(S) + 1
    BY <1>s, <2>4, <2>5, Fewer, Joined
  <2>7. Cardinality(S) \in Nat /\ Cardinality(T) \in Nat /\ Cardinality(S \cup {i}) \in Nat
    BY <1>s, <2>5, IdsFinite
  <2> QED
    BY <1>0, <2>3, <2>6, <2>7
<1>4. ASSUME NEW o \in Asker, NEW l \in Person, MergeOf(o, p, l), \A i \in T : ~Fresh(i) PROVE Cardinality(T) <= GalleryCap
  <2> p \in Person
    BY <1>0 DEF PeopleShape, StoreShape
  <2>1. PICK X \in People!CarriedExtras(p, l) : Carries(p, l, X)
    BY <1>4, MergeRows DEF MergeOf
  <2> DEFINE n == People!Min({People!Max({0, GalleryCap - Cardinality(S)}), Cardinality(People!Lacking(p, l))})
  <2>2. Cardinality(X) = n /\ X \subseteq People!Lacking(p, l)
    BY <2>1, SameSize DEF People!CarriedExtras, People!kSubset, People!Room, S
  <2>3. People!Lacking(p, l) \in SUBSET People!Id /\ X \in SUBSET People!Id
    BY <2>2 DEF People!Lacking, People!InRole, People!Of
  <2>4. Cardinality(S) \in Nat /\ Cardinality(People!Lacking(p, l)) \in Nat /\ Cardinality(X) \in Nat /\ Cardinality(T) \in Nat
        /\ Cardinality(S \cup X) \in Nat
    BY <1>s, <2>3, IdsFinite
  <2>5. n + Cardinality(S) <= GalleryCap /\ n \in Nat
    BY <1>s, <2>4, RoomBound
  <2> HIDE DEF n
  <2>6. T \subseteq S \cup X
    <3> SUFFICES ASSUME NEW i \in T, i \notin S PROVE i \in X
      OBVIOUS
    <3>1. PICK v \in Asker, m \in Person : MergeOf(v, p, m) /\ Held(i) /\ rows[i].person = m /\ rows[i].role = "extra"
      BY <1>4, <1>k
    <3>2. m = l
      BY <1>4, <3>1, OneMerge
    <3>3. i \in X \cup People!CarriedCore(p, l)
      BY <1>h, <1>s, <2>1, <3>1, <3>2 DEF Carries, People!Of, Held
    <3> QED
      BY <3>1, <3>3 DEF People!CarriedCore, People!Core
  <2>7. S \cup X \in SUBSET People!Id
    BY <1>s, <2>3
  <2>8. Cardinality(T) <= Cardinality(S \cup X) /\ Cardinality(S \cup X) <= Cardinality(S) + Cardinality(X)
    BY <1>s, <2>3, <2>6, <2>7, Fewer, Joined
  <2> QED
    BY <1>0, <2>2, <2>4, <2>5, <2>8
<1> QED
  BY <1>2, <1>3, <1>4, <1>k

LEMMA GalleryStart == People!Init => People!GalleryBound
<1> SUFFICES ASSUME People!Init, NEW p \in live PROVE People!Cardinality(People!InRole(p, "extra")) <= GalleryCap
  BY DEF People!GalleryBound
<1> DEFINE S == {i \in DOMAIN Images : Images[i].person = p /\ Images[i].role = "extra"}
<1>1. p \in Person
  BY DEF People!Init
<1>2. People!InRole(p, "extra") = S
  BY StartRows, StartFacts DEF People!InRole, People!Of, Held
<1>3. People!Cardinality(S) <= GalleryCap
  BY <1>1, PartsAssumption DEF People!StartAssumption
<1> QED
  BY <1>2, <1>3

(***************************************************************************)
(* Provenance: what a provider's record left of a person.                  *)
(***************************************************************************)
WrittenOf(p, q) == People!Written(p, q)
IdsOf(p, q) == People!OfProvider(q, known[p].ids)
NamesOf(p, q) == People!OfProvider(q, known[p].names)
RecordsOf(p, q) == {rows[i].record : i \in People!Provided(p, q)}
On(t, p, q) == task[t] # People!Idle /\ task[t].person = p /\ task[t].prov = q
Late == {"adopt", "reads", "assets", "file", "seed"}
\* How far a match or a clear is with the old record; the fields, which carry the
\* match, go last.
InTurn(t, p, q) ==
    LET w == task[t] IN
    /\ w.pc = "detach" => w.prev \in WrittenOf(p, q)
    /\ w.pc \in {"names", "images", "fields"} => IdsOf(p, q) = {}
    /\ w.pc \in {"images", "fields"} => NamesOf(p, q) = {}
    /\ w.pc = "fields" => RecordsOf(p, q) = {}
    /\ w.pc = "upsert" => WrittenOf(p, q) \subseteq {w.record}
    /\ w.pc \in Late => w.record \in WrittenOf(p, q)
Sole(p, q) == \A t, u \in People!Task : On(t, p, q) /\ On(u, p, q) => t = u
\* All that is left of a record is of the one whose fields are there.
OfOne(p, q) ==
    /\ \A r, s \in WrittenOf(p, q) : r = s
    /\ IdsOf(p, q) \cup NamesOf(p, q) \cup RecordsOf(p, q) \subseteq WrittenOf(p, q)
Staged(p, q) == \A t \in People!Task : On(t, p, q) => InTurn(t, p, q)
Provenance ==
    \A p \in live, q \in People!Provider :
        <<p, q>> \in muddled \/ (OfOne(p, q) /\ Staged(p, q) /\ Sole(p, q))

LEMMA MuddledGrows == ASSUME [People!Next]_(People!vars) PROVE muddled \subseteq muddled'
<1> USE DEF People!store, People!history
<1>2. ASSUME NEW e \in Pass, PassStepOf(e) PROVE muddled \subseteq muddled'
  BY <1>2 DEF PassStepOf, People!Fetched, People!Muddle, People!UpsertEnrichment, People!Adopt,
     People!Reads, People!AssetInserted,
     People!AssetFails, People!AssetRefused, People!Assembled, People!SeedPoster, People!SeedFails
<1>3. ASSUME NEW t \in People!Task, TaskStepOf(t) PROVE muddled \subseteq muddled'
  BY <1>3 DEF TaskStepOf, People!Match, People!Detach, People!DeleteProviderAliases,
     People!RemoveProviderAssets,
     People!DeleteEnrichmentByProvider, People!Fails, People!Store, People!StoreFails
<1>4. ASSUME NEW o \in Asker, AskerStepOf(o) PROVE muddled \subseteq muddled'
  BY <1>4 DEF AskerStepOf, People!Upload, People!Promoted, People!Promote, People!PromoteFails,
     People!Clear, People!Muddle,
     People!Unlink, People!Settle, People!Delete
<1>5. ASSUME NEW o \in Asker, NEW s \in Person, NEW l \in Person, MergeOf(o, s, l) PROVE muddled \subseteq muddled'
  BY <1>5 DEF MergeOf, People!Merge
<1>6. CASE People!Crash \/ People!Boot \/ UNCHANGED People!vars
  BY <1>6 DEF People!Crash, People!Boot, People!vars
<1> QED
  BY <1>2, <1>3, <1>4, <1>5, <1>6, StepCases

LEMMA ProvidedIs ==
    ASSUME NEW p, NEW q
    PROVE  People!Provided(p, q) = {i \in People!Id : Held(i) /\ rows[i].person = p /\ rows[i].source = "enrichment"
                                                    /\ From[rows[i].record] = q}
BY DEF People!Provided, People!Of, People!Enriched, Held

\* A record that a person's rows come to hold is that of the pass at work.
LEMMA RecordsGrow ==
    ASSUME PeopleShape, [People!Next]_(People!vars), NEW p \in live', NEW q \in People!Provider, <<p, q>> \notin muddled',
           NEW r \in RecordsOf(p, q)', r \notin RecordsOf(p, q)
    PROVE  \E e \in Pass : /\ On(e, p, q) /\ task[e].pc \in {"assets", "seed"} /\ r = task[e].record
                           /\ People!AssetInserted(e) \/ People!SeedPoster(e)
<1>1. PICK i \in People!Id : Held(i)' /\ rows'[i].person = p /\ rows'[i].source = "enrichment" /\ From[rows'[i].record] = q
                      /\ r = rows'[i].record
  <2> DEFINE P == {i \in People!Id : Held(i)' /\ rows'[i].person = p /\ rows'[i].source = "enrichment" /\ From[rows'[i].record] = q}
  <2>1. People!Provided(p, q)' = P
    BY DEF People!Provided, People!Of, People!Enriched, Held
  <2>2. RecordsOf(p, q)' = {rows'[i].record : i \in P}
    BY <2>1 DEF RecordsOf
  <2> QED
    BY <2>2
<1>2. ~(Held(i) /\ rows[i].person = p /\ rows[i].source = "enrichment" /\ rows[i].record = r)
  BY <1>1, ProvidedIs DEF RecordsOf
<1>3. ~(Endures(i) /\ rows'[i].person = rows[i].person)
  BY <1>1, <1>2 DEF Endures
<1>4. ASSUME NEW o \in Asker, NEW s \in Person, NEW l \in Person, MergeOf(o, s, l), rows'[i].person = s PROVE FALSE
  BY <1>1, <1>4 DEF MergeOf, People!Merge
<1>5. Fresh(i)
  BY <1>1, <1>3, <1>4, RowsKeep DEF Stays
<1>6. ASSUME NEW e \in Pass, ByAsset(e, i) \/ BySeed(e, i)
      PROVE  On(e, p, q) /\ task[e].pc \in {"assets", "seed"} /\ r = task[e].record /\ (People!AssetInserted(e) \/ People!SeedPoster(e))
  <2>1. rows'[i].person = task[e].person /\ rows'[i].record = task[e].record /\ task[e].pc \in {"assets", "seed"}
    BY <1>6 DEF ByAsset, BySeed, People!AssetRow, People!EnrichedRow, People!AssetInserted,
       People!More, People!SeedPoster, People!At
  <2>2. From[task[e].record] = task[e].prov /\ task[e] # People!Idle
    BY <2>1, Standing DEF PeopleShape, People!Task, People!Idle
  <2> QED
    BY <1>1, <1>6, <2>1, <2>2 DEF On, ByAsset, BySeed
<1>7. ASSUME NEW o \in Asker, ByAsker(o, i) PROVE FALSE
  BY <1>1, <1>7 DEF ByAsker
<1> QED
  BY <1>1, <1>5, <1>6, <1>7, FreshBy DEF Fresh

\* What a step leaves of the provenance of a person's data from a provider.
Spared(p, q) ==
    /\ WrittenOf(p, q)' = WrittenOf(p, q) /\ IdsOf(p, q)' \subseteq IdsOf(p, q) /\ NamesOf(p, q)' \subseteq NamesOf(p, q)

LEMMA SparedBy ==
    ASSUME PeopleShape, NEW p \in Person, NEW q \in People!Provider, known'[p] = known[p]
    PROVE  Spared(p, q)
BY DEF Spared, WrittenOf, People!Written, IdsOf, NamesOf, People!OfProvider

LEMMA OthersSpare ==
    ASSUME PeopleShape, NEW p \in Person, NEW q \in People!Provider, NEW t \in People!Task, ~On(t, p, q),
           \/ People!Detach(t) \/ People!DeleteProviderAliases(t) \/ People!DeleteEnrichmentByProvider(t)
           \/ t \in Pass /\ (People!UpsertEnrichment(t) \/ People!Adopt(t))
    PROVE  Spared(p, q)
<1> TaskShape /\ known \in [Person -> FactsType]
  BY DEF PeopleShape, StoreShape
<1>i. People!Idle.pc = "idle"
  BY DEF People!Idle
<1> DEFINE v == task[t].person
<1>0. task[t] # People!Idle /\ v \in Person
  <2>1. task[t].pc # "idle"
    BY DEF People!Detach, People!DeleteProviderAliases, People!DeleteEnrichmentByProvider,
       People!UpsertEnrichment, People!Adopt, People!At
  <2> QED
    BY <1>i, <2>1, Standing
<1>1. CASE v # p
  <2>1. known'[p] = known[p]
    BY <1>0, <1>1 DEF People!Detach, People!DeleteProviderAliases,
       People!DeleteEnrichmentByProvider, People!UpsertEnrichment, People!Adopt
  <2> QED
    BY <2>1, SparedBy
<1>2. CASE v = p /\ task[t].prov # q
  <2>f. known[p] \in FactsType
    OBVIOUS
  <2>1. CASE People!Detach(t)
    <3>1. known'[p] = [known[p] EXCEPT !.ids = @ \ {task[t].prev}]
      BY <1>0, <1>2, <2>1 DEF People!Detach
    <3>2. known'[p].fields = known[p].fields /\ known'[p].names = known[p].names /\ known'[p].ids \subseteq known[p].ids
      BY <2>f, <3>1 DEF FactsType
    <3> QED
      BY <3>2 DEF Spared, WrittenOf, People!Written, IdsOf, NamesOf, People!OfProvider
  <2>2. CASE People!DeleteProviderAliases(t)
    <3>1. known'[p] = [known[p] EXCEPT !.names = @ \ People!OfProvider(task[t].prov, @)]
      BY <1>0, <1>2, <2>2 DEF People!DeleteProviderAliases
    <3>2. known'[p].fields = known[p].fields /\ known'[p].ids = known[p].ids /\ known'[p].names \subseteq known[p].names
      BY <2>f, <3>1 DEF FactsType
    <3> QED
      BY <3>2 DEF Spared, WrittenOf, People!Written, IdsOf, NamesOf, People!OfProvider
  <2>3. CASE People!DeleteEnrichmentByProvider(t)
    <3>1. known'[p] = [known[p] EXCEPT !.fields = {f \in @ : From[f[1]] # task[t].prov}]
      BY <1>0, <1>2, <2>3 DEF People!DeleteEnrichmentByProvider
    <3>2. /\ known'[p].ids = known[p].ids /\ known'[p].names = known[p].names
          /\ known'[p].fields = {f \in known[p].fields : From[f[1]] # task[t].prov}
      BY <2>f, <3>1 DEF FactsType
    <3>3. ASSUME NEW s \in Record, From[s] = q, NEW k PROVE <<s, k>> \in known'[p].fields <=> <<s, k>> \in known[p].fields
      BY <1>2, <3>2, <3>3
    <3> QED
      BY <3>2, <3>3 DEF Spared, WrittenOf, People!Written, IdsOf, NamesOf, People!OfProvider
  <2>p. ASSUME t \in Pass PROVE From[task[t].record] = task[t].prov
    BY <1>0, <2>p, Standing
  <2>4. CASE t \in Pass /\ People!UpsertEnrichment(t)
    <3> DEFINE r == task[t].record
               F == {f \in known[p].fields : From[f[1]] # From[r] \/ f[2] \notin Keys[r]} \cup ({r} \X Keys[r])
    <3>1. known'[p] = [known[p] EXCEPT !.fields = F]
      BY <1>0, <1>2, <2>4 DEF People!UpsertEnrichment
    <3> HIDE DEF F
    <3>2. known'[p].ids = known[p].ids /\ known'[p].names = known[p].names /\ known'[p].fields = F
      BY <2>f, <3>1 DEF FactsType
    <3>3. From[r] # q
      BY <1>2, <2>4, <2>p
    <3> HIDE DEF r
    <3>4. ASSUME NEW s \in Record, From[s] = q, NEW k PROVE <<s, k>> \in F <=> <<s, k>> \in known[p].fields
      BY <3>3, <3>4 DEF F
    <3> QED
      BY <3>2, <3>4 DEF Spared, WrittenOf, People!Written, IdsOf, NamesOf, People!OfProvider
  <2>5. CASE t \in Pass /\ People!Adopt(t)
    <3>1. PICK kept \in SUBSET {task[t].record} :
             known' = [known EXCEPT ![v].ids = @ \cup kept, ![v].names = @ \cup kept]
      BY <2>5 DEF People!Adopt
    <3>2. known'[p] = [known[p] EXCEPT !.ids = @ \cup kept, !.names = @ \cup kept]
      BY <1>0, <1>2, <3>1
    <3>3. known'[p].fields = known[p].fields /\ known'[p].ids = known[p].ids \cup kept /\ known'[p].names = known[p].names \cup kept
      BY <2>f, <3>2 DEF FactsType
    <3>4. \A r \in kept : From[r] # q
      BY <1>2, <2>5, <2>p
    <3> QED
      BY <3>3, <3>4 DEF Spared, WrittenOf, People!Written, IdsOf, NamesOf, People!OfProvider
  <2> QED
    BY <2>1, <2>2, <2>3, <2>4, <2>5
<1> QED
  BY <1>0, <1>1, <1>2 DEF On

Matching(t) ==
    \/ People!Match(t) \/ People!Detach(t) \/ People!DeleteProviderAliases(t) \/ People!RemoveProviderAssets(t)
    \/ People!DeleteEnrichmentByProvider(t)
    \/ t \in Pass /\ (People!UpsertEnrichment(t) \/ People!Adopt(t))

\* Where a step of matching or clearing takes its task.
LEMMA MatchingGoes ==
    ASSUME PeopleShape, NEW t \in People!Task, Matching(t)
    PROVE  /\ task[t] # People!Idle
           /\ \/ task'[t] = People!Idle
              \/ /\ task'[t].person = task[t].person /\ task'[t].prov = task[t].prov /\ task'[t].record = task[t].record
                 /\ \/ /\ People!Match(t) /\ task'[t].pc = "detach"
                       /\ task'[t].prev \in WrittenOf(task[t].person, task[t].prov)
                    \/ /\ People!Match(t) /\ task'[t].pc = IF t \in Pass THEN "upsert" ELSE "names"
                       /\ \/ WrittenOf(task[t].person, task[t].prov) = {}
                          \/ task[t].record \in WrittenOf(task[t].person, task[t].prov)
                    \/ People!Detach(t) /\ task'[t].pc = "names"
                    \/ People!DeleteProviderAliases(t) /\ task'[t].pc = "images"
                    \/ People!RemoveProviderAssets(t) /\ task'[t].pc = "fields"
                    \/ People!DeleteEnrichmentByProvider(t) /\ task'[t].pc = "upsert"
                    \/ t \in Pass /\ People!UpsertEnrichment(t) /\ task'[t].pc = "adopt"
                    \/ t \in Pass /\ People!Adopt(t) /\ task'[t].pc = "reads"
<1> TaskShape /\ task = [u \in People!Task |-> task[u]]
  BY DEF PeopleShape, TaskShape
<1>0. /\ task[t].pc \in {"match", "detach", "names", "images", "fields", "upsert", "adopt"}
      /\ task[t].pc \in {"upsert", "adopt"} => t \in Pass
  BY DEF Matching, People!Match, People!Detach, People!DeleteProviderAliases,
     People!RemoveProviderAssets,
     People!DeleteEnrichmentByProvider, People!UpsertEnrichment, People!Adopt, People!At
<1>1. task[t] # People!Idle /\ (task[t] \in PassTask \/ task[t] \in ClearTask)
  BY <1>0, Standing DEF People!Idle, People!Task
<1>g. ASSUME NEW pc, People!Goto(t, pc)
      PROVE  task'[t].pc = pc /\ task'[t].person = task[t].person /\ task'[t].prov = task[t].prov /\ task'[t].record = task[t].record
  <2>1. task'[t] = [task[t] EXCEPT !.pc = pc]
    BY <1>g DEF People!Goto
  <2> QED
    BY <1>1, <2>1 DEF PassTask, ClearTask
<1>2. CASE People!Match(t)
  <2>1. ASSUME NEW r \in WrittenOf(task[t].person, task[t].prov), task' = [task EXCEPT ![t].pc = "detach", ![t].prev = r]
        PROVE  /\ task'[t].pc = "detach" /\ task'[t].prev = r
               /\ task'[t].person = task[t].person /\ task'[t].prov = task[t].prov /\ task'[t].record = task[t].record
    <3>1. task'[t] = [task[t] EXCEPT !.pc = "detach", !.prev = r]
      BY <2>1
    <3> QED
      BY <1>1, <3>1 DEF PassTask, ClearTask
  <2>2. \/ /\ WrittenOf(task[t].person, task[t].prov) = {} \/ task[t].record \in WrittenOf(task[t].person, task[t].prov)
           /\ People!Goto(t, IF t \in Pass THEN "upsert" ELSE "names")
        \/ \E r \in WrittenOf(task[t].person, task[t].prov) : task' = [task EXCEPT ![t].pc = "detach", ![t].prev = r]
    BY <1>2 DEF People!Match, WrittenOf
  <2> QED
    BY <1>1, <1>2, <1>g, <2>1, <2>2
<1>3. CASE People!Detach(t) \/ People!DeleteProviderAliases(t) \/ People!RemoveProviderAssets(t)
  BY <1>1, <1>3, <1>g DEF People!Detach, People!DeleteProviderAliases, People!RemoveProviderAssets
<1>4. CASE People!DeleteEnrichmentByProvider(t)
  BY <1>1, <1>4, <1>g DEF People!DeleteEnrichmentByProvider, People!Done
<1>5. CASE t \in Pass /\ (People!UpsertEnrichment(t) \/ People!Adopt(t))
  BY <1>1, <1>5, <1>g DEF People!UpsertEnrichment, People!Adopt
<1> QED
  BY <1>2, <1>3, <1>4, <1>5 DEF Matching

Onward(t, p, q) ==
    \/ task'[t].pc = "match"
    \/ /\ On(t, p, q) /\ task'[t].record = task[t].record
       /\ \/ task'[t].pc = task[t].pc /\ task'[t].prev = task[t].prev
          \/ task'[t].pc \in Late /\ task[t].pc \in Late

LEMMA Framed ==
    ASSUME NEW p, NEW q, OfOne(p, q), Staged(p, q), Sole(p, q), Spared(p, q),
           \A r \in RecordsOf(p, q)' : \/ r \in RecordsOf(p, q)
                                       \/ \E e \in People!Task : On(e, p, q) /\ task[e].pc \in Late /\ r = task[e].record,
           \A t \in People!Task : On(t, p, q)' => Onward(t, p, q)
    PROVE  OfOne(p, q)' /\ Staged(p, q)'
<1>1. RecordsOf(p, q)' \subseteq WrittenOf(p, q)
  BY DEF OfOne, Staged, InTurn
<1>2. OfOne(p, q)'
  BY <1>1 DEF OfOne, Spared
<1>3. ASSUME NEW t \in People!Task, On(t, p, q)' PROVE InTurn(t, p, q)'
  <2>1. CASE task'[t].pc = "match"
    BY <2>1 DEF InTurn, Late
  <2>2. CASE On(t, p, q) /\ task'[t].record = task[t].record /\ task'[t].pc \in Late /\ task[t].pc \in Late
    BY <2>2 DEF InTurn, Late, Staged, Spared
  <2>3. CASE On(t, p, q) /\ task'[t].record = task[t].record /\ task'[t].pc = task[t].pc /\ task'[t].prev = task[t].prev
    <3>1. InTurn(t, p, q)
      BY <2>3 DEF Staged
    <3>2. task[t].pc = "fields" => RecordsOf(p, q)' = {}
      <4> SUFFICES ASSUME task[t].pc = "fields", NEW r \in RecordsOf(p, q)' PROVE FALSE
        OBVIOUS
      <4>1. RecordsOf(p, q) = {}
        BY <3>1 DEF InTurn
      <4>2. PICK e \in People!Task : On(e, p, q) /\ task[e].pc \in Late
        BY <4>1
      <4> QED
        BY <2>3, <4>2 DEF Sole, Late
    <3> QED
      BY <2>3, <3>1, <3>2 DEF InTurn, Spared, Late
  <2> QED
    BY <1>3, <2>1, <2>2, <2>3 DEF Onward
<1> QED
  BY <1>2, <1>3 DEF Staged

\* A step of matching or clearing leaves the rows alone, but the removal of the images.
LEMMA MatchingRows ==
    ASSUME NEW t \in People!Task, Matching(t), ~People!RemoveProviderAssets(t), NEW p, NEW q
    PROVE  rows' = rows /\ RecordsOf(p, q)' = RecordsOf(p, q)
<1>1. rows' = rows
  BY DEF Matching, People!Match, People!Detach, People!DeleteProviderAliases,
     People!DeleteEnrichmentByProvider,
     People!UpsertEnrichment, People!Adopt, People!store
<1> QED
  BY <1>1 DEF RecordsOf, People!Provided, People!Of, People!Enriched

\* What a task of a person's data from a provider does to it, step by step.
LEMMA OwnMatching ==
    ASSUME PeopleShape, NEW p \in Person, NEW q \in People!Provider, OfOne(p, q), Staged(p, q), Sole(p, q),
           NEW t \in People!Task, Matching(t), On(t, p, q)
    PROVE  OfOne(p, q)' /\ Staged(p, q)' /\ Sole(p, q)'
<1> TaskShape /\ known \in [Person -> FactsType]
  BY DEF PeopleShape, StoreShape
<1> DEFINE w == task[t]
           r == task[t].record
<1>o. \A u \in People!Task \ {t} : task'[u] = task[u]
  <2>1. (t \in Pass /\ PassStepOf(t)) \/ TaskStepOf(t)
    BY DEF Matching, PassStepOf, TaskStepOf
  <2> QED
    BY <2>1, OthersStay
<1>a. \A u \in People!Task : On(u, p, q)' => u = t
  BY <1>o DEF On, Sole
<1>s. Sole(p, q)'
  BY <1>a DEF Sole
<1>f. w.person = p /\ w.prov = q /\ InTurn(t, p, q)
  BY DEF On, Staged
<1>k. known[p] \in FactsType
  OBVIOUS
<1>w. WrittenOf(p, q) \subseteq Record
  BY DEF WrittenOf, People!Written
\* It is enough that the task is where it should be.
<1>q. ASSUME OfOne(p, q)', On(t, p, q)' => InTurn(t, p, q)' PROVE OfOne(p, q)' /\ Staged(p, q)' /\ Sole(p, q)'
  BY <1>a, <1>s, <1>q DEF Staged
<1>g. On(t, p, q)' => task'[t].record = r
  BY MatchingGoes DEF On
<1>1. CASE People!Match(t)
  <2>1. known' = known
    BY <1>1 DEF People!Match, People!store
  <2>1r. RecordsOf(p, q)' = RecordsOf(p, q)
    BY <1>1, MatchingRows DEF Matching, People!Match, People!RemoveProviderAssets, People!At
  <2>2. WrittenOf(p, q)' = WrittenOf(p, q) /\ IdsOf(p, q)' = IdsOf(p, q) /\ NamesOf(p, q)' = NamesOf(p, q)
    BY <2>1 DEF WrittenOf, People!Written, IdsOf, NamesOf, People!OfProvider
  <2>3. OfOne(p, q)'
    BY <2>1r, <2>2 DEF OfOne
  <2>4. \/ task'[t] = People!Idle
        \/ task'[t].pc = "detach" /\ task'[t].prev \in WrittenOf(p, q)
        \/ /\ task'[t].pc = (IF t \in Pass THEN "upsert" ELSE "names")
           /\ WrittenOf(p, q) = {} \/ r \in WrittenOf(p, q)
    <3>1. w.pc = "match"
      BY <1>1 DEF People!Match, People!At
    <3> QED
      BY <1>1, <1>f, <3>1, MatchingGoes DEF People!Detach, People!DeleteProviderAliases,
         People!RemoveProviderAssets,
         People!DeleteEnrichmentByProvider, People!UpsertEnrichment, People!Adopt, People!At
  <2>5. t \notin Pass => r = People!NoRecord
    <3>1. w.pc = "match"
      BY <1>1 DEF People!Match, People!At
    <3> QED
      BY <3>1, Standing DEF People!Task, ClearTask
  <2>6. CASE task'[t].pc = "detach" /\ task'[t].prev \in WrittenOf(p, q)
    <3>1. InTurn(t, p, q)'
      BY <2>2, <2>6 DEF InTurn, Late
    <3> QED
      BY <1>q, <2>3, <3>1
  <2>7. CASE task'[t].pc = "upsert" /\ (WrittenOf(p, q) = {} \/ r \in WrittenOf(p, q))
    <3>1. On(t, p, q)' => InTurn(t, p, q)'
      BY <1>g, <2>2, <2>7 DEF InTurn, Late, OfOne
    <3> QED
      BY <1>q, <2>3, <3>1
  <2>8. CASE task'[t].pc = "names" /\ t \notin Pass /\ (WrittenOf(p, q) = {} \/ r \in WrittenOf(p, q))
    <3>1. WrittenOf(p, q) = {}
      BY <1>w, <2>5, <2>8, PeopleFacts
    <3>2. InTurn(t, p, q)'
      BY <2>2, <2>8, <3>1 DEF InTurn, Late, OfOne
    <3> QED
      BY <1>q, <2>3, <3>2
  <2>9. CASE task'[t] = People!Idle
    <3>1. ~On(t, p, q)'
      BY <2>9 DEF On
    <3> QED
      BY <1>q, <2>3, <3>1
  <2> QED
    BY <2>4, <2>6, <2>7, <2>8, <2>9
<1>2. CASE People!Detach(t)
  <2>0. w.pc = "detach"
    BY <1>2 DEF People!Detach, People!At
  <2>r. RecordsOf(p, q)' = RecordsOf(p, q)
    BY <1>2, <2>0, MatchingRows DEF Matching, People!RemoveProviderAssets, People!At
  <2>1. known'[p] = [known[p] EXCEPT !.ids = @ \ {w.prev}]
    BY <1>2, <1>f DEF People!Detach
  <2>2. known'[p].fields = known[p].fields /\ known'[p].names = known[p].names /\ known'[p].ids = known[p].ids \ {w.prev}
    BY <1>k, <2>1 DEF FactsType
  <2>3. WrittenOf(p, q)' = WrittenOf(p, q) /\ NamesOf(p, q)' = NamesOf(p, q) /\ IdsOf(p, q)' = IdsOf(p, q) \ {w.prev}
    BY <2>2 DEF WrittenOf, People!Written, IdsOf, NamesOf, People!OfProvider
  <2>4. w.prev \in WrittenOf(p, q)
    BY <1>f, <2>0 DEF InTurn
  <2>5. IdsOf(p, q)' = {}
    BY <2>3, <2>4 DEF OfOne
  <2>6. OfOne(p, q)'
    BY <2>3, <2>5, <2>r DEF OfOne
  <2>7. task'[t] = People!Idle \/ task'[t].pc = "names"
    BY <1>2, <2>0, MatchingGoes DEF People!Match, People!DeleteProviderAliases,
       People!RemoveProviderAssets,
         People!DeleteEnrichmentByProvider, People!UpsertEnrichment, People!Adopt, People!At
  <2>8. On(t, p, q)' => InTurn(t, p, q)'
    BY <2>5, <2>7 DEF On, InTurn, Late
  <2> QED
    BY <1>q, <2>6, <2>8
<1>3. CASE People!DeleteProviderAliases(t)
  <2>0. w.pc = "names"
    BY <1>3 DEF People!DeleteProviderAliases, People!At
  <2>r. RecordsOf(p, q)' = RecordsOf(p, q)
    BY <1>3, <2>0, MatchingRows DEF Matching, People!RemoveProviderAssets, People!At
  <2>1. known'[p] = [known[p] EXCEPT !.names = @ \ People!OfProvider(q, @)]
    BY <1>3, <1>f DEF People!DeleteProviderAliases
  <2>2. known'[p].fields = known[p].fields /\ known'[p].ids = known[p].ids
        /\ known'[p].names = known[p].names \ People!OfProvider(q, known[p].names)
    BY <1>k, <2>1 DEF FactsType
  <2>3. WrittenOf(p, q)' = WrittenOf(p, q) /\ IdsOf(p, q)' = IdsOf(p, q) /\ NamesOf(p, q)' = {}
    BY <2>2 DEF WrittenOf, People!Written, IdsOf, NamesOf, People!OfProvider
  <2>4. IdsOf(p, q) = {}
    BY <1>f, <2>0 DEF InTurn
  <2>6. OfOne(p, q)'
    BY <2>3, <2>r DEF OfOne
  <2>7. task'[t] = People!Idle \/ task'[t].pc = "images"
    BY <1>3, <2>0, MatchingGoes DEF People!Match, People!Detach, People!RemoveProviderAssets,
         People!DeleteEnrichmentByProvider, People!UpsertEnrichment, People!Adopt, People!At
  <2>8. On(t, p, q)' => InTurn(t, p, q)'
    BY <2>3, <2>4, <2>7 DEF On, InTurn, Late
  <2> QED
    BY <1>q, <2>6, <2>8
<1>4. CASE People!RemoveProviderAssets(t)
  <2>0. w.pc = "images"
    BY <1>4 DEF People!RemoveProviderAssets, People!At
  <2>1. known' = known
    BY <1>4 DEF People!RemoveProviderAssets
  <2>2. rows' = [i \in People!Id |-> IF i \in People!Provided(p, q) THEN People!Free ELSE rows[i]]
    BY <1>4, <1>f DEF People!RemoveProviderAssets
  <2>3. People!Provided(p, q)' = {}
    BY <2>2 DEF People!Provided, People!Of, People!Enriched
  <2>4. RecordsOf(p, q)' = {}
    BY <2>3 DEF RecordsOf
  <2>5. WrittenOf(p, q)' = WrittenOf(p, q) /\ IdsOf(p, q)' = IdsOf(p, q) /\ NamesOf(p, q)' = NamesOf(p, q)
    BY <2>1 DEF WrittenOf, People!Written, IdsOf, NamesOf, People!OfProvider
  <2>6. OfOne(p, q)'
    BY <2>4, <2>5 DEF OfOne
  <2>7. task'[t] = People!Idle \/ task'[t].pc = "fields"
    BY <1>4, <2>0, MatchingGoes DEF People!Match, People!Detach, People!DeleteProviderAliases,
         People!DeleteEnrichmentByProvider, People!UpsertEnrichment, People!Adopt, People!At
  <2>8. IdsOf(p, q) = {} /\ NamesOf(p, q) = {}
    BY <1>f, <2>0 DEF InTurn
  <2>9. On(t, p, q)' => InTurn(t, p, q)'
    BY <2>4, <2>5, <2>7, <2>8 DEF On, InTurn, Late
  <2> QED
    BY <1>q, <2>6, <2>9
<1>5. CASE People!DeleteEnrichmentByProvider(t)
  <2>0. w.pc = "fields"
    BY <1>5 DEF People!DeleteEnrichmentByProvider, People!At
  <2>r. RecordsOf(p, q)' = RecordsOf(p, q)
    BY <1>5, <2>0, MatchingRows DEF Matching, People!RemoveProviderAssets, People!At
  <2>1. known'[p] = [known[p] EXCEPT !.fields = {f \in @ : From[f[1]] # q}]
    BY <1>5, <1>f DEF People!DeleteEnrichmentByProvider
  <2>2. known'[p].ids = known[p].ids /\ known'[p].names = known[p].names
        /\ known'[p].fields = {f \in known[p].fields : From[f[1]] # q}
    BY <1>k, <2>1 DEF FactsType
  <2>3. IdsOf(p, q)' = IdsOf(p, q) /\ NamesOf(p, q)' = NamesOf(p, q)
    BY <2>2 DEF IdsOf, NamesOf, People!OfProvider
  <2>4. WrittenOf(p, q)' = {}
    BY <2>2 DEF WrittenOf, People!Written
  <2>5. IdsOf(p, q) = {} /\ NamesOf(p, q) = {} /\ RecordsOf(p, q) = {}
    BY <1>f, <2>0 DEF InTurn
  <2>6. OfOne(p, q)'
    BY <2>3, <2>4, <2>5, <2>r DEF OfOne
  <2>7. task'[t] = People!Idle \/ task'[t].pc = "upsert"
    BY <1>5, <2>0, MatchingGoes DEF People!Match, People!Detach, People!DeleteProviderAliases,
         People!RemoveProviderAssets, People!UpsertEnrichment, People!Adopt, People!At
  <2>8. On(t, p, q)' => InTurn(t, p, q)'
    BY <2>4, <2>7 DEF On, InTurn, Late
  <2> QED
    BY <1>q, <2>6, <2>8
<1>6. CASE t \in Pass /\ People!UpsertEnrichment(t)
  <2>0. w.pc = "upsert"
    BY <1>6 DEF People!UpsertEnrichment, People!At
  <2>r. RecordsOf(p, q)' = RecordsOf(p, q)
    BY <1>6, <2>0, MatchingRows DEF Matching, People!RemoveProviderAssets, People!At
  <2> DEFINE F == {f \in known[p].fields : From[f[1]] # From[r] \/ f[2] \notin Keys[r]} \cup ({r} \X Keys[r])
  <2>p. From[r] = q /\ r \in Record
    BY <1>6, <1>f, <2>0, Standing DEF PassTask
  <2>1. known'[p] = [known[p] EXCEPT !.fields = F]
    BY <1>6, <1>f DEF People!UpsertEnrichment
  <2> HIDE DEF F
  <2>2. known'[p].ids = known[p].ids /\ known'[p].names = known[p].names /\ known'[p].fields = F
    BY <1>k, <2>1 DEF FactsType
  <2>3. IdsOf(p, q)' = IdsOf(p, q) /\ NamesOf(p, q)' = NamesOf(p, q)
    BY <2>2 DEF IdsOf, NamesOf, People!OfProvider
  <2>4. WrittenOf(p, q) \subseteq {r}
    BY <1>f, <2>0 DEF InTurn
  <2>5. WrittenOf(p, q)' = {r}
    <3>1. WrittenOf(p, q)' = {v \in Record : From[v] = q /\ \E k \in Keys[v] : <<v, k>> \in F}
      BY <2>2 DEF WrittenOf, People!Written
    <3>2. PICK k \in Keys[r] : TRUE
      BY <2>p, PeopleFacts
    <3>3. r \in WrittenOf(p, q)'
      <4>1. <<r, k>> \in F
        BY <3>2 DEF F
      <4> QED
        BY <2>p, <3>1, <3>2, <4>1
    <3>4. ASSUME NEW v \in WrittenOf(p, q)', v # r PROVE FALSE
      <4>1. v \in Record /\ From[v] = q
        BY <3>1, <3>4
      <4>2. PICK j \in Keys[v] : <<v, j>> \in F
        BY <3>1, <3>4
      <4>3. <<v, j>> \in known[p].fields
        BY <3>4, <4>2 DEF F
      <4>4. v \in WrittenOf(p, q)
        BY <4>1, <4>3 DEF WrittenOf, People!Written
      <4> QED
        BY <2>4, <3>4, <4>4
    <3> QED
      BY <3>3, <3>4
  <2>6. OfOne(p, q)'
    BY <2>3, <2>4, <2>5, <2>r DEF OfOne
  <2>7. task'[t] = People!Idle \/ task'[t].pc = "adopt"
    BY <1>6, <2>0, MatchingGoes DEF People!Match, People!Detach, People!DeleteProviderAliases,
         People!RemoveProviderAssets, People!DeleteEnrichmentByProvider, People!Adopt, People!At
  <2>8. On(t, p, q)' => InTurn(t, p, q)'
    BY <1>g, <2>5, <2>7 DEF On, InTurn, Late
  <2> QED
    BY <1>q, <2>6, <2>8
<1>7. CASE t \in Pass /\ People!Adopt(t)
  <2>0. w.pc = "adopt"
    BY <1>7 DEF People!Adopt, People!At
  <2>r. RecordsOf(p, q)' = RecordsOf(p, q)
    BY <1>7, <2>0, MatchingRows DEF Matching, People!RemoveProviderAssets, People!At
  <2>1. PICK kept \in SUBSET {r} : known' = [known EXCEPT ![p].ids = @ \cup kept, ![p].names = @ \cup kept]
    BY <1>7, <1>f DEF People!Adopt
  <2>2. known'[p] = [known[p] EXCEPT !.ids = @ \cup kept, !.names = @ \cup kept]
    BY <2>1
  <2>3. known'[p].fields = known[p].fields /\ known'[p].ids = known[p].ids \cup kept /\ known'[p].names = known[p].names \cup kept
    BY <1>k, <2>2 DEF FactsType
  <2>4. r \in WrittenOf(p, q)
    BY <1>f, <2>0 DEF InTurn, Late
  <2>5. WrittenOf(p, q)' = WrittenOf(p, q) /\ IdsOf(p, q)' \subseteq IdsOf(p, q) \cup kept /\ NamesOf(p, q)' \subseteq NamesOf(p, q) \cup kept
    BY <2>3 DEF WrittenOf, People!Written, IdsOf, NamesOf, People!OfProvider
  <2>6. OfOne(p, q)'
    BY <2>1, <2>4, <2>5, <2>r DEF OfOne
  <2>7. task'[t] = People!Idle \/ task'[t].pc = "reads"
    BY <1>7, <2>0, MatchingGoes DEF People!Match, People!Detach, People!DeleteProviderAliases,
         People!RemoveProviderAssets, People!DeleteEnrichmentByProvider, People!UpsertEnrichment,
         People!At
  <2>8. On(t, p, q)' => InTurn(t, p, q)'
    BY <1>g, <2>4, <2>5, <2>7 DEF On, InTurn, Late
  <2> QED
    BY <1>q, <2>6, <2>8
<1> QED
  BY <1>1, <1>2, <1>3, <1>4, <1>5, <1>6, <1>7 DEF Matching

LEMMA Carried ==
    ASSUME PeopleShape, [People!Next]_(People!vars), NEW p \in live', NEW q \in People!Provider, <<p, q>> \notin muddled',
           OfOne(p, q), Staged(p, q), Sole(p, q), Spared(p, q),
           \A u \in People!Task : On(u, p, q)' => Onward(u, p, q)
    PROVE  OfOne(p, q)' /\ Staged(p, q)'
<1>1. \A r \in RecordsOf(p, q)' : \/ r \in RecordsOf(p, q)
                                 \/ \E e \in People!Task : On(e, p, q) /\ task[e].pc \in Late /\ r = task[e].record
  BY RecordsGrow DEF Late, People!Task
<1> QED
  BY <1>1, Framed

LEMMA SoleStays ==
    ASSUME NEW p, NEW q, Sole(p, q), \A u \in People!Task : On(u, p, q)' => On(u, p, q)
    PROVE  Sole(p, q)'
BY DEF Sole

\* One task's step, where it stays at work on the same, or leaves.
LEMMA OneStep ==
    ASSUME PeopleShape, [People!Next]_(People!vars), NEW p \in live', p \in Person, NEW q \in People!Provider, <<p, q>> \notin muddled',
           OfOne(p, q), Staged(p, q), Sole(p, q), Spared(p, q), NEW t \in People!Task,
           \A u \in People!Task \ {t} : task'[u] = task[u],
           On(t, p, q)' => On(t, p, q) /\ Onward(t, p, q)
    PROVE  OfOne(p, q)' /\ Staged(p, q)' /\ Sole(p, q)'
<1>1. \A u \in People!Task : On(u, p, q)' => On(u, p, q) /\ Onward(u, p, q)
  BY DEF On, Onward
<1> QED
  BY <1>1, Carried, SoleStays

LEMMA NewComer ==
    ASSUME PeopleShape, [People!Next]_(People!vars), NEW p \in live', p \in Person, NEW q \in People!Provider, <<p, q>> \notin muddled',
           OfOne(p, q), Staged(p, q), Sole(p, q), Spared(p, q), NEW t \in People!Task,
           \A u \in People!Task \ {t} : task'[u] = task[u],
           NEW v \in Person, NEW z \in People!Provider, People!Muddle(t, v, z),
           task'[t].pc = "match", task'[t].person = v, task'[t].prov = z
    PROVE  OfOne(p, q)' /\ Staged(p, q)' /\ Sole(p, q)'
<1>1. OfOne(p, q)' /\ Staged(p, q)'
  <2>1. \A u \in People!Task : On(u, p, q)' => Onward(u, p, q)
    BY DEF On, Onward
  <2> QED
    BY <2>1, Carried
<1>2. Sole(p, q)'
  <2> SUFFICES ASSUME NEW a \in People!Task, NEW b \in People!Task, On(a, p, q)', On(b, p, q)' PROVE a = b
    BY DEF Sole
  <2>1. ASSUME NEW c \in People!Task \ {t}, On(c, p, q)', On(t, p, q)' PROVE FALSE
    <3>1. v = p /\ z = q
      BY <2>1 DEF On
    <3>2. task[c] # People!Idle /\ task[c].person = p /\ task[c].prov = q
      BY <2>1 DEF On
    <3> QED
      BY <3>1, <3>2 DEF People!Muddle
  <2>2. CASE a = t \/ b = t
    BY <2>1, <2>2
  <2>3. CASE a # t /\ b # t
    BY <2>3 DEF On, Sole
  <2> QED
    BY <2>2, <2>3
<1> QED
  BY <1>1, <1>2

LEMMA PassProvenance ==
    ASSUME PeopleShape, [People!Next]_(People!vars), NEW p \in live', p \in Person, NEW q \in People!Provider, <<p, q>> \notin muddled',
           OfOne(p, q), Staged(p, q), Sole(p, q), NEW e \in Pass, PassStepOf(e), ~Matching(e)
    PROVE  OfOne(p, q)' /\ Staged(p, q)' /\ Sole(p, q)'
<1> e \in People!Task /\ TaskShape
  BY DEF People!Task, PeopleShape
<1>o. \A u \in People!Task \ {e} : task'[u] = task[u]
  BY OthersStay
<1>k. Spared(p, q)
  <2>1. known' = known
    BY DEF Matching, PassStepOf, People!store, People!Fetched, People!Reads, People!AssetFails,
       People!AssetRefused, People!AssetInserted,
       People!Assembled, People!SeedPoster, People!SeedFails
  <2> QED
    BY <2>1, SparedBy
<1>1. ASSUME NEW v \in Person, NEW r \in Record, People!Fetched(e, v, r) PROVE OfOne(p, q)' /\ Staged(p, q)' /\ Sole(p, q)'
  <2>1. task'[e].pc = "match" /\ task'[e].person = v /\ task'[e].prov = From[r] /\ People!Muddle(e, v, From[r])
    BY <1>1 DEF People!Fetched, TaskShape
  <2>2. From[r] \in People!Provider
    BY DEF People!Provider
  <2> QED
    BY <1>k, <1>o, <2>1, <2>2, NewComer
<1>2. CASE ~\E v \in Person, r \in Record : People!Fetched(e, v, r)
  <2>0. PassTo(e)
    BY PassGoesTo
  <2>1. /\ task[e].pc \in {"reads", "assets", "seed"}
        /\ task[e].pc = "reads" => task'[e].pc = "assets"
    <3>1. CASE People!Reads(e)
      <4>1. task[e].pc = "reads" /\ task[e] \in PassTask
        BY <3>1, Standing DEF People!Reads, People!At
      <4>2. PICK fail \in BOOLEAN :
          task' = [task EXCEPT ![e].pc = "assets", ![e].since = next, ![e].knew = gone[task[e].person],
             ![e].skip = IF fail THEN {} ELSE suppressed[task[e].person],
             ![e].locked = IF fail THEN {} ELSE People!LockedCoreRoles(task[e].person),
             ![e].have = IF fail THEN {} ELSE People!ExistingURLs(task[e].person),
             ![e].blind = @ \/ fail]
        BY <3>1, Zenon DEF People!Reads
      <4>3. task'[e] = [task[e] EXCEPT !.pc = "assets", !.since = next, !.knew = gone[task[e].person],
             !.skip = IF fail THEN {} ELSE suppressed[task[e].person],
             !.locked = IF fail THEN {} ELSE People!LockedCoreRoles(task[e].person),
             !.have = IF fail THEN {} ELSE People!ExistingURLs(task[e].person),
             !.blind = @ \/ fail]
        BY <4>2 DEF TaskShape
      <4> QED
        BY <4>1, <4>3 DEF PassTask
    <3>2. CASE ~People!Reads(e)
      BY <1>2, <3>2 DEF PassStepOf, Matching, People!AssetFails, People!AssetRefused,
         People!AssetInserted, People!More,
         People!Assembled, People!SeedPoster, People!SeedFails, People!At
    <3> QED
      BY <3>1, <3>2
  <2>2. On(e, p, q)' => On(e, p, q) /\ Onward(e, p, q)
    <3>1. task[e] # People!Idle
      BY <2>1 DEF People!Idle
    <3> QED
      BY <2>0, <2>1, <3>1 DEF PassTo, Same, On, Onward, Late, Early
  <2> QED
    BY <1>k, <1>o, <2>2, OneStep
<1> QED
  BY <1>1, <1>2

LEMMA TaskProvenance ==
    ASSUME PeopleShape, [People!Next]_(People!vars), NEW p \in live', p \in Person, NEW q \in People!Provider, <<p, q>> \notin muddled',
           OfOne(p, q), Staged(p, q), Sole(p, q), NEW t \in People!Task, TaskStepOf(t), ~Matching(t)
    PROVE  OfOne(p, q)' /\ Staged(p, q)' /\ Sole(p, q)'
<1> TaskShape
  BY DEF PeopleShape
<1>o. \A u \in People!Task \ {t} : task'[u] = task[u]
  BY OthersStay
<1>0. People!Fails(t) \/ People!Store(t) \/ People!StoreFails(t)
  BY DEF TaskStepOf, Matching
<1>k. Spared(p, q)
  <2>1. known' = known
    BY <1>0 DEF People!store, People!Fails, People!Store, People!StoreFails
  <2> QED
    BY <2>1, SparedBy
<1>d. People!Done(t) => ~On(t, p, q)'
  BY DEF People!Done, On, TaskShape
<1>1. CASE People!Fails(t) \/ t \in Asker
  <2>1. People!Done(t)
    BY <1>0, <1>1 DEF People!Fails, People!Store, People!StoreFails, People!Filed, People!At
  <2> QED
    BY <1>d, <1>k, <1>o, <2>1, OneStep
<1>2. CASE (People!Store(t) \/ People!StoreFails(t)) /\ t \in Pass
  <2>1. PassTo(t) /\ task[t].pc = "file"
    BY <1>2, TaskGoesTo DEF People!Store, People!StoreFails, People!At
  <2>2. On(t, p, q)' => On(t, p, q) /\ Onward(t, p, q)
    BY <2>1 DEF PassTo, Same, On, Onward, Late, Early, People!Idle
  <2> QED
    BY <1>k, <1>o, <2>2, OneStep
<1> QED
  BY <1>0, <1>1, <1>2 DEF People!Task

LEMMA AskerProvenance ==
    ASSUME PeopleShape, [People!Next]_(People!vars), NEW p \in live', p \in Person, NEW q \in People!Provider, <<p, q>> \notin muddled',
           OfOne(p, q), Staged(p, q), Sole(p, q), NEW o \in Asker, AskerStepOf(o)
    PROVE  OfOne(p, q)' /\ Staged(p, q)' /\ Sole(p, q)'
<1> o \in People!Task /\ TaskShape
  BY DEF People!Task, PeopleShape
<1>o. \A u \in People!Task \ {o} : task'[u] = task[u]
  BY OthersStay
<1>k. Spared(p, q)
  <2>1. known' = known
    BY DEF AskerStepOf, People!store, People!Upload, People!Delete, People!Promote,
       People!Promoted, People!PromoteFails,
       People!Unlink, People!Clear, People!Settle
  <2> QED
    BY <2>1, SparedBy
<1>1. ASSUME NEW v \in Person, NEW z \in People!Provider, People!Clear(o, v, z) PROVE OfOne(p, q)' /\ Staged(p, q)' /\ Sole(p, q)'
  <2>1. task'[o].pc = "match" /\ task'[o].person = v /\ task'[o].prov = z /\ People!Muddle(o, v, z)
    BY <1>1 DEF People!Clear, TaskShape
  <2> QED
    BY <1>k, <1>o, <2>1, NewComer
<1>2. CASE ~\E v \in Person, z \in People!Provider : People!Clear(o, v, z)
  <2>1. task'[o] = People!Idle \/ task'[o].prov = People!NoProvider
    <3>1. ASSUME People!Done(o) PROVE task'[o] = People!Idle
      BY <3>1 DEF People!Done, TaskShape
    <3>2. ASSUME NEW v \in Person, NEW role \in People!Role, NEW b \in Picked, NEW overCap \in BOOLEAN,
                 People!Upload(o, v, role, b, overCap) PROVE task'[o].prov = People!NoProvider
      BY <3>2 DEF People!Upload, People!Filing, TaskShape
    <3>3. ASSUME NEW i \in People!Id, People!Delete(o, i) PROVE task'[o].prov = People!NoProvider
      BY <3>3 DEF People!Delete, TaskShape
    <3>4. ASSUME NEW i \in People!Id, NEW role \in People!Core, People!Promote(o, i, role) PROVE task'[o].prov = People!NoProvider
      BY <3>4 DEF People!Promote, TaskShape
    <3>5. People!Promoted(o) => task'[o].prov = People!NoProvider
      BY DEF People!Promoted, People!Filing, TaskShape
    <3>6. People!PromoteFails(o) \/ People!Unlink(o) \/ People!Settle(o) => People!Done(o)
      BY DEF People!PromoteFails, People!Unlink, People!Settle
    <3> QED
      BY <1>2, <3>1, <3>2, <3>3, <3>4, <3>5, <3>6, Zenon DEF AskerStepOf
  <2>2. ~On(o, p, q)'
    BY <2>1, PeopleFacts DEF On
  <2> QED
    BY <1>k, <1>o, <2>2, OneStep
<1> QED
  BY <1>1, <1>2

LEMMA MergeProvenance ==
    ASSUME PeopleShape, [People!Next]_(People!vars), NEW p \in live', p \in Person, NEW q \in People!Provider, <<p, q>> \notin muddled',
           OfOne(p, q), Staged(p, q), Sole(p, q), NEW o \in Asker, NEW s \in Person, NEW l \in Person, MergeOf(o, s, l)
    PROVE  OfOne(p, q)' /\ Staged(p, q)' /\ Sole(p, q)'
<1> o \in People!Task /\ TaskShape /\ known \in [Person -> FactsType]
  BY DEF People!Task, PeopleShape, StoreShape
<1>1. p # s /\ p # l
  BY DEF MergeOf, People!Merge
<1>2. known'[p] = known[p]
  <2>1. PICK dismissed \in SUBSET People!Provider : known' = People!CarriedKnown(s, l, dismissed)
    BY DEF MergeOf, People!Merge
  <2> QED
    BY <1>1, <2>1 DEF People!CarriedKnown
<1>3. Spared(p, q)
  BY <1>2, SparedBy
<1>4. \A u \in People!Task : On(u, p, q)' => On(u, p, q) /\ Onward(u, p, q)
  <2> SUFFICES ASSUME NEW u \in People!Task, On(u, p, q)' PROVE On(u, p, q) /\ Onward(u, p, q)
    OBVIOUS
  <2>1. CASE task'[u] = task[u]
    BY <2>1 DEF On, Onward
  <2>2. CASE u = o
    <3>1. task'[o] = [pc |-> "settle", person |-> s, prov |-> People!NoProvider, loser |-> l]
      BY MergeSteps DEF MergeOf
    <3> QED
      BY <2>2, <3>1, PeopleFacts DEF On
  <2>3. CASE u \in Pass
    <3>1. task'[u] = task[u] \/ (task[u] # People!Idle /\ task'[u] = [task[u] EXCEPT !.blind = TRUE])
      BY <2>3, MergeSteps DEF MergeOf
    <3>2. CASE task[u] # People!Idle /\ task'[u] = [task[u] EXCEPT !.blind = TRUE]
      <4>1. task[u] \in PassTask
        BY <2>3, <3>2, Standing
      <4>2. /\ task'[u].person = task[u].person /\ task'[u].prov = task[u].prov /\ task'[u].pc = task[u].pc
            /\ task'[u].prev = task[u].prev /\ task'[u].record = task[u].record
        BY <3>2, <4>1 DEF PassTask
      <4> QED
        BY <3>2, <4>2 DEF On, Onward
    <3> QED
      BY <2>1, <3>1, <3>2
  <2>4. CASE u \in Asker \ {o}
    <3>1. task'[u] = task[u]
      BY <2>4, MergeSteps DEF MergeOf
    <3> QED
      BY <2>1, <3>1
  <2> QED
    BY <2>2, <2>3, <2>4 DEF People!Task
<1> QED
  BY <1>3, <1>4, Carried, SoleStays

LEMMA LiveShrinks == ASSUME [People!Next]_(People!vars) PROVE live' \subseteq live
<1> USE DEF People!store, People!history
<1>2. ASSUME NEW e \in Pass, PassStepOf(e) PROVE live' \subseteq live
  BY <1>2 DEF PassStepOf, People!Fetched, People!UpsertEnrichment, People!Adopt, People!Reads,
     People!AssetInserted,
     People!AssetFails, People!AssetRefused, People!Assembled, People!SeedPoster, People!SeedFails
<1>3. ASSUME NEW t \in People!Task, TaskStepOf(t) PROVE live' \subseteq live
  BY <1>3 DEF TaskStepOf, People!Match, People!Detach, People!DeleteProviderAliases,
     People!RemoveProviderAssets,
     People!DeleteEnrichmentByProvider, People!Fails, People!Store, People!StoreFails
<1>4. ASSUME NEW o \in Asker, AskerStepOf(o) PROVE live' \subseteq live
  BY <1>4 DEF AskerStepOf, People!Upload, People!Promoted, People!Promote, People!PromoteFails,
     People!Clear,
     People!Unlink, People!Settle, People!Delete
<1>5. ASSUME NEW o \in Asker, NEW s \in Person, NEW l \in Person, MergeOf(o, s, l) PROVE live' \subseteq live
  BY <1>5 DEF MergeOf, People!Merge
<1>6. CASE People!Crash \/ People!Boot \/ UNCHANGED People!vars
  BY <1>6 DEF People!Crash, People!Boot, People!vars
<1> QED
  BY <1>2, <1>3, <1>4, <1>5, <1>6, StepCases

LEMMA ProvenanceNext == PeopleShape /\ Provenance /\ [People!Next]_(People!vars) => Provenance'
<1> SUFFICES ASSUME PeopleShape, Provenance, [People!Next]_(People!vars),
                    NEW p \in live', NEW q \in People!Provider, <<p, q>> \notin muddled'
             PROVE  OfOne(p, q)' /\ Staged(p, q)' /\ Sole(p, q)'
  BY DEF Provenance
<1> DEFINE Goal == OfOne(p, q)' /\ Staged(p, q)' /\ Sole(p, q)'
<1>0. p \in live /\ p \in Person /\ <<p, q>> \notin muddled
  BY LiveShrinks, MuddledGrows DEF PeopleShape, StoreShape
<1>i. OfOne(p, q) /\ Staged(p, q) /\ Sole(p, q)
  BY <1>0 DEF Provenance
<1>q. ASSUME known' = known, \A u \in People!Task : task'[u] = task[u] \/ task'[u] = People!Idle PROVE Goal
  <2>1. Spared(p, q)
    BY <1>0, <1>q, SparedBy
  <2>2. \A u \in People!Task : On(u, p, q)' => On(u, p, q) /\ Onward(u, p, q)
    BY <1>q DEF On, Onward
  <2> QED
    BY <1>i, <2>1, <2>2, Carried, SoleStays
<1>1. ASSUME NEW t \in People!Task, Matching(t) PROVE Goal
  <2>1. CASE On(t, p, q)
    BY <1>0, <1>1, <1>i, <2>1, OwnMatching
  <2>2. CASE ~On(t, p, q)
    <3>1. Spared(p, q)
      <4>1. CASE People!Match(t) \/ People!RemoveProviderAssets(t)
        <5>1. known' = known
          BY <4>1 DEF People!Match, People!RemoveProviderAssets, People!store
        <5> QED
          BY <1>0, <5>1, SparedBy
      <4> QED
        BY <1>0, <1>1, <2>2, <4>1, OthersSpare DEF Matching
    <3>2. \A u \in People!Task \ {t} : task'[u] = task[u]
      <4>1. (t \in Pass /\ PassStepOf(t)) \/ TaskStepOf(t)
        BY <1>1 DEF Matching, PassStepOf, TaskStepOf
      <4> QED
        BY <4>1, OthersStay
    <3>3. ~On(t, p, q)'
      BY <1>1, <2>2, MatchingGoes DEF On
    <3> HIDE DEF Goal
    <3>4. OfOne(p, q)' /\ Staged(p, q)' /\ Sole(p, q)'
      BY <1>0, <1>i, <3>1, <3>2, <3>3, OneStep
    <3> QED
      BY <3>4 DEF Goal
  <2> QED
    BY <2>1, <2>2
<1>2. ASSUME NEW e \in Pass, PassStepOf(e) PROVE Goal
  BY <1>0, <1>1, <1>2, <1>i, PassProvenance DEF People!Task
<1>3. ASSUME NEW t \in People!Task, TaskStepOf(t) PROVE Goal
  BY <1>0, <1>1, <1>3, <1>i, TaskProvenance
<1>4. ASSUME NEW o \in Asker, AskerStepOf(o) PROVE Goal
  BY <1>0, <1>4, <1>i, AskerProvenance
<1>5. ASSUME NEW o \in Asker, NEW s \in Person, NEW l \in Person, MergeOf(o, s, l) PROVE Goal
  BY <1>0, <1>5, <1>i, MergeProvenance
<1>6. ASSUME People!Crash \/ People!Boot \/ UNCHANGED People!vars PROVE Goal
  <2>1. known' = known /\ \A u \in People!Task : task'[u] = task[u] \/ task'[u] = People!Idle
    BY <1>6 DEF People!Crash, People!Boot, People!vars, People!store
  <2> HIDE DEF Goal
  <2> QED
    BY <1>q, <2>1
<1> HIDE DEF Goal
<1>7. Goal
  BY <1>2, <1>3, <1>4, <1>5, <1>6, StepCases
<1> QED
  BY <1>7 DEF Goal

FromOf(p) == {Images[i].record : i \in {j \in DOMAIN Images : Images[j].person = p /\ Images[j].source = "enrichment"}}

LEMMA ProvenanceStart == People!Init => Provenance
<1> SUFFICES ASSUME People!Init, NEW p \in Person, NEW q \in People!Provider
             PROVE  OfOne(p, q) /\ Staged(p, q) /\ Sole(p, q)
  BY DEF People!Init, Provenance
<1>1. Staged(p, q) /\ Sole(p, q)
  <2>1. \A t \in People!Task : task[t] = People!Idle
    BY DEF People!Init
  <2> QED
    BY <2>1 DEF Staged, Sole, On
<1> DEFINE F == FromOf(p)
<1>2. /\ known[p].ids = F /\ known[p].names = F
      /\ known[p].fields = {f \in F \X UNION {Keys[r] : r \in F} : f[2] \in Keys[f[1]]}
  BY DEF People!Init, FromOf
<1>3. F \subseteq Record
  BY StartFacts DEF FromOf
<1>4. ASSUME NEW r \in F, NEW s \in F, From[r] = From[s] PROVE r = s
  <2>1. PICK i \in DOMAIN Images : Images[i].person = p /\ Images[i].source = "enrichment" /\ Images[i].record = r
    BY DEF FromOf
  <2>2. PICK j \in DOMAIN Images : Images[j].person = p /\ Images[j].source = "enrichment" /\ Images[j].record = s
    BY DEF FromOf
  <2> QED
    BY <1>4, <2>1, <2>2, StartFacts
<1>5. WrittenOf(p, q) = {r \in F : From[r] = q}
  <2>1. ASSUME NEW r \in WrittenOf(p, q) PROVE r \in F /\ From[r] = q
    BY <1>2, <2>1 DEF WrittenOf, People!Written
  <2>2. ASSUME NEW r \in F, From[r] = q PROVE r \in WrittenOf(p, q)
    <3>1. PICK k \in Keys[r] : TRUE
      BY <1>3, PeopleFacts
    <3>2. <<r, k>> \in known[p].fields
      BY <1>2, <3>1
    <3> QED
      BY <1>3, <2>2, <3>1, <3>2 DEF WrittenOf, People!Written
  <2> QED
    BY <2>1, <2>2
<1>6. IdsOf(p, q) \cup NamesOf(p, q) \subseteq WrittenOf(p, q)
  BY <1>2, <1>5 DEF IdsOf, NamesOf, People!OfProvider
<1>7. RecordsOf(p, q) \subseteq WrittenOf(p, q)
  <2> SUFFICES ASSUME NEW i \in People!Id, Held(i), rows[i].person = p, rows[i].source = "enrichment", From[rows[i].record] = q
               PROVE  rows[i].record \in WrittenOf(p, q)
    BY ProvidedIs DEF RecordsOf
  <2>1. i \in DOMAIN Images /\ rows[i] = Images[i]
    BY StartRows
  <2> QED
    BY <1>5, <2>1 DEF FromOf
<1>8. OfOne(p, q)
  BY <1>4, <1>5, <1>6, <1>7 DEF OfOne
<1> QED
  BY <1>1, <1>8

LEMMA OneRecordHolds == PeopleShape /\ Provenance => People!OneRecord
<1> SUFFICES ASSUME PeopleShape, Provenance, NEW p \in live, NEW q \in People!Provider, <<p, q>> \notin muddled
             PROVE  People!Cardinality(People!Written(p, q) \cup People!OfProvider(q, known[p].ids \cup known[p].names)
                        \cup People!OfProvider(q, {rows[i].record : i \in {j \in People!Of(p) : People!Enriched(j)}})) <= 1
  BY DEF People!OneRecord
<1> DEFINE S == People!Written(p, q) \cup People!OfProvider(q, known[p].ids \cup known[p].names)
                        \cup People!OfProvider(q, {rows[i].record : i \in {j \in People!Of(p) : People!Enriched(j)}})
<1>1. OfOne(p, q)
  BY DEF Provenance
<1>2. S \subseteq WrittenOf(p, q)
  <2>1. People!OfProvider(q, known[p].ids \cup known[p].names) \subseteq WrittenOf(p, q)
    BY <1>1 DEF OfOne, IdsOf, NamesOf, People!OfProvider
  <2>2. People!OfProvider(q, {rows[i].record : i \in {j \in People!Of(p) : People!Enriched(j)}}) \subseteq RecordsOf(p, q)
    BY DEF RecordsOf, People!Provided, People!OfProvider
  <2> QED
    BY <1>1, <2>1, <2>2 DEF OfOne, WrittenOf
<1>3. \A r, s \in S : r = s
  BY <1>1, <1>2 DEF OfOne
<1> HIDE DEF S
<1>4. CASE S = {}
  <2>1. Cardinality(S) = 0
    BY <1>4, FS_EmptySet
  <2>2. People!Cardinality(S) = Cardinality(S)
    BY SameSize
  <2> QED
    BY <2>1, <2>2 DEF S
<1>5. CASE S # {}
  <2>0. PICK r \in S : TRUE
    BY <1>5
  <2>1. S = {r}
    BY <1>3, <2>0
  <2>2. Cardinality(S) = 1
    BY <2>1, FS_Singleton
  <2>3. People!Cardinality(S) = Cardinality(S)
    BY SameSize
  <2> QED
    BY <2>2, <2>3 DEF S
<1> QED
  BY <1>4, <1>5

(***************************************************************************)
(* What a pass that could look knows of the owner's choices.               *)
(***************************************************************************)
Knowing == {"assets", "file", "seed"}
OwnerMade(i) == rows[i].source \in {"upload", "promoted"}
\* What the owner put in a slot before the pass looked, and is there still, it knows of.
Slots(w) == \A i \in People!Id :
    Held(i) /\ OwnerMade(i) /\ rows[i].person = w.person /\ rows[i].role \in People!Core /\ i < w.since
        => rows[i].role \in w.locked
Locks ==
    \A e \in Pass :
        LET w == task[e] IN
        w.pc \in Knowing /\ ~w.blind =>
            /\ w.knew \subseteq w.skip /\ Slots(w)
            /\ w.pc = "seed" => "poster" \notin w.locked
            /\ w.pc = "file" => w.id >= w.since

LEMMA LocksStart == People!Init => Locks
BY DEF People!Init, Locks, Knowing, People!Idle, People!Task

\* A pass that knows knew before, or looks in this step.
Knew(e) ==
    /\ Same(task[e], task'[e]) /\ task[e].pc \in Knowing
    /\ task'[e].pc = "seed" => task[e].pc = "seed" \/ "poster" \notin task'[e].locked
    /\ task'[e].pc = "file" => \/ task[e].pc = "file" /\ task'[e].id = task[e].id
                               \/ task'[e].id = next
Looks(e) ==
    /\ task'[e].pc = "assets" /\ task'[e].since = next /\ task'[e].person = task[e].person
    /\ task'[e].skip = suppressed[task[e].person] /\ task'[e].knew = gone[task[e].person]
    /\ task'[e].locked = People!LockedCoreRoles(task[e].person) /\ task[e].person \in Person

\* A merge leaves a pass that works on neither person as it is, and blinds the others.
LEMMA MergeBlinds ==
    ASSUME PeopleShape, NEW o \in Asker, NEW s \in Person, NEW l \in Person, MergeOf(o, s, l), NEW e \in Pass
    PROVE  \/ task[e] # People!Idle /\ task[e].person \in {s, l} /\ task'[e] = [task[e] EXCEPT !.blind = TRUE]
           \/ task'[e] = task[e] /\ (task[e] # People!Idle => task[e].person \notin {s, l})
<1>1. \E v : task' = [People!Blinded(s, l) EXCEPT ![o] = v]
  BY DEF MergeOf, People!Merge
<1>2. IF task[e] # People!Idle /\ task[e].person \in {s, l}
      THEN task'[e] = [task[e] EXCEPT !.blind = TRUE] ELSE task'[e] = task[e]
  BY <1>1, PeopleFacts DEF People!Blinded, People!Task
<1> QED
  BY <1>2

LEMMA KnowsHow ==
    ASSUME PeopleShape, [People!Next]_(People!vars), NEW e \in Pass, task'[e].pc \in Knowing, ~task'[e].blind
    PROVE  Knew(e) \/ Looks(e)
<1> e \in People!Task /\ e \notin Asker /\ TaskShape
  BY PeopleFacts DEF People!Task, PeopleShape
<1>i. People!Idle.pc \notin Knowing
  BY DEF People!Idle, Knowing
<1>0. ASSUME task'[e] = task[e] PROVE Knew(e)
  BY <1>0 DEF Knew, Same
<1>1. ASSUME PassStepOf(e) \/ TaskStepOf(e) PROVE Knew(e) \/ Looks(e)
  <2>1. PassTo(e)
    BY <1>1, PassGoesTo, TaskGoesTo
  <2>2. task[e].pc = "reads" => task[e].person \in Person
    BY Standing DEF PassTask
  <2> QED
    BY <1>i, <2>1, <2>2 DEF PassTo, Knew, Looks, Early, Knowing, Starts, Same
<1>2. ASSUME NEW o \in Asker, NEW s \in Person, NEW l \in Person, MergeOf(o, s, l) PROVE Knew(e)
  <2>1. \/ task[e] # People!Idle /\ task'[e] = [task[e] EXCEPT !.blind = TRUE]
        \/ task'[e] = task[e]
    BY <1>2, MergeBlinds
  <2>2. task[e] # People!Idle => [task[e] EXCEPT !.blind = TRUE].blind
    BY Standing DEF PassTask
  <2> QED
    BY <1>0, <2>1, <2>2
<1>3. ASSUME NEW u \in People!Task \ {e}, (u \in Pass /\ PassStepOf(u)) \/ TaskStepOf(u) \/ (u \in Asker /\ AskerStepOf(u)) PROVE Knew(e)
  BY <1>0, <1>3, OthersStay
<1>4. ~(People!Crash \/ People!Boot)
  <2>1. People!Crash \/ People!Boot => task'[e] = People!Idle
    BY DEF People!Crash, People!Boot, PeopleShape, IdsOK
  <2> QED
    BY <1>i, <2>1
<1>5. UNCHANGED People!vars => task'[e] = task[e]
  BY DEF People!vars
<1>6. Asker \subseteq People!Task /\ Pass \subseteq People!Task
  BY DEF People!Task
<1> QED
  BY <1>0, <1>1, <1>2, <1>3, <1>4, <1>5, <1>6, StepCases

LEMMA LocksNext == PeopleShape /\ Locks /\ [People!Next]_(People!vars) => Locks'
<1> SUFFICES ASSUME PeopleShape, Locks, [People!Next]_(People!vars),
                    NEW e \in Pass, task'[e].pc \in Knowing, ~task'[e].blind
             PROVE  /\ task'[e].knew \subseteq task'[e].skip /\ Slots(task[e])'
                    /\ task'[e].pc = "seed" => "poster" \notin task'[e].locked
                    /\ task'[e].pc = "file" => task'[e].id >= task'[e].since
  BY DEF Locks
<1> DEFINE w == task[e]
           v == task'[e]
<1> e \in People!Task /\ TaskShape /\ next \in Nat
  BY NextGrows DEF People!Task, PeopleShape
<1>0. Knew(e) \/ Looks(e)
  BY KnowsHow
<1>p. ~People!Idle.pc \in Knowing
  BY DEF People!Idle, Knowing
<1>k. ASSUME Knew(e)
      PROVE  /\ w \in PassTask /\ w.since <= next /\ ~w.blind /\ w.pc \in Knowing
             /\ v.since = w.since /\ v.locked = w.locked /\ v.person = w.person
             /\ w.knew \subseteq w.skip /\ Slots(w)
             /\ w.pc = "seed" => "poster" \notin w.locked
             /\ w.pc = "file" => w.id >= w.since
  <2>1. w.pc \in Knowing /\ ~w.blind /\ w # People!Idle
    BY <1>k, <1>p DEF Knew, Same
  <2>2. w \in PassTask /\ w.since <= next
    BY <2>1, Standing DEF PeopleShape, IdsOK, Knowing
  <2>3. v.since = w.since /\ v.locked = w.locked /\ v.person = w.person
    BY <1>k DEF Knew, Same
  <2> QED
    BY <2>1, <2>2, <2>3 DEF Locks
<1>1. v.knew \subseteq v.skip
  <2>1. CASE Knew(e)
    BY <1>k, <2>1 DEF Knew, Same
  <2>2. CASE Looks(e)
    BY <2>2 DEF Looks, PeopleShape, StoreShape
  <2> QED
    BY <1>0, <2>1, <2>2
<1>2. v.pc = "seed" => "poster" \notin v.locked
  BY <1>0, <1>k DEF Knew, Looks
<1>3. v.pc = "file" => v.id >= v.since
  <2> SUFFICES ASSUME v.pc = "file" PROVE v.id >= v.since
    OBVIOUS
  <2>1. Knew(e)
    BY <1>0 DEF Looks
  <2>2. w \in PassTask /\ w.since \in Nat /\ w.id \in Nat
    BY <1>k, <2>1 DEF PassTask
  <2>3. CASE w.pc = "file" /\ v.id = w.id
    BY <1>k, <2>1, <2>3
  <2>4. CASE v.id = next
    BY <1>k, <2>1, <2>2, <2>4
  <2> QED
    BY <2>1, <2>3, <2>4 DEF Knew
<1>4. Slots(w)'
  <2> SUFFICES ASSUME NEW i \in People!Id, Held(i)', OwnerMade(i)', rows'[i].person = v.person, rows'[i].role \in People!Core, i < v.since
               PROVE  rows'[i].role \in v.locked
    BY DEF Slots
  <2>i. i \in Nat
    BY IdFacts
  <2>1. v.since \in Nat /\ v.since <= next
    BY <1>0, <1>k DEF Looks, PassTask
  <2>2. ASSUME NEW o \in Asker, NEW s \in Person, NEW l \in Person, MergeOf(o, s, l), rows'[i].person = s PROVE FALSE
    <3>1. \/ w # People!Idle /\ v = [w EXCEPT !.blind = TRUE]
          \/ v = w /\ (w # People!Idle => w.person \notin {s, l})
      BY <2>2, MergeBlinds
    <3>2. w # People!Idle => w \in PassTask
      BY Standing
    <3>3. w # People!Idle => [w EXCEPT !.blind = TRUE].blind
      BY <3>2 DEF PassTask
    <3>4. w # People!Idle
      BY <1>p, <3>1
    <3>5. v = w /\ w.person # s
      BY <3>1, <3>3, <3>4
    <3> QED
      BY <2>2, <3>5
  <2>3. ~Fresh(i)
    BY <2>i, <2>1 DEF Fresh
  <2>4. Stays(i)
    BY <2>2, <2>3, RowsKeep
  <2>5. Held(i) /\ OwnerMade(i) /\ rows[i].person = v.person /\ rows[i].role = rows'[i].role
    BY <2>4 DEF Stays, Endures, OwnerMade
  <2>6. CASE Knew(e)
    BY <1>k, <2>5, <2>6 DEF Slots
  <2>7. CASE Looks(e)
    BY <2>5, <2>7 DEF Looks, People!LockedCoreRoles, People!InRole, People!Of, People!ByOwner,
       OwnerMade, Held
  <2> QED
    BY <1>0, <2>6, <2>7
<1> QED
  BY <1>1, <1>2, <1>3, <1>4

(***************************************************************************)
(* What goes, and what comes back.                                         *)
(***************************************************************************)
OwnerStep ==
    \A i \in People!Id : rows[i] # People!Free /\ People!ByOwner(i) /\ rows'[i] = People!Free =>
        \/ \E o \in Asker : task'[o].pc \in {"file", "unlink", "settle"} /\ task'[o] # task[o]
        \/ \E o \in Asker : People!At(o, "file") /\ task[o].id = i
        \/ \E e \in Pass : task'[e] # task[e] /\ (task[e].blind \/ i >= task[e].since)
        \/ ~up /\ rows[i].role = "extra"
             /\ \E j \in People!Of(rows[i].person) \ {i} : rows[j].bytes = rows[i].bytes
DeletedStep ==
    \A i \in People!Id, e \in Pass :
        /\ rows[i] = People!Free /\ rows'[i] # People!Free /\ task'[e] # task[e] /\ ~task[e].blind
        /\ rows'[i].role = "extra"
        => rows'[i].url \notin task[e].knew

LEMMA OwnerHolds == PeopleShape /\ Locks /\ [People!Next]_(People!vars) => OwnerStep
<1> SUFFICES ASSUME PeopleShape, Locks, [People!Next]_(People!vars),
                    NEW i \in People!Id, Held(i), People!ByOwner(i), rows'[i] = People!Free
             PROVE  \/ \E o \in Asker : task'[o].pc \in {"file", "unlink", "settle"} /\ task'[o] # task[o]
                    \/ \E o \in Asker : People!At(o, "file") /\ task[o].id = i
                    \/ \E e \in Pass : task'[e] # task[e] /\ (task[e].blind \/ i >= task[e].since)
                    \/ ~up /\ rows[i].role = "extra"
                         /\ \E j \in People!Of(rows[i].person) \ {i} : rows[j].bytes = rows[i].bytes
  BY DEF OwnerStep, Held
<1> DEFINE ByAsking == \E o \in Asker : task'[o].pc \in {"file", "unlink", "settle"} /\ task'[o] # task[o]
           ByPass == \E e \in Pass : task'[e] # task[e] /\ (task[e].blind \/ i >= task[e].since)
           ByTwin == /\ ~up /\ rows[i].role = "extra"
                     /\ \E j \in People!Of(rows[i].person) \ {i} : rows[j].bytes = rows[i].bytes
           Goal == ByAsking \/ (\E o \in Asker : People!At(o, "file") /\ task[o].id = i) \/ ByPass \/ ByTwin
<1> SUFFICES Goal
  OBVIOUS
<1> TaskShape /\ RowShape /\ i \in Nat /\ i < next /\ rows[i] \in People!Row
  BY IdFacts DEF PeopleShape, RowShape, RowOK
<1>h. ~Held(i)'
  BY DEF Held
<1>w. OwnerMade(i) /\ ~People!Enriched(i)
  BY DEF OwnerMade, People!ByOwner, People!Enriched
<1>0. rows' # rows
  BY <1>h DEF Held
<1>u. ASSUME UNCHANGED rows PROVE FALSE
  BY <1>0, <1>u
\* A row's insertion takes a core slot's last image.
<1>r. ASSUME NEW img, NewRow(img), People!Inserted(img)
      PROVE  rows[i].role = img.role /\ img.role \in People!Core /\ rows[i].person = img.person
  <2>1. i # next
    BY DEF RowShape
  <2>2. rows'[i] # rows[i]
    BY DEF Held
  <2> QED
    BY <1>r, <2>1, <2>2, InsertedRows
<1>k. ASSUME NEW e \in Pass, task[e].pc \in Knowing, ~task[e].blind, rows[i].person = task[e].person,
             rows[i].role \in People!Core, ~(i >= task[e].since)
      PROVE  rows[i].role \in task[e].locked
  <2>1. task[e].since \in Nat
    <3>1. task[e] \in PassTask
      BY <1>k, Standing DEF Knowing, People!Task
    <3> QED
      BY <3>1 DEF PassTask
  <2>2. i < task[e].since
    BY <1>k, <2>1
  <2>3. Slots(task[e])
    BY <1>k DEF Locks
  <2> QED
    BY <1>k, <1>w, <2>2, <2>3 DEF Slots
<1>1. ASSUME NEW e \in Pass, PassStepOf(e) PROVE Goal
  <2> e \in People!Task
    BY DEF People!Task
  <2>1. CASE People!AssetInserted(e)
    <3>1. task[e] \in PassTask /\ task[e].pc = "assets"
      BY <2>1, Standing DEF People!AssetInserted, People!More, People!At
    <3>2. People!Asset(e) \in [role : People!Role, url : Url] /\ ~People!Skipped(task[e], People!Asset(e))
      BY <2>1, <3>1, NextAsset DEF People!AssetInserted
    <3>3. NewRow(People!AssetRow(e))
      BY <3>1, <3>2, EnrichedIsNew DEF People!AssetRow
    <3>4. /\ rows[i].role = People!AssetRow(e).role /\ rows[i].role \in People!Core
          /\ rows[i].person = People!AssetRow(e).person
      BY <1>r, <2>1, <3>3 DEF People!AssetInserted
    <3>5. rows[i].role = People!Asset(e).role /\ rows[i].person = task[e].person
      BY <3>4 DEF People!AssetRow, People!EnrichedRow
    <3>6. rows[i].role \notin task[e].locked
      BY <3>2, <3>5 DEF People!Skipped
    <3>7. task[e].blind \/ i >= task[e].since
      BY <1>k, <3>1, <3>4, <3>5, <3>6 DEF Knowing
    <3>8. task'[e].pc = "file"
      <4>1. task'[e] = [task[e] EXCEPT !.pc = "file", !.i = People!Upcoming(task[e]), !.id = next]
        BY <2>1 DEF People!AssetInserted, TaskShape
      <4> QED
        BY <3>1, <4>1 DEF PassTask
    <3> QED
      BY <3>1, <3>7, <3>8
  <2>2. CASE People!SeedPoster(e)
    <3>1. task[e] \in PassTask /\ task[e].pc = "seed"
      BY <2>2, Standing DEF People!SeedPoster, People!At
    <3>2. task[e].head \in Url
      BY <3>1, Standing DEF Fetching, PassTask
    <3>3. NewRow(People!EnrichedRow(e, "poster", task[e].head))
      BY <3>1, <3>2, EnrichedIsNew DEF People!Role, People!Core
    <3>4. rows[i].role = "poster" /\ rows[i].role \in People!Core /\ rows[i].person = task[e].person
      BY <1>r, <2>2, <3>3 DEF People!SeedPoster, People!EnrichedRow
    <3>5. task[e].blind \/ "poster" \notin task[e].locked
      BY <3>1 DEF Locks, Knowing
    <3>6. task[e].blind \/ i >= task[e].since
      BY <1>k, <3>1, <3>4, <3>5 DEF Knowing
    <3>7. task'[e].pc = "file"
      <4>1. task'[e] = [task[e] EXCEPT !.pc = "file", !.id = next, !.seed = TRUE]
        BY <2>2 DEF People!SeedPoster, TaskShape
      <4> QED
        BY <3>1, <4>1 DEF PassTask
    <3> QED
      BY <3>1, <3>6, <3>7
  <2> HIDE DEF Goal
  <2> QED
    BY <1>0, <1>1, <2>1, <2>2 DEF PassStepOf, People!Fetched, People!UpsertEnrichment,
       People!Adopt, People!Reads,
       People!AssetFails, People!AssetRefused, People!Assembled, People!SeedFails, People!store
<1>2. ASSUME NEW t \in People!Task, TaskStepOf(t) PROVE Goal
  <2>1. ~People!RemoveProviderAssets(t)
    <3>1. ASSUME People!RemoveProviderAssets(t) PROVE i \in People!Provided(task[t].person, task[t].prov)
      BY <1>h, <3>1 DEF People!RemoveProviderAssets, Held
    <3> QED
      BY <1>w, <3>1 DEF People!Provided
  <2>2. CASE People!StoreFails(t)
    <3>1. task[t].pc = "file" /\ up /\ task[t].id = i
      BY <1>0, <1>h, <2>2 DEF People!StoreFails, People!RollsBack, People!DeletePersonImage,
         People!At, RowShape, Held
    <3>2. CASE t \in Asker
      BY <3>1, <3>2 DEF People!At
    <3>3. CASE t \in Pass
      <4>1. task[t].blind \/ i >= task[t].since
        BY <3>1, <3>3 DEF Locks, Knowing
      <4>2. task'[t] # task[t]
        <5>1. task'[t] = People!Idle \/ task'[t].pc = "assets"
          <6>1. PassTo(t)
            BY <1>2, <3>3, TaskGoesTo
          <6> QED
            BY <3>1, <6>1 DEF PassTo, Early, People!Idle
        <5> QED
          BY <3>1, <5>1 DEF People!Idle
      <4> QED
        BY <3>3, <4>1, <4>2
    <3> QED
      BY <3>2, <3>3 DEF People!Task
  <2> HIDE DEF Goal
  <2> QED
    BY <1>0, <1>2, <2>1, <2>2 DEF TaskStepOf, People!Match, People!Detach, People!DeleteProviderAliases,
       People!DeleteEnrichmentByProvider, People!Fails, People!Store, People!store
<1>3. ASSUME NEW o \in Asker, AskerStepOf(o) PROVE Goal
  <2> o \in People!Task
    BY DEF People!Task
  <2>1. ASSUME NEW p \in Person, NEW role \in People!Role, NEW b \in Picked, NEW overCap \in BOOLEAN,
               People!Upload(o, p, role, b, overCap) PROVE ByAsking
    <3>1. task'[o] = People!Filing(o, p) /\ task[o].pc = "idle"
      BY <2>1 DEF People!Upload, People!Act, TaskShape, People!Idle
    <3> QED
      BY <3>1 DEF People!Filing
  <2>2. CASE People!Promoted(o)
    <3>1. task'[o] = People!Filing(o, task[o].person) /\ task[o].pc = "promote"
      BY <2>2 DEF People!Promoted, People!At, TaskShape
    <3> QED
      BY <3>1 DEF People!Filing
  <2>3. ASSUME NEW j \in People!Id, People!Delete(o, j) PROVE ByAsking
    <3>1. task'[o] = [pc |-> "unlink", person |-> rows[j].person, prov |-> People!NoProvider, id |-> j] /\ task[o].pc = "idle"
      BY <2>3 DEF People!Delete, People!Act, TaskShape, People!Idle
    <3> QED
      BY <3>1
  <2>4. ByAsking => Goal
    OBVIOUS
  <2> HIDE DEF Goal, ByAsking
  <2> QED
    BY <1>0, <1>3, <2>1, <2>2, <2>3, <2>4 DEF AskerStepOf, People!Promote, People!PromoteFails,
       People!Clear, People!Unlink, People!Settle, People!store
<1>4. ASSUME NEW o \in Asker, NEW s \in Person, NEW l \in Person, MergeOf(o, s, l) PROVE Goal
  <2>1. task'[o] = [pc |-> "settle", person |-> s, prov |-> People!NoProvider, loser |-> l]
    BY <1>4, MergeSteps DEF MergeOf
  <2>2. task[o].pc = "idle"
    BY <1>4 DEF MergeOf, People!Merge, People!Act, People!Idle
  <2> QED
    BY <2>1, <2>2
<1>5. ASSUME People!Boot PROVE Goal
  <2>1. PICK S \in SUBSET {j \in People!Id : rows[j] # People!Free /\ rows[j].hash = People!NoHash /\ People!Filled(j)} :
             \/ rows' = People!Hashed(S)
             \/ rows' = [j \in People!Id |-> IF j \in People!Twins(People!Hashed(S)) THEN People!Free ELSE People!Hashed(S)[j]]
    BY <1>0, <1>5 DEF People!Boot
  <2> DEFINE now == People!Hashed(S)
  <2>n. ASSUME NEW j \in People!Id
        PROVE  /\ now[j] # People!Free <=> Held(j)
               /\ Held(j) => /\ now[j].person = rows[j].person /\ now[j].role = rows[j].role /\ now[j].bytes = rows[j].bytes
                             /\ now[j].hash \in {People!NoHash, rows[j].bytes} /\ now[j] \in People!Row
    <3>1. now[j] = IF j \in S THEN [rows[j] EXCEPT !.hash = rows[j].bytes] ELSE rows[j]
      BY DEF People!Hashed
    <3>2. j \in S => Held(j)
      BY DEF Held
    <3>3. Held(j) => rows[j] \in People!Row /\ rows[j].hash \in {People!NoHash, rows[j].bytes}
      BY DEF RowShape, RowOK
    <3>4. CASE j \in S
      <4>1. now[j] \in People!Row /\ now[j].hash = rows[j].bytes /\ now[j].person = rows[j].person
            /\ now[j].role = rows[j].role /\ now[j].bytes = rows[j].bytes
        BY <3>1, <3>2, <3>3, <3>4 DEF People!Row
      <4> QED
        BY <3>2, <3>4, <4>1, NotFree
    <3>5. CASE j \notin S
      BY <3>1, <3>3, <3>5 DEF Held
    <3> QED
      BY <3>4, <3>5
  <2>2. i \in People!Twins(now)
    BY <1>h, <2>1, <2>n DEF Held
  <2> HIDE DEF now
  <2>3. PICK j \in People!Id \ {i} : /\ now[j] # People!Free /\ now[j].person = now[i].person
                                     /\ now[j].hash = now[i].hash
    BY <2>2 DEF People!Twins
  <2>4. now[i].role = "extra" /\ now[i].hash # People!NoHash
    BY <2>2 DEF People!Twins
  <2>5. Held(j) /\ rows[j].person = rows[i].person /\ rows[j].bytes = rows[i].bytes /\ rows[i].role = "extra"
    BY <2>3, <2>4, <2>n
  <2>6. j \in People!Of(rows[i].person) \ {i}
    BY <2>5 DEF People!Of, Held
  <2>7. ~up
    BY <1>5 DEF People!Boot
  <2> QED
    BY <2>5, <2>6, <2>7
<1> HIDE DEF Goal
<1> QED
  BY <1>0, <1>1, <1>2, <1>3, <1>4, <1>5, StepCases DEF People!vars, People!Crash, People!store

LEMMA DeletedHolds == PeopleShape /\ Locks /\ [People!Next]_(People!vars) => DeletedStep
<1> SUFFICES ASSUME PeopleShape, Locks, [People!Next]_(People!vars), NEW i \in People!Id, NEW e \in Pass,
                    ~Held(i), Held(i)', task'[e] # task[e], ~task[e].blind, rows'[i].role = "extra"
             PROVE  rows'[i].url \notin task[e].knew
  BY DEF DeletedStep, Held
<1> e \in People!Task /\ e \notin Asker
  BY PeopleFacts DEF People!Task
<1>1. ASSUME NEW a \in Pass, ByAsset(a, i) PROVE rows'[i].url \notin task[e].knew
  <2>1. PassStepOf(a) /\ a \in People!Task
    BY <1>1 DEF ByAsset, PassStepOf, People!Task
  <2>2. a = e
    BY <2>1, OthersStay
  <2>3. task[e].pc = "assets" /\ People!More(e) /\ task[e] \in PassTask
    BY <1>1, <2>2 DEF ByAsset, People!AssetInserted, People!More, People!At
  <2>4. ~People!Skipped(task[e], People!Asset(e))
    BY <2>3, NextAsset
  <2>5. rows'[i].url = People!Asset(e).url
    BY <1>1, <2>2 DEF ByAsset, People!AssetRow, People!EnrichedRow
  <2>6. task[e].knew \subseteq task[e].skip
    BY <2>3 DEF Locks, Knowing
  <2> QED
    BY <2>4, <2>5, <2>6 DEF People!Skipped
<1>2. ASSUME NEW a \in Pass, BySeed(a, i) PROVE FALSE
  BY <1>2 DEF BySeed, People!EnrichedRow
<1>3. ASSUME NEW o \in Asker, ByAsker(o, i) PROVE FALSE
  <2>1. task'[o] # task[o]
    BY <1>3 DEF ByAsker
  <2>2. o \in People!Task /\ o # e
    BY DEF People!Task
  <2>3. ASSUME NEW u \in People!Task, (u \in Pass /\ PassStepOf(u)) \/ TaskStepOf(u) \/ (u \in Asker /\ AskerStepOf(u)) PROVE FALSE
    <3>1. \A v \in People!Task \ {u} : task'[v] = task[v]
      BY <2>3, OthersStay
    <3> QED
      BY <2>1, <2>2, <3>1
  <2>4. ASSUME NEW a \in Asker, NEW s \in Person, NEW l \in Person, MergeOf(a, s, l) PROVE FALSE
    BY <2>4, MergeRows DEF MergeOf, Held
  <2>5. ~People!Boot /\ ~People!Crash /\ ~UNCHANGED People!vars
    BY BootRows DEF Held, People!Crash, People!store, People!vars
  <2>6. Pass \subseteq People!Task /\ Asker \subseteq People!Task
    BY DEF People!Task
  <2> QED
    BY <2>3, <2>4, <2>5, <2>6, StepCases
<1> QED
  BY <1>1, <1>2, <1>3, FreshBy

(***************************************************************************)
(* Both together.                                                          *)
(***************************************************************************)
\* The inductive invariant of the images of people.
PeopleInv ==
    /\ PeopleShape /\ Filing /\ People!NoTwins /\ People!GalleryBound /\ Provenance /\ Locks

LEMMA PeopleStart == People!Init => PeopleInv
BY StartShape, FilingStart, NoTwinsStart, GalleryStart, ProvenanceStart, LocksStart DEF PeopleInv

LEMMA PeopleNext == PeopleInv /\ [People!Next]_(People!vars) => PeopleInv'
BY ShapeNext, FilingNext, NoTwinsNext, GalleryNext, ProvenanceNext, LocksNext DEF PeopleInv

LEMMA PeopleTrue ==
    PeopleInv => People!TypeOK /\ People!RowHasFile /\ People!NoTwins /\ People!GalleryBound /\ People!OneRecord
BY ShapeTyped, OneRecordHolds DEF PeopleInv, Filing

\* A step of either part is one of each, or leaves it alone.
LEMMA PartsStart == AllInit => Init /\ People!Init
BY DEF AllInit

LEMMA PartsNext == [AllNext]_<<part, vars, peopleVars>> => [Next]_vars /\ [People!Next]_(People!vars)
BY DEF AllNext, peopleVars, People!vars, People!store, People!history

\* Whatever number of passes, requests and records there are: what the owner chose for a
\* person goes by the owner's hand, what the owner deleted is not brought back by a later
\* pass, every row keeps its file, no gallery holds a providers' photo twice or more than
\* its cap, and what one provider wrote of a person is of one record, whichever step of
\* whom fails or crashes; and the poster a video is served with is the one chosen.
THEOREM ImagesHold == AllSpec => ImagesAsChosen
<1>1. AllSpec => []PosterInv
  BY PartsStart, PartsNext, PosterInit, PosterNext, PTL DEF AllSpec
<1>2. AllSpec => []PeopleInv
  BY PartsStart, PartsNext, PeopleStart, PeopleNext, PTL DEF AllSpec
<1>3. PosterInv => (part = "poster" => TypeOK /\ Projection /\ NamedBytes)
  BY PosterTyped, ProjectionOf, NamedOf
<1>4. PeopleInv => (part = "people" =>
          /\ People!TypeOK /\ People!RowHasFile /\ People!NoTwins /\ People!GalleryBound /\ People!OneRecord)
  BY PeopleTrue
<1>5. PeopleInv /\ [AllNext]_<<part, vars, peopleVars>> => [OwnerStep]_(People!vars)
  BY PartsNext, OwnerHolds DEF PeopleInv
<1>6. PeopleInv /\ [AllNext]_<<part, vars, peopleVars>> => [DeletedStep]_(People!vars)
  BY PartsNext, DeletedHolds DEF PeopleInv
<1>7. AllSpec => People!OwnerImagesStay
  BY <1>2, <1>5, PTL DEF AllSpec, People!OwnerImagesStay, OwnerStep
<1>8. AllSpec => People!DeletedStaysAway
  BY <1>2, <1>6, PTL DEF AllSpec, People!DeletedStaysAway, DeletedStep
<1> QED
  BY <1>1, <1>2, <1>3, <1>4, <1>7, <1>8, PTL DEF ImagesAsChosen

=============================================================================
