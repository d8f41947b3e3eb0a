------------------------------ MODULE MCImages ------------------------------
(***************************************************************************)
(* Images on small instances: the poster of a video (Poster) and the       *)
(* images of people (PersonImages).  "part" says which one runs and the    *)
(* other rests in its first state, so a property of one is a property of   *)
(* every behaviour.                                                        *)
(*                                                                         *)
(* People: two records of one provider and one of another; "same" holds    *)
(* the photo of "extra".  One person is matched and has a promoted         *)
(* headshot; the other has a headshot, an image of before images had       *)
(* hashes and one the owner uploaded, and lost one of the matched's.       *)
(***************************************************************************)
EXTENDS Poster, TLC

CONSTANTS
    x, y, t1, t2, ra, rb, rc, e1, e2, o1,
    Person, Pass, Asker, Bypass, Record, Offered, From, Assets, Keys, Url, Bytes, Picked,
    GalleryCap, Images, Deleted, MaxId, MaxRequest  \* PersonImages's; Asker is its Owner

MCFrom == (ra :> "p") @@ (rb :> "p") @@ (rc :> "q")
Img(role, url) == [role |-> role, url |-> url]
MCAssets == (ra :> <<Img("headshot", "face"), Img("extra", "extra")>>)
         @@ (rb :> <<Img("extra", "same")>>)
         @@ (rc :> <<Img("extra", "other"), Img("extra", "same")>>)
MCOffered == {1} \X {ra, rb, rc}
MCDeleted == <<{}, {"same"}>>
MCUrl == {"face", "extra", "same", "other"}
MCKeys == (ra :> {"bio", "site"}) @@ (rb :> {"bio"}) @@ (rc :> {"bio"})
MCBytes == ("face" :> 1) @@ ("extra" :> 2) @@ ("same" :> 2) @@ ("other" :> 3)
Kept(p, role, url, r, source) ==
    [person |-> p, role |-> role, source |-> source, record |-> r, url |-> url,
     bytes |-> MCBytes[url], hash |-> MCBytes[url]]
MCStart ==
    <<[Kept(1, "headshot", "face", "no record", "promoted") EXCEPT !.url = "no url"],
      Kept(1, "poster", "face", ra, "enrichment"), Kept(1, "extra", "extra", ra, "enrichment"),
      Kept(2, "headshot", "face", rb, "enrichment"),
      [Kept(2, "extra", "other", rc, "enrichment") EXCEPT !.hash = 0],
      [Kept(2, "extra", "same", "no record", "upload") EXCEPT !.url = "no url"]>>

VARIABLES
    part,
    rows, next, files, suppressed, known, live, task, up, requests, gone, unfiled, over, muddled

People == INSTANCE PersonImages WITH
    Owner <- Asker, MaxEvent <- MaxRequest, events <- requests, torn <- unfiled

ASSUME PartsAssumption == People!ImageConstants /\ People!StartAssumption

peopleVars == <<rows, next, files, suppressed, known, live, task, up, requests, gone, unfiled, over, muddled>>

AllInit ==
    /\ part \in {"poster", "people"} /\ Init /\ People!Init
    /\ part # "poster" => art = None /\ state = "none"

AllNext ==
    /\ UNCHANGED part
    /\ \/ part = "poster" /\ Next /\ UNCHANGED peopleVars
       \/ part = "people" /\ People!Next /\ UNCHANGED vars

AllSpec == AllInit /\ [][AllNext]_<<part, vars, peopleVars>>

\* What the owner chose for a person goes by the owner's hand and what the owner deleted
\* is not brought back by a later pass (ADR-043), while every row keeps its file, a
\* gallery holds no photo of providers twice and no more than its cap, and what one
\* provider wrote of a person is of one record (repo/person_images.go, imagesink/sink.go,
\* enrich/service.go clearPersonMatch), whichever step of whom fails or crashes; and the
\* poster a video is served with is the one chosen (thumbnail/slots.go Present).
ImagesAsChosen ==
    /\ People!OwnerImagesStay /\ People!DeletedStaysAway
    /\ [](part = "people" =>
            /\ People!TypeOK /\ People!RowHasFile /\ People!NoTwins /\ People!GalleryBound /\ People!OneRecord)
    /\ [](part = "poster" => TypeOK /\ Projection /\ NamedBytes)
=============================================================================
