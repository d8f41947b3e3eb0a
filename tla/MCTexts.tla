------------------------------ MODULE MCTexts -------------------------------
(***************************************************************************)
(* What is read from texts and written as texts, on small instances: the   *)
(* queries of MCQuery, the dates in them (QueryDates), the names of files  *)
(* read back (Extract, JaroWinkler) and planned (FileNaming).  "part" says *)
(* which one runs and the others rest in one state, so a property of one   *)
(* is a property of every behaviour.                                       *)
(***************************************************************************)
EXTENDS MCQuery

CONSTANTS nofit, none

VARIABLES
    part,
    cond, day, today,
    name, patterns, record, tag, manual, known, shadow, reviews, writes, done, run, tab, enabled, begun, changes,
    list, delimiter, values, cur, last, locked, held, foreign, steps, fresh,
    left, right, score

-----------------------------------------------------------------------------
(* Dates: whole years, months and days on both sides of a new year and of  *)
(* a leap day, while a little more than a year passes.                     *)

Periods == {<<2023>>, <<2024>>, <<2023, 4>>, <<2023, 12>>, <<2024, 2>>, <<2023, 12, 31>>, <<2024, 2, 28>>, <<2024, 2, 29>>}
DateConditions ==
    [op : {"<", "<=", ">", ">="}, from : Periods, to : {<<>>}] \cup
    {[op |-> "=", from |-> p, to |-> p] : p \in Periods} \cup
    {[op |-> "..", from |-> p, to |-> q] : p \in {<<2023>>, <<2023, 12>>, <<2023, 12, 31>>}, q \in {<<2023>>, <<2024, 2>>, <<2024, 2, 29>>}} \cup
    [op : {"<", ">"}, count : {1, 2, 13}, unit : {"d", "w", "mo", "y"}]
DaysSeen == {<<2022>>, <<2022, 3, 31>>, <<2023, 1, 31>>, <<2023, 3>>, <<2023, 3, 31>>, <<2024, 2, 29>>}

Dates == INSTANCE QueryDates WITH
    Condition <- DateConditions, Seen <- DaysSeen, FirstDay <- <<2023, 3, 25>>, LastDay <- <<2024, 4, 5>>,
    seen <- day

-----------------------------------------------------------------------------
(* Extraction: two fields; "two" is nearly "one", "x" is short; the file   *)
(* is named "plain" (title and cast), "edited" (another title) or "odd"    *)
(* (no pattern of the owner fits it, the templates do).                    *)

Both(cast, title) == [f \in {"people", "title"} |-> IF f = "people" THEN cast ELSE title]
Captures ==
    [p \in {"pattern"} |-> [n \in {"plain", "edited", "odd"} |->
        CASE n = "plain" -> Both({"one", "2160p"}, {"one"}) [] n = "edited" -> Both({"two"}, {"x"}) [] OTHER -> nofit]]
NoMarkers == [n \in {"plain", "edited", "odd"} |-> [f \in {} |-> {}]]
TemplateReads ==
    [n \in {"plain", "edited", "odd"} |->
        CASE n = "odd" -> Both({"one"}, {"other"}) [] n = "plain" -> Both({"one"}, {"one"}) [] OTHER -> nofit]
Starts ==
    {[tag |-> Both({"other"}, s[1]), manual |-> s[2], known |-> {"one"}] :
        s \in {<<{}, {}>>, <<{"two"}, {"actors"}>>, <<{"other"}, {}>>}}

Extraction == INSTANCE Extract WITH
    Field <- {"people", "title"}, CastKey <- "actors", Value <- {"one"}, Short <- {"x"}, Shape <- {"2160p"},
    Alike <- {<<{"one"}, {"two"}>>, <<{"two"}, {"one"}>>}, Name <- {"plain", "edited", "odd"}, Pattern <- {"pattern"},
    Capture <- Captures, Marker <- NoMarkers, Template <- TemplateReads, NoFit <- nofit,
    Run <- {"scan", "batch"}, Tab <- {1}, Entered <- {{"other"}}, Start <- Starts,
    MaxRow <- 2, MaxWrite <- 1, MaxRun <- 2, MaxStep <- 1, steps <- changes

-----------------------------------------------------------------------------
(* Names: two videos of one folder, two template lists; video 2's edition  *)
(* and a folded capital meet the other's name.                             *)

Vals(title, studio, people, edition) ==
    [tok \in {"{title}", "{studio}", "{people}", "{edition}"} |->
        CASE tok = "{title}" -> title [] tok = "{studio}" -> studio [] tok = "{people}" -> people [] OTHER -> edition]
Shaped(text, opt) == [text |-> text, optional |-> opt]
Lists == {
    << Shaped(<<"{title}", " ", "(", "{people}", ")", " ", "{edition}">>, {"{people}", "{edition}"}) >>,
    << Shaped(<<"{studio}", " ", "{title}">>, {}), Shaped(<<"{title}">>, {}) >> }
Sets == {
    Vals(<< <<"a">> >>, <<>>, << <<"b">>, <<"c">> >>, <<>>),
    Vals(<< <<"A", "/">> >>, << <<"b">> >>, <<>>, << <<"e">> >>),
    Vals(<< <<"n">> >>, <<>>, <<>>, <<>>) }
Hands == { <<"a">>, <<"b", " ", "A">>, <<"a", " ", "{hx-1}">> }

Naming == INSTANCE FileNaming WITH
    Video <- {1, 2}, Forbidden <- {"/"}, Lower <- "A" :> "a", Mark <- <<"e">> :> "{edition-e}",
    Tag <- <<"{hx-1}", "{hx-2}", "{hx-3}">>, Reserved <- {<<"n">>}, MaxName <- 9,
    TemplateLists <- Lists, Delimiters <- {<<",", " ">>, <<"&">>}, ValueSets <- Sets, HandNames <- Hands,
    First <- << <<"b">>, <<"a">> >>, None <- none, MaxStep <- 3

(* Similarity: all pairs of names of up to four of two letters.            *)
Similarity == INSTANCE JaroWinkler WITH Letter <- {"a", "b"}, MaxLength <- 4, a <- left, b <- right

ASSUME PartsAssumption == QueryAssumption /\ Dates!DatesAssumption /\ Extraction!ExtractAssumption

-----------------------------------------------------------------------------
dateVars == <<cond, day, today>>
extractVars == <<name, patterns, record, tag, manual, known, shadow, reviews, writes, done, run, tab, enabled, begun, changes>>
nameVars == <<list, delimiter, values, cur, last, locked, held, foreign, steps, fresh>>
likeVars == <<left, right, score>>
allVars == <<part, vars, dateVars, extractVars, nameVars, likeVars>>

AllInit ==
    /\ part \in {"query", "dates", "extract", "names", "like"}
    /\ IF part = "query" THEN Init ELSE alphabet = {} /\ src = <<>> /\ asked = Refused /\ saved = <<>>
    /\ IF part = "dates" THEN Dates!Init
       ELSE cond = [op |-> "=", from |-> <<2024>>, to |-> <<2024>>] /\ day = <<2024>> /\ today = <<2024, 1, 1>>
    /\ Extraction!Init
    /\ part # "extract" => name = "plain" /\ enabled /\ manual = {} /\ tag["title"] = {}
    /\ IF part = "names" THEN Naming!Init
       ELSE /\ list = <<>> /\ delimiter = <<>> /\ values = <<>> /\ cur = <<<<"a">>, <<"b">>>> /\ last = <<none, none>>
            /\ locked = {} /\ held = {} /\ foreign = {} /\ steps = 0 /\ fresh = {}
    /\ IF part = "like" THEN Similarity!Init ELSE left = <<>> /\ right = <<>> /\ score = <<0, 1>>

AllNext ==
    /\ UNCHANGED part
    /\ \/ part = "query" /\ Next /\ UNCHANGED <<dateVars, extractVars, nameVars, likeVars>>
       \/ part = "dates" /\ Dates!DayPasses /\ UNCHANGED <<vars, extractVars, nameVars, likeVars>>
       \/ part = "extract" /\ Extraction!Next /\ UNCHANGED <<vars, dateVars, nameVars, likeVars>>
       \/ part = "names" /\ Naming!Next /\ UNCHANGED <<vars, dateVars, extractVars, likeVars>>
       \/ part = "like" /\ Similarity!Compare /\ UNCHANGED <<vars, dateVars, extractVars, nameVars>>

AllSpec == AllInit /\ [][AllNext]_allVars

-----------------------------------------------------------------------------
\* A stored query parses again to itself and finds exactly what its text means, and one a
\* visitor may run does not tell apart what is the owner's (query/print.go,
\* repo/query_compile.go).
QueriesMean == RoundTrip /\ SavedMeansTyped /\ VisitorLearnsNothing

\* A date condition holds of exactly the days its text says, and as days pass a video
\* leaves "the last n" and never comes back to it (query/dates.go, repo/query_compile.go).
DatesHold == []Dates!PeriodsWhole /\ Dates!LeavesOnce

\* What is written from a file's name without asking never contradicts what the file
\* says, an answered row is not opened again, a name Holodex wrote is not news, and how
\* alike two names are does not depend on which is looked at first (extract/process.go,
\* confidence.go, orchestrate.go, jarowinkler.go).
NamesJudged ==
    /\ []Extraction!AutoIsUncontested /\ Extraction!AnsweredStays /\ Extraction!EchoSilent
    /\ Similarity!Symmetric

\* However the wants of a folder cross, no plan gives two files one name, a plan that was
\* carried out leaves nothing to rename, and what it wrote reads back as it was recorded
\* (rename/collide.go, readback.go).
PlansRest == Naming!SecondPlanRests /\ Naming!NamesApart /\ Naming!EchoHolds
=============================================================================
