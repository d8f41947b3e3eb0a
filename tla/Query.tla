------------------------------- MODULE Query --------------------------------
(***************************************************************************)
(* The query language: what is typed, the tree it parses to, the names     *)
(* bound to ids, the canonical text that is stored, and the videos a       *)
(* stored text finds (internal/query/parse.go, canon.go, print.go,         *)
(* query.go, internal/repo/query_compile.go, query_resolve.go,             *)
(* internal/api/query.go).                                                 *)
(*                                                                         *)
(* A text is a sequence of tokens, each a bracket, a sign, a keyword, a    *)
(* word or `field:value`; what is quoted in it is marked, never spelled    *)
(* out.  Date values are in QueryDates, playlist: in Playlists.            *)
(***************************************************************************)
EXTENDS Naturals, Sequences, SequencesExt, FiniteSets

CONSTANTS
    MaxDepth, MaxConditions, MaxNumber,
    Alphabet,   \* what may be typed: a set of [tokens, length]
    Numeral,    \* Numeral[n] is the text of n
    Spaced,     \* texts that read as several when they are not quoted
    Named,      \* [field -> set of <<name or alias, id>>]
    Parent,     \* [tag id -> its parent's, or 0]
    Fields,     \* [mapped field -> [kind, owner]]
    Provider,
    Video       \* [tags, people, title, year, secs, watched, plays, providers, note]

Keywords == {"OR", "AND", "NOT"}
Signs == {"(", ")", "-"}
entityFields == DOMAIN Named
numberFields == {"year", "duration", "plays"}
knownFields == entityFields \cup numberFields \cup {"watched", "matched"}
Number(s) == IF \E n \in DOMAIN Numeral : Numeral[n] = s THEN CHOOSE n \in DOMAIN Numeral : Numeral[n] = s ELSE 0

QueryAssumption ==
    /\ {MaxDepth, MaxConditions, MaxNumber} \subseteq Nat /\ \A n \in DOMAIN Numeral : Number(Numeral[n]) = n
    /\ DOMAIN Fields \cap knownFields = {}

VARIABLES
    alphabet,   \* the one typed from
    src,        \* what has been typed
    asked,      \* what it parses to, its names bound
    saved       \* its canonical text

vars == <<alphabet, src, asked, saved>>

-----------------------------------------------------------------------------
(* Lexer and parser.                                                       *)

Minus(s, i) == s[i].str = "-" /\ i < Len(s) /\ s[i + 1].str # ")"
lex(s, i) ==
    IF i > Len(s) THEN "end"
    ELSE IF s[i].field = "" /\ ~s[i].quoted /\ (s[i].str \in {"(", ")"} \cup Keywords \/ Minus(s, i)) THEN s[i].str
    ELSE "term"

Refused == [ok |-> FALSE]
Parsed(node, at) == [ok |-> TRUE, node |-> node, at |-> at]
Word(text) == [kind |-> "word", str |-> text]
Cond(tok, kind, id) ==
    [kind |-> "cond", field |-> tok.field, mapped |-> kind, op |-> tok.op, str |-> tok.str,
     quoted |-> tok.quoted, id |-> id, lo |-> tok.lo, hi |-> tok.hi,
     owner |-> tok.field \in DOMAIN Fields /\ Fields[tok.field].owner]
Not(x) == [kind |-> "not", x |-> x]

join(items, kind) ==
    LET flat == FlattenSeq([i \in DOMAIN items |-> IF items[i].kind = kind THEN items[i].items ELSE <<items[i]>>])
    IN  IF Len(flat) = 1 THEN flat[1] ELSE [kind |-> kind, items |-> flat]

Unit(unit) == CASE unit = "s" -> 1 [] unit = "h" -> 3600 [] OTHER -> 60
parseNumber(tok) ==
    LET mult == IF tok.field = "duration" THEN Unit(tok.str) ELSE 1
        c == [Cond(tok, IF tok.field \in DOMAIN Fields THEN Fields[tok.field].kind ELSE "", 0) EXCEPT !.lo = tok.lo * mult, !.hi = tok.hi * mult, !.str = ""]
    IN  IF tok.quoted \/ tok.lo > MaxNumber \/ tok.hi > MaxNumber \/ (tok.op = ".." /\ c.lo > c.hi) THEN Refused
        ELSE Parsed(c, 0)

term(tok, stored) ==
    CASE tok.field = "" -> Parsed(Word(tok.str), 0)
      [] tok.field \in numberFields -> parseNumber(tok)
      [] tok.field \in DOMAIN Fields ->
            IF Fields[tok.field].kind = "number" THEN parseNumber(tok) ELSE Parsed(Cond(tok, Fields[tok.field].kind, 0), 0)
      [] tok.field \in entityFields -> Parsed(Cond(tok, "", IF tok.quoted THEN 0 ELSE Number(tok.str)), 0)
      [] tok.field = "watched" -> IF tok.str \in {"yes", "no"} THEN Parsed(Cond(tok, "", 0), 0) ELSE Refused
      [] tok.field = "matched" -> Parsed(Cond(tok, "", 0), 0)
      [] OTHER -> IF stored THEN Parsed(Cond(tok, "gone", 0), 0) ELSE Refused

negated(x) ==
    IF x.kind = "cond" /\ x.field = "watched" THEN [x EXCEPT !.str = IF @ = "yes" THEN "no" ELSE "yes"] ELSE Not(x)

TermsTo(s, i) == Cardinality({j \in 1 .. i : lex(s, j) = "term"})

RECURSIVE parseOr(_, _, _, _, _), parseAnd(_, _, _, _, _), parseUnary(_, _, _, _)
parseOr(s, i, depth, items, stored) ==
    LET r == parseAnd(s, i, depth, <<>>, stored)
    IN  IF ~r.ok THEN Refused
        ELSE IF lex(s, r.at) = "OR" THEN parseOr(s, r.at + 1, depth, Append(items, r.node), stored)
        ELSE Parsed(join(Append(items, r.node), "or"), r.at)

parseAnd(s, i, depth, items, stored) ==
    CASE lex(s, i) \in {"end", ")", "OR"} -> IF items = <<>> THEN Refused ELSE Parsed(join(items, "and"), i)
      [] lex(s, i) = "AND" ->
            IF items = <<>> \/ lex(s, i + 1) \in {"end", ")", "OR"} THEN Refused
            ELSE parseAnd(s, i + 1, depth, items, stored)
      [] OTHER ->
            LET r == parseUnary(s, i, depth, stored)
            IN  IF ~r.ok THEN Refused ELSE parseAnd(s, r.at, depth, Append(items, r.node), stored)

parseUnary(s, i, depth, stored) ==
    CASE lex(s, i) \in {"-", "NOT"} ->
            IF depth + 1 > MaxDepth \/ lex(s, i + 1) \in {"end", ")", "OR", "AND"} THEN Refused
            ELSE LET r == parseUnary(s, i + 1, depth + 1, stored)
                 IN  IF ~r.ok THEN Refused ELSE Parsed(negated(r.node), r.at)
      [] lex(s, i) = "(" ->
            IF depth + 1 > MaxDepth THEN Refused
            ELSE LET r == parseOr(s, i + 1, depth + 1, <<>>, stored)
                 IN  IF ~r.ok THEN Refused ELSE IF lex(s, r.at) # ")" THEN Refused ELSE Parsed(r.node, r.at + 1)
      [] OTHER ->
            LET r == term(s[i], stored)
            IN  IF TermsTo(s, i) > MaxConditions \/ ~r.ok THEN Refused ELSE Parsed(r.node, i + 1)

Parse(s, stored) ==
    IF s = <<>> THEN Refused
    ELSE LET r == parseOr(s, 1, 0, <<>>, stored) IN IF ~r.ok THEN Refused ELSE IF r.at <= Len(s) THEN Refused ELSE r

RECURSIVE Conds(_)
Conds(n) ==
    CASE n.kind = "cond" -> {n}
      [] n.kind = "word" -> {}
      [] n.kind = "not" -> Conds(n.x)
      [] OTHER -> UNION {Conds(n.items[i]) : i \in DOMAIN n.items}

(* Mutant: the watch conditions are forgotten by the check.                *)
OwnerFields(c) == c.field = "matched" \/ c.owner
ownerOnly(c) == c.field \in {"matched", "watched", "plays"} \/ c.owner
CheckOwner(n, isOwner) == isOwner \/ \A c \in Conds(n) : ~ownerOnly(c)

-----------------------------------------------------------------------------
(* Names to ids.                                                           *)

Ids(field) == {p[2] : p \in Named[field]}
QueryLookup(field, name) == {p[2] : p \in {q \in Named[field] : q[1] = name}}
bind(c) == IF c.id \in Ids(c.field) THEN {c.id} ELSE QueryLookup(c.field, c.str)
CanBind(c) ==
    CASE c.field \in entityFields -> Cardinality(bind(c)) = 1
      [] c.field = "matched" -> c.str \in Provider \cup {"any"}
      [] OTHER -> TRUE

RECURSIVE Canonicalize(_)
Canonicalize(n) ==
    CASE n.kind = "cond" -> IF n.field \in entityFields THEN [n EXCEPT !.id = CHOOSE id \in bind(n) : TRUE] ELSE n
      [] n.kind = "word" -> n
      [] n.kind = "not" -> Not(Canonicalize(n.x))
      [] OTHER -> [n EXCEPT !.items = [i \in DOMAIN n.items |-> Canonicalize(n.items[i])]]

(* Mutant: a keyword is written as it is.                                  *)
QuotedIfSpaced(text, entityName) == text \in Spaced \/ (entityName /\ Number(text) # 0)
quoteIfNeeded(text, entityName) ==
    text \in Spaced \cup Keywords \cup Signs \/ (entityName /\ Number(text) # 0)

Tok(field, str, quoted) == [field |-> field, str |-> str, quoted |-> quoted, op |-> "=", lo |-> 0, hi |-> 0]
condValue(c) ==
    CASE c.field \in numberFields \/ c.mapped = "number" ->
            [Tok(c.field, IF c.field = "duration" THEN "s" ELSE "", FALSE) EXCEPT !.op = c.op, !.lo = c.lo, !.hi = c.hi]
      [] c.id > 0 -> Tok(c.field, Numeral[c.id], FALSE)
      [] OTHER -> Tok(c.field, c.str, quoteIfNeeded(c.str, c.field \in entityFields))

Bracketed(s) == <<Tok("", "(", FALSE)>> \o s \o <<Tok("", ")", FALSE)>>
Grouped(x) == x.kind \in {"or", "and"}
RECURSIVE printNode(_, _)
printNode(n, group) ==
    LET line ==
          CASE n.kind = "or" ->
                  FlattenSeq([i \in DOMAIN n.items |->
                      (IF i > 1 THEN <<Tok("", "OR", FALSE)>> ELSE <<>>) \o printNode(n.items[i], FALSE)])
            [] n.kind = "and" -> FlattenSeq([i \in DOMAIN n.items |-> printNode(n.items[i], n.items[i].kind = "or")])
            [] n.kind = "not" -> <<Tok("", "-", FALSE)>> \o printNode(n.x, Grouped(n.x))
            [] n.kind = "cond" -> <<condValue(n)>>
            [] n.kind = "word" -> <<Tok("", n.str, quoteIfNeeded(n.str, FALSE))>>
    IN  IF group THEN Bracketed(line) ELSE line

(* A query as it runs or is stored: parsed, checked, bound.                *)
Bound(r, isOwner) ==
    IF ~r.ok THEN Refused
    ELSE IF ~CheckOwner(r.node, isOwner) \/ \E c \in Conds(r.node) : ~CanBind(c) THEN Refused
    ELSE Parsed(Canonicalize(r.node), 0)
ParseExpr(s, isOwner) == Bound(Parse(s, FALSE), isOwner)

-----------------------------------------------------------------------------
(* The SQL a tree compiles to, a comparison with NULL being neither true   *)
(* nor false.  A year of 0 is a NULL recorded_at.                          *)

Truth(b) == IF b THEN "true" ELSE "false"
SqlNot(x) == CASE x = "true" -> "false" [] x = "false" -> "true" [] OTHER -> "null"
SqlAnd(xs) == IF "false" \in xs THEN "false" ELSE IF "null" \in xs THEN "null" ELSE "true"
SqlOr(xs) == IF "true" \in xs THEN "true" ELSE IF "null" \in xs THEN "null" ELSE "false"

Compare(x, c) ==
    CASE c.op = "<" -> x < c.lo [] c.op = "<=" -> x <= c.lo [] c.op = ">" -> x > c.lo [] c.op = ">=" -> x >= c.lo
      [] c.op = ".." -> c.lo <= x /\ x <= c.hi [] OTHER -> x = c.lo

RECURSIVE Subtree(_)
Subtree(ids) ==
    LET more == {t \in DOMAIN Parent : Parent[t] \in ids} \ ids IN IF more = {} THEN ids ELSE Subtree(ids \cup more)
tagClause(ids, v) == v.tags \cap Subtree(ids) # {}
wordClause(text, v) == text \in v.title \/ tagClause(QueryLookup("tag", text), v)
(* Mutant: the comparison alone, NULL when there is no date.               *)
yearAlone(c, v) == IF v.year = 0 THEN "null" ELSE Truth(Compare(v.year, c))
yearCond(c, v) == Truth(v.year # 0 /\ Compare(v.year, c))

compileCond(c, v) ==
    CASE c.field = "tag" -> Truth(tagClause({c.id}, v))
      [] c.field = "person" -> Truth(c.id \in v.people)
      [] c.field = "year" -> yearCond(c, v)
      [] c.field = "duration" -> Truth(Compare(v.secs, c))
      [] c.field = "plays" -> Truth(Compare(v.plays, c))
      [] c.field = "watched" -> Truth(v.watched = (c.str = "yes"))
      [] c.field = "matched" -> Truth(IF c.str = "any" THEN v.providers # {} ELSE c.str \in v.providers)
      [] c.mapped = "text" -> Truth(c.str \in v.note)
      [] OTHER -> "false"

RECURSIVE compileExpr(_, _)
compileExpr(n, v) ==
    CASE n.kind = "and" -> SqlAnd({compileExpr(n.items[i], v) : i \in DOMAIN n.items})
      [] n.kind = "or" -> SqlOr({compileExpr(n.items[i], v) : i \in DOMAIN n.items})
      [] n.kind = "not" -> SqlNot(compileExpr(n.x, v))
      [] n.kind = "word" -> Truth(wordClause(n.str, v))
      [] OTHER -> compileCond(n, v)

-----------------------------------------------------------------------------
Init == alphabet \in Alphabet /\ src = <<>> /\ asked = Refused /\ saved = <<>>

Typed(tok) ==
    /\ Len(src) < alphabet.length /\ src' = Append(src, tok)
    /\ asked' = ParseExpr(src', TRUE)
    /\ saved' = IF asked'.ok THEN printNode(asked'.node, FALSE) ELSE <<>>
    /\ UNCHANGED alphabet

Next == \E tok \in alphabet.tokens : Typed(tok)

Spec == Init /\ [][Next]_vars

-----------------------------------------------------------------------------
(* The language as its owner is told it: OR is looked for first, then      *)
(* things side by side, then the signs; and a name means the one entity it *)
(* names, a number an id before it is a name.                              *)

RECURSIVE Operand(_, _)
Operand(s, i) ==    \* the last token of the part that begins at i
    CASE lex(s, i) \in {"-", "NOT"} -> Operand(s, i + 1)
      [] lex(s, i) = "(" ->
            CHOOSE j \in i .. Len(s) :
                LET opened(k) == Cardinality({m \in i .. k : lex(s, m) = "("}) - Cardinality({m \in i .. k : lex(s, m) = ")"})
                IN  opened(j) = 0 /\ \A k \in i .. j - 1 : opened(k) > 0
      [] OTHER -> i

Meant(tok, v) ==
    CASE tok.field = "" -> tok.str \in v.title \/ \E p \in Named["tag"] : p[1] = tok.str /\ tagClause({p[2]}, v)
      [] tok.field \in entityFields ->
            LET byId == ~tok.quoted /\ \E p \in Named[tok.field] : Numeral[p[2]] = tok.str
                id == IF byId THEN Number(tok.str) ELSE (CHOOSE p \in Named[tok.field] : p[1] = tok.str)[2]
            IN  IF tok.field = "tag" THEN tagClause({id}, v) ELSE id \in v.people
      [] tok.field = "duration" ->
            LET mult == CASE tok.str = "h" -> 3600 [] tok.str = "s" -> 1 [] OTHER -> 60
            IN  Compare(v.secs, [op |-> tok.op, lo |-> tok.lo * mult, hi |-> tok.hi * mult])
      [] tok.field = "year" -> v.year # 0 /\ Compare(v.year, tok)
      [] tok.field = "plays" -> Compare(v.plays, tok)
      [] tok.field = "watched" -> (tok.str = "yes") = v.watched
      [] tok.field = "matched" -> tok.str \in v.providers \/ (tok.str = "any" /\ v.providers # {})
      [] OTHER -> tok.str \in v.note

RECURSIVE Means(_, _)
Means(s, v) ==
    LET Top == {i \in 1 .. Len(s) : lex(s, i) = "OR" /\ \A j \in 1 .. i - 1 : lex(s, j) = "(" => Operand(s, j) < i}
        last == Operand(s, 1)
        rest == SubSeq(s, last + 1, Len(s))
    IN  IF Top # {} THEN LET i == CHOOSE i \in Top : TRUE IN Means(SubSeq(s, 1, i - 1), v) \/ Means(SubSeq(s, i + 1, Len(s)), v)
        ELSE IF lex(s, 1) = "AND" THEN Means(Tail(s), v)
        ELSE /\ CASE lex(s, 1) \in {"-", "NOT"} -> ~Means(SubSeq(s, 2, last), v)
                  [] lex(s, 1) = "(" -> Means(SubSeq(s, 2, last - 1), v)
                  [] OTHER -> Meant(s[1], v)
             /\ rest # <<>> => Means(rest, v)

(* A query saved in canonical form and read back finds what the text that  *)
(* was typed means: no video more and none less, NOT leaving out exactly   *)
(* what it negates.                                                        *)
FindsMeant(back) == back.ok => \A v \in Video : compileExpr(back.node, v) = Truth(Means(src, v))
SavedMeansTyped == asked.ok => FindsMeant(Parse(saved, TRUE))

(* Whatever parses, printed, parses again, and prints the same.            *)
PrintsSame(back) == back.ok /\ printNode(back.node, FALSE) = saved
RoundTrip == asked.ok => PrintsSame(Parse(saved, TRUE))

(* A query a visitor may run does not tell two videos apart that differ    *)
(* only in what is the owner's: what was watched, how often, the matches   *)
(* and the fields hidden from visitors.                                    *)
Shown(v) == [v EXCEPT !.watched = FALSE, !.plays = 0, !.providers = {}, !.note = {}]
VisitorLearnsNothing ==
    asked.ok /\ CheckOwner(asked.node, FALSE) =>
        \A v \in Video : compileExpr(asked.node, v) = compileExpr(asked.node, Shown(v))
==============================================================================
