----------------------------- MODULE JaroWinkler -----------------------------
(***************************************************************************)
(* The similarity of two names (internal/extract/jarowinkler.go): Jaro's,  *)
(* over the letters found in each other's reach, raised by a common        *)
(* prefix.  It ranks the entity the owner is offered and tells a tag that  *)
(* nearly agrees from one that does not.                                   *)
(*                                                                         *)
(* A name is a sequence of letters already folded and trimmed.  A score is *)
(* a pair <<numerator, denominator>>, where the code has the float of it.  *)
(***************************************************************************)
EXTENDS Naturals, Sequences, FiniteSets, SequencesExt, FiniteSetsExt

CONSTANTS Letter, MaxLength     \* MaxLength is a bound

VARIABLES a, b, score
vars == <<a, b, score>>

(* The first unmatched equal letter in reach, for each letter of s in      *)
(* turn: [letter of s -> the letter of t it took, or 0].                   *)
Reach(s, t) ==
    LET longer == IF Len(s) > Len(t) THEN Len(s) ELSE Len(t)
    IN  IF longer \div 2 = 0 THEN 0 ELSE longer \div 2 - 1
(* Mutant: the letter at the far end is out of reach.                      *)
WindowShort(s, t, i) == {j \in DOMAIN t : i <= j + Reach(s, t) /\ j < i + Reach(s, t)}
Window(s, t, i) == {j \in DOMAIN t : i <= j + Reach(s, t) /\ j <= i + Reach(s, t)}

Pairs(s, t) ==
    LET Take(m, i) ==
            LET free == {j \in Window(s, t, i) : t[j] = s[i] /\ \A k \in DOMAIN m : m[k] # j}
            IN  Append(m, IF free = {} THEN 0 ELSE Min(free))
    IN  FoldLeft(Take, <<>>, [i \in DOMAIN s |-> i])

Matches(m) == {i \in DOMAIN m : m[i] # 0}
(* The k-th matched letter of s against the k-th matched letter of t; half *)
(* of those that differ.                                                   *)
Transpositions(s, t, m) ==
    LET Nth(S, k) == CHOOSE i \in S : Cardinality({j \in S : j <= i}) = k
        took == {m[i] : i \in Matches(m)}
    IN  Cardinality({k \in 1 .. Cardinality(took) : s[Nth(Matches(m), k)] # t[Nth(took, k)]}) \div 2

commonPrefixLen(s, t, most) ==
    CHOOSE n \in 0 .. most :
        /\ n <= Len(s) /\ n <= Len(t) /\ \A i \in 1 .. n : s[i] = t[i]
        /\ n = most \/ n = Len(s) \/ n = Len(t) \/ s[n + 1] # t[n + 1]

jaro(s, t) ==
    LET m == Pairs(s, t)
        k == Cardinality(Matches(m))
    IN  IF s = t THEN <<1, 1>>
        ELSE IF k = 0 THEN <<0, 1>>
        ELSE <<k * k * Len(s) + k * k * Len(t) + (k - Transpositions(s, t, m)) * Len(s) * Len(t),
               3 * k * Len(s) * Len(t)>>

JaroWinkler(s, t) ==
    LET j == jaro(s, t)
    IN  IF j[1] = 0 THEN <<0, 1>>
        ELSE <<10 * j[1] + commonPrefixLen(s, t, 4) * (j[2] - j[1]), 10 * j[2]>>

Init == a \in BoundedSeq(Letter, MaxLength) /\ b \in BoundedSeq(Letter, MaxLength) /\ score = <<0, 1>>
Compare == score = <<0, 1>> /\ score' = JaroWinkler(a, b) /\ UNCHANGED <<a, b>>
Spec == Init /\ [][Compare]_vars

(***************************************************************************)
(* Which of two names comes from the file and which from the library makes *)
(* no difference, though the letters are taken greedily from one side; the *)
(* score is at most 1, and 1 only for equal names (jarowinkler.go).        *)
(***************************************************************************)
Symmetric ==
    [][LET r == JaroWinkler(b, a)
       IN  /\ score'[1] * r[2] = r[1] * score'[2]
           /\ score'[1] <= score'[2] /\ (score'[1] = score'[2]) = (a = b)]_vars
==============================================================================
