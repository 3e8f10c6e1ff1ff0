------------------------------ MODULE Wildmat -------------------------------
(***************************************************************************)
(* Wld_match of wildmat.c, with which LIST and XPAT choose by a pattern    *)
(* and groups are forbidden by name, and what its patterns mean.           *)
(*                                                                         *)
(* Texts and patterns are sequences of characters.  A recursive call of    *)
(* DoMatch for a text and a pattern that have been read up to i and j is   *)
(* the element m[j][i] of a recursive function.                            *)
(***************************************************************************)
EXTENDS Integers, Sequences

CONSTANT MaxItems,   \* bound: items in a pattern
         MaxText     \* bound: characters in a text

NUL == "NUL"

\* The characters in the order of their codes.
Chars == <<"*", "-", "?", "[", "\\", "]", "^", "a", "b", "c">>
Code(c) == IF c = NUL THEN 0 ELSE CHOOSE k \in DOMAIN Chars : Chars[k] = c

At(s, k) == IF k \in DOMAIN s THEN s[k] ELSE NUL

-----------------------------------------------------------------------------
(* The code.                                                               *)

\* The characters from a to b.
Span(a, b) == {Chars[k] : k \in Code(a) .. Code(b)}

\* A character class that begins at p[j]: where it ends, and the characters
\* that are listed in it.
Class(p, j) ==
    LET open == IF At(p, j + 1) = "^" THEN j + 1 ELSE j
        odd == At(p, open + 1) \in {"]", "-"}
        from == IF odd THEN open + 1 ELSE open
        rest[k \in from .. Len(p) + 1] ==
            \* p[k] is "last"; p[k + 1] is looked at next.
            IF At(p, k + 1) \in {NUL, "]"} THEN [end |-> k + 1, chars |-> {}]
            ELSE IF At(p, k + 1) = "-" /\ At(p, k + 2) # "]"
              THEN [end   |-> rest[k + 2].end,
                    chars |-> Span(At(p, k), At(p, k + 2)) \cup rest[k + 2].chars]
              ELSE [end   |-> rest[k + 1].end,
                    chars |-> {At(p, k + 1)} \cup rest[k + 1].chars]
    IN  [end   |-> rest[from].end,
         chars |-> rest[from].chars \cup IF odd THEN {At(p, from)} ELSE {}]

\* The loop of a star that begins at each character of the text: it goes on
\* when the rest of the pattern gets an answer of "again" there.
StarLoop(answers, n, again) ==
    LET from[k \in 1 .. n + 1] == IF k > n THEN "ABORT"
                                  ELSE IF answers[k] \in again THEN from[k + 1]
                                  ELSE answers[k]
    IN  from

\* What DoMatch returns for the text from i on and the pattern from j on; m is
\* what the recursive calls return.
Answer(text, p, again, i, j, m) ==
    LET c == At(p, j)
    IN  CASE c = NUL -> IF i > Len(text) THEN "TRUE" ELSE "FALSE"
          [] c = "*" -> IF At(p, j + 1) = "*" THEN m[j + 1][i]
                        ELSE IF At(p, j + 1) = NUL THEN "TRUE"
                        ELSE StarLoop(m[j + 1], Len(text), again)[i]
          [] c \notin {NUL, "*"} /\ i > Len(text) -> "ABORT"
          [] c = "\\" /\ i <= Len(text) ->
                IF text[i] = At(p, j + 1) THEN m[j + 2][i + 1] ELSE "FALSE"
          [] c = "?" /\ i <= Len(text) -> m[j + 1][i + 1]
          [] c = "[" /\ i <= Len(text) ->
                IF text[i] \in Class(p, j).chars <=> At(p, j + 1) # "^"
                  THEN m[Class(p, j).end + 1][i + 1] ELSE "FALSE"
          [] OTHER -> IF text[i] = c THEN m[j + 1][i + 1] ELSE "FALSE"

DoMatch(text, p, again) ==
    LET m[j \in 1 .. Len(p) + 3] ==
            [i \in 1 .. Len(text) + 1 |-> Answer(text, p, again, i, j, m)]
    IN  m[1][1]

\* Mistake: a star takes the first answer for the last.
NoSecondTry(text, p) == DoMatch(text, p, {}) = "TRUE"

\* FALSE leads to another try, ABORT does not: the text is too short.
Wld_match(text, p) == DoMatch(text, p, {"FALSE"}) = "TRUE"

containsWildcards(p) == \E k \in DOMAIN p : p[k] \in {"?", "*", "[", "\\"}

\* printGroups: does LIST with this pattern tell of a group of this name?
Listed(name, p) == IF containsWildcards(p) THEN Wld_match(name, p) ELSE name = p

-----------------------------------------------------------------------------
(* What patterns mean.                                                     *)

\* The items of a pattern: how they are written, and the characters one of
\* which they stand for; a star stands for any number of any.
Letters == {"a", "b", "-", "]"}
Item(spelling, chars) == [spelling |-> spelling, chars |-> chars, star |-> FALSE]
Star == [spelling |-> <<"*">>, chars |-> Letters, star |-> TRUE]

Items == {Star,
          Item(<<"?">>, Letters),
          Item(<<"a">>, {"a"}),
          Item(<<"\\", "-">>, {"-"}),
          Item(<<"[", "^", "a", "]">>, Letters \ {"a"}),
          Item(<<"[", "]", "b", "]">>, {"]", "b"}),
          Item(<<"[", "a", "-", "c", "]">>, {"a", "b"}),
          Item(<<"[", "-", "a", "]">>, {"-", "a"})}

UpTo(n, S) == UNION {[1 .. k -> S] : k \in 0 .. n}

Patterns == UpTo(MaxItems, Items)
Texts    == UpTo(MaxText, Letters)

\* The characters of a pattern.
Spelled(q) == LET s[k \in 0 .. Len(q)] == IF k = 0 THEN <<>>
                                          ELSE s[k - 1] \o q[k].spelling
              IN  s[Len(q)]

\* A text has the form of a pattern if it can be cut into pieces of which
\* each is what one item stands for.
HasForm(text, q) ==
    \E cut \in [0 .. Len(q) -> 0 .. Len(text)] :
        /\ cut[0] = 0 /\ cut[Len(q)] = Len(text)
        /\ \A k \in DOMAIN q :
              IF q[k].star THEN cut[k - 1] <= cut[k]
              ELSE /\ cut[k] = cut[k - 1] + 1
                   /\ text[cut[k]] \in q[k].chars

\* The names that LIST judges by some pattern otherwise than by its form.
Misjudged == {text \in Texts : \E q \in Patterns :
                  Listed(text, Spelled(q)) # HasForm(text, q)}
=============================================================================
