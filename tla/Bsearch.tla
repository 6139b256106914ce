------------------------------ MODULE Bsearch ------------------------------
(***************************************************************************)
(* The calls of bstring/bstrlib.c that search backwards or without regard  *)
(* to case, and those that compare.  They change nothing: each is an       *)
(* operator on texts, here sequences of character codes.  `same' says that *)
(* both arguments begin at the same byte of one buffer, which some calls   *)
(* look at first; one text is then a beginning of the other.               *)
(***************************************************************************)
EXTENDS BstringReference

CONSTANTS Code,     \* the characters, by their codes
          MaxTerm   \* bound on the length of the texts compared

ASSUME BsearchAssumption == Code \subseteq 0 .. 255 /\ MaxTerm \in Nat

Sign(x) == IF x > 0 THEN 1 ELSE IF x < 0 THEN -1 ELSE 0

\* tolower in the C locale, and a char read as a signed number.
Lower(c)    == IF c \in 65 .. 90 THEN c + 32 ELSE c
Signed(c)   == IF c > 127 THEN c - 256 ELSE c
btolower(a) == [i \in DOMAIN a |-> Lower(a[i])]

-----------------------------------------------------------------------------
(***************************************************************************)
(* Searching: i is where a match would begin, j how much of it is found.   *)
(***************************************************************************)
RECURSIVE Down(_, _, _, _), Up(_, _, _, _)

Down(hay, f, i, j) ==
    IF hay[i + j + 1] = f[j + 1]
    THEN IF j + 1 >= Len(f) THEN i ELSE Down(hay, f, i, j + 1)
    ELSE IF i = 0 THEN -1 ELSE Down(hay, f, i - 1, 0)

Up(hay, f, i, j) ==
    IF hay[i + j + 1] = f[j + 1]
    THEN IF j + 1 >= Len(f) THEN i ELSE Up(hay, f, i, j + 1)
    ELSE IF i + 1 > Len(hay) - Len(f) THEN -1 ELSE Up(hay, f, i + 1, 0)

binstrr(hay, pos, f, same) ==
    CASE Len(hay) < pos             -> -1
      [] Len(hay) >= pos /\ f = <<>> -> pos
      [] OTHER -> IF same /\ pos = 0 /\ Len(f) <= Len(hay) THEN 0
                  ELSE IF Len(f) > Len(hay) THEN -1
                  ELSE Down(hay, f, Least({pos, Len(hay) - Len(f)}), 0)

binstrcaseless(hay, pos, f, same) ==
    CASE Len(hay) < pos             -> -1
      [] Len(hay) >= pos /\ f = <<>> -> pos
      [] OTHER -> IF Len(hay) - Len(f) < pos THEN -1
                  ELSE IF same /\ pos = 0 THEN 0
                  ELSE Up(btolower(hay), btolower(f), pos, 0)

binstrrcaseless(hay, pos, f, same) == binstrr(btolower(hay), pos, btolower(f), same)

-----------------------------------------------------------------------------
\* Comparing.  A NUL ends the comparison in bstrcmp and bstrncmp.
Stops(a, c, n)   == {i \in 1 .. n : a[i] # c[i] \/ a[i] = 0}
Differs(a, c, n) == {i \in 1 .. n : Lower(a[i]) # Lower(c[i])}

bstrcmp(a, c) ==
    LET stops == Stops(a, c, Least({Len(a), Len(c)}))
    IN  IF stops # {} THEN Signed(a[Least(stops)]) - Signed(c[Least(stops)])
        ELSE Sign(Len(a) - Len(c))

bstrncmp(a, c, n, same) ==
    LET m     == Least({n, Len(a), Len(c)})
        stops == IF same THEN {} ELSE Stops(a, c, m)
    IN  IF stops # {} THEN Signed(a[Least(stops)]) - Signed(c[Least(stops)])
        ELSE IF n = m THEN 0 ELSE Sign(Len(a) - Len(c))

\* What the longer text adds at its place i; a NUL counts as UCHAR_MAX + 1.
Extra(a, i) == IF Lower(a[i]) = 0 THEN 256 ELSE Signed(Lower(a[i]))

bstricmp(a, c) ==
    LET n       == Least({Len(a), Len(c)})
        differs == Differs(a, c, n)
        i       == Least(differs)
    IN  IF differs # {} THEN Signed(Lower(a[i])) - Signed(Lower(c[i]))
        ELSE IF Len(a) > n THEN Extra(a, n + 1)
        ELSE IF Len(c) > n THEN -Extra(c, n + 1) ELSE 0

\* The value returned is the difference before the change of case.
bstrnicmp(a, c, n, same) ==
    LET m       == Least({n, Len(a), Len(c)})
        differs == IF same THEN {} ELSE Differs(a, c, m)
        i       == Least(differs)
    IN  IF differs # {} THEN a[i] - c[i]
        ELSE IF n = m \/ Len(a) = Len(c) THEN 0
        ELSE IF Len(a) > m THEN Extra(a, m + 1) ELSE -Extra(c, m + 1)

biseq(a, c)         == Len(a) = Len(c) /\ \A i \in DOMAIN a : a[i] = c[i]
biseqcaseless(a, c) == Len(a) = Len(c) /\ Differs(a, c, Len(a)) = {}
bisstemeqblk(a, t)  == Len(a) >= Len(t) /\ \A i \in DOMAIN t : a[i] = t[i]

bisstemeqcaselessblk(a, t) == Len(a) >= Len(t) /\ Differs(a, t, Len(t)) = {}

\* The text t is followed by a NUL, and may have others.
CChar(t, i)     == IF i \in DOMAIN t THEN t[i] ELSE 0
biseqcstr(a, t) == /\ \A i \in DOMAIN a : CChar(t, i) # 0 /\ a[i] = CChar(t, i)
                   /\ CChar(t, Len(a) + 1) = 0

biseqcstrcaseless(a, t) == /\ \A i \in DOMAIN a : CChar(t, i) # 0 /\ Lower(a[i]) = Lower(CChar(t, i))
                           /\ CChar(t, Len(a) + 1) = 0

-----------------------------------------------------------------------------
Shorts  == UNION {[1 .. k -> Code] : k \in 0 .. MaxTerm}
Letters == Code \cap (65 .. 90 \cup 97 .. 122)
Hays    == UNION {[1 .. k -> Letters] : k \in 0 .. 2 * MaxTerm}

MaySame(a, c) == bisstemeqblk(a, c) \/ bisstemeqblk(c, a)

\* Where f begins in a at pos or before, or -1.
FoundLast(a, pos, f) ==
    LET at == {i \in 0 .. Least({pos, Len(a) - Len(f)}) : SubSeq(a, i + 1, i + Len(f)) = f}
    IN  IF at = {} THEN -1 ELSE Most(at)

(***************************************************************************)
(* A search backwards finds the last place not behind pos, one without     *)
(* regard to case the place where the folded text is, whether or not the   *)
(* arguments share their bytes.                                            *)
(***************************************************************************)
SearchesBack ==
    \A hay, f \in Hays, pos \in 0 .. 2 * MaxTerm + 1, same \in BOOLEAN :
        (same => MaySame(hay, f)) =>
            LET h    == btolower(hay)
                g    == btolower(f)
                In(p) == IF pos <= Len(hay) THEN p ELSE -1
            IN  /\ binstrr(hay, pos, f, same) = In(FoundLast(hay, pos, f))
                /\ binstrcaseless(hay, pos, f, same) = In(Found(h, pos, g))
                /\ binstrrcaseless(hay, pos, f, same) = In(FoundLast(h, pos, g))

\* cmp orders the texts, and finds those equal that are.
Orders(cmp(_, _), equal(_, _)) ==
    /\ \A a, c \in Shorts : /\ Sign(cmp(a, c)) = -Sign(cmp(c, a))
                           /\ equal(a, c) => cmp(a, c) = 0
    /\ \A a, c, d \in Shorts : cmp(a, c) <= 0 /\ cmp(c, d) <= 0 => cmp(a, d) <= 0

\* The letters at the first difference, where taking case or sign into account
\* reverses them: the code returns one difference and decides by another.
Reversed(a, c, n) ==
    LET differs == Differs(a, c, Least({n, Len(a), Len(c)}))
        x == a[Least(differs)]
        y == c[Least(differs)]
    IN  differs # {} /\ Sign(x - y) # Sign(Signed(Lower(x)) - Signed(Lower(y)))

(***************************************************************************)
(* bstrcmp and bstricmp are orders, the first with texts equal up to a NUL *)
(* the same, the second with those that differ in case; what they call     *)
(* equal the other comparisons call equal.  Comparing n characters is      *)
(* comparing the beginnings, with two exceptions: bstrncmp overlooks a NUL *)
(* when both texts begin at one byte, and bstrnicmp reverses the order of  *)
(* letters that lie on both sides of the lower or the signed range, so     *)
(* that it is no order at all.                                             *)
(***************************************************************************)
ComparesExact ==
    /\ Orders(bstrcmp, biseq) /\ Orders(bstricmp, biseqcaseless)
    /\ \A a, c \in Shorts :
          /\ bstrcmp(a, c) = 0 => biseq(a, c) \/ \E i \in DOMAIN a : a[i] = 0
          /\ bstricmp(a, c) = 0 => biseqcaseless(a, c)
          /\ biseqcstr(a, c) => biseqcstrcaseless(a, c)
          /\ bisstemeqblk(a, c) => bisstemeqcaselessblk(a, c) /\ bstrncmp(a, c, Len(c), FALSE) = 0
          /\ biseq(a, c) /\ (\A i \in DOMAIN a : a[i] # 0) => biseqcstr(a, c)
    /\ \A a, c \in Shorts, n \in 0 .. MaxTerm + 1, same \in BOOLEAN :
          (same => MaySame(a, c)) =>
              /\ \/ Sign(bstrncmp(a, c, n, same)) = Sign(bstrcmp(Front(a, n), Front(c, n)))
                 \/ same /\ \E i \in DOMAIN Front(a, n) : a[i] = 0
              /\ \/ Sign(bstrnicmp(a, c, n, same)) = Sign(bstricmp(Front(a, n), Front(c, n)))
                 \/ Reversed(a, c, n)
=============================================================================
