-------------------------- MODULE BstringReference --------------------------
(***************************************************************************)
(* What the calls of bstrlib.h promise, on plain sequences: positions count*)
(* from 0 and a text is padded when a position lies behind its end.        *)
(***************************************************************************)
EXTENDS Integers, Sequences, FiniteSets

Least(S) == CHOOSE x \in S : \A y \in S : x <= y
Most(S)  == CHOOSE x \in S : \A y \in S : x >= y

Filled(c, n)   == [i \in 1..n |-> c]
Pad(a, n, c)   == a \o Filled(c, n - Len(a))
Front(a, n)    == SubSeq(a, 1, Least({n, Len(a)}))
Behind(a, n)   == SubSeq(a, n + 1, Len(a))

Overwritten(a, pos, c, f)   == Front(Pad(a, pos, f), pos) \o c \o Behind(a, pos + Len(c))
Replaced(a, pos, len, c, f) == Front(Pad(a, pos, f), pos) \o c \o Behind(a, pos + len)
Inserted(a, pos, c, f)      == Replaced(a, pos, 0, c, f)
Middle(a, left, len)        == Front(Behind(a, Most({0, left})), Most({0, left + len - Most({0, left})}))
Deleted(a, pos, len)        == Front(a, Most({0, pos})) \o Behind(a, Most({0, pos, pos + len}))
Cycled(a, n)                == [i \in 1..n |-> a[((i - 1) % Len(a)) + 1]]

\* The text without what is blank at its left, or right, end.
Solid(a, blank)     == {i \in DOMAIN a : a[i] # blank}
LeftTrim(a, blank)  == IF Solid(a, blank) = {} THEN <<>> ELSE Behind(a, Least(Solid(a, blank)) - 1)
RightTrim(a, blank) == IF Solid(a, blank) = {} THEN <<>> ELSE Front(a, Most(Solid(a, blank)))

\* Where f occurs in a at pos or later, or -1.
Found(a, pos, f) ==
    LET at == {i \in pos..(Len(a) - Len(f)) : SubSeq(a, i + 1, i + Len(f)) = f}
    IN  IF at = {} THEN -1 ELSE Least(at)

\* Every occurrence of f from pos on, none overlapping another, becomes c.
RECURSIVE ReplacedAll(_, _, _, _)
ReplacedAll(a, pos, f, c) ==
    LET i == Found(a, pos, f)
    IN  IF i = -1 THEN a
        ELSE ReplacedAll(Front(a, i) \o c \o Behind(a, i + Len(f)), i + Len(c), f, c)

\* The beginning of a up to and with its first member of Terms, or all of a.
UpTo(a, Terms) ==
    LET at == {i \in DOMAIN a : a[i] \in Terms}
    IN  IF at = {} THEN a ELSE Front(a, Least(at))

\* The pieces of a between its members that are in Terms, and pieces joined by sep.
RECURSIVE Divided(_, _), Joined(_, _)
Divided(a, Terms) ==
    LET at == {i \in DOMAIN a : a[i] \in Terms}
    IN  IF at = {} THEN <<a>>
        ELSE <<Front(a, Least(at) - 1)>> \o Divided(Behind(a, Least(at)), Terms)

Joined(ps, sep) ==
    CASE Len(ps) = 0 -> <<>>
      [] Len(ps) = 1 -> ps[1]
      [] OTHER       -> Head(ps) \o sep \o Joined(Tail(ps), sep)
=============================================================================
