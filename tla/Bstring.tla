------------------------------ MODULE Bstring ------------------------------
(***************************************************************************)
(* The writable strings of bstring/bstrlib.c: the length, the buffer and   *)
(* what each call writes where, when arguments lie inside the buffer they  *)
(* are copied to, when allocations fail, and when integers overflow.       *)
(*                                                                         *)
(* A string is its text, the size of its buffer and whether a NUL follows  *)
(* the text; what lies behind is never read.  One string is under test; an *)
(* argument is a text elsewhere, a part of this string's buffer (the       *)
(* macro bmid2tbstr makes such a part) or the string itself.               *)
(***************************************************************************)
EXTENDS BstringReference, TLC

CONSTANTS Char,      \* the characters
          Space,     \* the one of them isspace accepts; it fills gaps too
          Smallest,  \* the smallest buffer snapUpSize asks for: 8 in the code
          MaxInt,    \* INT_MAX
          Chunk,     \* the first step of breada: 16 in the code
          Index,     \* the first size of bfindreplace's index of matches: 32
          MaxLen,    \* bound on the length of the string
          MaxArg     \* bound on the length of texts elsewhere

ASSUME BstringAssumption ==
    /\ Space \in Char /\ Char \cap {"NUL", "junk"} = {}
    /\ Smallest \in {2, 4, 8} /\ Chunk \in Nat \ {0} /\ Index \in Nat \ {0, 1}
    /\ \E k \in 3..31 : MaxInt = 2^k - 1
    /\ MaxLen \in Nat /\ MaxArg \in Nat

VARIABLES b,    \* the string, or NULL
          out   \* what the last call did

NUL  == "NUL"
Junk == "junk"
NULL == [mlen |-> 0]

Texts(n) == UNION {[1..k -> Char] : k \in 0..n}
Full(s)  == Len(s.text) = s.mlen
Wrap(x)  == ((x + MaxInt + 1) % (2 * (MaxInt + 1))) - (MaxInt + 1)

-----------------------------------------------------------------------------
(***************************************************************************)
(* A string while a call works on it: its cells, slen, whether its buffer  *)
(* has moved since the call began, how many allocations were asked for,    *)
(* and what the call has done wrong.                                       *)
(***************************************************************************)
Opened(s) ==
    [cells |-> [i \in 1..s.mlen |-> IF i <= Len(s.text) THEN s.text[i]
                                    ELSE IF i = Len(s.text) + 1 /\ s.ended THEN NUL ELSE Junk],
     slen |-> Len(s.text), moved |-> FALSE, asked |-> 0, ret |-> "ok", harm |-> "none"]

Closed(m) == [text  |-> SubSeq(m.cells, 1, m.slen), mlen |-> Len(m.cells),
              ended |-> m.slen < Len(m.cells) /\ m.cells[m.slen + 1] = NUL]

Store(m, at, cs) ==
    IF cs = <<>> THEN m
    ELSE [m EXCEPT !.cells = [i \in DOMAIN @ |-> IF i - at \in DOMAIN cs THEN cs[i - at] ELSE @[i]],
                   !.harm  = IF at + Len(cs) <= Len(m.cells) \/ @ # "none" THEN @ ELSE "outside"]

Cell(m, i)            == IF i \in DOMAIN m.cells THEN m.cells[i] ELSE Junk
Shift(m, to, from, n) == Store(m, to, [i \in 1..n |-> Cell(m, from + i)])
EndAt(m, n)           == [Store(m, n, <<NUL>>) EXCEPT !.slen = n]
Error(m)              == [m EXCEPT !.ret = "err"]
Asking(m)             == [m EXCEPT !.asked = @ + 1]

\* mem says how one allocation of a call goes, the mem.at-th: only the
\* tightest request succeeds, or none.
Plenty          == [at |-> 0, how |-> "snapped"]
Memory          == {Plenty} \cup [at : 1..4, how : {"tight", "none"}]
Granted(m, mem) == IF mem.at = m.asked + 1 THEN mem.how ELSE "snapped"

Powers == {p \in {2^k : k \in 1..30} : p <= MaxInt}

SnapUp(i) ==
    LET above == {p \in Powers : i < p}
    IN  IF i < Smallest THEN Smallest ELSE IF above = {} THEN i ELSE Least(above)

Resized(m, size) ==
    EndAt([m EXCEPT !.cells = [i \in 1..size |-> IF i <= m.slen THEN m.cells[i] ELSE Junk],
                    !.moved = TRUE], m.slen)

balloc(m, n, mem) ==
    LET got == Granted(m, mem)
    IN  IF m.ret = "err" \/ n <= 0 THEN Error(m)
        ELSE IF n < Len(m.cells) \/ SnapUp(n) <= Len(m.cells) THEN m
        ELSE IF got = "none" THEN Error(Asking(m))
        ELSE Resized(Asking(m), IF got = "tight" THEN n ELSE SnapUp(n))

ballocmin(m, len, mem) ==
    LET n == Most({len, m.slen + 1})
    IN  IF len <= 0 THEN Error(m)
        ELSE IF n = Len(m.cells) THEN m
        ELSE IF Granted(m, mem) # "snapped" THEN Error(Asking(m))
        ELSE Resized(Asking(m), n)

-----------------------------------------------------------------------------
(***************************************************************************)
(* Arguments.  A part of the buffer can no longer be read once the buffer  *)
(* has moved; the string itself can, its data is read again.               *)
(***************************************************************************)
Elsewhere(t)      == [kind |-> "outside", at |-> 0, text |-> t]
Part(s, at, n)    == [kind |-> "inside", at |-> at, text |-> SubSeq(s.text, at + 1, at + n)]
Itself(s)         == [kind |-> "same", at |-> 0, text |-> s.text]
Parts(s)          == {Part(s, r[1] - 1, r[2] - r[1] + 1) :
                         r \in {r \in (DOMAIN s.text) \X (DOMAIN s.text) : r[1] <= r[2]}}
Sources(s)        == {Elsewhere(t) : t \in Texts(MaxArg)} \cup {Itself(s)} \cup Parts(s)

Cut(src, from, n) == [src EXCEPT !.at = @ + from, !.text = SubSeq(@, from + 1, from + n)]

Bytes(m, src) == IF src.kind = "outside" THEN src.text
                 ELSE SubSeq(m.cells, src.at + 1, src.at + Len(src.text))

CopyTo(m, at, src) ==
    IF src.kind = "inside" /\ m.moved /\ src.text # <<>> THEN [m EXCEPT !.harm = "stale"]
    ELSE Store(m, at, Bytes(m, src))

\* Faulty variant: sees only an argument that is the string itself.
AliasedSame(src) == src.kind = "same"

Aliased(src) == src.kind # "outside"

\* bstrcpy of an argument that overlaps the string, when `copies' says so.
Separated(m, src, copies, mem) ==
    IF ~copies THEN [m |-> m, src |-> src]
    ELSE IF Granted(m, mem) = "none" THEN [m |-> Error(Asking(m)), src |-> src]
    ELSE [m |-> Asking(m), src |-> Elsewhere(Bytes(m, src))]

-----------------------------------------------------------------------------
\* Appending and assigning.
\* Faulty variant: asks for the characters without the NUL.
BconcatBare(m, src, mem) ==
    LET n     == m.slen + Len(src.text)
        short == Len(m.cells) <= n
        s     == Separated(m, src, short /\ Aliased(src), mem)
        g     == IF short THEN balloc(s.m, n, mem) ELSE m
    IN  IF g.ret = "err" THEN g ELSE EndAt(CopyTo(g, m.slen, s.src), n)

bconcat(m, src, mem) ==
    LET n     == m.slen + Len(src.text)
        short == Len(m.cells) <= n + 1
        s     == Separated(m, src, short /\ Aliased(src), mem)
        g     == IF short THEN balloc(s.m, n + 1, mem) ELSE m
    IN  IF g.ret = "err" THEN g ELSE EndAt(CopyTo(g, m.slen, s.src), n)

bconchar(m, c, mem) ==
    LET g == balloc(m, m.slen + 2, mem)
    IN  IF g.ret = "err" THEN g ELSE EndAt(Store(g, m.slen, <<c>>), m.slen + 1)

bcatblk(m, t, mem) ==
    LET n == m.slen + Len(t)
        g == IF Len(m.cells) <= n THEN balloc(m, n + 1, mem) ELSE m
    IN  IF g.ret = "err" THEN g ELSE EndAt(Store(g, m.slen, t), n)

\* Writes t while there is room for it and its NUL, then asks for more.
bcatcstr(m, t, mem) ==
    LET l == Len(m.cells) - m.slen
    IN  IF Len(t) < l THEN EndAt(Store(m, m.slen, t), m.slen + Len(t))
        ELSE bcatblk([Store(m, m.slen, Front(t, l)) EXCEPT !.slen = Len(m.cells)], Behind(t, l), mem)

bassign(m, src, mem) ==
    LET n == Len(src.text)
        g == IF n # 0 THEN balloc(m, n, mem) ELSE m
    IN  IF g.ret = "err" THEN g ELSE EndAt(CopyTo(g, 0, src), n)

bassignmidstr(m, src, left, len, mem) ==
    LET from == Most({0, left})
        n    == Least({left + len - from, Len(src.text) - from})
        g    == IF n > 0 THEN balloc(m, n, mem) ELSE m
    IN  IF g.ret = "err" THEN g
        ELSE IF n > 0 THEN EndAt(CopyTo(g, 0, Cut(src, from, n)), n) ELSE EndAt(m, 0)

bassigncstr(m, t, mem) ==
    LET size == Len(m.cells)
        part == [Store(m, 0, Front(t, size)) EXCEPT !.slen = size]
        g    == balloc(part, Len(t) + 1, mem)
    IN  IF Len(t) < size THEN EndAt(Store(m, 0, t), Len(t))
        ELSE IF g.ret = "err" THEN g ELSE EndAt(Store(g, size, Behind(t, size)), Len(t))

bassignblk(m, t, mem) ==
    LET g == IF Len(t) + 1 > Len(m.cells) THEN balloc(m, Len(t) + 1, mem) ELSE m
    IN  IF g.ret = "err" THEN g ELSE EndAt(Store(g, 0, t), Len(t))

-----------------------------------------------------------------------------
\* Cutting.
btrunc(m, n) == IF n < 0 THEN Error(m) ELSE IF m.slen > n THEN EndAt(m, n) ELSE m

\* Faulty variant: cuts the end off without a new NUL.
BdeleteOpen(m, pos, len) ==
    LET p == Most({0, pos})
        n == pos + len - p
    IN  IF n < 0 THEN Error(m)
        ELSE IF n = 0 \/ p >= m.slen THEN m
        ELSE IF p + n > MaxInt THEN [m EXCEPT !.harm = "overflow"]
        ELSE IF p + n >= m.slen THEN [m EXCEPT !.slen = p]
        ELSE EndAt(Shift(m, p, p + n, m.slen - (p + n)), m.slen - n)

\* pos + len is not compared with INT_MAX; past it the tail is copied from
\* before the buffer.
bdelete(m, pos, len) ==
    LET p == Most({0, pos})
        n == pos + len - p
    IN  IF n < 0 THEN Error(m)
        ELSE IF n = 0 \/ p >= m.slen THEN m
        ELSE IF p + n > MaxInt THEN [m EXCEPT !.harm = "overflow"]
        ELSE IF p + n >= m.slen THEN EndAt(m, p)
        ELSE EndAt(Shift(m, p, p + n, m.slen - (p + n)), m.slen - n)

Inked(m) == {i \in 1..m.slen : m.cells[i] # Space}

bltrimws(m) == IF Inked(m) = {} THEN EndAt(m, 0) ELSE bdelete(m, 0, Least(Inked(m)) - 1)
brtrimws(m) == EndAt(m, IF Inked(m) = {} THEN 0 ELSE Most(Inked(m)))
btrimws(m)  == IF Inked(m) = {} THEN EndAt(m, 0)
               ELSE bdelete(EndAt(m, Most(Inked(m))), 0, Least(Inked(m)) - 1)

-----------------------------------------------------------------------------
\* Writing into the middle.  An argument inside the buffer is copied first.
bsetstr(m, pos, src, mem) ==
    LET s == Separated(m, src, Aliased(src), mem)
        d == Wrap(pos + Len(src.text))
        g == balloc(s.m, Wrap(d + 1), mem)
        padded == Store(g, m.slen, Filled(Space, pos - m.slen))
    IN  IF g.ret = "err" THEN g
        ELSE EndAt(CopyTo(padded, pos, s.src), Most({m.slen, pos, d}))

\* The copy is not released when the sum of the lengths overflows.
binsert(m, pos, src, mem) ==
    LET s == Separated(m, src, Aliased(src), mem)
        d == Wrap(m.slen + Len(src.text))
        l == Wrap(pos + Len(src.text))
        g == balloc(s.m, Wrap(Most({d, l}) + 1), mem)
        opened == IF l > d THEN Store(g, m.slen, Filled(Space, pos - m.slen))
                  ELSE Shift(g, l, pos, d - l)
    IN  IF s.m.ret = "ok" /\ (d < 0 \/ l < 0)
        THEN [Error(s.m) EXCEPT !.harm = IF Aliased(src) THEN "leak" ELSE @]
        ELSE IF g.ret = "err" THEN g
        ELSE EndAt(CopyTo(opened, pos, s.src), Most({d, l}))

breplace(m, pos, len, src, mem) ==
    LET pl == Wrap(pos + len)
        n  == Len(src.text)
        r  == bsetstr(m, pos, src, mem)
        s  == Separated(m, src, Aliased(src), mem)
        g  == IF n > len THEN balloc(s.m, m.slen + n - len, mem) ELSE s.m
        shifted == IF n # len THEN Shift(g, pos + n, pl, m.slen - pl) ELSE g
    IN  IF pl < 0 THEN Error(m)
        ELSE IF pl >= m.slen
        THEN IF r.ret = "ok" /\ pos + n < r.slen THEN EndAt(r, pos + n) ELSE r
        ELSE IF g.ret = "err" THEN g
        ELSE EndAt(CopyTo(shifted, pos, s.src), m.slen + n - len)

binsertch(m, pos, len, c, mem) ==
    LET d == Wrap(m.slen + len)
        l == Wrap(pos + len)
        g == balloc(m, Wrap(Most({d, l}) + 1), mem)
    IN  IF d < 0 \/ l < 0 THEN Error(m)
        ELSE IF g.ret = "err" THEN g
        ELSE IF l > d THEN EndAt(Store(g, m.slen, Filled(c, l - m.slen)), l)
        ELSE EndAt(Store(Shift(g, l, pos, d - l), pos, Filled(c, len)), d)

\* A text of one character is left to bsetstr with a gap to fill.
bpattern(m, len, mem) ==
    LET d == m.slen
        g == balloc(m, Wrap(len + 1), mem)
        again == Store(g, d, [i \in 1..(len - d) |-> m.cells[((i - 1) % d) + 1]])
    IN  IF d <= 0 \/ len < 0 THEN Error(m)
        ELSE IF g.ret = "err" THEN g
        ELSE IF len > 0 /\ d = 1 THEN EndAt(Store(g, 1, Filled(m.cells[1], len - 1)), len)
        ELSE EndAt(again, len)

-----------------------------------------------------------------------------
(***************************************************************************)
(* binstr: the search keeps i, the number j of characters matched and the  *)
(* place ii of the first.  It looks at two characters in each round, and a *)
(* mismatch does not reset j: whether the characters matched were adjacent *)
(* is found out at the end.                                                *)
(***************************************************************************)
RECURSIVE Scan(_, _, _, _, _)

Matched(hay, needle, i, j, ii) ==
    IF i = ii + j THEN ii ELSE Scan(hay, needle, i - j, 0, ii)

Advance(hay, needle, i, j, ii) ==
    LET first == IF j = 0 THEN i ELSE ii
    IN  IF j + 1 < Len(needle) THEN Scan(hay, needle, i + 1, j + 1, first)
        ELSE Matched(hay, needle, i + 1, j + 1, first)

Scan(hay, needle, i, j, ii) ==
    LET last == Len(hay) - 1
        Is(k) == hay[k + 1] = needle[j + 1]
    IN  CASE i < last /\ Is(i)                 -> Advance(hay, needle, i, j, ii)
          [] i < last /\ ~Is(i) /\ Is(i + 1)   -> Advance(hay, needle, i + 1, j, ii)
          [] i < last /\ ~Is(i) /\ ~Is(i + 1)  -> Scan(hay, needle, i + 2, j, ii)
          [] i = last /\ Len(needle) = j + 1 /\ Is(i) -> Matched(hay, needle, i, j, ii)
          [] OTHER                             -> -1

binstr(hay, pos, needle) ==
    IF Len(hay) < pos \/ pos < 0 THEN -1
    ELSE IF needle = <<>> THEN pos
    ELSE IF Len(hay) - Len(needle) < pos THEN -1
    ELSE IF Len(needle) = 1 THEN Found(hay, pos, needle)
    ELSE Scan(hay, needle, pos, 0, -1)

-----------------------------------------------------------------------------
(***************************************************************************)
(* findreplaceengine: replacing by a text of the same length, a shorter    *)
(* one, or a longer one, for which all matches are found before the buffer *)
(* grows and then filled from the right.  An argument in the part of the   *)
(* buffer before `pos' is not copied, because nothing is written there.    *)
(***************************************************************************)
Touched(m, src, pos) == Aliased(src) /\ pos - Len(src.text) < src.at /\ src.at < m.slen

Search(m, f, pos) == binstr(SubSeq(m.cells, 1, m.slen), pos, Bytes(m, f))

RECURSIVE ReplaceEqual(_, _, _, _)
ReplaceEqual(m, f, r, pos) ==
    LET i == Search(m, f, pos)
    IN  IF i < 0 THEN m ELSE ReplaceEqual(CopyTo(m, i, r), f, r, i + Len(f.text))

RECURSIVE ReplaceShorter(_, _, _, _, _)
ReplaceShorter(m, f, r, pos, acc) ==
    LET i    == Search(m, f, pos)
        end  == IF i < 0 THEN m.slen ELSE i
        kept == IF acc # 0 THEN Shift(m, pos - acc, pos, end - pos) ELSE m
    IN  IF i < 0 THEN IF acc # 0 THEN EndAt(kept, m.slen - acc) ELSE m
        ELSE ReplaceShorter(CopyTo(kept, i - acc, r), f, r, i + Len(f.text),
                            acc + Len(f.text) - Len(r.text))

RECURSIVE Matches(_, _, _)
Matches(m, f, pos) ==
    LET i == Search(m, f, pos)
    IN  IF i < 0 THEN <<>> ELSE <<i>> \o Matches(m, f, i + Len(f.text))

\* The matches d[1..k] are still to be moved, the last of them by acc.
RECURSIVE Spread(_, _, _, _, _, _)
Spread(m, f, r, d, k, acc) ==
    LET s == d[k] + Len(f.text)
        moved == Shift(m, s + acc, s, d[k + 1] - s)
        done  == CopyTo(moved, s + acc - Len(r.text), r)
    IN  IF k = 0 THEN m
        ELSE Spread(done, f, r, d, k - 1, acc - (Len(r.text) - Len(f.text)))

\* The index of n matches and the end: it is allocated once it would be
\* full, and then doubled as often as it would be full again.
Indexed(m, n, mem) ==
    LET asked == m.asked + Cardinality({k \in 0 .. n : Index * 2^k <= n})
        short == mem.how = "none" /\ mem.at \in m.asked + 1 .. asked
    IN  [m EXCEPT !.asked = IF short THEN mem.at ELSE asked, !.ret = IF short THEN "err" ELSE @]

ReplaceLonger(m, f, r, pos, mem) ==
    LET d   == Matches(m, f, pos)
        acc == Len(d) * (Len(r.text) - Len(f.text))
        g   == balloc(Indexed(m, Len(d), mem), m.slen + acc + 1, mem)
    IN  IF g.ret = "err" THEN g
        ELSE EndAt(Spread(g, f, r, Append(d, m.slen), Len(d), acc), m.slen + acc)

bfindreplace(m, find, repl, pos, mem) ==
    LET f == Separated(m, find, Touched(m, find, pos), mem)
        r == Separated(f.m, repl, Touched(m, repl, pos), mem)
        longer == Len(repl.text) - Len(find.text)
    IN  IF find.text = <<>> THEN Error(m)
        ELSE IF pos > m.slen - Len(find.text) THEN m
        ELSE IF f.m.ret = "err" THEN f.m
        ELSE IF r.m.ret = "err" THEN r.m
        ELSE CASE longer = 0 -> ReplaceEqual(r.m, f.src, r.src, pos)
               [] longer < 0 -> ReplaceShorter(r.m, f.src, r.src, pos, 0)
               [] longer > 0 -> ReplaceLonger(r.m, f.src, r.src, pos, mem)

-----------------------------------------------------------------------------
(***************************************************************************)
(* Reading from a function of the client: breada asks for more and more at *)
(* once, bgetsa and bassigngets for one character after the other up to a  *)
(* terminator.                                                             *)
(***************************************************************************)
RECURSIVE Reading(_, _, _, _)
Reading(m, n, source, mem) ==
    LET g == balloc(m, n + 1, mem)
        l == Least({n - m.slen, Len(source)})
        got == [Store(g, m.slen, Front(source, l)) EXCEPT !.slen = m.slen + l]
    IN  IF g.ret = "err" THEN g
        ELSE IF got.slen < n THEN EndAt(got, got.slen)
        ELSE Reading(got, n + n, Behind(source, l), mem)

breada(m, source, mem) == Reading(m, m.slen + Chunk, source, mem)

RECURSIVE Getting(_, _, _, _)
Getting(m, d, source, mem) ==
    LET short == d > Len(m.cells) - 2
        g == IF short THEN balloc([m EXCEPT !.slen = d], d + 2, mem) ELSE m
        put == Store(g, d, <<Head(source)>>)
    IN  IF source = <<>> THEN EndAt(m, d)
        ELSE IF g.ret = "err" THEN g
        ELSE IF Head(source) = Space THEN EndAt(put, d + 1)
        ELSE Getting(put, d + 1, Tail(source), mem)

bgetsa(m, source, mem)      == Getting(m, m.slen, source, mem)
bassigngets(m, source, mem) == Getting(m, 0, source, mem)

-----------------------------------------------------------------------------
\* New strings: bfromcstr, bfromcstralloc and blk2bstr ask once, bstrcpy is
\* content with less.
Fresh(t, size) == [text |-> t, mlen |-> size, ended |-> TRUE]

Made(t, atleast) == Fresh(t, Most({atleast, SnapUp(IF t = <<>> THEN 2 ELSE Len(t) + 1)}))
Copies(t)        == {Fresh(t, SnapUp(Len(t) + 1)), Fresh(t, Len(t) + 1)}

bmidstr(t, left, len) ==
    LET from == Most({0, left})
        n    == Least({left + len - from, Len(t) - from})
    IN  IF n <= 0 THEN Made(<<>>, 0) ELSE Made(SubSeq(t, from + 1, from + n), 0)

-----------------------------------------------------------------------------
(***************************************************************************)
(* The client: one call at a time, any arguments.  `out' says what the     *)
(* call returned, which text the string has to have now (the result that   *)
(* was promised, or after an error the old text), what went wrong, and     *)
(* under which circumstances.                                              *)
(***************************************************************************)
Idle == [fn |-> "none", ret |-> "ok", want |-> <<>>, harm |-> "none", full |-> FALSE,
         memory |-> "snapped"]

Does(fn, want, m, mem) ==
    /\ mem.at <= m.asked
    /\ b' = IF m.harm = "none" THEN Closed(m) ELSE b
    /\ out' = [fn |-> fn, ret |-> m.ret, want |-> IF m.ret = "ok" THEN want ELSE b.text,
               harm |-> m.harm, full |-> Full(b), memory |-> mem.how]

Replaces(fn, want, s) ==
    /\ b' = s
    /\ out' = [Idle EXCEPT !.fn = fn, !.want = want]

Ready       == out = Idle /\ b # NULL
Fits(t)     == Len(t) <= MaxLen
Places      == 0..(MaxLen + 1)
Extents     == Places \cup {MaxInt}

New == /\ out = Idle /\ b = NULL
       /\ \E t \in Texts(MaxLen), n \in {0, MaxLen} : Replaces("new", t, Made(t, n))

Copy == /\ Ready
        /\ \E s \in Copies(b.text) : Replaces("bstrcpy", b.text, s)

Mid == /\ Ready
       /\ \E left \in {-1} \cup Places, len \in Places :
             Replaces("bmidstr", Middle(b.text, left, len), bmidstr(b.text, left, len))

Destroy == /\ Ready
           /\ b' = NULL /\ out' = Idle

Reserve == /\ Ready
           /\ \E n \in Places, mem \in Memory :
                 \/ Does("balloc", b.text, balloc(Opened(b), n, mem), mem)
                 \/ Does("ballocmin", b.text, ballocmin(Opened(b), n, mem), mem)

Concat == /\ Ready
          /\ \E src \in Sources(b), mem \in Memory :
                /\ Fits(b.text \o src.text)
                /\ Does("bconcat", b.text \o src.text, bconcat(Opened(b), src, mem), mem)

Assign == /\ Ready
          /\ \E src \in Sources(b), mem \in Memory :
                \/ Does("bassign", src.text, bassign(Opened(b), src, mem), mem)
                \/ \E left \in {-1, 0, 1}, len \in Places :
                      Does("bassignmidstr", Middle(src.text, left, len),
                           bassignmidstr(Opened(b), src, left, len, mem), mem)

AppendTexts == /\ Ready
               /\ \E t \in Texts(MaxArg), mem \in Memory :
                     LET all == b.text \o t
                     IN  /\ Fits(all)
                         /\ \/ Does("bcatblk", all, bcatblk(Opened(b), t, mem), mem)
                            \/ Does("bcatcstr", all, bcatcstr(Opened(b), t, mem), mem)
                            \/ /\ Len(t) = 1
                               /\ Does("bconchar", all, bconchar(Opened(b), Head(t), mem), mem)

AssignTexts == /\ Ready
               /\ \E t \in Texts(MaxLen), mem \in Memory :
                     \/ Does("bassignblk", t, bassignblk(Opened(b), t, mem), mem)
                     \/ Does("bassigncstr", t, bassigncstr(Opened(b), t, mem), mem)

Truncate == /\ Ready
            /\ \E n \in Places : Does("btrunc", Front(b.text, n), btrunc(Opened(b), n), Plenty)

Delete == /\ Ready
          /\ \E pos \in {-1} \cup Places, len \in Extents :
                Does("bdelete", Deleted(b.text, pos, len), bdelete(Opened(b), pos, len), Plenty)

Trim == /\ Ready
        /\ LET left == LeftTrim(b.text, Space)
           IN  \/ Does("bltrimws", left, bltrimws(Opened(b)), Plenty)
               \/ Does("brtrimws", RightTrim(b.text, Space), brtrimws(Opened(b)), Plenty)
               \/ Does("btrimws", RightTrim(left, Space), btrimws(Opened(b)), Plenty)

Overwrite == /\ Ready
             /\ \E src \in Sources(b), pos \in Extents, mem \in Memory :
                   LET want == Overwritten(b.text, pos, src.text, Space)
                   IN  /\ Fits(want) \/ pos = MaxInt
                       /\ Does("bsetstr", want, bsetstr(Opened(b), pos, src, mem), mem)

Insert == /\ Ready
          /\ \E src \in Sources(b), pos \in Extents, mem \in Memory :
                LET want == Inserted(b.text, pos, src.text, Space)
                IN  /\ Fits(want) \/ pos = MaxInt
                    /\ Does("binsert", want, binsert(Opened(b), pos, src, mem), mem)

Replace == /\ Ready
           /\ \E src \in Sources(b), pos \in Places, len \in Extents, mem \in Memory :
                 LET want == Replaced(b.text, pos, len, src.text, Space)
                 IN  /\ Fits(want)
                     /\ Does("breplace", want, breplace(Opened(b), pos, len, src, mem), mem)

ReplaceAll == /\ Ready
              /\ \E find, repl \in Sources(b), pos \in 0..2, mem \in Memory :
                    /\ find.text # <<>>
                    /\ LET want == ReplacedAll(b.text, pos, find.text, repl.text)
                       IN  /\ Fits(want)
                           /\ Does("bfindreplace", want, bfindreplace(Opened(b), find, repl, pos, mem), mem)

InsertChars == /\ Ready
           /\ \E c \in Char, pos \in Extents, len \in Extents, mem \in Memory :
                 LET want == Inserted(b.text, pos, Filled(c, len), Space)
                 IN  /\ Fits(want) \/ MaxInt \in {pos, len}
                     /\ Does("binsertch", IF pos > Len(b.text) THEN Pad(b.text, pos + len, c) ELSE want,
                             binsertch(Opened(b), pos, len, c, mem), mem)

Pattern == /\ Ready /\ b.text # <<>>
           /\ \E len \in Places, mem \in Memory :
                 /\ len <= MaxLen
                 /\ Does("bpattern", Cycled(b.text, len), bpattern(Opened(b), len, mem), mem)

Read == /\ Ready
        /\ \E t \in Texts(MaxLen), mem \in Memory :
              LET line == UpTo(t, {Space})
              IN  \/ /\ Fits(b.text \o t)
                     /\ Does("breada", b.text \o t, breada(Opened(b), t, mem), mem)
                  \/ /\ Fits(b.text \o line)
                     /\ Does("bgetsa", b.text \o line, bgetsa(Opened(b), t, mem), mem)
                  \/ Does("bassigngets", line, bassigngets(Opened(b), t, mem), mem)

\* The client has seen what the call returned.
Return == out # Idle /\ out.harm = "none" /\ out' = Idle /\ UNCHANGED b

Init == b = NULL /\ out = Idle

Next == \/ New \/ Copy \/ Mid \/ Destroy \/ Reserve \/ Concat \/ Assign \/ AppendTexts
        \/ AssignTexts \/ Truncate \/ Delete \/ Trim \/ Overwrite \/ Insert \/ Replace
        \/ ReplaceAll \/ InsertChars \/ Pattern \/ Read \/ Return

vars == <<b, out>>
Spec == Init /\ [][Next]_vars

-----------------------------------------------------------------------------
\* Types; a NUL behind the text lies in the buffer.
TypeOK == /\ b # NULL => /\ Len(b.text) <= MaxLen /\ Len(b.text) <= b.mlen
                         /\ \A i \in DOMAIN b.text : b.text[i] \in Char
                         /\ b.ended => ~Full(b)
          /\ out.ret \in {"ok", "err"}

Piecewise == {"bcatcstr", "bassigncstr", "breada", "bgetsa", "bassigngets",
              "bsreadln", "bsreadlna", "bsread", "bsreada"}

(***************************************************************************)
(* A call that succeeds leaves what it promised, whatever its arguments    *)
(* overlap and whether or not the buffer moved; one that fails leaves the  *)
(* text as it was, unless it works piece by piece.                         *)
(***************************************************************************)
Exact == (b # NULL /\ out # Idle /\ out.harm = "none"
            /\ (out.fn \in Piecewise => out.ret = "ok" /\ out.memory # "none")) => b.text = out.want

(***************************************************************************)
(* The calls that damage memory are these.  A string that has no room for  *)
(* its NUL (see StaysTerminated) is not safe for any call.  Where the size *)
(* asked of balloc does not count the NUL, a buffer of exactly that size   *)
(* is too small: bassign, bassignmidstr and breplace, when only the        *)
(* tightest allocation succeeds or when snapUpSize cannot round up any     *)
(* more.  bfindreplace uses a replacement that lies before `pos' in the    *)
(* buffer after the buffer has moved.                                      *)
(***************************************************************************)
Unrounded == 2 * Len(out.want) > MaxInt

StringHarms == CASE out.harm = "none"     -> TRUE
                [] out.harm = "outside"  ->
                      \/ out.full
                      \/ /\ out.fn \in {"bassign", "bassignmidstr", "breplace"}
                         /\ out.memory = "tight" \/ Unrounded
                [] out.harm = "stale"    -> out.full \/ out.fn = "bfindreplace"
                [] out.harm = "overflow" -> out.fn = "bdelete"
                [] out.harm = "leak"     -> out.fn = "binsert"

(***************************************************************************)
(* A string loses the NUL behind its text only to a call that fails after  *)
(* it has written a part, and the room for it only to bcatcstr and         *)
(* bassigncstr.                                                            *)
(***************************************************************************)
StaysTerminated == [][(b # NULL /\ b' # NULL /\ b.ended /\ ~b'.ended) =>
                        /\ out'.fn \in Piecewise
                        /\ out'.ret = "err" \/ out'.memory = "none"
                        /\ Full(b') => out'.fn \in {"bcatcstr", "bassigncstr"}]_vars

(***************************************************************************)
(* binstr finds the first occurrence, although it skips characters.  This  *)
(* does not depend on the state; one state is enough to look at.           *)
(***************************************************************************)
SearchExact == b = NULL => \A hay \in Texts(MaxLen + MaxArg), f \in Texts(MaxArg + 1), pos \in Places :
    binstr(hay, pos, f) = IF pos <= Len(hay) THEN Found(hay, pos, f) ELSE -1
=============================================================================
