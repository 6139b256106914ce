------------------------------ MODULE Bpieces ------------------------------
(***************************************************************************)
(* Splitting and joining in bstring/bstrlib.c.  A split gives the pieces   *)
(* of a string one after the other to a callback, which may change the     *)
(* string meanwhile; bsplit, bsplits and bsplitstr have a callback of the  *)
(* library, bscb, which collects copies in a list.  A step is one turn of  *)
(* the loop up to the callback, or the callback.                           *)
(*                                                                         *)
(* Splits are of a string as bfromcstr makes it, and the list is used      *)
(* before the string is written to again.  What a split of a stream gives  *)
(* is an operator on what the stream has.                                  *)
(***************************************************************************)
EXTENDS Bstream, Bsearch

CONSTANTS Room,      \* entries a split begins with: 4 in the code
          Block,     \* BSSSC_BUFF_LEN: 256 in the code
          MaxStream  \* bound on what a stream holds that is split

ASSUME BpiecesAssumption == Room \in Nat \ {0} /\ Block \in Nat \ {0} /\ MaxStream \in Nat

VARIABLES list,  \* the list: its entries and mlen, and of which split it is
          cut    \* the split that is under way: where it stands, and what
                 \* the callback has been given

None    == [fn |-> "none"]
Missing == [kind |-> "missing"]
Piece(t) == [kind |-> "text", text |-> t]

BsplitFns == {"bsplit", "bsplits", "bsplitstr"}

-----------------------------------------------------------------------------
(***************************************************************************)
(* One turn: from i on the loop looks for a separator, and gives what lies *)
(* before it, from p on.                                                   *)
(***************************************************************************)
Separator(c, t, i) == IF c.fn = "bsplitstr" /\ Len(c.sep) > 1
                      THEN SubSeq(t, i + 1, i + Len(c.sep)) = c.sep
                      ELSE \E k \in DOMAIN c.sep : t[i + 1] = c.sep[k]

Width(c) == IF c.fn = "bsplitstr" THEN Len(c.sep) ELSE 1

\* Where separators are.
Ahead(c, t) == {i \in c.i .. Len(t) - Width(c) : Separator(c, t, i)}

\* Where the search goes on: bsplitstrcb steps over the separator and then
\* once more at the end of its loop.
Resume(c, at) == IF Width(c) > 1 THEN at + Width(c) + 1 ELSE at + 1

Give(c, from, len, i, p, last) ==
    [c EXCEPT !.ofs = from, !.len = len, !.i = i, !.p = p, !.last = last, !.given = TRUE]

\* An empty separator: bsplits gives everything at once, bsplitstr each
\* character by itself.
Turn(c, t) ==
    LET at == IF Ahead(c, t) # {} THEN Least(Ahead(c, t)) ELSE Len(t)
    IN  CASE c.sep = <<>> /\ c.fn = "bsplits"   -> Give(c, 0, Len(t), 0, 0, TRUE)
          [] c.sep = <<>> /\ c.fn = "bsplitstr" -> Give(c, c.i, 1, c.i + 1, c.i + 1, FALSE)
          [] c.sep # <<>> -> Give(c, c.p, at - c.p, Resume(c, at), at + Width(c),
                                  Width(c) > 1 /\ Ahead(c, t) = {})

\* Faulty variant of the next: nothing behind the last separator is no piece.
OverEarly(c, t) == \/ c.last
                   \/ c.sep = <<>> /\ c.fn = "bsplitstr" /\ c.i >= Len(t)
                   \/ Width(c) = 1 /\ c.sep # <<>> /\ c.p >= Len(t)

\* The loop has ended.  With one character, or a set of them, it ends where the
\* string is shorter than p; bsplitstrcb gives what is left in any case.
Over(c, t) == \/ c.last
              \/ c.sep = <<>> /\ c.fn = "bsplitstr" /\ c.i >= Len(t)
              \/ Width(c) = 1 /\ c.sep # <<>> /\ c.p > Len(t)

-----------------------------------------------------------------------------
(***************************************************************************)
(* The calls.  A list remembers the text and the separator it came from.   *)
(***************************************************************************)
Begun(fn, sep, cb) == [fn |-> fn, sep |-> sep, cb |-> cb, i |-> 0, p |-> 0, ofs |-> 0, len |-> 0,
                       given |-> FALSE, last |-> FALSE]

NewList(fn, sep, room) == [fn |-> fn, sep |-> sep, of |-> b.text, entries |-> <<>>, mlen |-> room]

Failed(fn) == out' = [Idle EXCEPT !.fn = fn, !.ret = "err", !.want = b.text]

Listing   == Ready /\ stream = Shut /\ cut = None
Separators == Texts(MaxArg)

BeginSplit ==
    /\ Listing /\ list = None /\ b = Made(b.text, 0)
    /\ \E fn \in BsplitFns, sep \in Separators, cb \in {"bscb", "client"} :
          /\ fn = "bsplit" => Len(sep) = 1
          /\ \/ /\ cut' = Begun(fn, sep, cb)
                /\ list' = IF cb = "bscb" THEN NewList(fn, sep, Room) ELSE None
                /\ UNCHANGED out
             \/ cb = "bscb" /\ Failed(fn) /\ UNCHANGED <<list, cut>>
    /\ UNCHANGED <<b, stream>>

Splitting == b # NULL /\ out = Idle /\ cut # None

NextPiece == /\ Splitting /\ ~cut.given /\ ~Over(cut, b.text)
             /\ cut' = Turn(cut, b.text)
             /\ UNCHANGED <<b, out, stream, list>>

EndSplit == /\ Splitting /\ ~cut.given /\ Over(cut, b.text)
            /\ cut' = None
            /\ UNCHANGED <<b, out, stream, list>>

\* bscb: an entry that cannot be copied is NULL and no error; a list that
\* cannot grow is given up.
Bscb ==
    /\ Splitting /\ cut.given /\ cut.cb = "bscb"
    /\ LET room == IF Len(list.entries) < list.mlen THEN list.mlen ELSE 2 * list.mlen
       IN  \/ \E e \in {Missing, Piece(SubSeq(b.text, cut.ofs + 1, cut.ofs + cut.len))} :
                 /\ list' = [list EXCEPT !.entries = Append(@, e), !.mlen = room]
                 /\ cut' = [cut EXCEPT !.given = FALSE]
                 /\ UNCHANGED out
           \/ /\ room > list.mlen
              /\ Failed(cut.fn) /\ cut' = None /\ list' = None
    /\ UNCHANGED <<b, stream>>

\* A callback of the client may cut the string, or append to it.
ClientCallback ==
    /\ Splitting /\ cut.given /\ cut.cb = "client"
    /\ \E m \in {btrunc(Opened(b), n) : n \in 0 .. MaxLen} \cup
                {bconchar(Opened(b), c, Plenty) : c \in Char} :
          /\ m.slen <= MaxLen
          /\ b' = Closed(m)
    /\ cut' = [cut EXCEPT !.given = FALSE]
    /\ UNCHANGED <<out, stream, list>>

\* The client's callback ends the split.
ClientStops == /\ Splitting /\ cut.given /\ cut.cb = "client"
               /\ cut' = None
               /\ UNCHANGED <<b, out, stream, list>>

Lengths(l) == LET n[k \in 0 .. Len(l.entries)] ==
                    IF k = 0 THEN 0 ELSE n[k - 1] + Len(l.entries[k].text)
              IN  n[Len(l.entries)]

\* The size of the block counts the separators without a look at overflow,
\* and one too few of them for a list of no entries.
Sized(l, sep) == Wrap(1 + Lengths(l) + (Len(l.entries) - 1) * Len(sep))

Joins(l) == [k \in DOMAIN l.entries |-> l.entries[k].text]

JoinHarm(l, sep) ==
    IF \E k \in DOMAIN l.entries : l.entries[k] = Missing THEN "null"
    ELSE IF Sized(l, sep) < 0 \/ Len(Joined(Joins(l), sep)) < Sized(l, sep) THEN "none"
    ELSE "outside"

\* The string becomes the list joined; a size below zero is refused as huge.
Join ==
    /\ Listing /\ list # None
    /\ \E sep \in Separators \cup {Filled(Space, 2 * MaxArg)} :
          LET harm == JoinHarm(list, sep)
              text == Joined(Joins(list), sep)
          IN  /\ \/ harm # "none" /\ UNCHANGED b
                    /\ out' = [Idle EXCEPT !.fn = "bjoin", !.harm = harm,
                                      !.want = IF harm = "null" THEN <<>> ELSE text]
                 \/ harm = "none" /\ Failed("bjoin") /\ UNCHANGED b
                 \/ harm = "none" /\ Sized(list, sep) > 0 /\ Fits(text)
                    /\ Replaces("bjoin", text, Fresh(text, Sized(list, sep)))
    /\ UNCHANGED <<stream, list, cut>>

CreateList ==
    /\ Listing /\ list = None /\ b = Made(b.text, 0)
    /\ \/ list' = NewList("bstrListCreate", <<>>, 1) /\ UNCHANGED out
       \/ Failed("bstrListCreate") /\ UNCHANGED list
    /\ UNCHANGED <<b, stream, cut>>

\* bstrListAlloc, which asks for less when it cannot have a round number.
ReserveList ==
    /\ Listing /\ list # None
    /\ \E n \in 1 .. MaxLen + 1 :
          \/ /\ n > list.mlen
             /\ \E size \in {SnapUp(n), n} : list' = [list EXCEPT !.mlen = size]
             /\ UNCHANGED out
          \/ /\ list' = [list EXCEPT !.mlen = Most({n, Len(list.entries)})]
             /\ UNCHANGED out
          \/ Failed("bstrListAlloc") /\ UNCHANGED list
    /\ UNCHANGED <<b, stream, cut>>

DestroyList == /\ Listing /\ list # None
               /\ list' = None
               /\ UNCHANGED <<b, out, stream, cut>>

BpiecesInit == BstreamInit /\ list = None /\ cut = None
BpiecesNext ==
    \/ /\ list = None /\ cut = None
       /\ BstreamNext /\ UNCHANGED <<list, cut>>
    \/ list # None /\ Return /\ UNCHANGED <<stream, list, cut>>
    \/ BeginSplit \/ NextPiece \/ EndSplit \/ Bscb \/ ClientCallback \/ ClientStops
    \/ Join \/ CreateList \/ ReserveList \/ DestroyList

-----------------------------------------------------------------------------
(***************************************************************************)
(* Splitting a stream: bssplitscb, which gives back to the stream what it  *)
(* has read behind a separator, and bssplitstrcb, which keeps it.  The     *)
(* result is what the callback is given; it leaves the stream alone.       *)
(***************************************************************************)
Wide == INSTANCE Bstream WITH MaxInt <- 127

Streaming(t) == [m    |-> Wide!Opened(Made(<<>>, 0)), buff |-> Wide!Opened(Made(<<>>, 0)),
                 s    |-> [source |-> t, eof |-> FALSE, max |-> 2 * Block]]

Received(st, left) ==
    [m |-> left.r, buff |-> left.buff, s |-> [st.s EXCEPT !.source = left.source, !.eof = left.eof]]

ReadOn(st) ==
    Received(st, Wide!bsreada([st.m EXCEPT !.ret = "ok"], st.buff, st.s, Block, Plenty))

Cleared(m) == [m EXCEPT !.slen = 0]

RECURSIVE SplitChars(_, _, _), SplitWords(_, _), Blocks(_)

\* At i the string ends or a separator stands; what is behind it goes back.
PutBack(st, i) ==
    [st EXCEPT !.m    = Cleared(@),
               !.buff = Wide!binsert(@, 0, Elsewhere(Behind(Text(st.m), i + 1)), Plenty)]

CharAt(st, i, sep) ==
    IF i >= st.m.slen THEN <<Text(st.m)>>
    ELSE IF st.m.cells[i + 1] \in sep
    THEN <<Front(Text(st.m), i)>> \o SplitChars(PutBack(st, i), 0, sep)
    ELSE SplitChars(st, i + 1, sep)

SplitChars(st, i, sep) == CharAt(IF i >= st.m.slen THEN ReadOn(st) ELSE st, i, sep)

\* The string is searched again from its beginning after each read, but for
\* the read that finds the end.
WordAt(st, at, sep) ==
    <<Front(Text(st.m), at)>> \o SplitWords([st EXCEPT !.m = Wide!bdelete(@, 0, at + Len(sep))], sep)

AfterRead(st, sep) == IF st.s.eof /\ st.buff.slen = 0 THEN <<Text(st.m)>> ELSE SplitWords(st, sep)

SplitWords(st, sep) ==
    LET at == binstr(Text(st.m), 0, sep)
    IN  IF at >= 0 THEN WordAt(st, at, sep) ELSE AfterRead(ReadOn(st), sep)

\* Without a separator bssplitstrcb gives what each read has brought.
Brought(st) == IF st.m.ret = "err" THEN <<>>
               ELSE <<Text(st.m)>> \o Blocks([st EXCEPT !.m = Cleared(@)])

Blocks(st) == Brought(ReadOn(st))

bssplitstrcb(t, sep) ==
    CASE Len(sep) = 0 -> Blocks(Streaming(t))
      [] Len(sep) = 1 -> SplitChars(Streaming(t), 0, {sep[1]})
      [] OTHER        -> SplitWords(Streaming(t), sep)

-----------------------------------------------------------------------------
piecesvars  == <<b, out, stream, list, cut>>
BpiecesSpec == BpiecesInit /\ [][BpiecesNext]_piecesvars
-----------------------------------------------------------------------------
CharsOf(sep) == {sep[k] : k \in DOMAIN sep}

\* The first piece ends at the first sep, each other one at the first that does
\* not stand directly behind a sep; the last has no such sep in it.
Leftmost(ps, sep) ==
    \A k \in DOMAIN ps :
        LET from == IF k = 1 THEN 0 ELSE 1
        IN  IF k < Len(ps) THEN Found(ps[k] \o sep, from, sep) = Len(ps[k])
            ELSE Len(ps[k]) < from \/ Found(ps[k], from, sep) = -1

(***************************************************************************)
(* A list that could be copied has the pieces of the text, in order and    *)
(* with none left out, also an empty one at the end.  Of two separators of *)
(* bsplitstr that follow each other directly the second is overlooked.     *)
(* An empty separator of bsplits gives the whole string, one of bsplitstr  *)
(* each character by itself; the comment of bsplitstrcb, which says that   *)
(* it gives the whole string once, is wrong.                               *)
(***************************************************************************)
Collected ==
    (list # None /\ cut = None) =>
        /\ Len(list.entries) <= list.mlen
        /\ (list.fn \in BsplitFns /\ \A k \in DOMAIN list.entries : list.entries[k] # Missing) =>
              LET ps == Joins(list)
              IN  CASE list.sep = <<>> /\ list.fn = "bsplits"   -> ps = <<list.of>>
                    [] list.sep = <<>> /\ list.fn = "bsplitstr" ->
                          Joined(ps, <<>>) = list.of /\ \A k \in DOMAIN ps : Len(ps[k]) = 1
                    [] list.sep # <<>> ->
                          IF Width(list) = 1
                          THEN ps = Divided(list.of, CharsOf(list.sep))
                          ELSE Joined(ps, list.sep) = list.of /\ Leftmost(ps, list.sep)

(***************************************************************************)
(* Whatever the callbacks before have done to the string, a callback is    *)
(* given a part of it; but bsplitstrcb calls once more, with a length      *)
(* below zero, when the string has become shorter than the place behind    *)
(* the last separator, where its comment says that it halts.               *)
(***************************************************************************)
GivenInside ==
    (cut # None /\ cut.given) =>
        \/ cut.ofs >= 0 /\ cut.len >= 0 /\ cut.ofs + cut.len <= Len(b.text)
        \/ /\ cut.fn = "bsplitstr" /\ Len(cut.sep) > 1 /\ cut.cb = "client" /\ cut.last
           /\ Len(b.text) < cut.ofs

\* ps has the words of t, but for those that end in the last block.
InFront(ps, t, sep) ==
    LET final == ps[Len(ps)]
        word  == Found(final, 0, sep)
    IN  /\ Joined(ps, sep) = t
        /\ Len(sep) > 1 =>
              /\ \A k \in 1 .. Len(ps) - 1 : Found(ps[k] \o sep, 0, sep) = Len(ps[k])
              /\ word = -1 \/ Len(t) - Len(final) + word + Len(sep) > Block * (Len(t) \div Block)

(***************************************************************************)
(* Streams: characters are found wherever they lie, words only in front of *)
(* the block that is read last, which is not searched at all.  This does   *)
(* not depend on the state; one state is enough to look at.                *)
(***************************************************************************)
StreamPieces ==
    (b = NULL /\ out = Idle) =>
        \A t \in Texts(MaxStream), sep \in Separators :
            /\ sep # <<>> => SplitChars(Streaming(t), 0, CharsOf(sep)) = Divided(t, CharsOf(sep))
            /\ InFront(bssplitstrcb(t, sep), t, sep)

\* Splitting and joining.
PiecesExact == Collected /\ GivenInside /\ StreamPieces

\* The calls of bstrlib.c do what bstrlib.h promises, on strings of these types.
CallsExact == TypeOK /\ StreamTypeOK /\ Exact /\ SearchExact
              /\ (b = NULL /\ out = Idle => SearchesBack /\ ComparesExact)

(***************************************************************************)
(* The calls that damage memory are those of StringHarms, and bjoin: with  *)
(* an entry that bscb could not copy, with a list of no entries, and when  *)
(* the length of what it joins is beyond INT_MAX.                          *)
(***************************************************************************)
HarmsKnown ==
    IF out.fn # "bjoin" \/ out.harm = "none" THEN StringHarms
    ELSE \/ \E k \in DOMAIN list.entries : list.entries[k] = Missing
         \/ list.entries = <<>>
         \/ Len(out.want) >= MaxInt
=============================================================================
