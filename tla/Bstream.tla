------------------------------ MODULE Bstream ------------------------------
(***************************************************************************)
(* The streams of bstring/bstrlib.c: a function of the client that reads   *)
(* like fread, and a string that buffers what was read too far.  Reading   *)
(* moves characters from the source to the string of Bstring, partly over  *)
(* the buffer, and each move may find no memory.                           *)
(***************************************************************************)
EXTENDS Bstring

CONSTANTS Sizes,      \* the lengths bsbufflength may set: 1024 at first
          MaxSource   \* bound on what the source holds, and what is pending

ASSUME BstreamAssumption == Sizes \subseteq Nat \ {0} /\ MaxSource \in Nat

VARIABLE stream   \* the buffer, what is left of the source, isEOF and
                  \* maxBuffSz, or Shut

Shut    == [max |-> 0]
Pending == stream.buff.text \o stream.source

\* What a read leaves: the string, the buffer, the source, isEOF.
Left(r, buff, source, eof) == [r |-> r, buff |-> buff, source |-> source, eof |-> eof]

Text(m)        == SubSeq(m.cells, 1, m.slen)
Ends(l, Terms) == l # <<>> /\ l[Len(l)] \in Terms

\* A read that has added nothing to the string fails.
Yields(m, low) == IF m.slen = low THEN Error(m) ELSE [m EXCEPT !.ret = "ok"]

-----------------------------------------------------------------------------
(***************************************************************************)
(* bsreadlna, and bsreadlnsa with several terminators.  A terminator       *)
(* written behind what was read ends each search.                          *)
(***************************************************************************)
Marked(m, at, Terms) == Store(m, at, <<CHOOSE c \in Terms : TRUE>>)

\* Faulty variant: the buffer is not cleared.
UsedKept(buff) == buff

\* The buffer when the string has taken it, and what goes back to it of a
\* read with a line at its beginning.
Used(buff) == [buff EXCEPT !.slen = 0]

PushBack(buff, got, line) ==
    [Store(buff, 0, Behind(got, Len(line))) EXCEPT !.slen = Len(got) - Len(line)]

RECURSIVE Fetch(_, _, _, _, _, _, _)
Fetch(r, low, buff, source, max, Terms, mem) ==
    LET g    == balloc(r, r.slen + max + 1, mem)
        got  == Front(source, max)
        rest == Behind(source, max)
        line == UpTo(got, Terms)
        put  == Marked(Store(g, r.slen, got), r.slen + Len(got), Terms)
    IN  IF g.ret = "err" THEN Left(g, buff, source, FALSE)
        ELSE IF got = <<>>
        THEN Left(Yields(EndAt(g, g.slen), low), Used(buff), source, TRUE)
        ELSE IF Ends(line, Terms)
        THEN Left(EndAt(put, r.slen + Len(line)), PushBack(buff, got, line), rest, FALSE)
        ELSE Fetch([put EXCEPT !.slen = @ + Len(got)], low, buff, rest, max, Terms, mem)

\* When the line is in the buffer and the string cannot grow, nothing is
\* moved and success is returned.
bsreadlna(r, buff, s, Terms, mem) ==
    LET g    == balloc(buff, s.max + 1, mem)
        seen == [Marked(g, g.slen, Terms) EXCEPT !.slen = g.slen]
        line == UpTo(Text(buff), Terms)
        c    == bconcat([r EXCEPT !.asked = g.asked], Elsewhere(line), mem)
        f    == Fetch(c, r.slen, seen, s.source, s.max, Terms, mem)
    IN  IF g.ret = "err" THEN Left(Error([r EXCEPT !.asked = g.asked]), g, s.source, s.eof)
        ELSE IF Ends(line, Terms)
        THEN Left([c EXCEPT !.ret = "ok"],
                  IF c.ret = "ok" THEN bdelete(seen, 0, Len(line)) ELSE seen, s.source, s.eof)
        ELSE IF c.ret = "err" THEN Left(c, seen, s.source, s.eof)
        ELSE [f EXCEPT !.eof = @ \/ s.eof]

-----------------------------------------------------------------------------
(***************************************************************************)
(* bsreada: from the source into the string when the buffer is empty and   *)
(* there is room, and over the buffer otherwise.  A string that cannot     *)
(* grow ends the loop as the end of the source does: isEOF is set if       *)
(* nothing is in the buffer.                                               *)
(***************************************************************************)
Taken(c, low, buff, x, s) ==
    Left(Yields(c, low), IF c.ret = "ok" THEN bdelete(buff, 0, x) ELSE buff, s.source, s.eof)

RECURSIVE Drain(_, _, _, _, _, _, _)
Drain(r, low, buff, l, s, n, mem) ==
    LET held == SubSeq(buff.cells, 1, l)
        x    == n - r.slen
        last == bconcat(r, Elsewhere(Front(held, x)), mem)
        c    == bconcat(r, Elsewhere(held), mem)
        got  == Front(s.source, Least({n - c.slen, s.max}))
        kept == [buff EXCEPT !.slen = l]
    IN  IF l >= x
        THEN Taken(last, low, kept, x, s)
        ELSE IF c.ret = "err" THEN Left(Yields(c, low), kept, s.source, s.eof \/ l = 0)
        ELSE IF got = <<>> THEN Left(Yields(c, low), [buff EXCEPT !.slen = 0], s.source, TRUE)
        ELSE Drain(c, low, Store(buff, 0, got), Len(got),
                   [s EXCEPT !.source = Behind(@, Len(got))], n, mem)

bsreada(r, buff, s, n, mem) ==
    LET upto == Wrap(n + r.slen)
        l    == buff.slen
        got  == Front(s.source, n)
        g    == balloc(buff, s.max + 1, mem)
    IN  IF upto <= 0 \/ (l = 0 /\ s.eof) THEN Left(Error(r), buff, s.source, s.eof)
        ELSE IF l = 0 /\ Len(r.cells) > upto
        THEN IF got = <<>> THEN Left(Error(r), buff, s.source, TRUE)
             ELSE Left(EndAt(Store(r, r.slen, got), r.slen + Len(got)), buff,
                       Behind(s.source, n), s.eof)
        ELSE IF g.ret = "err" THEN Left(Error([r EXCEPT !.asked = g.asked]), g, s.source, s.eof)
        ELSE Drain([r EXCEPT !.asked = g.asked], r.slen, g, l, s, upto, mem)

\* bsreadln and bsread make room in the buffer and empty the string first.
Emptied(r, buff, s, mem) ==
    LET g == balloc(buff, s.max + 1, mem)
    IN  IF g.ret = "err" THEN [r |-> Error([r EXCEPT !.asked = g.asked]), buff |-> g]
        ELSE [r |-> [r EXCEPT !.slen = 0, !.asked = g.asked], buff |-> g]

bsreadln(r, buff, s, Terms, mem) ==
    LET e == Emptied(r, buff, s, mem)
    IN  IF e.r.ret = "err" THEN Left(e.r, e.buff, s.source, s.eof)
        ELSE bsreadlna(e.r, e.buff, s, Terms, mem)

bsread(r, buff, s, n, mem) ==
    LET e == Emptied(r, buff, s, mem)
    IN  IF e.r.ret = "err" THEN Left(e.r, e.buff, s.source, s.eof)
        ELSE bsreada(e.r, e.buff, s, n, mem)

-----------------------------------------------------------------------------
\* The client of the stream.  What follows the text of the buffer is of no
\* use to any call.
Kept(m) == [Closed(m) EXCEPT !.ended = FALSE]

Reads(fn, want, left, mem) ==
    LET harm == IF left.r.harm # "none" THEN left.r.harm ELSE left.buff.harm
    IN  /\ Does(fn, want, [left.r EXCEPT !.harm = harm], mem)
        /\ stream' = [stream EXCEPT !.buff = Kept(left.buff), !.source = left.source, !.eof = left.eof]

InUse        == Ready /\ stream # Shut
Base(fn)     == IF fn \in {"bsread", "bsreadln"} THEN <<>> ELSE b.text
StreamMemory == Memory \cup [at : {4}, how : {"tight", "none"}]

\* A stream is opened when the string is new.
Open == /\ Ready /\ stream = Shut /\ Len(b.text) <= 1 /\ b = Made(b.text, 0)
        /\ \E t \in Texts(MaxSource), n \in Sizes :
              stream' = [buff |-> [Made(<<>>, 0) EXCEPT !.ended = FALSE],
                         source |-> t, eof |-> FALSE, max |-> n]
        /\ UNCHANGED <<b, out>>

SetLength == /\ InUse
             /\ \E n \in Sizes \ {stream.max} : stream' = [stream EXCEPT !.max = n]
             /\ UNCHANGED <<b, out>>

Close == InUse /\ stream' = Shut /\ UNCHANGED <<b, out>>

ReadLine ==
    /\ InUse
    /\ \E Terms \in {{Space}, Char}, mem \in StreamMemory, fn \in {"bsreadln", "bsreadlna"} :
          LET want == Base(fn) \o UpTo(Pending, Terms)
              buff == Opened(stream.buff)
          IN  /\ Fits(want)
              /\ \/ fn = "bsreadlna" /\ Reads(fn, want, bsreadlna(Opened(b), buff, stream, Terms, mem), mem)
                 \/ fn = "bsreadln" /\ Reads(fn, want, bsreadln(Opened(b), buff, stream, Terms, mem), mem)

ReadBlock ==
    /\ InUse
    /\ \E n \in 1..MaxLen, mem \in StreamMemory, fn \in {"bsread", "bsreada"} :
          LET want == Base(fn) \o Front(Pending, n)
              buff == Opened(stream.buff)
          IN  /\ Fits(want)
              /\ \/ fn = "bsreada" /\ Reads(fn, want, bsreada(Opened(b), buff, stream, n, mem), mem)
                 \/ fn = "bsread" /\ Reads(fn, want, bsread(Opened(b), buff, stream, n, mem), mem)

Unread ==
    /\ InUse
    /\ \E t \in Texts(1) \cup {b.text}, mem \in Memory :
          LET put == binsert(Opened(stream.buff), 0, Elsewhere(t), mem)
          IN  /\ Len(t \o Pending) <= MaxSource
              /\ mem.at <= put.asked
              /\ stream' = [stream EXCEPT !.buff = Kept(put)]
              /\ out' = [Idle EXCEPT !.fn = "bsunread", !.ret = put.ret, !.want = b.text,
                                     !.harm = put.harm, !.memory = mem.how]
              /\ UNCHANGED b

Peek ==
    /\ InUse
    /\ \E mem \in Memory :
          Does("bassign", stream.buff.text, bassign(Opened(b), Elsewhere(stream.buff.text), mem), mem)
    /\ UNCHANGED stream

BstreamInit == Init /\ stream = Shut
BstreamNext ==
    \/ /\ stream = Shut \/ out # Idle
       /\ Next /\ UNCHANGED stream
    \/ Open \/ SetLength \/ Close \/ ReadLine \/ ReadBlock \/ Unread \/ Peek

streamvars  == <<b, out, stream>>
BstreamSpec == BstreamInit /\ [][BstreamNext]_streamvars

-----------------------------------------------------------------------------
\* Types; there is room behind the buffered text for a terminator.
StreamTypeOK == stream # Shut =>
    /\ \A i \in DOMAIN Pending : Pending[i] \in Char
    /\ Len(stream.buff.text) < stream.buff.mlen

IsRead == stream # Shut /\ stream' # Shut /\ out'.harm = "none"
              /\ out'.fn \in {"bsread", "bsreada", "bsreadln", "bsreadlna"}

(***************************************************************************)
(* Every character of the source reaches the string once and in order, or  *)
(* is still to come.  When a line read cannot make the string longer after *)
(* it has taken the buffer, then the buffer is kept too, and its           *)
(* characters come twice.                                                  *)
(***************************************************************************)
Conserved == [][IsRead =>
    LET base == Base(out'.fn)
    IN  \/ b'.text \o Pending' = base \o Pending
        \/ out'.ret = "err" /\ b'.text = b.text /\ Pending' = Pending
        \/ /\ out'.ret = "err" /\ out'.memory = "none" /\ out'.fn \in {"bsreadln", "bsreadlna"}
           /\ stream'.buff.text = stream.buff.text
           /\ b'.text \o stream'.source = base \o Pending]_streamvars

(***************************************************************************)
(* A read gives what it promises and fails only if nothing is left, unless *)
(* memory is refused in it or the end was recorded too early.              *)
(***************************************************************************)
ReadsExact == [][(IsRead /\ out'.memory # "none" /\ (stream.eof => stream.source = <<>>)) =>
    /\ out'.ret = "ok" <=> Pending # <<>>
    /\ out'.ret = "err" => b'.text = Base(out'.fn)]_streamvars

(***************************************************************************)
(* The end is recorded when the source is exhausted, or, wrongly, when     *)
(* bsreada finds no memory and its buffer is empty; then bseof is true and *)
(* the rest is not read any more by bsread and bsreada.                    *)
(***************************************************************************)
EndKnown == [][(stream # Shut /\ stream' # Shut /\ stream'.eof /\ ~stream.eof) =>
    \/ stream'.source = <<>>
    \/ out'.memory = "none" /\ out'.fn \in {"bsread", "bsreada"}]_streamvars

\* Reads lose nothing, and fail at the end of the source and only there, but for
\* the known cases.
StreamsExact == Conserved /\ ReadsExact /\ EndKnown
=============================================================================
