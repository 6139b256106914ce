----------------------------- MODULE JsonProofs -----------------------------
(***************************************************************************)
(* Proofs about Json, for texts of any length, any largest length of a     *)
(* value and failures of malloc in either pass: the second pass follows    *)
(* the first and writes only where the first has measured, and every block *)
(* is freed once, but for those the code is known to lose.                 *)
(*                                                                         *)
(* The invariant of the second pass contains the run of the first, as the  *)
(* sequence of the states it went through, numbers left out: past.  It is  *)
(* not in the model, because the text determines it.                       *)
(***************************************************************************)
EXTENDS Json, WellFoundedInduction, TLAPS

Core     == {"seek_value", "need_comma", "need_colon", "string", "escaped", "done"}
Kind     == Sized \cup {"literal", "integer", "double"}
Holders  == {"object", "array"}

-----------------------------------------------------------------------------
(***************************************************************************)
(* The tree as the first pass has it: n values, the open ones from the     *)
(* root to top, and the named ones: objects with a name that waits for its *)
(* value.                                                                  *)
(***************************************************************************)
ShapeType == [n : Nat, top : Nat, open : SUBSET Nat, named : SUBSET Nat, parent : [Nat -> Nat],
              type : [Nat -> Kind], length : [Nat -> Nat], names : [Nat -> Nat]]

Blank == [n |-> 0, top |-> 0, open |-> {}, named |-> {}, parent |-> [v \in Nat |-> 0],
          type |-> [v \in Nat |-> "literal"], length |-> [v \in Nat |-> 0],
          names |-> [v \in Nat |-> 0]]

\* The values open lie on a path that ends in top.
Path(parent, top, open) ==
    /\ \A v \in open : v <= top /\ parent[v] \in open \cup {0}
    /\ \A u, v \in open : u < v => u <= parent[v]

Good(t) ==
    /\ t \in ShapeType
    /\ IF t.n = 0 THEN t.top = 0 /\ t.open = {} ELSE t.top \in t.open
    /\ t.open \subseteq 1 .. t.n /\ t.named \subseteq t.open
    /\ \A v \in 1 .. t.n : t.parent[v] \in 0 .. v - 1 /\ (t.parent[v] = 0 <=> v = 1)
    /\ Path(t.parent, t.top, t.open)
    /\ \A v \in t.open : v # t.top =>
          t.type[v] \in Holders /\ (t.type[v] = "object" => v \in t.named)
    /\ \A v \in t.named : t.type[v] = "object"
    /\ \A v \in Nat : v > t.n => t.length[v] = 0 /\ t.names[v] = 0

Pushed(t, ty) ==
    [n |-> t.n + 1, top |-> t.n + 1, open |-> t.open \cup {t.n + 1}, named |-> t.named,
     parent |-> [t.parent EXCEPT ![t.n + 1] = t.top], type |-> [t.type EXCEPT ![t.n + 1] = ty],
     length |-> t.length, names |-> t.names]

Up(t) == t.parent[t.top]

Popped(t) ==
    IF Up(t) = 0 THEN t
    ELSE [n |-> t.n, top |-> Up(t), open |-> t.open \ {t.top}, named |-> t.named \ {Up(t)},
          parent |-> t.parent, type |-> t.type,
          length |-> [t.length EXCEPT ![Up(t)] = t.length[Up(t)] + 1], names |-> t.names]

PopFits(t) == Up(t) # 0 => t.length[Up(t)] + 1 <= uint_max

Measured(t, k) ==
    [n |-> t.n, top |-> t.top, open |-> t.open, named |-> t.named, parent |-> t.parent,
     type |-> t.type, length |-> [t.length EXCEPT ![t.top] = k], names |-> t.names]

NameRead(t, k) ==
    [n |-> t.n, top |-> t.top, open |-> t.open, named |-> t.named \cup {t.top},
     parent |-> t.parent, type |-> t.type, length |-> t.length,
     names |-> [t.names EXCEPT ![t.top] = t.names[t.top] + k + 1]]

\* A value may be begun.
MayPush(t) ==
    t.n # 0 => t.type[t.top] \in Holders /\ (t.type[t.top] = "object" => t.top \in t.named)

LEMMA GoodBlank == Good(Blank)
BY DEF Good, Blank, ShapeType, Path, Kind

LEMMA GoodPushed ==
    ASSUME NEW t, Good(t), NEW ty \in Kind, MayPush(t)
    PROVE  Good(Pushed(t, ty))
<1> DEFINE s == Pushed(t, ty)
           m == t.n + 1
<1>1. /\ t.n \in Nat /\ t.top \in Nat /\ m \in Nat /\ m >= 1 /\ t.top <= t.n
      /\ t.top = 0 <=> m = 1
      /\ t.parent \in [Nat -> Nat] /\ t.type \in [Nat -> Kind]
  BY DEF Good, ShapeType
<1>2. s \in ShapeType
  BY <1>1 DEF Good, Pushed, ShapeType
<1>3. /\ s.n = m /\ s.top = m /\ s.open = t.open \cup {m} /\ s.named = t.named
      /\ s.length = t.length /\ s.names = t.names
      /\ \A v \in Nat : s.parent[v] = IF v = m THEN t.top ELSE t.parent[v]
      /\ \A v \in Nat : s.type[v] = IF v = m THEN ty ELSE t.type[v]
  BY <1>1 DEF Pushed
<1> HIDE DEF s, m
<1>m. m = t.n + 1
  BY DEF m
<1>4. \A v \in t.open : v \in 1 .. t.n /\ v \in Nat /\ v < m /\ v <= t.top
  BY <1>1, <1>m DEF Good, Path
<1>5. \A v \in 1 .. s.n : s.parent[v] \in 0 .. v - 1 /\ (s.parent[v] = 0 <=> v = 1)
  <2> SUFFICES ASSUME NEW v \in 1 .. m PROVE s.parent[v] \in 0 .. v - 1 /\ (s.parent[v] = 0 <=> v = 1)
    BY <1>3
  <2>1. CASE v = m
    <3>1. s.parent[v] = t.top
      BY <1>1, <1>3, <2>1
    <3>2. t.top \in 0 .. m - 1
      BY <1>1, <1>m
    <3> QED
      BY <1>1, <2>1, <3>1, <3>2
  <2>2. CASE v \in 1 .. t.n
    BY <1>1, <1>3, <1>m, <2>2 DEF Good
  <2> QED
    BY <1>1, <1>m, <2>1, <2>2
<1>6. Path(s.parent, s.top, s.open)
  <2>1. ASSUME NEW v \in s.open PROVE v <= s.top /\ s.parent[v] \in s.open \cup {0}
    <3>1. CASE v = m
      BY <1>1, <1>3, <3>1 DEF Good
    <3>2. CASE v \in t.open
      BY <1>1, <1>3, <1>4, <3>2 DEF Good, Path
    <3> QED
      BY <1>3, <2>1, <3>1, <3>2
  <2>2. ASSUME NEW u \in s.open, NEW v \in s.open, u < v PROVE u <= s.parent[v]
    <3>1. CASE v = m
      <4>1. u \in t.open
        BY <1>1, <1>3, <2>2, <3>1
      <4> QED
        BY <1>1, <1>3, <1>4, <3>1, <4>1
    <3>2. CASE v \in t.open
      <4>1. u \in t.open
        BY <1>1, <1>3, <1>4, <2>2, <3>2
      <4> QED
        BY <1>1, <1>3, <1>4, <2>2, <3>2, <4>1 DEF Good, Path
    <3> QED
      BY <1>3, <2>2, <3>1, <3>2
  <2> QED
    BY <2>1, <2>2 DEF Path
<1>7. \A v \in s.open : v # s.top =>
         s.type[v] \in Holders /\ (s.type[v] = "object" => v \in s.named)
  <2> SUFFICES ASSUME NEW v \in t.open
               PROVE  t.type[v] \in Holders /\ (t.type[v] = "object" => v \in t.named)
    BY <1>3, <1>4
  <2>1. t.n # 0
    BY <1>4
  <2> QED
    BY <2>1 DEF Good, MayPush
<1>8. \A v \in s.named : s.type[v] = "object"
  BY <1>3, <1>4 DEF Good
<1>9. /\ s.open \subseteq 1 .. s.n /\ s.named \subseteq s.open /\ s.top \in s.open /\ s.n # 0
  BY <1>1, <1>3, <1>4 DEF Good
<1>10. \A v \in Nat : v > s.n => s.length[v] = 0 /\ s.names[v] = 0
  BY <1>1, <1>3, <1>m DEF Good
<1> QED
  BY <1>2, <1>5, <1>6, <1>7, <1>8, <1>9, <1>10 DEF Good, s

LEMMA GoodPopped ==
    ASSUME NEW t, Good(t), t.n # 0, t.top \notin t.named
    PROVE  Good(Popped(t))
<1>1. CASE Up(t) = 0
  BY <1>1 DEF Popped
<1>2. CASE Up(t) # 0
  <2> DEFINE s == Popped(t)
             u == Up(t)
  <2>1. /\ t.n \in Nat /\ t.top \in t.open /\ t.open \subseteq 1 .. t.n /\ t.top \in Nat
        /\ u \in t.open /\ u \in Nat /\ u < t.top /\ u # 0 /\ t.length \in [Nat -> Nat]
    BY <1>2 DEF Good, ShapeType, Path, Up
  <2>2. s \in ShapeType
    BY <1>2, <2>1 DEF Good, Popped, ShapeType
  <2>3. /\ s.n = t.n /\ s.top = u /\ s.open = t.open \ {t.top} /\ s.named = t.named \ {u}
        /\ s.parent = t.parent /\ s.type = t.type /\ s.names = t.names
        /\ \A v \in Nat : v # u => s.length[v] = t.length[v]
    BY <1>2, <2>1 DEF Popped
  <2>4. \A v \in t.open : v # t.top => v <= u /\ v < t.top
    BY <2>1 DEF Good, Path, Up
  <2> HIDE DEF s, u
  <2>5. Path(s.parent, s.top, s.open)
    <3>1. ASSUME NEW v \in s.open PROVE v <= s.top /\ s.parent[v] \in s.open \cup {0}
      <4>1. v \in t.open /\ v # t.top /\ v \in 1 .. t.n /\ t.parent[v] < v
        BY <2>1, <2>3, <3>1 DEF Good
      <4>2. t.parent[v] \in t.open \cup {0} /\ v <= u /\ v < t.top
        BY <2>4, <4>1 DEF Good, Path
      <4>3. t.parent[v] # t.top
        BY <2>1, <4>1, <4>2
      <4> QED
        BY <2>3, <4>2, <4>3
    <3> QED
      BY <2>3, <3>1 DEF Good, Path
  <2>6. \A v \in s.open : v # s.top =>
           s.type[v] \in Holders /\ (s.type[v] = "object" => v \in s.named)
    BY <2>3 DEF Good
  <2>7. /\ s.open \subseteq 1 .. s.n /\ s.top \in s.open /\ s.n # 0
        /\ \A v \in s.named : s.type[v] = "object"
    BY <2>1, <2>3 DEF Good
  <2>8. s.named \subseteq s.open
    BY <2>3 DEF Good
  <2>9. \A v \in 1 .. s.n : s.parent[v] \in 0 .. v - 1 /\ (s.parent[v] = 0 <=> v = 1)
    BY <2>3 DEF Good
  <2>10. \A v \in Nat : v > s.n => s.length[v] = 0 /\ s.names[v] = 0
    <3>1. \A v \in Nat : v > t.n => v # u
      BY <2>1
    <3> QED
      BY <2>3, <3>1 DEF Good
  <2> QED
    BY <2>2, <2>5, <2>6, <2>7, <2>8, <2>9, <2>10 DEF Good, s
<1> QED
  BY <1>1, <1>2

LEMMA GoodMeasured ==
    ASSUME NEW t, Good(t), t.n # 0, NEW k \in Nat
    PROVE  Good(Measured(t, k))
<1> DEFINE s == Measured(t, k)
<1>1. t.n \in Nat /\ t.top \in Nat /\ t.top <= t.n /\ t.length \in [Nat -> Nat]
  BY DEF Good, ShapeType
<1>2. s \in ShapeType
  BY <1>1 DEF Good, Measured, ShapeType
<1>3. /\ s.n = t.n /\ s.top = t.top /\ s.open = t.open /\ s.named = t.named
      /\ s.parent = t.parent /\ s.type = t.type /\ s.names = t.names
      /\ \A v \in Nat : v > t.n => s.length[v] = t.length[v]
  BY <1>1 DEF Measured
<1> HIDE DEF s
<1> QED
  BY <1>2, <1>3 DEF Good, s

LEMMA GoodNameRead ==
    ASSUME NEW t, Good(t), t.n # 0, NEW k \in Nat, t.type[t.top] = "object"
    PROVE  Good(NameRead(t, k))
<1> DEFINE s == NameRead(t, k)
<1>1. t.n \in Nat /\ t.top \in Nat /\ t.top <= t.n /\ t.names \in [Nat -> Nat] /\ t.top \in t.open
  BY DEF Good, ShapeType
<1>2. s \in ShapeType
  BY <1>1 DEF Good, NameRead, ShapeType
<1>3. /\ s.n = t.n /\ s.top = t.top /\ s.open = t.open /\ s.named = t.named \cup {t.top}
      /\ s.parent = t.parent /\ s.type = t.type /\ s.length = t.length
      /\ \A v \in Nat : v > t.n => s.names[v] = t.names[v]
  BY <1>1 DEF NameRead
<1> HIDE DEF s
<1> QED
  BY <1>1, <1>2, <1>3 DEF Good, s

-----------------------------------------------------------------------------
(***************************************************************************)
(* The first pass without its numbers: a state is the place in the text,   *)
(* the flags, the length of the string so far and the tree.                *)
(***************************************************************************)
SnapType == [pos : Nat \ {0}, flags : SUBSET Core, sl : Nat, t : ShapeType]

Begin == [pos |-> 1, flags |-> {"seek_value"}, sl |-> 0, t |-> Blank]

\* What the flags may be, and what top is then.
Lacks(f, A) == \A x \in A : x \notin f

AtEnd(f, t)      == "done" \in f /\ "string" \notin f /\ t.n # 0 /\ t.top = 1 /\ t.top \notin t.named
AtStart(f, t)    == t.n = 0 /\ f = {"seek_value"}
InArray(f, t)    == /\ t.n # 0 /\ t.type[t.top] = "array"
                    /\ "seek_value" \in f /\ Lacks(f, {"string", "need_colon", "done"})
InObject(f, t)   == /\ t.n # 0 /\ t.type[t.top] = "object" /\ t.top \notin t.named
                    /\ Lacks(f, {"seek_value", "need_colon", "done"})
                    /\ "string" \in f => "need_comma" \notin f
BehindName(f, t) == /\ t.n # 0 /\ t.type[t.top] = "object" /\ t.top \in t.named
                    /\ "seek_value" \in f /\ Lacks(f, {"string", "need_comma", "done"})
InText(f, t)     == /\ t.n # 0 /\ t.type[t.top] = "string" /\ t.length[t.top] = 0
                    /\ "string" \in f /\ Lacks(f, {"seek_value", "need_comma", "need_colon", "done"})

Mode(f, t) ==
    /\ "escaped" \in f => "string" \in f
    /\ \/ AtEnd(f, t) \/ AtStart(f, t) \/ InArray(f, t)
       \/ InObject(f, t) \/ BehindName(f, t) \/ InText(f, t)

GoodSnap(p) == p \in SnapType /\ Good(p.t) /\ Mode(p.flags, p.t)

\* One symbol, from p to q.
At(p, e, f, t)   == [pos |-> e, flags |-> f, sl |-> p.sl, t |-> t]
Shift(p, f)      == At(p, p.pos + 1, f, p.t)
WithSl(p, k, f)  == [pos |-> p.pos + 1, flags |-> f, sl |-> k, t |-> p.t]

PopFlags(t, f)   == f \cup {"need_comma"} \cup
                    IF Up(t) = 0 THEN {"done"}
                    ELSE IF t.type[Up(t)] = "array" THEN {"seek_value"} ELSE {}
Popping(p, t, e, f) == At(p, e, PopFlags(t, f), Popped(t))

TextMove(p, b, q) ==
    LET f == p.flags
        t == p.t
        m == Measured(t, p.sl)
    IN  /\ b # "eof" /\ p.sl <= uint_max
        /\ IF "escaped" \in f
           THEN b # "badhex" /\ q = WithSl(p, p.sl + Bytes(b), f \ {"escaped"})
           ELSE IF b = "back" THEN q = Shift(p, f \cup {"escaped"})
           ELSE IF b # "quote" THEN q = WithSl(p, p.sl + 1, f)
           ELSE IF t.type[t.top] = "string"
           THEN PopFits(m) /\ q = Popping(p, m, p.pos + 1, f \ {"string"})
           ELSE q = At(p, p.pos + 1, (f \ {"string"}) \cup {"seek_value", "need_colon"},
                       NameRead(t, p.sl))

SeekMove(p, b, q) ==
    LET f == p.flags
        t == p.t
        x == Pushed(t, "literal")
        g == f \ {"seek_value"}
    IN  IF b = "ws" THEN q = Shift(p, f)
        ELSE IF b = "]"
        THEN /\ t.n # 0 /\ t.type[t.top] = "array" /\ PopFits(t)
             /\ q = Popping(p, t, p.pos + 1, f \ {"need_comma", "seek_value"})
        ELSE IF "need_comma" \in f THEN b = "comma" /\ q = Shift(p, f \ {"need_comma"})
        ELSE IF "need_colon" \in f THEN b = ":" /\ q = Shift(p, f \ {"need_colon"})
        ELSE \/ b = "lbrace" /\ q = At(p, p.pos + 1, g, Pushed(t, "object"))
             \/ b = "[" /\ q = At(p, p.pos + 1, f, Pushed(t, "array"))
             \/ b = "quote" /\ q = [pos |-> p.pos + 1, flags |-> g \cup {"string"}, sl |-> 0,
                                    t |-> Pushed(t, "string")]
             \/ b = "lit" /\ PopFits(x) /\ q = Popping(p, x, p.pos + 1, g)

ObjectMove(p, b, q) ==
    LET f == p.flags
    IN  \/ b = "ws" /\ q = Shift(p, f)
        \/ b = "quote" /\ "need_comma" \notin f /\ q = WithSl(p, 0, f \cup {"string"})
        \/ b = "rbrace" /\ PopFits(p.t) /\ q = Popping(p, p.t, p.pos + 1, f \ {"need_comma"})
        \/ b = "comma" /\ "need_comma" \in f /\ q = Shift(p, f \ {"need_comma"})

Moves(p, b, q) ==
    IF "done" \in p.flags THEN b = "ws" /\ q = Shift(p, p.flags)
    ELSE IF "string" \in p.flags THEN TextMove(p, b, q)
    ELSE IF "seek_value" \in p.flags THEN SeekMove(p, b, q)
    ELSE ObjectMove(p, b, q)

\* A number begins; it is one step.
NumberAt(p, b) == /\ Lacks(p.flags, {"done", "string", "need_comma", "need_colon"})
                  /\ "seek_value" \in p.flags /\ b \in Digit \cup {"-"}

NumberMove(txt, p, q) ==
    \E e \in p.pos + 1 .. Len(txt), ty \in {"integer", "double"} :
        /\ \A k \in p.pos .. e - 1 : txt[k] \in Numeric
        /\ PopFits(Pushed(p.t, ty))
        /\ q = Popping(p, Pushed(p.t, ty), e, p.flags \ {"seek_value"})

StepTo(txt, p, q) ==
    /\ p.pos <= Len(txt)
    /\ IF NumberAt(p, txt[p.pos]) THEN NumberMove(txt, p, q) ELSE Moves(p, txt[p.pos], q)

-----------------------------------------------------------------------------
(***************************************************************************)
(* What is measured only grows: the members of a value, counting the one   *)
(* that has its name already, or the bytes of a string, counting those of  *)
(* the one that is being read; and the bytes of names.                     *)
(***************************************************************************)
Writing(p, v) == "string" \in p.flags /\ v = p.t.top

Extent(p, v) == p.t.length[v] + (IF v \in p.t.named THEN 1 ELSE 0)
                + IF Writing(p, v) /\ p.t.type[v] = "string" THEN p.sl ELSE 0

NamesExtent(p, v) ==
    p.t.names[v] + IF Writing(p, v) /\ p.t.type[v] = "object" THEN p.sl + 1 ELSE 0

Le(p, q) ==
    /\ p.t.n <= q.t.n
    /\ \A v \in 1 .. p.t.n :
          /\ q.t.parent[v] = p.t.parent[v] /\ q.t.type[v] = p.t.type[v]
          /\ Extent(p, v) <= Extent(q, v) /\ NamesExtent(p, v) <= NamesExtent(q, v)

LEMMA ExtentIsNat ==
    ASSUME NEW p \in SnapType, NEW v \in Nat
    PROVE  Extent(p, v) \in Nat /\ NamesExtent(p, v) \in Nat
<1>1. p.t.length[v] \in Nat /\ p.t.names[v] \in Nat /\ p.sl \in Nat
  BY DEF SnapType, ShapeType
<1> QED
  BY <1>1 DEF Extent, NamesExtent

LEMMA LeTrans ==
    ASSUME NEW p \in SnapType, NEW q \in SnapType, NEW r \in SnapType, Le(p, q), Le(q, r)
    PROVE  Le(p, r)
<1>1. p.t.n \in Nat /\ q.t.n \in Nat /\ r.t.n \in Nat
  BY DEF SnapType, ShapeType
<1>2. p.t.n <= r.t.n
  BY <1>1 DEF Le
<1>3. ASSUME NEW v \in 1 .. p.t.n
      PROVE  /\ r.t.parent[v] = p.t.parent[v] /\ r.t.type[v] = p.t.type[v]
             /\ Extent(p, v) <= Extent(r, v) /\ NamesExtent(p, v) <= NamesExtent(r, v)
  <2>1. v \in 1 .. q.t.n /\ v \in Nat
    BY <1>1 DEF Le
  <2>2. /\ Extent(p, v) \in Nat /\ Extent(q, v) \in Nat /\ Extent(r, v) \in Nat
        /\ NamesExtent(p, v) \in Nat /\ NamesExtent(q, v) \in Nat /\ NamesExtent(r, v) \in Nat
    BY <2>1, ExtentIsNat
  <2> QED
    BY <2>1, <2>2 DEF Le
<1> QED
  BY <1>2, <1>3 DEF Le

LEMMA LeSame ==
    ASSUME NEW p \in SnapType, NEW q \in SnapType, q.t = p.t, p.sl <= q.sl,
           "string" \in p.flags => "string" \in q.flags
    PROVE  Le(p, q)
<1>1. p.t.n \in Nat /\ p.sl \in Nat /\ q.sl \in Nat
  BY DEF SnapType, ShapeType
<1>2. ASSUME NEW v \in 1 .. p.t.n
      PROVE  Extent(p, v) <= Extent(q, v) /\ NamesExtent(p, v) <= NamesExtent(q, v)
  <2>1. p.t.length[v] \in Nat /\ p.t.names[v] \in Nat
    BY <1>1 DEF SnapType, ShapeType
  <2> QED
    BY <1>1, <2>1 DEF Extent, NamesExtent, Writing
<1> QED
  BY <1>1, <1>2 DEF Le

LEMMA LeQuiet ==
    ASSUME NEW p \in SnapType, NEW q \in SnapType, q.t = p.t, "string" \notin p.flags
    PROVE  Le(p, q)
<1>1. p.t.n \in Nat /\ p.sl \in Nat /\ q.sl \in Nat
  BY DEF SnapType, ShapeType
<1>2. ASSUME NEW v \in 1 .. p.t.n
      PROVE  Extent(p, v) <= Extent(q, v) /\ NamesExtent(p, v) <= NamesExtent(q, v)
  <2>1. p.t.length[v] \in Nat /\ p.t.names[v] \in Nat
    BY <1>1 DEF SnapType, ShapeType
  <2> QED
    BY <1>1, <2>1 DEF Extent, NamesExtent, Writing
<1> QED
  BY <1>1, <1>2 DEF Le

LEMMA LePushed ==
    ASSUME NEW p \in SnapType, NEW q \in SnapType, Good(p.t), NEW ty \in Kind,
           q.t = Pushed(p.t, ty), "string" \notin p.flags
    PROVE  Le(p, q)
<1>1. p.t.n \in Nat /\ q.sl \in Nat /\ q.t.n = p.t.n + 1 /\ \A v \in 1 .. p.t.n : v # p.t.n + 1
  <2>1. p.t.n \in Nat /\ q.sl \in Nat /\ q.t.n = p.t.n + 1
    BY DEF SnapType, ShapeType, Pushed
  <2> QED
    BY <2>1
<1>2. ASSUME NEW v \in 1 .. p.t.n
      PROVE  /\ q.t.parent[v] = p.t.parent[v] /\ q.t.type[v] = p.t.type[v]
             /\ Extent(p, v) <= Extent(q, v) /\ NamesExtent(p, v) <= NamesExtent(q, v)
  <2>0. v # p.t.n + 1 /\ v \in Nat
    BY <1>1
  <2>1. p.t.length[v] \in Nat /\ p.t.names[v] \in Nat /\ v # p.t.n + 1 /\ v \in Nat
    BY <2>0 DEF SnapType, ShapeType
  <2>2. /\ q.t.parent[v] = p.t.parent[v] /\ q.t.type[v] = p.t.type[v]
        /\ q.t.length[v] = p.t.length[v] /\ q.t.names[v] = p.t.names[v] /\ q.t.named = p.t.named
    BY <2>1 DEF Pushed, Good, ShapeType
  <2> QED
    BY <1>1, <2>1, <2>2 DEF Extent, NamesExtent, Writing
<1> QED
  BY <1>1, <1>2 DEF Le

LEMMA LePopped ==
    ASSUME NEW p \in SnapType, NEW q \in SnapType, Good(p.t), p.t.n # 0,
           q.t = Popped(p.t), "string" \notin p.flags, "string" \notin q.flags
    PROVE  Le(p, q)
<1>1. p.t.n \in Nat /\ q.t.n = p.t.n /\ q.t.parent = p.t.parent /\ q.t.type = p.t.type
      /\ q.t.names = p.t.names
  BY DEF SnapType, ShapeType, Popped
<1>2. ASSUME NEW v \in 1 .. p.t.n
      PROVE  Extent(p, v) <= Extent(q, v) /\ NamesExtent(p, v) <= NamesExtent(q, v)
  <2>1. p.t.length[v] \in Nat /\ p.t.names[v] \in Nat /\ v \in Nat /\ p.t.length \in [Nat -> Nat]
    BY <1>1 DEF SnapType, ShapeType
  <2>2. NamesExtent(p, v) <= NamesExtent(q, v)
    BY <1>1, <2>1 DEF NamesExtent, Writing
  <2>3. Extent(p, v) <= Extent(q, v)
    <3>1. CASE Up(p.t) = 0 \/ v # Up(p.t)
      <4>1. q.t.length[v] = p.t.length[v] /\ (v \in p.t.named <=> v \in q.t.named)
        BY <2>1, <3>1 DEF Popped
      <4> QED
        BY <2>1, <4>1 DEF Extent, Writing
    <3>2. CASE Up(p.t) # 0 /\ v = Up(p.t)
      <4>1. q.t.length[v] = p.t.length[v] + 1 /\ v \notin q.t.named
        BY <2>1, <3>2 DEF Popped
      <4> QED
        BY <2>1, <4>1 DEF Extent, Writing
    <3> QED
      BY <3>1, <3>2
  <2> QED
    BY <2>2, <2>3
<1> QED
  BY <1>1, <1>2 DEF Le

LEMMA LeMeasured ==
    ASSUME NEW p \in SnapType, NEW q \in SnapType, Good(p.t), p.t.n # 0,
           p.t.type[p.t.top] = "string", p.t.length[p.t.top] = 0, "string" \in p.flags,
           q.t = Measured(p.t, p.sl), "string" \notin q.flags
    PROVE  Le(p, q)
<1>1. p.t.n \in Nat /\ q.t.n = p.t.n /\ q.t.parent = p.t.parent /\ q.t.type = p.t.type
      /\ q.t.names = p.t.names /\ q.t.named = p.t.named /\ p.sl \in Nat /\ p.t.top \in Nat
  BY DEF SnapType, ShapeType, Measured
<1>2. ASSUME NEW v \in 1 .. p.t.n
      PROVE  Extent(p, v) <= Extent(q, v) /\ NamesExtent(p, v) <= NamesExtent(q, v)
  <2>1. p.t.length[v] \in Nat /\ p.t.names[v] \in Nat /\ v \in Nat /\ p.t.length \in [Nat -> Nat]
    BY <1>1 DEF SnapType, ShapeType
  <2>2. NamesExtent(p, v) <= NamesExtent(q, v)
    BY <1>1, <2>1 DEF NamesExtent, Writing
  <2>3. Extent(p, v) <= Extent(q, v)
    <3>1. q.t.length[v] = IF v = p.t.top THEN p.sl ELSE p.t.length[v]
      BY <2>1 DEF Measured
    <3>2. Extent(q, v) = q.t.length[v] + IF v \in p.t.named THEN 1 ELSE 0
      BY <1>1, <2>1, <3>1 DEF Extent, Writing
    <3>3. Extent(p, v) = p.t.length[v] + (IF v \in p.t.named THEN 1 ELSE 0)
                         + IF v = p.t.top THEN p.sl ELSE 0
      BY <1>1, <2>1 DEF Extent, Writing
    <3> QED
      BY <1>1, <2>1, <3>1, <3>2, <3>3
  <2> QED
    BY <2>2, <2>3
<1> QED
  BY <1>1, <1>2 DEF Le

LEMMA LeNameRead ==
    ASSUME NEW p \in SnapType, NEW q \in SnapType, Good(p.t), p.t.n # 0,
           p.t.type[p.t.top] = "object", p.t.top \notin p.t.named, "string" \in p.flags,
           q.t = NameRead(p.t, p.sl), "string" \notin q.flags
    PROVE  Le(p, q)
<1>1. p.t.n \in Nat /\ q.t.n = p.t.n /\ q.t.parent = p.t.parent /\ q.t.type = p.t.type
      /\ q.t.length = p.t.length /\ q.t.named = p.t.named \cup {p.t.top} /\ p.sl \in Nat
      /\ p.t.top \in Nat
  BY DEF SnapType, ShapeType, NameRead
<1>2. ASSUME NEW v \in 1 .. p.t.n
      PROVE  Extent(p, v) <= Extent(q, v) /\ NamesExtent(p, v) <= NamesExtent(q, v)
  <2>1. p.t.length[v] \in Nat /\ p.t.names[v] \in Nat /\ v \in Nat /\ p.t.names \in [Nat -> Nat]
    BY <1>1 DEF SnapType, ShapeType
  <2>2. Extent(p, v) <= Extent(q, v)
    BY <1>1, <2>1 DEF Extent, Writing
  <2>3. NamesExtent(p, v) <= NamesExtent(q, v)
    <3>1. q.t.names[v] = IF v = p.t.top THEN p.t.names[v] + p.sl + 1 ELSE p.t.names[v]
      BY <2>1 DEF NameRead
    <3> QED
      BY <1>1, <2>1, <3>1 DEF NamesExtent, Writing
  <2> QED
    BY <2>2, <2>3
<1> QED
  BY <1>1, <1>2 DEF Le

-----------------------------------------------------------------------------
(***************************************************************************)
(* Every step of the first pass keeps what its states have in common.      *)
(***************************************************************************)
\* The flags with which a value may end.
Ending(f) == f \subseteq Core /\ Lacks(f, {"string", "need_colon", "done", "seek_value", "escaped"})

LEMMA PopSnap ==
    ASSUME NEW p \in SnapType, NEW x, Good(x), x.n # 0, x.top \notin x.named,
           NEW f, Ending(f), NEW e \in Nat \ {0}
    PROVE  /\ At(p, e, f, x) \in SnapType
           /\ GoodSnap(Popping(p, x, e, f)) /\ Le(At(p, e, f, x), Popping(p, x, e, f))
<1> DEFINE g == PopFlags(x, f)
           t == Popped(x)
           m == At(p, e, f, x)
           q == Popping(p, x, e, f)
<1>1. m \in SnapType /\ m.t = x /\ m.flags = f
  BY DEF At, SnapType, Good, Ending
<1>2. Good(t)
  BY GoodPopped
<1>3. g \subseteq Core
  BY DEF PopFlags, Ending, Core
<1>4. q \in SnapType /\ q.t = t /\ q.flags = g
  BY <1>2, <1>3 DEF Popping, At, SnapType, Good
<1>5. Lacks(g, {"string", "need_colon", "escaped"}) /\ "need_comma" \in g
  BY DEF PopFlags, Ending, Lacks
<1>6. x.top \in x.open /\ x.top \in 1 .. x.n /\ x.n \in Nat
  BY DEF Good, ShapeType
<1>7. Mode(g, t)
  <2>1. CASE Up(x) = 0
    <3>1. t = x /\ x.top = 1 /\ "done" \in g
      BY <1>6, <2>1 DEF Popped, PopFlags, Good, Up
    <3> QED
      BY <1>5, <3>1 DEF Mode, AtEnd, Lacks
  <2>2. CASE Up(x) # 0
    <3>1. Up(x) \in x.open /\ Up(x) # x.top
      BY <1>6, <2>2 DEF Good, Path, Up
    <3>2. x.type[Up(x)] \in Holders
      BY <3>1 DEF Good
    <3>3. /\ t.n # 0 /\ t.top = Up(x) /\ t.named = x.named \ {Up(x)} /\ t.type = x.type
          /\ "done" \notin g /\ ("seek_value" \in g <=> x.type[Up(x)] = "array")
      BY <2>2 DEF Popped, PopFlags, Ending, Lacks
    <3> QED
      BY <1>5, <3>2, <3>3 DEF Mode, InArray, InObject, Lacks, Holders
  <2> QED
    BY <2>1, <2>2
<1>8. Le(m, q)
  <2>1. "string" \notin m.flags /\ "string" \notin q.flags
    BY <1>1, <1>4, <1>5 DEF Ending, Lacks
  <2> HIDE DEF m, q, t
  <2>2. q.t = Popped(m.t)
    BY <1>1, <1>4 DEF t
  <2> QED
    BY <1>1, <1>4, <2>1, <2>2, LePopped
<1> QED
  BY <1>1, <1>2, <1>4, <1>7, <1>8 DEF GoodSnap

\* A value is begun: the flags allow it.
Beginning(p) == GoodSnap(p) /\ "seek_value" \in p.flags
                /\ Lacks(p.flags, {"done", "string", "need_comma", "need_colon"})

LEMMA PushSnap ==
    ASSUME NEW p, Beginning(p), NEW ty \in Kind, NEW q \in SnapType, q.t = Pushed(p.t, ty)
    PROVE  Good(q.t) /\ Le(p, q) /\ q.t.n # 0 /\ q.t.top = q.t.n /\ q.t.top \notin q.t.named
           /\ q.t.type[q.t.top] = ty /\ q.t.length[q.t.top] = 0 /\ q.t.n = p.t.n + 1
<1>1. p \in SnapType /\ Good(p.t) /\ "string" \notin p.flags
  BY DEF Beginning, GoodSnap, Lacks
<1>2. MayPush(p.t)
  BY DEF Beginning, GoodSnap, Mode, AtEnd, AtStart, InArray, InObject, BehindName, InText, Lacks,
         MayPush, Holders
<1>3. Good(q.t)
  BY <1>1, <1>2, GoodPushed
<1>4. Le(p, q)
  BY <1>1, LePushed
<1>5. p.t.n \in Nat /\ p.t.n + 1 \in Nat /\ p.t.n + 1 # 0 /\ p.t.n + 1 > p.t.n /\ p.t.n + 1 \notin 1 .. p.t.n
  <2>1. p.t.n \in Nat
    BY <1>1 DEF SnapType, ShapeType
  <2> QED
    BY <2>1
<1>6. p.t.named \subseteq 1 .. p.t.n /\ p.t.length[p.t.n + 1] = 0 /\ p.t.type \in [Nat -> Kind]
  BY <1>1, <1>5 DEF Good, ShapeType
<1> QED
  BY <1>3, <1>4, <1>5, <1>6 DEF Pushed

\* A value that has no members and no text is begun and ended at once.
LEMMA AtomSnap ==
    ASSUME NEW p, Beginning(p), NEW ty \in {"literal", "integer", "double"}, NEW e \in Nat \ {0},
           NEW q, q = Popping(p, Pushed(p.t, ty), e, p.flags \ {"seek_value"})
    PROVE  GoodSnap(q) /\ Le(p, q)
<1> DEFINE x == Pushed(p.t, ty)
           f == p.flags \ {"seek_value"}
           m == At(p, e, f, x)
<1>1. p \in SnapType /\ Good(p.t) /\ ty \in Kind
  BY DEF Beginning, GoodSnap, Kind
<1>2. MayPush(p.t)
  BY DEF Beginning, GoodSnap, Mode, AtEnd, AtStart, InArray, InObject, BehindName, InText, Lacks,
         MayPush, Holders
<1>3. Good(x)
  BY <1>1, <1>2, GoodPushed
<1>4. Ending(f)
  BY DEF Beginning, GoodSnap, Mode, Lacks, Ending, SnapType
<1>5. m \in SnapType /\ m.t = x
  BY <1>1, <1>3, <1>4 DEF At, SnapType, Good, Ending
<1> HIDE DEF x, f, m
<1>6. m.t = Pushed(p.t, ty)
  BY <1>5 DEF x
<1>7. Le(p, m) /\ m.t.n # 0 /\ m.t.top \notin m.t.named
  BY <1>1, <1>5, <1>6, PushSnap
<1>8. q = Popping(p, x, e, f)
  BY DEF x, f
<1>9. GoodSnap(q) /\ Le(m, q)
  BY <1>1, <1>3, <1>4, <1>5, <1>7, <1>8, PopSnap DEF m
<1>10. q \in SnapType
  BY <1>9 DEF GoodSnap
<1> QED
  BY <1>1, <1>5, <1>7, <1>9, <1>10, LeTrans

\* A symbol that leaves the tree alone.
LEMMA StillSnap ==
    ASSUME NEW p, GoodSnap(p), NEW f \in SUBSET Core, NEW k \in Nat, Mode(f, p.t),
           \/ p.sl <= k /\ ("string" \in p.flags => "string" \in f)
           \/ "string" \notin p.flags
    PROVE  GoodSnap(WithSl(p, k, f)) /\ Le(p, WithSl(p, k, f))
<1> DEFINE q == WithSl(p, k, f)
<1>1. p \in SnapType /\ p.pos + 1 \in Nat /\ p.t \in ShapeType
  BY DEF GoodSnap, SnapType
<1>2. q \in SnapType /\ q.t = p.t /\ q.flags = f /\ q.sl = k
  BY <1>1 DEF WithSl, SnapType
<1> HIDE DEF q
<1>3. GoodSnap(q)
  BY <1>2 DEF GoodSnap
<1>4. Le(p, q)
  BY <1>1, <1>2, LeSame, LeQuiet
<1> QED
  BY <1>3, <1>4 DEF q

LEMMA ShiftIsStill == ASSUME NEW p, NEW f PROVE Shift(p, f) = WithSl(p, p.sl, f)
BY DEF Shift, WithSl, At

LEMMA TextKeeps ==
    ASSUME NEW p, GoodSnap(p), "string" \in p.flags, "done" \notin p.flags,
           NEW b \in Symbol, NEW q, TextMove(p, b, q)
    PROVE  GoodSnap(q) /\ Le(p, q)
<1> DEFINE f == p.flags
           t == p.t
           m == Measured(t, p.sl)
<1>1. /\ p \in SnapType /\ Good(t) /\ f \in SUBSET Core /\ p.sl \in Nat /\ p.pos \in Nat
      /\ Mode(f, t) /\ Bytes(b) \in Nat /\ p.sl + Bytes(b) \in Nat /\ p.sl + 1 \in Nat
      /\ p.sl <= p.sl + Bytes(b) /\ p.sl <= p.sl + 1 /\ p.pos + 1 \in Nat
  <2>1. Bytes(b) \in Nat
    BY DEF Bytes
  <2> QED
    BY <2>1 DEF GoodSnap, SnapType
<1>2. t.n # 0 /\ Lacks(f, {"seek_value", "need_comma", "need_colon", "done"}) /\ t.top \notin t.named
      /\ \/ InObject(f, t) /\ t.type[t.top] = "object"
         \/ InText(f, t) /\ t.type[t.top] = "string" /\ t.length[t.top] = 0
  <2>1. InObject(f, t) \/ InText(f, t)
    BY <1>1 DEF Mode, AtEnd, AtStart, InArray, BehindName, Lacks
  <2>2. InText(f, t) => t.top \notin t.named
    BY <1>1 DEF InText, Good
  <2> QED
    BY <2>1, <2>2 DEF InObject, InText, Lacks
<1>3. CASE "escaped" \in f
  <2>1. q = WithSl(p, p.sl + Bytes(b), f \ {"escaped"})
    BY <1>3 DEF TextMove
  <2>2. Mode(f \ {"escaped"}, t)
    BY <1>2 DEF Mode, InObject, InText, Lacks
  <2> HIDE DEF f, t
  <2>3. f = p.flags /\ t = p.t /\ f \ {"escaped"} \in SUBSET Core
    BY <1>1 DEF f, t
  <2>4. "string" \in f \ {"escaped"}
    BY <2>3
  <2> QED
    BY <1>1, <2>1, <2>2, <2>3, <2>4, StillSnap
<1>4. CASE "escaped" \notin f /\ b = "back"
  <2>1. q = WithSl(p, p.sl, f \cup {"escaped"})
    BY <1>4, ShiftIsStill DEF TextMove
  <2>2. Mode(f \cup {"escaped"}, t)
    BY <1>2 DEF Mode, InObject, InText, Lacks
  <2> HIDE DEF f, t
  <2>3. f = p.flags /\ t = p.t /\ f \cup {"escaped"} \in SUBSET Core /\ p.sl <= p.sl
    BY <1>1 DEF f, t, Core
  <2>4. "string" \in f \cup {"escaped"}
    BY <2>3
  <2> QED
    BY <1>1, <2>1, <2>2, <2>3, <2>4, StillSnap
<1>5. CASE "escaped" \notin f /\ b \notin {"back", "quote"}
  <2>1. q = WithSl(p, p.sl + 1, f)
    BY <1>5 DEF TextMove
  <2> QED
    BY <1>1, <2>1, StillSnap
<1>6. CASE "escaped" \notin f /\ b = "quote" /\ t.type[t.top] = "string"
  <2> DEFINE g == f \ {"string"}
             r == At(p, p.pos + 1, g, m)
  <2>1. q = Popping(p, m, p.pos + 1, g)
    BY <1>6 DEF TextMove
  <2>2. Good(m) /\ m.n # 0 /\ m.top \notin m.named
    BY <1>1, <1>2, GoodMeasured DEF Measured
  <2>3. Ending(g)
    BY <1>1, <1>2, <1>6 DEF Ending, Lacks
  <2>4. r \in SnapType /\ r.t = m /\ r.flags = g /\ GoodSnap(q) /\ Le(r, q)
    <3>1. r \in SnapType /\ GoodSnap(q) /\ Le(r, q)
      BY <1>1, <2>1, <2>2, <2>3, PopSnap
    <3> QED
      BY <3>1 DEF At
  <2> HIDE DEF r
  <2>5. Le(p, r)
    BY <1>1, <1>2, <1>6, <2>4, LeMeasured
  <2>6. q \in SnapType
    BY <2>4 DEF GoodSnap
  <2> QED
    BY <1>1, <2>4, <2>5, <2>6, LeTrans
<1>7. CASE "escaped" \notin f /\ b = "quote" /\ t.type[t.top] # "string"
  <2> DEFINE g == (f \ {"string"}) \cup {"seek_value", "need_colon"}
             x == NameRead(t, p.sl)
  <2>1. q = At(p, p.pos + 1, g, x)
    BY <1>7 DEF TextMove
  <2>2. t.type[t.top] = "object"
    BY <1>2, <1>7
  <2>3. Good(x)
    BY <1>1, <1>2, <2>2, GoodNameRead
  <2>4. g \in SUBSET Core
    BY <1>1 DEF Core
  <2>5. q \in SnapType /\ q.t = x /\ q.flags = g
    BY <1>1, <2>1, <2>3, <2>4 DEF At, SnapType, Good
  <2>6. Mode(g, x)
    <3>1. x.n # 0 /\ x.type[x.top] = "object" /\ x.top \in x.named
      BY <1>2, <2>2 DEF NameRead
    <3>2. "seek_value" \in g /\ Lacks(g, {"string", "need_comma", "done"}) /\ "escaped" \notin g
      BY <1>2, <1>7 DEF Lacks
    <3> QED
      BY <3>1, <3>2 DEF Mode, BehindName
  <2>7. "string" \notin g
    OBVIOUS
  <2>8. Le(p, q)
    BY <1>1, <1>2, <2>2, <2>5, <2>7, LeNameRead
  <2> QED
    BY <2>3, <2>5, <2>6, <2>8 DEF GoodSnap
<1> QED
  BY <1>3, <1>4, <1>5, <1>6, <1>7

LEMMA SeekKeeps ==
    ASSUME NEW p, GoodSnap(p), Lacks(p.flags, {"done", "string"}), "seek_value" \in p.flags,
           NEW b, NEW q, SeekMove(p, b, q)
    PROVE  GoodSnap(q) /\ Le(p, q)
<1> DEFINE f == p.flags
           t == p.t
           g == f \ {"seek_value"}
<1>1. /\ p \in SnapType /\ Good(t) /\ f \in SUBSET Core /\ p.sl \in Nat /\ p.pos \in Nat
      /\ Mode(f, t) /\ p.pos + 1 \in Nat \ {0}
  BY DEF GoodSnap, SnapType
<1>2. "escaped" \notin f /\ (AtStart(f, t) \/ InArray(f, t) \/ BehindName(f, t))
  BY <1>1 DEF Mode, AtEnd, InObject, InText, Lacks
<1>3. ASSUME NEW h \in SUBSET Core, Mode(h, t), q = Shift(p, h)
      PROVE  GoodSnap(q) /\ Le(p, q)
  BY <1>1, <1>3, ShiftIsStill, StillSnap DEF Lacks
<1>4. CASE b = "ws"
  <2>1. q = Shift(p, f)
    BY <1>4 DEF SeekMove
  <2> QED
    BY <1>1, <1>3, <2>1
<1>5. CASE b = "]"
  <2> DEFINE h == f \ {"need_comma", "seek_value"}
  <2>1. t.n # 0 /\ t.type[t.top] = "array" /\ q = Popping(p, t, p.pos + 1, h)
    BY <1>5 DEF SeekMove
  <2>2. Ending(h) /\ t.top \notin t.named
    BY <1>1, <1>2, <2>1 DEF Ending, Lacks, AtStart, InArray, BehindName, Good
  <2>3. GoodSnap(q) /\ Le(At(p, p.pos + 1, h, t), q) /\ At(p, p.pos + 1, h, t) \in SnapType
    BY <1>1, <2>1, <2>2, PopSnap
  <2>4. Le(p, At(p, p.pos + 1, h, t))
    <3> DEFINE r == At(p, p.pos + 1, h, t)
    <3>1. r \in SnapType /\ r.t = t
      BY <2>3 DEF At
    <3> HIDE DEF r
    <3>2. Le(p, r)
      BY <1>1, <3>1, LeQuiet DEF Lacks
    <3> QED
      BY <3>2 DEF r
  <2>5. q \in SnapType
    BY <2>3 DEF GoodSnap
  <2> QED
    BY <1>1, <2>3, <2>4, <2>5, LeTrans
<1>6. CASE b \notin {"ws", "]"} /\ "need_comma" \in f
  <2>1. q = Shift(p, f \ {"need_comma"})
    BY <1>6 DEF SeekMove
  <2>2. Mode(f \ {"need_comma"}, t)
    BY <1>2, <1>6 DEF Mode, AtStart, InArray, BehindName, Lacks
  <2> QED
    BY <1>1, <1>3, <2>1, <2>2
<1>7. CASE b \notin {"ws", "]"} /\ "need_comma" \notin f /\ "need_colon" \in f
  <2>1. q = Shift(p, f \ {"need_colon"})
    BY <1>7 DEF SeekMove
  <2>2. Mode(f \ {"need_colon"}, t)
    BY <1>2, <1>7 DEF Mode, AtStart, InArray, BehindName, Lacks
  <2> QED
    BY <1>1, <1>3, <2>1, <2>2
<1>8. CASE b \notin {"ws", "]"} /\ "need_comma" \notin f /\ "need_colon" \notin f
  <2>1. Beginning(p)
    BY <1>8 DEF Beginning, Lacks
  <2>2. MayPush(t)
    BY <1>2 DEF AtStart, InArray, BehindName, MayPush, Holders
  <2>3. ASSUME NEW ty \in {"object", "array", "string"}, NEW h \in SUBSET Core, q \in SnapType,
               q.t = Pushed(t, ty), q.flags = h,
               ty = "object" => h = g, ty = "array" => h = f, ty = "string" => h = g \cup {"string"}
        PROVE  GoodSnap(q) /\ Le(p, q)
    <3>1. /\ Good(q.t) /\ Le(p, q) /\ q.t.n # 0 /\ q.t.top \notin q.t.named
          /\ q.t.type[q.t.top] = ty /\ q.t.length[q.t.top] = 0
      BY <2>1, <2>3, PushSnap DEF Kind, Sized
    <3>2. Mode(h, q.t)
      BY <1>2, <1>8, <2>3, <3>1 DEF Mode, InArray, InObject, InText, Lacks
    <3> QED
      BY <2>3, <3>1, <3>2 DEF GoodSnap
  <2>4. /\ Good(Pushed(t, "object")) /\ Good(Pushed(t, "array")) /\ Good(Pushed(t, "string"))
    BY <1>1, <2>2, GoodPushed DEF Kind, Sized
  <2>5. g \in SUBSET Core /\ g \cup {"string"} \in SUBSET Core
    BY <1>1 DEF Core
  <2>6. CASE q = At(p, p.pos + 1, g, Pushed(t, "object"))
    <3>1. q \in SnapType /\ q.t = Pushed(t, "object") /\ q.flags = g
      BY <1>1, <2>4, <2>5, <2>6 DEF At, SnapType, Good
    <3> QED
      BY <2>3, <2>5, <3>1
  <2>7. CASE q = At(p, p.pos + 1, f, Pushed(t, "array"))
    <3>1. q \in SnapType /\ q.t = Pushed(t, "array") /\ q.flags = f
      BY <1>1, <2>4, <2>7 DEF At, SnapType, Good
    <3> QED
      BY <1>1, <2>3, <3>1
  <2>8. CASE q = [pos |-> p.pos + 1, flags |-> g \cup {"string"}, sl |-> 0, t |-> Pushed(t, "string")]
    <3>1. q \in SnapType /\ q.t = Pushed(t, "string") /\ q.flags = g \cup {"string"}
      BY <1>1, <2>4, <2>5, <2>8 DEF SnapType, Good
    <3> QED
      BY <2>3, <2>5, <3>1
  <2>9. CASE q = Popping(p, Pushed(t, "literal"), p.pos + 1, g)
    BY <1>1, <2>1, <2>9, AtomSnap
  <2> QED
    BY <1>8, <2>6, <2>7, <2>8, <2>9 DEF SeekMove
<1> QED
  BY <1>4, <1>5, <1>6, <1>7, <1>8

LEMMA ObjectKeeps ==
    ASSUME NEW p, GoodSnap(p), Lacks(p.flags, {"done", "string", "seek_value"}),
           NEW b, NEW q, ObjectMove(p, b, q)
    PROVE  GoodSnap(q) /\ Le(p, q)
<1> DEFINE f == p.flags
           t == p.t
<1>1. /\ p \in SnapType /\ Good(t) /\ f \in SUBSET Core /\ p.sl \in Nat /\ p.pos \in Nat
      /\ Mode(f, t) /\ p.pos + 1 \in Nat \ {0} /\ "string" \notin f
  BY DEF GoodSnap, SnapType, Lacks
<1>2. "escaped" \notin f /\ InObject(f, t)
  BY <1>1 DEF Mode, AtEnd, AtStart, InArray, BehindName, InText, Lacks
<1>3. ASSUME NEW h \in SUBSET Core, Mode(h, t), NEW k \in Nat, q = WithSl(p, k, h)
      PROVE  GoodSnap(q) /\ Le(p, q)
  BY <1>1, <1>3, StillSnap
<1>4. CASE b = "ws" /\ q = Shift(p, f)
  BY <1>1, <1>3, <1>4, ShiftIsStill
<1>5. CASE b = "quote" /\ "need_comma" \notin f /\ q = WithSl(p, 0, f \cup {"string"})
  <2>1. Mode(f \cup {"string"}, t) /\ f \cup {"string"} \in SUBSET Core
    BY <1>1, <1>2, <1>5 DEF Mode, InObject, Lacks, Core
  <2> QED
    BY <1>3, <1>5, <2>1
<1>6. CASE b = "rbrace" /\ PopFits(t) /\ q = Popping(p, t, p.pos + 1, f \ {"need_comma"})
  <2> DEFINE h == f \ {"need_comma"}
             r == At(p, p.pos + 1, h, t)
  <2>1. Ending(h) /\ t.n # 0 /\ t.top \notin t.named
    BY <1>1, <1>2 DEF InObject, Ending, Lacks
  <2>2. GoodSnap(q) /\ Le(r, q) /\ r \in SnapType /\ r.t = t
    <3>1. GoodSnap(q) /\ Le(r, q) /\ r \in SnapType
      BY <1>1, <1>6, <2>1, PopSnap
    <3> QED
      BY <3>1 DEF At
  <2> HIDE DEF r
  <2>3. Le(p, r)
    BY <1>1, <2>2, LeQuiet
  <2>4. q \in SnapType
    BY <2>2 DEF GoodSnap
  <2> QED
    BY <1>1, <2>2, <2>3, <2>4, LeTrans
<1>7. CASE b = "comma" /\ "need_comma" \in f /\ q = Shift(p, f \ {"need_comma"})
  <2>1. Mode(f \ {"need_comma"}, t)
    BY <1>1, <1>2 DEF Mode, InObject, Lacks
  <2> QED
    BY <1>1, <1>3, <1>7, <2>1, ShiftIsStill
<1> QED
  BY <1>4, <1>5, <1>6, <1>7 DEF ObjectMove

LEMMA StepKeeps ==
    ASSUME NEW txt \in Seq(Symbol), NEW p, GoodSnap(p), NEW q, StepTo(txt, p, q)
    PROVE  GoodSnap(q) /\ Le(p, q)
<1> DEFINE b == txt[p.pos]
<1>1. p.pos \in Nat /\ p.pos >= 1 /\ b \in Symbol /\ p.sl \in Nat
  BY DEF GoodSnap, SnapType, StepTo
<1>2. CASE NumberAt(p, b)
  <2>1. PICK e \in p.pos + 1 .. Len(txt), ty \in {"integer", "double"} :
            q = Popping(p, Pushed(p.t, ty), e, p.flags \ {"seek_value"})
    BY <1>2 DEF StepTo, NumberMove
  <2>2. Beginning(p) /\ e \in Nat \ {0}
    BY <1>1, <1>2 DEF Beginning, NumberAt, Lacks
  <2> QED
    BY <2>1, <2>2, AtomSnap
<1>3. CASE ~NumberAt(p, b)
  <2>1. Moves(p, b, q)
    BY <1>3 DEF StepTo
  <2> HIDE DEF b
  <2>2. CASE "done" \in p.flags
    <3>1. q = Shift(p, p.flags)
      BY <2>1, <2>2 DEF Moves
    <3>2. q = WithSl(p, p.sl, p.flags)
      BY <3>1, ShiftIsStill
    <3>3. Mode(p.flags, p.t) /\ p.flags \in SUBSET Core
      BY DEF GoodSnap, SnapType
    <3>4. p.sl <= p.sl
      BY <1>1
    <3>5. GoodSnap(WithSl(p, p.sl, p.flags)) /\ Le(p, WithSl(p, p.sl, p.flags))
      BY <1>1, <3>3, <3>4, StillSnap
    <3> QED
      BY <3>2, <3>5
  <2>3. CASE "done" \notin p.flags /\ "string" \in p.flags
    BY <1>1, <2>1, <2>3, TextKeeps DEF Moves
  <2>4. CASE Lacks(p.flags, {"done", "string"}) /\ "seek_value" \in p.flags
    BY <2>1, <2>4, SeekKeeps DEF Moves, Lacks
  <2>5. CASE Lacks(p.flags, {"done", "string", "seek_value"})
    BY <2>1, <2>5, ObjectKeeps DEF Moves, Lacks
  <2> QED
    BY <2>2, <2>3, <2>4, <2>5 DEF Lacks
<1> QED
  BY <1>2, <1>3

-----------------------------------------------------------------------------
(***************************************************************************)
(* The states of the first pass so far.                                    *)
(***************************************************************************)
History(past, txt) ==
    /\ past \in Seq(SnapType) /\ past # <<>> /\ past[1] = Begin
    /\ \A i \in 1 .. Len(past) : GoodSnap(past[i]) /\ Le(past[i], Last(past))
    /\ \A i \in 1 .. Len(past) - 1 : StepTo(txt, past[i], past[i + 1])

\* The text is longer than it was, or the same.
Grown(old, txt) == /\ old \in Seq(Symbol) /\ txt \in Seq(Symbol) /\ Len(old) <= Len(txt)
                   /\ \A k \in 1 .. Len(old) : txt[k] = old[k]

LEMMA GoodBegin == GoodSnap(Begin) /\ Le(Begin, Begin)
<1>1. Begin \in SnapType /\ Good(Blank)
  BY GoodBlank DEF Begin, SnapType, Core, Good
<1>2. Mode(Begin.flags, Begin.t)
  BY DEF Begin, Mode, AtStart, Blank
<1>3. Begin.sl <= Begin.sl
  BY DEF Begin
<1>4. Le(Begin, Begin)
  BY <1>1, <1>3, LeSame
<1> QED
  BY <1>1, <1>2, <1>4 DEF GoodSnap, Begin

LEMMA HistoryBegins == ASSUME NEW txt PROVE History(<<Begin>>, txt) /\ Last(<<Begin>>) = Begin
BY GoodBegin DEF History, GoodSnap, Last

LEMMA StepGrows ==
    ASSUME NEW old, NEW txt, Grown(old, txt), NEW p \in SnapType, NEW q, StepTo(old, p, q)
    PROVE  StepTo(txt, p, q)
<1>1. p.pos \in 1 .. Len(old) /\ Len(old) \in Nat /\ Len(txt) \in Nat
  BY DEF StepTo, SnapType, Grown
<1>2. txt[p.pos] = old[p.pos] /\ p.pos <= Len(txt)
  BY <1>1 DEF Grown
<1>3. NumberMove(old, p, q) => NumberMove(txt, p, q)
  <2> SUFFICES ASSUME NumberMove(old, p, q) PROVE NumberMove(txt, p, q)
    OBVIOUS
  <2>1. PICK e \in p.pos + 1 .. Len(old), ty \in {"integer", "double"} :
            /\ \A k \in p.pos .. e - 1 : old[k] \in Numeric
            /\ PopFits(Pushed(p.t, ty))
            /\ q = Popping(p, Pushed(p.t, ty), e, p.flags \ {"seek_value"})
    BY DEF NumberMove
  <2>2. e \in p.pos + 1 .. Len(txt)
    BY <1>1 DEF Grown
  <2>3. \A k \in p.pos .. e - 1 : txt[k] \in Numeric
    <3> SUFFICES ASSUME NEW k \in p.pos .. e - 1 PROVE txt[k] \in Numeric
      OBVIOUS
    <3>1. k \in 1 .. Len(old)
      BY <1>1
    <3> QED
      BY <2>1, <3>1 DEF Grown
  <2> QED
    BY <2>1, <2>2, <2>3 DEF NumberMove
<1> QED
  BY <1>2, <1>3 DEF StepTo

LEMMA HistoryGrows ==
    ASSUME NEW old, NEW txt, Grown(old, txt), NEW past, History(past, old)
    PROVE  History(past, txt)
<1>1. \A i \in 1 .. Len(past) - 1 : StepTo(txt, past[i], past[i + 1])
  <2> SUFFICES ASSUME NEW i \in 1 .. Len(past) - 1 PROVE StepTo(txt, past[i], past[i + 1])
    OBVIOUS
  <2>1. past[i] \in SnapType /\ StepTo(old, past[i], past[i + 1])
    BY DEF History
  <2> QED
    BY <2>1, StepGrows
<1> QED
  BY <1>1 DEF History

LEMMA HistoryLast ==
    ASSUME NEW txt, NEW past, History(past, txt)
    PROVE  /\ GoodSnap(Last(past)) /\ Last(past) \in SnapType /\ Last(past) = past[Len(past)]
           /\ Len(past) \in Nat \ {0}
BY DEF History, Last, GoodSnap

LEMMA HistoryAppends ==
    ASSUME NEW txt \in Seq(Symbol), NEW past, History(past, txt), NEW q, StepTo(txt, Last(past), q)
    PROVE  History(Append(past, q), txt) /\ Last(Append(past, q)) = q
<1> DEFINE p == Last(past)
           new == Append(past, q)
           n == Len(past)
<1>1. GoodSnap(p) /\ p \in SnapType /\ p = past[n] /\ n \in Nat \ {0}
  BY HistoryLast
<1>2. GoodSnap(q) /\ Le(p, q) /\ q \in SnapType
  BY <1>1, StepKeeps DEF GoodSnap
<1>3. /\ past \in Seq(SnapType) /\ past[1] = Begin
      /\ \A i \in 1 .. n : GoodSnap(past[i]) /\ Le(past[i], p) /\ past[i] \in SnapType
      /\ \A i \in 1 .. n - 1 : StepTo(txt, past[i], past[i + 1])
  BY DEF History
<1>4. /\ new \in Seq(SnapType) /\ Len(new) = n + 1 /\ new[n + 1] = q
      /\ \A i \in 1 .. n : new[i] = past[i]
  BY <1>1, <1>2, <1>3
<1>5. Last(new) = q
  BY <1>4 DEF Last
<1>6. ASSUME NEW i \in 1 .. n + 1 PROVE GoodSnap(new[i]) /\ Le(new[i], q)
  <2>1. CASE i = n + 1
    <3>1. q.sl <= q.sl
      BY <1>2 DEF SnapType
    <3>2. Le(q, q)
      BY <1>2, <3>1, LeSame
    <3> QED
      BY <1>2, <1>4, <2>1, <3>2
  <2>2. CASE i \in 1 .. n
    <3>1. Le(past[i], q)
      BY <1>1, <1>2, <1>3, <2>2, LeTrans
    <3> QED
      BY <1>3, <1>4, <2>2, <3>1
  <2> QED
    BY <1>1, <2>1, <2>2
<1>7. ASSUME NEW i \in 1 .. n PROVE StepTo(txt, new[i], new[i + 1])
  <2>1. CASE i = n
    BY <1>1, <1>4, <2>1
  <2>2. CASE i \in 1 .. n - 1
    <3>1. new[i] = past[i] /\ new[i + 1] = past[i + 1]
      BY <1>1, <1>4, <2>2
    <3> QED
      BY <1>3, <2>2, <3>1
  <2> QED
    BY <1>1, <2>1, <2>2
<1> HIDE DEF new
<1>8. Len(new) - 1 = n /\ new # <<>> /\ new[1] = Begin
  BY <1>1, <1>3, <1>4
<1>9. History(new, txt)
  BY <1>1, <1>4, <1>5, <1>6, <1>7, <1>8 DEF History
<1> QED
  BY <1>5, <1>9 DEF new

\* A move is determined by its symbol.
LEMMA MovesOnce ==
    ASSUME NEW p, NEW b, NEW q, NEW r, Moves(p, b, q), Moves(p, b, r)
    PROVE  q = r
<1>1. CASE "done" \in p.flags
  BY <1>1 DEF Moves
<1>2. CASE "done" \notin p.flags /\ "string" \in p.flags
  <2>1. TextMove(p, b, q) /\ TextMove(p, b, r)
    BY <1>2 DEF Moves
  <2>2. CASE "escaped" \in p.flags
    BY <2>1, <2>2 DEF TextMove
  <2>3. CASE "escaped" \notin p.flags /\ b # "quote"
    BY <2>1, <2>3 DEF TextMove
  <2>4. CASE "escaped" \notin p.flags /\ b = "quote"
    BY <2>1, <2>4 DEF TextMove
  <2> QED
    BY <2>2, <2>3, <2>4
<1>3. CASE "done" \notin p.flags /\ "string" \notin p.flags /\ "seek_value" \in p.flags
  <2>1. SeekMove(p, b, q) /\ SeekMove(p, b, r)
    BY <1>3 DEF Moves
  <2>2. CASE b \in {"ws", "]"}
    BY <2>1, <2>2 DEF SeekMove
  <2>3. CASE b \notin {"ws", "]"} /\ {"need_comma", "need_colon"} \cap p.flags # {}
    BY <2>1, <2>3 DEF SeekMove
  <2>4. CASE b \notin {"ws", "]"} /\ {"need_comma", "need_colon"} \cap p.flags = {}
    <3>1. "need_comma" \notin p.flags /\ "need_colon" \notin p.flags
      BY <2>4
    <3>2. CASE b = "lit"
      BY <2>1, <2>4, <3>1, <3>2 DEF SeekMove
    <3>3. CASE b \in {"lbrace", "[", "quote"}
      BY <2>1, <2>4, <3>1, <3>3 DEF SeekMove
    <3> QED
      BY <2>1, <2>4, <3>1, <3>2, <3>3 DEF SeekMove
  <2> QED
    BY <2>2, <2>3, <2>4
<1>4. CASE "done" \notin p.flags /\ "string" \notin p.flags /\ "seek_value" \notin p.flags
  BY <1>4 DEF Moves, ObjectMove
<1> QED
  BY <1>1, <1>2, <1>3, <1>4

\* Behind a number comes no symbol of a number.
LEMMA NumberEnds ==
    ASSUME NEW txt, NEW p, NEW q, NEW r, p \in SnapType, NumberAt(p, txt[p.pos]),
           NumberMove(txt, p, q), StepTo(txt, q, r)
    PROVE  txt[q.pos] \notin Numeric
<1>1. PICK e \in p.pos + 1 .. Len(txt), ty \in {"integer", "double"} :
          q = Popping(p, Pushed(p.t, ty), e, p.flags \ {"seek_value"})
  BY DEF NumberMove
<1>2. "need_comma" \in q.flags /\ Lacks(q.flags, {"string", "need_colon"})
  BY <1>1 DEF Popping, At, PopFlags, NumberAt, Lacks
<1>3. ~NumberAt(q, txt[q.pos])
  BY <1>2 DEF NumberAt, Lacks
<1>4. Moves(q, txt[q.pos], r)
  BY <1>3 DEF StepTo
<1>5. CASE "done" \in q.flags
  BY <1>4, <1>5 DEF Moves, Numeric, Digit
<1>6. CASE "done" \notin q.flags /\ "seek_value" \in q.flags
  BY <1>2, <1>4, <1>6 DEF Moves, SeekMove, Numeric, Digit, Lacks
<1>7. CASE "done" \notin q.flags /\ "seek_value" \notin q.flags
  BY <1>2, <1>4, <1>7 DEF Moves, ObjectMove, Numeric, Digit, Lacks
<1> QED
  BY <1>5, <1>6, <1>7

-----------------------------------------------------------------------------
(***************************************************************************)
(* The tree of the model in either pass, for the shape t; in the second    *)
(* pass, F is the shape with which the first has ended.                    *)
(***************************************************************************)
NodeType == [type : Kind, parent : Nat, length : Nat, names : Nat, size : Nat, room : Nat,
             next_alloc : Nat, keys : Seq(Nat), kids : Seq(Nat)]

Values(A) == {<<"value", v>> : v \in A}
Data(A)   == {<<"data", v>> : v \in A}

\* The chain of n values.
Chained(n, v) == IF v = n THEN 0 ELSE v + 1

Framed(tr, top, root, alloc, live) ==
    \E nd \in Seq(NodeType) :
        tr = [node |-> nd, top |-> top, root |-> root, alloc |-> alloc, live |-> live]

RootOf(t) == IF t.n = 0 THEN 0 ELSE 1

Drawn(t, tr) ==
    /\ Framed(tr, t.top, RootOf(t), t.n, Values(1 .. t.n))
    /\ Len(tr.node) = t.n
    /\ \A v \in 1 .. t.n :
          tr.node[v] = [type |-> t.type[v], parent |-> t.parent[v], length |-> t.length[v],
                        names |-> t.names[v], size |-> 0, room |-> 0,
                        next_alloc |-> Chained(t.n, v), keys |-> <<>>, kids |-> <<>>]

\* t is a part of F.
Part(t, F) == t.n <= F.n /\ \A v \in 1 .. t.n : F.parent[v] = t.parent[v] /\ F.type[v] = t.type[v]

\* The second pass has made the block of v.
Made(t, F, v) == v <= t.n /\ F.type[v] \in Sized

MadeSet(t, F) == {v \in 1 .. t.n : F.type[v] \in Sized}

\* The members stored in v are its closed children, each once.
Family(t, v, n) ==
    /\ \A i \in 1 .. Len(n.kids) : /\ n.kids[i] \in 1 .. t.n /\ n.kids[i] \notin t.open
                                   /\ t.parent[n.kids[i]] = v
    /\ \A i, j \in 1 .. Len(n.kids) : n.kids[i] = n.kids[j] => i = j
    /\ \A c \in 1 .. t.n : c \notin t.open /\ t.parent[c] = v =>
          \E i \in 1 .. Len(n.kids) : n.kids[i] = c
    /\ Len(n.kids) = IF v <= t.n /\ n.type \in Holders THEN t.length[v] ELSE 0
    /\ Len(n.keys) = IF v <= t.n /\ n.type = "object"
                     THEN t.length[v] + IF v \in t.named THEN 1 ELSE 0 ELSE 0

\* The value v of the second pass.
Halfway(t, F, v, n) ==
    /\ n \in NodeType /\ n.type = F.type[v] /\ n.parent = F.parent[v]
    /\ n.next_alloc = Chained(F.n, v)
    /\ IF Made(t, F, v)
       THEN /\ n.length = t.length[v] /\ n.names = t.names[v]
            /\ n.size = F.length[v] /\ n.room = F.names[v]
       ELSE n.length = F.length[v] /\ n.names = F.names[v] /\ n.size = 0 /\ n.room = 0

Redrawn(t, F, tr) ==
    /\ Part(t, F)
    /\ Framed(tr, t.top, RootOf(t), IF t.n < F.n THEN t.n + 1 ELSE 0,
              Values(1 .. F.n) \cup Data(MadeSet(t, F)))
    /\ Len(tr.node) = F.n
    /\ \A v \in 1 .. F.n : Halfway(t, F, v, tr.node[v]) /\ Family(t, v, tr.node[v])

LEMMA SetNode ==
    ASSUME NEW nd \in Seq(NodeType), NEW v \in 1 .. Len(nd), NEW x \in NodeType
    PROVE  /\ [nd EXCEPT ![v] = x] \in Seq(NodeType) /\ Len([nd EXCEPT ![v] = x]) = Len(nd)
           /\ \A w \in 1 .. Len(nd) : [nd EXCEPT ![v] = x][w] = IF w = v THEN x ELSE nd[w]
OBVIOUS

LEMMA GoodFacts ==
    ASSUME NEW t, Good(t)
    PROVE  /\ t.n \in Nat /\ t.top \in 0 .. t.n /\ t.parent \in [Nat -> Nat] /\ t.type \in [Nat -> Kind]
           /\ t.length \in [Nat -> Nat] /\ t.names \in [Nat -> Nat]
           /\ t.n # 0 => t.top \in t.open /\ t.top \in 1 .. t.n
           /\ t.open \subseteq 1 .. t.n /\ t.named \subseteq t.open
BY DEF Good, ShapeType

LEMMA FramedFacts ==
    ASSUME NEW tr, NEW top, NEW root, NEW alloc, NEW live, Framed(tr, top, root, alloc, live)
    PROVE  /\ tr.node \in Seq(NodeType) /\ tr.top = top /\ tr.root = root /\ tr.alloc = alloc
           /\ tr.live = live
BY DEF Framed

LEMMA DrawnPushed ==
    ASSUME NEW t, Good(t), NEW ty \in Kind, NEW tr, Drawn(t, tr)
    PROVE  Drawn(Pushed(t, ty), NewFirst(tr, ty))
<1> DEFINE s == Pushed(t, ty)
           m == t.n + 1
           nd == tr.node
           new == [type |-> ty, parent |-> t.top, length |-> 0, names |-> 0, size |-> 0,
                   room |-> 0, next_alloc |-> 0, keys |-> <<>>, kids |-> <<>>]
           last == [nd[t.n] EXCEPT !.next_alloc = m]
           linked == IF t.n = 0 THEN nd ELSE [nd EXCEPT ![t.n] = last]
           all == Append(linked, new)
<1>0. t.n \in Nat /\ m \in Nat \ {0}
  BY GoodFacts
<1>1. /\ t.n \in Nat /\ t.top \in Nat /\ m \in Nat \ {0} /\ t.length[m] = 0 /\ t.names[m] = 0
      /\ t.type \in [Nat -> Kind] /\ t.parent \in [Nat -> Nat]
  <2>1. t.length[m] = 0 /\ t.names[m] = 0
    <3>1. m \in Nat /\ m > t.n
      BY <1>0
    <3>2. \A v \in Nat : v > t.n => t.length[v] = 0 /\ t.names[v] = 0
      BY DEF Good
    <3> QED
      BY <3>1, <3>2
  <2> QED
    BY <1>0, <2>1, GoodFacts
<1>2. /\ tr = [node |-> nd, top |-> t.top, root |-> RootOf(t), alloc |-> t.n, live |-> Values(1 .. t.n)]
      /\ nd \in Seq(NodeType) /\ Len(nd) = t.n
      /\ \A v \in 1 .. t.n :
            nd[v] = [type |-> t.type[v], parent |-> t.parent[v], length |-> t.length[v],
                     names |-> t.names[v], size |-> 0, room |-> 0,
                     next_alloc |-> Chained(t.n, v), keys |-> <<>>, kids |-> <<>>]
    <2>1. PICK f \in Seq(NodeType) : tr = [node |-> f, top |-> t.top, root |-> RootOf(t),
                                         alloc |-> t.n, live |-> Values(1 .. t.n)]
    BY DEF Drawn, Framed
  <2>2. f = nd
    BY <2>1
  <2> QED
    BY <2>1, <2>2 DEF Drawn
<1>n. nd \in Seq(NodeType) /\ Len(nd) = t.n
  BY <1>2
<1>3. /\ s.n = m /\ s.top = m /\ s.length = t.length /\ s.names = t.names /\ RootOf(s) = 1
      /\ \A v \in Nat : /\ s.parent[v] = IF v = m THEN t.top ELSE t.parent[v]
                        /\ s.type[v] = IF v = m THEN ty ELSE t.type[v]
  BY <1>1 DEF Pushed, RootOf
<1>4. new \in NodeType
  BY <1>1 DEF NodeType
<1> HIDE DEF new, last, linked, all, nd, m, s
<1>m. m = t.n + 1
  BY DEF m
<1>5. /\ linked \in Seq(NodeType) /\ Len(linked) = t.n
      /\ \A v \in 1 .. t.n : linked[v] = IF v = t.n THEN last ELSE nd[v]
  <2>1. CASE t.n = 0
    BY <1>1, <1>2, <2>1 DEF linked
  <2>2. CASE t.n # 0
    <3>1. nd[t.n] \in NodeType /\ t.n \in 1 .. Len(nd)
      BY <1>0, <1>n, <2>2
    <3>2. last \in NodeType
      BY <1>1, <3>1 DEF NodeType, last
    <3> QED
      BY <1>n, <2>2, <3>1, <3>2, SetNode DEF linked
  <2> QED
    BY <2>1, <2>2
<1>6. /\ all \in Seq(NodeType) /\ Len(all) = m /\ all[m] = new
      /\ \A v \in 1 .. t.n : all[v] = IF v = t.n THEN last ELSE nd[v]
  BY <1>0, <1>4, <1>5, <1>m DEF all
<1>7. NewFirst(tr, ty) = [node |-> all, top |-> m, alloc |-> m, root |-> IF t.n = 0 THEN m ELSE 1,
                          live |-> Values(1 .. t.n) \cup {<<"value", m>>}]
  <2>1. /\ tr.node = nd /\ tr.top = t.top /\ tr.alloc = t.n /\ tr.live = Values(1 .. t.n)
        /\ tr.root = IF t.n = 0 THEN 0 ELSE 1
    BY <1>2 DEF RootOf
  <2>2. Len(tr.node) + 1 = m /\ (tr.alloc = 0 <=> t.n = 0) /\ (tr.root = 0 <=> t.n = 0)
    BY <1>n, <1>m, <2>1
  <2>3. linked = IF tr.alloc = 0 THEN tr.node ELSE [tr.node EXCEPT ![tr.alloc].next_alloc = m]
    BY <2>1 DEF linked, last
  <2> QED
    BY <2>1, <2>2, <2>3 DEF NewFirst, NULL, all, new
<1>8. Values(1 .. t.n) \cup {<<"value", m>>} = Values(1 .. m)
  <2>1. 1 .. m = 1 .. t.n \cup {m}
    BY <1>1, <1>m
  <2> QED
    BY <2>1 DEF Values
<1>9. (IF t.n = 0 THEN m ELSE 1) = 1
  BY <1>1, <1>m
<1>10. ASSUME NEW v \in 1 .. m
       PROVE  all[v] = [type |-> s.type[v], parent |-> s.parent[v], length |-> s.length[v],
                        names |-> s.names[v], size |-> 0, room |-> 0,
                        next_alloc |-> Chained(m, v), keys |-> <<>>, kids |-> <<>>]
  <2>1. CASE v = m
    BY <1>1, <1>3, <1>6, <2>1 DEF Chained, new
  <2>2. CASE v = t.n
    <3>0. t.n \in 1 .. t.n /\ v # m /\ v \in Nat /\ v \in 1 .. t.n
      BY <1>0, <1>m, <2>2
    <3>1. all[v] = last /\ s.parent[v] = t.parent[v] /\ s.type[v] = t.type[v]
      BY <1>3, <1>6, <2>2, <3>0
    <3>2. last = [type |-> t.type[v], parent |-> t.parent[v], length |-> t.length[v],
                        names |-> t.names[v], size |-> 0, room |-> 0,
                        next_alloc |-> m, keys |-> <<>>, kids |-> <<>>]
      <4>1. nd[t.n] = [type |-> t.type[v], parent |-> t.parent[v], length |-> t.length[v],
                       names |-> t.names[v], size |-> 0, room |-> 0,
                       next_alloc |-> Chained(t.n, v), keys |-> <<>>, kids |-> <<>>]
        BY <1>2, <2>2, <3>0
      <4> QED
        BY <4>1 DEF last
    <3>3. Chained(m, v) = m
      BY <1>0, <1>m, <2>2 DEF Chained
    <3> QED
      BY <1>3, <3>1, <3>2, <3>3
  <2>3. CASE v # m /\ v # t.n
    <3>0. v \in 1 .. t.n /\ v \in Nat
      BY <1>0, <1>m, <2>3
    <3>1. all[v] = nd[v] /\ s.parent[v] = t.parent[v] /\ s.type[v] = t.type[v]
      BY <1>3, <1>6, <2>3, <3>0
    <3>2. Chained(m, v) = Chained(t.n, v)
      BY <2>3 DEF Chained
    <3> QED
      BY <1>2, <1>3, <3>0, <3>1, <3>2
  <2> QED
    BY <2>1, <2>2, <2>3
<1>12. NewFirst(tr, ty).node = all
  BY <1>7
<1>11. Framed(NewFirst(tr, ty), s.top, RootOf(s), s.n, Values(1 .. s.n))
  <2>1. NewFirst(tr, ty) = [node |-> all, top |-> s.top, root |-> RootOf(s), alloc |-> s.n,
                            live |-> Values(1 .. s.n)]
    BY <1>3, <1>7, <1>8, <1>9
  <2> QED
    BY <1>6, <1>12, <2>1 DEF Framed
<1>13. Drawn(s, NewFirst(tr, ty))
  BY <1>3, <1>6, <1>10, <1>11, <1>12 DEF Drawn
<1> QED
  BY <1>13 DEF s

\* The value v becomes x, and p the top.
SetAt(tr, v, x, p)  == [tr EXCEPT !.node[v] = x, !.top = p]
SetStill(tr, v, x) == [tr EXCEPT !.node[v] = x]

LEMMA SetFramed ==
    ASSUME NEW tr, NEW top, NEW root, NEW alloc, NEW live, Framed(tr, top, root, alloc, live),
           NEW v \in 1 .. Len(tr.node), NEW x \in NodeType, NEW p, NEW out, out = SetAt(tr, v, x, p)
    PROVE  /\ Framed(out, p, root, alloc, live) /\ Len(out.node) = Len(tr.node)
           /\ \A w \in 1 .. Len(tr.node) : out.node[w] = IF w = v THEN x ELSE tr.node[w]
<1>1. PICK nd \in Seq(NodeType) :
          tr = [node |-> nd, top |-> top, root |-> root, alloc |-> alloc, live |-> live]
  BY DEF Framed
<1> DEFINE all == [nd EXCEPT ![v] = x]
<1>2. out = [node |-> all, top |-> p, root |-> root, alloc |-> alloc, live |-> live]
  BY <1>1 DEF SetAt
<1>n. tr.node = nd /\ v \in 1 .. Len(nd)
  BY <1>1
<1>3. /\ all \in Seq(NodeType) /\ Len(all) = Len(nd)
      /\ \A w \in 1 .. Len(nd) : all[w] = IF w = v THEN x ELSE nd[w]
  BY <1>n, SetNode
<1> HIDE DEF all
<1>6. all \in Seq(NodeType)
  BY <1>3
<1>4. Framed(out, p, root, alloc, live)
  BY <1>2, <1>6, Zenon DEF Framed
<1>5. out.node = all
  BY <1>2
<1> QED
  BY <1>n, <1>3, <1>4, <1>5

\* The same without a change of top.
LEMMA SetFramedStill ==
    ASSUME NEW tr, NEW top, NEW root, NEW alloc, NEW live, Framed(tr, top, root, alloc, live),
           NEW v \in 1 .. Len(tr.node), NEW x \in NodeType, NEW p, p = top,
           NEW out, out = SetStill(tr, v, x)
    PROVE  out = SetAt(tr, v, x, p)
<1>1. PICK nd \in Seq(NodeType) :
          tr = [node |-> nd, top |-> top, root |-> root, alloc |-> alloc, live |-> live]
  BY DEF Framed
<1> DEFINE all == [nd EXCEPT ![v] = x]
           new == SetAt(tr, v, x, p)
<1>2. out = [node |-> all, top |-> p, root |-> root, alloc |-> alloc, live |-> live]
  BY <1>1 DEF SetStill
<1>3. new = [node |-> all, top |-> p, root |-> root, alloc |-> alloc, live |-> live]
  <2> DEFINE y == tr
  <2>1. PICK z : z = new
    OBVIOUS
  <2>2. z = [node |-> all, top |-> p, root |-> root, alloc |-> alloc, live |-> live]
    BY <1>1, <2>1 DEF SetAt
  <2> QED
    BY <2>1, <2>2
<1> QED
  BY <1>2, <1>3

\* t becomes s by its value u, which becomes x.
Sets(t, tr, u, s, x, out) ==
    /\ Drawn(t, tr) /\ t.n \in Nat /\ u \in 1 .. t.n /\ s.n = t.n
    /\ \A w \in 1 .. t.n : w # u => /\ s.type[w] = t.type[w] /\ s.parent[w] = t.parent[w]
                                    /\ s.length[w] = t.length[w] /\ s.names[w] = t.names[w]
    /\ x \in NodeType
    /\ x = [type |-> s.type[u], parent |-> s.parent[u], length |-> s.length[u],
            names |-> s.names[u], size |-> 0, room |-> 0,
            next_alloc |-> Chained(t.n, u), keys |-> <<>>, kids |-> <<>>]
    /\ out = SetAt(tr, u, x, s.top)

LEMMA DrawnSet ==
    ASSUME NEW t, NEW tr, NEW u, NEW s, NEW x, NEW out, Sets(t, tr, u, s, x, out)
    PROVE  Drawn(s, out)
<1>0. /\ Drawn(t, tr) /\ t.n \in Nat /\ u \in 1 .. t.n /\ s.n = t.n
      /\ \A w \in 1 .. t.n : w # u => /\ s.type[w] = t.type[w] /\ s.parent[w] = t.parent[w]
                                      /\ s.length[w] = t.length[w] /\ s.names[w] = t.names[w]
      /\ x \in NodeType
      /\ x = [type |-> s.type[u], parent |-> s.parent[u], length |-> s.length[u],
              names |-> s.names[u], size |-> 0, room |-> 0,
              next_alloc |-> Chained(t.n, u), keys |-> <<>>, kids |-> <<>>]
      /\ out = SetAt(tr, u, x, s.top)
  BY DEF Sets
<1>1. Framed(tr, t.top, RootOf(t), t.n, Values(1 .. t.n)) /\ Len(tr.node) = t.n /\ u \in 1 .. Len(tr.node)
  BY <1>0 DEF Drawn
<1>2. /\ Framed(out, s.top, RootOf(t), t.n, Values(1 .. t.n)) /\ Len(out.node) = t.n
      /\ \A w \in 1 .. t.n : out.node[w] = IF w = u THEN x ELSE tr.node[w]
  BY <1>0, <1>1, SetFramed
<1>3. RootOf(s) = RootOf(t)
  BY <1>0 DEF RootOf
<1>4. ASSUME NEW w \in 1 .. t.n
      PROVE  out.node[w] = [type |-> s.type[w], parent |-> s.parent[w], length |-> s.length[w],
                names |-> s.names[w], size |-> 0, room |-> 0,
                next_alloc |-> Chained(t.n, w), keys |-> <<>>, kids |-> <<>>]
  <2>1. CASE w = u
    BY <1>0, <1>2, <2>1
  <2>2. CASE w # u
    BY <1>0, <1>2, <2>2 DEF Drawn
  <2> QED
    BY <2>1, <2>2
<1> QED
  BY <1>0, <1>2, <1>3, <1>4 DEF Drawn

\* t and s differ in the value u alone, and x is what it becomes.
Replaces(t, s, F, tr, u, x) ==
    /\ t.n \in Nat /\ F.n \in Nat /\ u \in 1 .. t.n /\ Made(t, F, u)
    /\ s.n = t.n /\ s.type = t.type /\ s.parent = t.parent
    /\ \A w \in 1 .. t.n : w # u => s.length[w] = t.length[w] /\ s.names[w] = t.names[w]
    /\ Halfway(s, F, u, x)
    /\ \A w \in 1 .. F.n : Family(s, w, IF w = u THEN x ELSE tr.node[w])

LEMMA RedrawnSet ==
    ASSUME NEW t, NEW F, NEW tr, Redrawn(t, F, tr), NEW u, NEW s, NEW x, Replaces(t, s, F, tr, u, x),
           NEW out, out = SetAt(tr, u, x, s.top)
    PROVE  Redrawn(s, F, out)
<1> DEFINE alloc == IF t.n < F.n THEN t.n + 1 ELSE 0
           live  == Values(1 .. F.n) \cup Data(MadeSet(t, F))
<1>0. Part(t, F) /\ u \in 1 .. F.n
  BY DEF Redrawn, Part, Replaces
<1>r. s.n = t.n /\ s.type = t.type /\ s.parent = t.parent
  BY DEF Replaces
<1>x. x \in NodeType
  BY DEF Replaces, Halfway
<1>1. Framed(tr, t.top, RootOf(t), alloc, live) /\ Len(tr.node) = F.n /\ u \in 1 .. Len(tr.node)
  BY <1>0 DEF Redrawn
<1> HIDE DEF alloc, live
<1>2. /\ Framed(out, s.top, RootOf(t), alloc, live) /\ Len(out.node) = F.n
      /\ \A w \in 1 .. F.n : out.node[w] = IF w = u THEN x ELSE tr.node[w]
  BY <1>0, <1>1, <1>x, SetFramed
<1>3. /\ RootOf(s) = RootOf(t) /\ Part(s, F) /\ MadeSet(s, F) = MadeSet(t, F)
      /\ \A w \in 1 .. F.n : Made(s, F, w) <=> Made(t, F, w)
  BY <1>0, <1>r DEF RootOf, Part, MadeSet, Made
<1>4. ASSUME NEW w \in 1 .. F.n
      PROVE  Halfway(s, F, w, out.node[w])
  <2>1. CASE w = u
    BY <1>2, <2>1 DEF Replaces
  <2>2. CASE w # u
    <3>1. Halfway(t, F, w, tr.node[w])
      BY DEF Redrawn
    <3>2. Made(t, F, w) => s.length[w] = t.length[w] /\ s.names[w] = t.names[w]
      BY <2>2 DEF Made, Replaces
    <3>3. Halfway(s, F, w, tr.node[w])
      BY <1>3, <3>1, <3>2 DEF Halfway
    <3> QED
      BY <1>2, <2>2, <3>3
  <2> QED
    BY <2>1, <2>2
<1>5. \A w \in 1 .. F.n : Family(s, w, out.node[w])
  BY <1>2 DEF Replaces
<1>6. Framed(out, s.top, RootOf(s), IF s.n < F.n THEN s.n + 1 ELSE 0,
             Values(1 .. F.n) \cup Data(MadeSet(s, F)))
  BY <1>2, <1>3, <1>r DEF alloc, live
<1> QED
  BY <1>2, <1>3, <1>4, <1>5, <1>6 DEF Redrawn

LEMMA DrawnFacts ==
    ASSUME NEW t, NEW tr, Drawn(t, tr)
    PROVE  /\ Framed(tr, t.top, RootOf(t), t.n, Values(1 .. t.n)) /\ Len(tr.node) = t.n
           /\ tr.top = t.top /\ tr.node \in Seq(NodeType)
BY FramedFacts DEF Drawn

LEMMA DrawnAt ==
    ASSUME NEW t, NEW tr, Drawn(t, tr), NEW v \in 1 .. t.n
    PROVE  tr.node[v] = [type |-> t.type[v], parent |-> t.parent[v], length |-> t.length[v],
                         names |-> t.names[v], size |-> 0, room |-> 0,
                         next_alloc |-> Chained(t.n, v), keys |-> <<>>, kids |-> <<>>]
BY DEF Drawn

LEMMA DrawnMeasured ==
    ASSUME NEW t, Good(t), t.n # 0, NEW tr, Drawn(t, tr), NEW k \in Nat,
           NEW out, out = [tr EXCEPT !.node[tr.top].length = k]
    PROVE  Drawn(Measured(t, k), out)
<1> DEFINE u == t.top
           s == Measured(t, k)
           x == [tr.node[u] EXCEPT !.length = k]
<1>1. t.n \in Nat /\ u \in 1 .. t.n /\ u \in Nat
  BY GoodFacts
<1>2. tr.node[u] = [type |-> t.type[u], parent |-> t.parent[u], length |-> t.length[u],
                    names |-> t.names[u], size |-> 0, room |-> 0,
                    next_alloc |-> Chained(t.n, u), keys |-> <<>>, kids |-> <<>>]
      /\ tr.node[u] \in NodeType
  BY <1>1, DrawnAt, DrawnFacts
<1>3. /\ s.n = t.n /\ s.top = u /\ s.type = t.type /\ s.parent = t.parent /\ s.names = t.names
      /\ s.length[u] = k /\ \A w \in 1 .. t.n : w # u => s.length[w] = t.length[w]
  <2>1. t.length \in [Nat -> Nat]
    BY GoodFacts
  <2>2. \A w \in 1 .. t.n : w \in Nat
    BY <1>1
  <2> QED
    BY <1>1, <2>1, <2>2 DEF Measured
<1>4. x \in NodeType
  BY <1>2 DEF NodeType
<1>5. out = SetStill(tr, u, x)
  BY DrawnFacts DEF SetStill
<1>0. Framed(tr, u, RootOf(t), t.n, Values(1 .. t.n)) /\ u \in 1 .. Len(tr.node)
  BY <1>1, DrawnFacts
<1> HIDE DEF s, u
<1>6. x = [type |-> s.type[u], parent |-> s.parent[u], length |-> s.length[u],
           names |-> s.names[u], size |-> 0, room |-> 0,
           next_alloc |-> Chained(t.n, u), keys |-> <<>>, kids |-> <<>>]
  BY <1>2, <1>3
<1> HIDE DEF x
<1>7. out = SetAt(tr, u, x, s.top)
  BY <1>0, <1>3, <1>4, <1>5, SetFramedStill
<1>8. Drawn(s, out)
  <2>1. Sets(t, tr, u, s, x, out)
    BY <1>1, <1>3, <1>4, <1>6, <1>7 DEF Sets
  <2> QED
    BY <2>1, DrawnSet
<1> QED
  BY <1>8 DEF s

LEMMA DrawnNamed ==
    ASSUME NEW t, Good(t), t.n # 0, NEW tr, Drawn(t, tr), NEW k \in Nat,
           NEW out, out = [tr EXCEPT !.node[tr.top] = [tr.node[tr.top] EXCEPT !.names = @ + NameSize(k)]]
    PROVE  Drawn(NameRead(t, k), out)
<1> DEFINE u == t.top
           s == NameRead(t, k)
           x == [tr.node[u] EXCEPT !.names = @ + NameSize(k)]
<1>1. t.n \in Nat /\ u \in 1 .. t.n /\ u \in Nat
  BY GoodFacts
<1>2. tr.node[u] = [type |-> t.type[u], parent |-> t.parent[u], length |-> t.length[u],
                    names |-> t.names[u], size |-> 0, room |-> 0,
                    next_alloc |-> Chained(t.n, u), keys |-> <<>>, kids |-> <<>>]
      /\ tr.node[u] \in NodeType
  BY <1>1, DrawnAt, DrawnFacts
<1>3. /\ s.n = t.n /\ s.top = u /\ s.type = t.type /\ s.parent = t.parent /\ s.length = t.length
      /\ s.names[u] = t.names[u] + (k + 1) /\ \A w \in 1 .. t.n : w # u => s.names[w] = t.names[w]
  <2>1. t.names \in [Nat -> Nat] /\ t.names[u] \in Nat
    BY <1>1, GoodFacts
  <2>2. \A w \in 1 .. t.n : w \in Nat
    BY <1>1
  <2> QED
    BY <1>1, <2>1, <2>2 DEF NameRead
<1>4. x \in NodeType
  <2>1. tr.node[u].names + NameSize(k) \in Nat
    BY <1>2 DEF NodeType, NameSize
  <2>2. \A a \in NodeType, b \in Nat : [a EXCEPT !.names = b] \in NodeType
    BY DEF NodeType
  <2> QED
    BY <1>2, <2>1, <2>2
<1>5. out = SetStill(tr, u, x)
  BY DrawnFacts DEF SetStill
<1>0. Framed(tr, u, RootOf(t), t.n, Values(1 .. t.n)) /\ u \in 1 .. Len(tr.node)
  BY <1>1, DrawnFacts
<1> HIDE DEF s, u
<1>6. x = [type |-> s.type[u], parent |-> s.parent[u], length |-> s.length[u],
           names |-> s.names[u], size |-> 0, room |-> 0,
           next_alloc |-> Chained(t.n, u), keys |-> <<>>, kids |-> <<>>]
  BY <1>2, <1>3 DEF NameSize
<1> HIDE DEF x
<1>7. out = SetAt(tr, u, x, s.top)
  BY <1>0, <1>3, <1>4, <1>5, SetFramedStill
<1>8. Drawn(s, out)
  <2>1. Sets(t, tr, u, s, x, out)
    BY <1>1, <1>3, <1>4, <1>6, <1>7 DEF Sets
  <2> QED
    BY <2>1, DrawnSet
<1> QED
  BY <1>8 DEF s

LEMMA DrawnPopped ==
    ASSUME NEW t, Good(t), t.n # 0, Up(t) # 0, NEW tr, Drawn(t, tr),
           NEW out, out = SetAt(tr, Up(t), [tr.node[Up(t)] EXCEPT !.length = @ + 1], Up(t))
    PROVE  Drawn(Popped(t), out)
<1> DEFINE u == Up(t)
           s == Popped(t)
           x == [tr.node[u] EXCEPT !.length = @ + 1]
<1>1. t.n \in Nat /\ u \in 1 .. t.n /\ u \in Nat
  <2>1. u \in t.open
    BY DEF Good, Path, Up
  <2> QED
    BY <2>1, GoodFacts
<1>2. tr.node[u] = [type |-> t.type[u], parent |-> t.parent[u], length |-> t.length[u],
                    names |-> t.names[u], size |-> 0, room |-> 0,
                    next_alloc |-> Chained(t.n, u), keys |-> <<>>, kids |-> <<>>]
      /\ tr.node[u] \in NodeType
  BY <1>1, DrawnAt, DrawnFacts
<1>3. /\ s.n = t.n /\ s.top = u /\ s.type = t.type /\ s.parent = t.parent /\ s.names = t.names
      /\ s.length[u] = t.length[u] + 1 /\ \A w \in 1 .. t.n : w # u => s.length[w] = t.length[w]
  <2>1. t.length \in [Nat -> Nat]
    BY GoodFacts
  <2>2. \A w \in 1 .. t.n : w \in Nat
    BY <1>1
  <2> QED
    BY <1>1, <2>1, <2>2 DEF Popped
<1>4. x \in NodeType
  <2>1. tr.node[u].length + 1 \in Nat
    BY <1>2 DEF NodeType
  <2>2. \A a \in NodeType, b \in Nat : [a EXCEPT !.length = b] \in NodeType
    BY DEF NodeType
  <2> QED
    BY <1>2, <2>1, <2>2
<1> HIDE DEF s, u
<1>6. x = [type |-> s.type[u], parent |-> s.parent[u], length |-> s.length[u],
           names |-> s.names[u], size |-> 0, room |-> 0,
           next_alloc |-> Chained(t.n, u), keys |-> <<>>, kids |-> <<>>]
  BY <1>2, <1>3
<1> HIDE DEF x
<1>7. out = SetAt(tr, u, x, s.top)
  BY <1>3 DEF x, u
<1>8. Drawn(s, out)
  <2>1. Sets(t, tr, u, s, x, out)
    BY <1>1, <1>3, <1>4, <1>6, <1>7 DEF Sets
  <2> QED
    BY <2>1, DrawnSet
<1> QED
  BY <1>8 DEF s

\* A number turns out to have a point or an exponent.
LEMMA DrawnDouble ==
    ASSUME NEW t, Good(t), NEW ty, MayPush(t), ty \in Kind, NEW tr, Drawn(Pushed(t, ty), tr),
           NEW out, out = [tr EXCEPT !.node[tr.top].type = "double"]
    PROVE  Drawn(Pushed(t, "double"), out)
<1> DEFINE r == Pushed(t, ty)
           s == Pushed(t, "double")
           u == r.top
           x == [tr.node[u] EXCEPT !.type = "double"]
<1>a. Good(r) /\ r.n # 0 /\ r.top = r.n
  <2>1. Good(r)
    BY GoodPushed
  <2>2. t.n \in Nat /\ r.n = t.n + 1 /\ r.top = t.n + 1
    BY GoodFacts DEF Pushed
  <2> QED
    BY <2>1, <2>2
<1>1. r.n \in Nat /\ u \in 1 .. r.n /\ u \in Nat
  BY <1>a, GoodFacts
<1>3. /\ s.n = r.n /\ s.top = u /\ s.length = r.length /\ s.parent = r.parent /\ s.names = r.names
      /\ s.type[u] = "double" /\ \A w \in 1 .. r.n : w # u => s.type[w] = r.type[w]
  <2>1. t.type \in [Nat -> Kind] /\ u = t.n + 1 /\ r.n = t.n + 1
    BY GoodFacts DEF Pushed
  <2>2. \A w \in 1 .. r.n : w \in Nat
    BY <1>1
  <2> QED
    BY <1>1, <2>1, <2>2 DEF Pushed
<1> HIDE DEF r, s
<1>2. tr.node[u] = [type |-> r.type[u], parent |-> r.parent[u], length |-> r.length[u],
                    names |-> r.names[u], size |-> 0, room |-> 0,
                    next_alloc |-> Chained(r.n, u), keys |-> <<>>, kids |-> <<>>]
      /\ tr.node[u] \in NodeType
  BY <1>1, DrawnAt, DrawnFacts DEF r
<1>4. x \in NodeType
  BY <1>2 DEF NodeType, Kind
<1>0. Framed(tr, u, RootOf(r), r.n, Values(1 .. r.n)) /\ u \in 1 .. Len(tr.node) /\ tr.top = u
  BY <1>1, DrawnFacts DEF r
<1>5. out = SetStill(tr, u, x)
  BY <1>0 DEF SetStill
<1> HIDE DEF u
<1>6. x = [type |-> s.type[u], parent |-> s.parent[u], length |-> s.length[u],
           names |-> s.names[u], size |-> 0, room |-> 0,
           next_alloc |-> Chained(r.n, u), keys |-> <<>>, kids |-> <<>>]
  BY <1>2, <1>3
<1> HIDE DEF x
<1>7. out = SetAt(tr, u, x, s.top)
  BY <1>0, <1>3, <1>4, <1>5, SetFramedStill
<1>9. Drawn(r, tr)
  BY DEF r
<1>8. Drawn(s, out)
  <2>1. Sets(r, tr, u, s, x, out)
    BY <1>1, <1>3, <1>4, <1>6, <1>7, <1>9 DEF Sets
  <2> QED
    BY <2>1, DrawnSet
<1> QED
  BY <1>8 DEF s

LEMMA RedrawnFacts ==
    ASSUME NEW t, NEW F, NEW tr, Redrawn(t, F, tr)
    PROVE  /\ Framed(tr, t.top, RootOf(t), IF t.n < F.n THEN t.n + 1 ELSE 0,
                     Values(1 .. F.n) \cup Data(MadeSet(t, F)))
           /\ Part(t, F) /\ Len(tr.node) = F.n /\ tr.top = t.top /\ tr.node \in Seq(NodeType)
<1>1. Framed(tr, t.top, RootOf(t), IF t.n < F.n THEN t.n + 1 ELSE 0,
             Values(1 .. F.n) \cup Data(MadeSet(t, F)))
      /\ Part(t, F) /\ Len(tr.node) = F.n
  BY DEF Redrawn
<1> QED
  BY <1>1, FramedFacts

LEMMA RedrawnAt ==
    ASSUME NEW t, NEW F, NEW tr, Redrawn(t, F, tr), NEW v \in 1 .. F.n
    PROVE  /\ Family(t, v, tr.node[v]) /\ Halfway(t, F, v, tr.node[v])
           /\ tr.node[v] \in NodeType /\ tr.node[v].type = F.type[v]
BY DEF Redrawn, Halfway

LEMMA FamilySame ==
    ASSUME NEW t, NEW v, NEW n, Family(t, v, n),
           NEW s, s.n = t.n, s.open = t.open, s.parent = t.parent, s.named = t.named,
           NEW m, m.kids = n.kids, m.keys = n.keys, m.type = n.type,
           v <= t.n /\ n.type \in Holders => s.length[v] = t.length[v]
    PROVE  Family(s, v, m)
BY DEF Family, Holders

\* The values of the model's steps, field by field.
Same(x, n) == /\ x.type = n.type /\ x.parent = n.parent /\ x.size = n.size /\ x.room = n.room
              /\ x.next_alloc = n.next_alloc

WithName(n, k)   == [n EXCEPT !.names = @ + NameSize(k), !.keys = Append(@, k)]
WithMember(n, c) == [n EXCEPT !.length = @ + 1, !.kids = Append(n.kids, c)]

LEMMA NodeMeasured ==
    ASSUME NEW n \in NodeType, NEW k \in Nat, NEW x, x = [n EXCEPT !.length = k]
    PROVE  /\ x \in NodeType /\ Same(x, n) /\ x.length = k /\ x.names = n.names
           /\ x.keys = n.keys /\ x.kids = n.kids
BY DEF NodeType, Same

LEMMA NodeNamed ==
    ASSUME NEW n \in NodeType, NEW k \in Nat,
           NEW x, x = WithName(n, k)
    PROVE  /\ x \in NodeType /\ Same(x, n) /\ x.length = n.length /\ x.names = n.names + (k + 1)
           /\ x.keys = Append(n.keys, k) /\ x.kids = n.kids
<1>1. n.names \in Nat /\ n.keys \in Seq(Nat)
  BY DEF NodeType
<1>2. PICK m \in Nat : m = n.names + (k + 1)
  BY <1>1
<1>s. \A a \in Seq(Nat), c \in Nat : Append(a, c) \in Seq(Nat)
  OBVIOUS
<1>3. PICK all \in Seq(Nat) : all = Append(n.keys, k)
  BY <1>1, <1>s, Zenon
<1>4. x = [n EXCEPT !.names = m, !.keys = all]
  BY <1>2, <1>3 DEF NameSize, WithName
<1> QED
  BY <1>2, <1>3, <1>4 DEF NodeType, Same

LEMMA NodeStored ==
    ASSUME NEW n \in NodeType, NEW c \in Nat,
           NEW x, x = WithMember(n, c)
    PROVE  /\ x \in NodeType /\ Same(x, n) /\ x.length = n.length + 1 /\ x.names = n.names
           /\ x.keys = n.keys /\ x.kids = Append(n.kids, c)
<1>1. n.length \in Nat /\ n.kids \in Seq(Nat)
  BY DEF NodeType
<1>2. PICK m \in Nat : m = n.length + 1
  BY <1>1
<1>s. \A a \in Seq(Nat), d \in Nat : Append(a, d) \in Seq(Nat)
  OBVIOUS
<1>3. PICK all \in Seq(Nat) : all = Append(n.kids, c)
  BY <1>1, <1>s, Zenon
<1>4. x = [n EXCEPT !.length = m, !.kids = all]
  BY <1>2, <1>3 DEF WithMember
<1> QED
  BY <1>2, <1>3, <1>4 DEF NodeType, Same

LEMMA RedrawnMeasured ==
    ASSUME NEW t, Good(t), t.n # 0, t.type[t.top] = "string", NEW F, Good(F),
           NEW tr, Redrawn(t, F, tr), NEW k \in Nat,
           NEW out, out = [tr EXCEPT !.node[tr.top].length = k]
    PROVE  Redrawn(Measured(t, k), F, out)
<1> DEFINE u == t.top
           s == Measured(t, k)
           n == tr.node[u]
           x == [n EXCEPT !.length = k]
<1>1. t.n \in Nat /\ u \in 1 .. t.n /\ u \in Nat /\ F.n \in Nat
  BY GoodFacts
<1>2. u \in 1 .. F.n /\ F.type[u] = "string" /\ Made(t, F, u) /\ Len(tr.node) = F.n
  <2>1. Part(t, F) /\ Len(tr.node) = F.n
    BY RedrawnFacts
  <2>2. u \in 1 .. F.n /\ F.type[u] = "string"
    BY <1>1, <2>1 DEF Part
  <2> QED
    BY <1>1, <2>1, <2>2 DEF Made, Sized
<1>3. n \in NodeType /\ Halfway(t, F, u, n) /\ Family(t, u, n) /\ n.type = "string"
  BY <1>2, RedrawnAt
<1>4. /\ s.n = t.n /\ s.top = u /\ s.type = t.type /\ s.parent = t.parent /\ s.names = t.names
      /\ s.open = t.open /\ s.named = t.named
      /\ s.length[u] = k /\ \A w \in 1 .. t.n : w # u => s.length[w] = t.length[w]
  <2>1. t.length \in [Nat -> Nat]
    BY GoodFacts
  <2>2. \A w \in 1 .. t.n : w \in Nat
    BY <1>1
  <2> QED
    BY <1>1, <2>1, <2>2 DEF Measured
<1>6. /\ x \in NodeType /\ Same(x, n) /\ x.length = k /\ x.names = n.names
      /\ x.keys = n.keys /\ x.kids = n.kids
  BY <1>3, NodeMeasured
<1>7. out = SetStill(tr, u, x)
  BY RedrawnFacts DEF SetStill
<1> HIDE DEF s, u, n
<1> HIDE DEF x
<1>8. Halfway(s, F, u, x)
  <2>1. Made(s, F, u)
    BY <1>2, <1>4 DEF Made
  <2> QED
    BY <1>2, <1>3, <1>4, <1>6, <2>1 DEF Halfway, Same
<1>9. PICK alloc, live : Framed(tr, u, RootOf(t), alloc, live)
  BY RedrawnFacts DEF u
<1>10. out = SetAt(tr, u, x, s.top)
  BY <1>2, <1>4, <1>6, <1>7, <1>9, SetFramedStill
<1>11. ASSUME NEW w \in 1 .. F.n PROVE Family(s, w, IF w = u THEN x ELSE tr.node[w])
  <2>1. CASE w = u
    <3>1. n.type \notin Holders
      BY <1>3 DEF Holders
    <3> QED
      BY <1>3, <1>4, <1>6, <2>1, <3>1, FamilySame DEF Same
  <2>2. CASE w # u
    <3>1. Family(t, w, tr.node[w])
      BY RedrawnAt
    <3>2. w <= t.n => s.length[w] = t.length[w]
      BY <1>4, <2>2
    <3> QED
      BY <1>4, <2>2, <3>1, <3>2, FamilySame
  <2> QED
    BY <2>1, <2>2
<1>12. \A w \in 1 .. t.n : w # u => s.length[w] = t.length[w] /\ s.names[w] = t.names[w]
  BY <1>4
<1>13. s.n = t.n /\ s.type = t.type /\ s.parent = t.parent
  BY <1>4
<1>17. Replaces(t, s, F, tr, u, x)
  BY <1>1, <1>2, <1>8, <1>11, <1>12, <1>13 DEF Replaces
<1>14. Redrawn(s, F, out)
  BY <1>10, <1>17, RedrawnSet
<1> QED
  BY <1>14 DEF s

LEMMA RedrawnNamed ==
    ASSUME NEW t, Good(t), t.n # 0, t.type[t.top] = "object", t.top \notin t.named,
           NEW F, Good(F), NEW tr, Redrawn(t, F, tr), NEW k \in Nat,
           NEW out, out = [tr EXCEPT !.node[tr.top] = WithName(tr.node[tr.top], k)]
    PROVE  Redrawn(NameRead(t, k), F, out)
<1> DEFINE u == t.top
           s == NameRead(t, k)
           n == tr.node[u]
           x == WithName(n, k)
<1>1. t.n \in Nat /\ u \in 1 .. t.n /\ u \in Nat /\ F.n \in Nat
  BY GoodFacts
<1>2. u \in 1 .. F.n /\ F.type[u] = "object" /\ Made(t, F, u) /\ Len(tr.node) = F.n
  <2>1. Part(t, F) /\ Len(tr.node) = F.n
    BY RedrawnFacts
  <2>2. u \in 1 .. F.n /\ F.type[u] = "object"
    BY <1>1, <2>1 DEF Part
  <2> QED
    BY <1>1, <2>1, <2>2 DEF Made, Sized
<1>3. n \in NodeType /\ Halfway(t, F, u, n) /\ Family(t, u, n) /\ n.type = "object"
  BY <1>2, RedrawnAt
<1>4. /\ s.n = t.n /\ s.top = u /\ s.type = t.type /\ s.parent = t.parent /\ s.length = t.length
      /\ s.open = t.open /\ s.named = t.named \cup {u}
      /\ s.names[u] = t.names[u] + (k + 1) /\ \A w \in 1 .. t.n : w # u => s.names[w] = t.names[w]
  <2>1. t.names \in [Nat -> Nat] /\ t.names[u] \in Nat
    BY <1>1, GoodFacts
  <2>2. \A w \in 1 .. t.n : w \in Nat
    BY <1>1
  <2> QED
    BY <1>1, <2>1, <2>2 DEF NameRead
<1>t. n \in NodeType
  BY <1>3
<1> HIDE DEF n
<1>6. /\ x \in NodeType /\ Same(x, n) /\ x.length = n.length /\ x.names = n.names + (k + 1)
      /\ x.keys = Append(n.keys, k) /\ x.kids = n.kids
  BY <1>t, NodeNamed
<1>7. out = SetStill(tr, u, x)
  BY RedrawnFacts DEF SetStill, n
<1> HIDE DEF s, u
<1> HIDE DEF x
<1>8. Halfway(s, F, u, x)
  <2>1. Made(s, F, u)
    BY <1>2, <1>4 DEF Made
  <2> QED
    BY <1>2, <1>3, <1>4, <1>6, <2>1 DEF Halfway, Same
<1>9. PICK alloc, live : Framed(tr, u, RootOf(t), alloc, live)
  BY RedrawnFacts DEF u
<1>10. out = SetAt(tr, u, x, s.top)
  BY <1>2, <1>4, <1>6, <1>7, <1>9, SetFramedStill
<1>11. ASSUME NEW w \in 1 .. F.n PROVE Family(s, w, IF w = u THEN x ELSE tr.node[w])
  <2>1. CASE w = u
    <3>0. t.length[u] \in Nat /\ u <= t.n /\ u \notin t.named
      BY <1>1, GoodFacts DEF u
    <3>1. Len(n.keys) = t.length[u]
      BY <1>3, <3>0 DEF Family
    <3>4. Len(x.keys) = Len(n.keys) + 1
      <4>1. n.keys \in Seq(Nat)
        BY <1>3 DEF NodeType
      <4> QED
        BY <1>6, <4>1
    <3>2. u \in s.named /\ u <= s.n /\ Len(x.keys) = s.length[u] + 1
      BY <1>4, <3>0, <3>1, <3>4
    <3>3. Family(s, u, x)
      BY <1>3, <1>4, <1>6, <3>2 DEF Family, Same
    <3> QED
      BY <2>1, <3>3
  <2>2. CASE w # u
    <3>1. Family(t, w, tr.node[w])
      BY RedrawnAt
    <3>2. w \in s.named <=> w \in t.named
      BY <1>4, <2>2
    <3>3. Family(s, w, tr.node[w])
      BY <1>4, <2>2, <3>1, <3>2 DEF Family
    <3> QED
      BY <2>2, <3>3
  <2> QED
    BY <2>1, <2>2
<1>12. \A w \in 1 .. t.n : w # u => s.length[w] = t.length[w] /\ s.names[w] = t.names[w]
  BY <1>4
<1>13. s.n = t.n /\ s.type = t.type /\ s.parent = t.parent
  BY <1>4
<1>17. Replaces(t, s, F, tr, u, x)
  BY <1>1, <1>2, <1>8, <1>11, <1>12, <1>13 DEF Replaces
<1>14. Redrawn(s, F, out)
  BY <1>10, <1>17, RedrawnSet
<1> QED
  BY <1>14 DEF s

LEMMA PoppedFacts ==
    ASSUME NEW t, Good(t), t.n # 0, Up(t) # 0
    PROVE  /\ Up(t) \in t.open /\ Up(t) \in 1 .. t.n /\ Up(t) \in Nat /\ Up(t) # t.top /\ Up(t) < t.top
           /\ t.type[Up(t)] \in Holders /\ (t.type[Up(t)] = "object" => Up(t) \in t.named)
           /\ t.length[Up(t)] \in Nat
           /\ Popped(t).n = t.n /\ Popped(t).top = Up(t) /\ Popped(t).type = t.type
           /\ Popped(t).parent = t.parent /\ Popped(t).names = t.names
           /\ Popped(t).open = t.open \ {t.top} /\ Popped(t).named = t.named \ {Up(t)}
           /\ Popped(t).length[Up(t)] = t.length[Up(t)] + 1
           /\ \A w \in 1 .. t.n : w # Up(t) => Popped(t).length[w] = t.length[w]
<1> DEFINE u == Up(t)
<1>1. t.n \in Nat /\ t.top \in t.open /\ t.top \in 1 .. t.n /\ t.length \in [Nat -> Nat] /\ t.open \subseteq 1 .. t.n
  BY GoodFacts
<1>2. u \in t.open
  BY <1>1 DEF Good, Path, Up
<1>3. u \in 1 .. t.n /\ u \in Nat /\ u < t.top /\ t.top \in Nat
  <2>1. t.parent[t.top] \in 0 .. t.top - 1
    BY <1>1 DEF Good
  <2> QED
    BY <1>1, <1>2, <2>1 DEF Up
<1>4. u # t.top
  BY <1>3
<1>5. t.type[u] \in Holders /\ (t.type[u] = "object" => u \in t.named)
  BY <1>2, <1>4 DEF Good
<1> HIDE DEF u
<1>6. u = Up(t)
  BY DEF u
<1>7. /\ Popped(t).n = t.n /\ Popped(t).top = u /\ Popped(t).type = t.type
      /\ Popped(t).parent = t.parent /\ Popped(t).names = t.names
      /\ Popped(t).open = t.open \ {t.top} /\ Popped(t).named = t.named \ {u}
      /\ Popped(t).length = [t.length EXCEPT ![u] = t.length[u] + 1]
  BY <1>6 DEF Popped
<1>8. t.length[u] \in Nat /\ \A w \in 1 .. t.n : w \in Nat
  BY <1>1, <1>3
<1>9. /\ Popped(t).length[u] = t.length[u] + 1
      /\ \A w \in 1 .. t.n : w # u => Popped(t).length[w] = t.length[w]
  BY <1>1, <1>3, <1>7, <1>8
<1> QED
  BY <1>2, <1>3, <1>4, <1>5, <1>6, <1>7, <1>8, <1>9

\* What Family says of the parent of a value that is complete.
LEMMA FamilyStored ==
    ASSUME NEW t, Good(t), t.n # 0, Up(t) # 0,
           NEW n \in NodeType, Family(t, Up(t), n), n.type = t.type[Up(t)],
           NEW x, x.type = n.type, x.keys = n.keys, x.kids = Append(n.kids, t.top)
    PROVE  Family(Popped(t), Up(t), x)
<1> DEFINE u == Up(t)
           s == Popped(t)
           c == t.top
<1>1. /\ u \in t.open /\ u \in 1 .. t.n /\ u # c /\ t.type[u] \in Holders
      /\ (t.type[u] = "object" => u \in t.named) /\ t.length[u] \in Nat
      /\ s.n = t.n /\ s.parent = t.parent /\ s.open = t.open \ {c} /\ s.named = t.named \ {u}
      /\ s.length[u] = t.length[u] + 1
  BY PoppedFacts
<1>2. c \in 1 .. t.n /\ c \in t.open /\ t.parent[c] = u /\ t.n \in Nat
  BY GoodFacts DEF Up
<1> HIDE DEF s, u, c
<1>3. n.kids \in Seq(Nat)
  BY DEF NodeType
<1>4. /\ Len(x.kids) = Len(n.kids) + 1 /\ Len(n.kids) \in Nat /\ x.kids[Len(n.kids) + 1] = c
      /\ \A i \in 1 .. Len(n.kids) : x.kids[i] = n.kids[i]
  BY <1>3 DEF c
<1>5. Family(t, u, n)
  BY DEF u
<1>6. \A i \in 1 .. Len(n.kids) : n.kids[i] \in 1 .. t.n /\ n.kids[i] \notin t.open /\ t.parent[n.kids[i]] = u
  BY <1>5 DEF Family
<1>7. ASSUME NEW i \in 1 .. Len(x.kids)
      PROVE  x.kids[i] \in 1 .. s.n /\ x.kids[i] \notin s.open /\ s.parent[x.kids[i]] = u
  <2>1. CASE i = Len(n.kids) + 1
    BY <1>1, <1>2, <1>4, <2>1
  <2>2. CASE i \in 1 .. Len(n.kids)
    BY <1>1, <1>4, <1>6, <2>2
  <2> QED
    BY <1>4, <2>1, <2>2
<1>8. ASSUME NEW i \in 1 .. Len(x.kids), NEW j \in 1 .. Len(x.kids), x.kids[i] = x.kids[j]
      PROVE  i = j
  <2>1. CASE i \in 1 .. Len(n.kids) /\ j \in 1 .. Len(n.kids)
    BY <1>4, <1>5, <1>8, <2>1 DEF Family
  <2>2. CASE i = Len(n.kids) + 1 /\ j \in 1 .. Len(n.kids)
    BY <1>2, <1>4, <1>6, <1>8, <2>2
  <2>3. CASE j = Len(n.kids) + 1 /\ i \in 1 .. Len(n.kids)
    BY <1>2, <1>4, <1>6, <1>8, <2>3
  <2>4. CASE i = Len(n.kids) + 1 /\ j = Len(n.kids) + 1
    BY <2>4
  <2> QED
    BY <1>4, <2>1, <2>2, <2>3, <2>4
<1>9. ASSUME NEW d \in 1 .. s.n, d \notin s.open, s.parent[d] = u
      PROVE  \E i \in 1 .. Len(x.kids) : x.kids[i] = d
  <2>1. CASE d = c
    <3>1. Len(n.kids) + 1 \in 1 .. Len(x.kids)
      BY <1>4
    <3> QED
      BY <1>4, <2>1, <3>1
  <2>2. CASE d # c
    <3>1. d \in 1 .. t.n /\ d \notin t.open /\ t.parent[d] = u
      BY <1>1, <1>9, <2>2
    <3>2. PICK i \in 1 .. Len(n.kids) : n.kids[i] = d
      BY <1>5, <3>1 DEF Family
    <3>3. i \in 1 .. Len(x.kids) /\ x.kids[i] = d
      BY <1>4, <3>2
    <3> QED
      BY <3>3
  <2> QED
    BY <2>1, <2>2
<1>u. n.type = t.type[u] /\ u <= t.n /\ u <= s.n
  BY <1>1, <1>2 DEF u
<1>10. Len(n.kids) = t.length[u]
  BY <1>1, <1>5, <1>u DEF Family
<1>11. Len(n.keys) = IF n.type = "object" THEN t.length[u] + 1 ELSE 0
  BY <1>1, <1>5, <1>u DEF Family
<1>12. Len(x.kids) = s.length[u]
  BY <1>1, <1>4, <1>10
<1>13. Len(x.keys) = IF u <= s.n /\ x.type = "object"
                     THEN s.length[u] + IF u \in s.named THEN 1 ELSE 0 ELSE 0
  BY <1>1, <1>11, <1>u
<1>14. Family(s, u, x)
  BY <1>1, <1>7, <1>8, <1>9, <1>12, <1>13, <1>u DEF Family
<1> QED
  BY <1>14 DEF s, u

LEMMA RedrawnPopped ==
    ASSUME NEW t, Good(t), t.n # 0, Up(t) # 0, NEW F, Good(F),
           NEW tr, Redrawn(t, F, tr),
           NEW out, out = SetAt(tr, Up(t), WithMember(tr.node[Up(t)], t.top), Up(t))
    PROVE  Redrawn(Popped(t), F, out)
<1> DEFINE u == Up(t)
           s == Popped(t)
           n == tr.node[u]
           x == WithMember(n, t.top)
<1>1. /\ u \in t.open /\ u \in 1 .. t.n /\ u # t.top /\ t.type[u] \in Holders /\ t.length[u] \in Nat
      /\ s.n = t.n /\ s.top = u /\ s.type = t.type /\ s.parent = t.parent /\ s.names = t.names
      /\ s.open = t.open \ {t.top} /\ s.named = t.named \ {u}
      /\ s.length[u] = t.length[u] + 1
      /\ \A w \in 1 .. t.n : w # u => s.length[w] = t.length[w]
  BY PoppedFacts
<1>2. t.n \in Nat /\ F.n \in Nat /\ t.top \in Nat /\ t.top \in t.open /\ t.parent[t.top] = u
  BY GoodFacts DEF Up
<1>3. u \in 1 .. F.n /\ F.type[u] = t.type[u] /\ Made(t, F, u) /\ Part(t, F)
  <2>1. Part(t, F)
    BY RedrawnFacts
  <2>2. u \in 1 .. F.n /\ F.type[u] = t.type[u]
    BY <1>1, <1>2, <2>1 DEF Part
  <2> QED
    BY <1>1, <1>2, <2>1, <2>2 DEF Made, Sized, Holders
<1>4. n \in NodeType /\ Halfway(t, F, u, n) /\ Family(t, u, n) /\ n.type = t.type[u]
  BY <1>3, RedrawnAt
<1> HIDE DEF n
<1>5. /\ x \in NodeType /\ Same(x, n) /\ x.length = n.length + 1 /\ x.names = n.names
      /\ x.keys = n.keys /\ x.kids = Append(n.kids, t.top)
  BY <1>2, <1>4, NodeStored
<1>6. Family(s, u, x)
  BY <1>4, <1>5, FamilyStored DEF Same
<1>7. out = SetAt(tr, u, x, s.top)
  BY <1>1 DEF n
<1> HIDE DEF s, u, x
<1>8. Halfway(s, F, u, x)
  <2>1. Made(s, F, u)
    BY <1>3, <1>1 DEF Made
  <2> QED
    BY <1>1, <1>3, <1>4, <1>5, <2>1 DEF Halfway, Same
<1>9. ASSUME NEW w \in 1 .. F.n, w # u PROVE Family(s, w, tr.node[w])
  <2>1. Family(t, w, tr.node[w])
    BY RedrawnAt
  <2>2. w \in s.named <=> w \in t.named
    BY <1>1, <1>9
  <2>3. w \in Nat /\ (w <= t.n => s.length[w] = t.length[w])
    BY <1>1, <1>9
  <2>4. \A c \in 1 .. t.n : t.parent[c] = w => (c \in s.open <=> c \in t.open)
    BY <1>1, <1>2, <1>9
  <2> QED
    BY <1>1, <2>1, <2>2, <2>3, <2>4 DEF Family
<1>10. \A w \in 1 .. F.n : Family(s, w, IF w = u THEN x ELSE tr.node[w])
  BY <1>6, <1>9
<1>11. \A w \in 1 .. t.n : w # u => s.length[w] = t.length[w] /\ s.names[w] = t.names[w]
  BY <1>1
<1>12. Replaces(t, s, F, tr, u, x)
  BY <1>1, <1>2, <1>3, <1>8, <1>10, <1>11 DEF Replaces
<1>13. Redrawn(s, F, out)
  BY <1>7, <1>12, RedrawnSet
<1> QED
  BY <1>13 DEF s

\* A value that new_value takes in the second pass.
Emptied(n) == [n EXCEPT !.size = n.length, !.room = n.names, !.length = 0, !.names = 0]

LEMMA NodeEmptied ==
    ASSUME NEW n \in NodeType, NEW x, x = Emptied(n)
    PROVE  /\ x \in NodeType /\ x.type = n.type /\ x.parent = n.parent
           /\ x.next_alloc = n.next_alloc /\ x.size = n.length /\ x.room = n.names
           /\ x.length = 0 /\ x.names = 0 /\ x.keys = n.keys /\ x.kids = n.kids
<1>1. n.length \in Nat /\ n.names \in Nat
  BY DEF NodeType
<1> QED
  BY <1>1 DEF NodeType, Emptied

LEMMA TakenFramed ==
    ASSUME NEW tr, NEW top, NEW root, NEW alloc, NEW live, Framed(tr, top, root, alloc, live)
    PROVE  /\ Framed(Taken(tr), alloc, IF root = 0 THEN alloc ELSE root,
                     tr.node[alloc].next_alloc, live)
           /\ Taken(tr).node = tr.node
<1>1. PICK nd \in Seq(NodeType) :
          tr = [node |-> nd, top |-> top, root |-> root, alloc |-> alloc, live |-> live]
  BY DEF Framed
<1> DEFINE next == nd[alloc].next_alloc
           first == IF root = 0 THEN alloc ELSE root
<1>3. tr.node = nd /\ tr.alloc = alloc /\ tr.root = root
  BY <1>1
<1>4. Taken(tr) = [tr EXCEPT !.top = alloc, !.alloc = next, !.root = first]
  BY <1>3 DEF Taken, NULL
<1> HIDE DEF next, first
<1>5. Taken(tr) = [node |-> nd, top |-> alloc, root |-> first, alloc |-> next, live |-> live]
  BY <1>1, <1>4
<1>2. Taken(tr) = [node |-> nd, top |-> alloc, root |-> IF root = 0 THEN alloc ELSE root,
                   alloc |-> nd[alloc].next_alloc, live |-> live]
  BY <1>5 DEF next, first
<1> QED
  BY <1>1, <1>2 DEF Framed

\* A block is made for the value v, which becomes x.
Block(v) == {<<"data", v>>}

WithData(tr, v, x) == [tr EXCEPT !.live = @ \cup Block(v), !.node[v] = x]

Provided(tr, top, root, alloc, live, v, x, out, more) ==
    /\ Framed(tr, top, root, alloc, live) /\ v \in 1 .. Len(tr.node) /\ x \in NodeType
    /\ out = WithData(tr, v, x) /\ more = live \cup Block(v)

LEMMA DataFramed ==
    ASSUME NEW tr, NEW top, NEW root, NEW alloc, NEW live, NEW v, NEW x, NEW out, NEW more,
           Provided(tr, top, root, alloc, live, v, x, out, more)
    PROVE  /\ Framed(out, top, root, alloc, more)
           /\ Len(out.node) = Len(tr.node)
           /\ \A w \in 1 .. Len(tr.node) : out.node[w] = IF w = v THEN x ELSE tr.node[w]
<1>p. /\ Framed(tr, top, root, alloc, live) /\ v \in 1 .. Len(tr.node) /\ x \in NodeType
      /\ out = WithData(tr, v, x) /\ more = live \cup Block(v)
  BY DEF Provided
<1>1. PICK nd \in Seq(NodeType) :
          tr = [node |-> nd, top |-> top, root |-> root, alloc |-> alloc, live |-> live]
  BY <1>p DEF Framed
<1> DEFINE all == [nd EXCEPT ![v] = x]
<1>2. out = [node |-> all, top |-> top, root |-> root, alloc |-> alloc, live |-> more]
  BY <1>1, <1>p DEF WithData
<1>n. tr.node = nd /\ v \in 1 .. Len(nd)
  BY <1>1, <1>p
<1>3. /\ all \in Seq(NodeType) /\ Len(all) = Len(nd)
      /\ \A w \in 1 .. Len(nd) : all[w] = IF w = v THEN x ELSE nd[w]
  BY <1>n, <1>p, SetNode
<1> HIDE DEF all
<1>6. all \in Seq(NodeType)
  BY <1>3
<1>4. Framed(out, top, root, alloc, more)
  BY <1>2, <1>6, Zenon DEF Framed
<1>5. out.node = all
  BY <1>2
<1> QED
  BY <1>n, <1>3, <1>4, <1>5

LEMMA PushedFacts ==
    ASSUME NEW t, Good(t), NEW ty \in Kind
    PROVE  /\ Pushed(t, ty).n = t.n + 1 /\ Pushed(t, ty).top = t.n + 1 /\ t.n + 1 \in Nat \ {0}
           /\ Pushed(t, ty).open = t.open \cup {t.n + 1} /\ Pushed(t, ty).named = t.named
           /\ Pushed(t, ty).length = t.length /\ Pushed(t, ty).names = t.names
           /\ Pushed(t, ty).parent[t.n + 1] = t.top /\ Pushed(t, ty).type[t.n + 1] = ty
           /\ \A w \in 1 .. t.n : /\ Pushed(t, ty).parent[w] = t.parent[w]
                                  /\ Pushed(t, ty).type[w] = t.type[w]
           /\ t.length[t.n + 1] = 0 /\ t.names[t.n + 1] = 0
           /\ t.n + 1 \notin t.named
<1>1. t.n \in Nat /\ t.type \in [Nat -> Kind] /\ t.parent \in [Nat -> Nat] /\ t.named \subseteq 1 .. t.n
  BY GoodFacts
<1>2. t.n + 1 \in Nat \ {0} /\ t.n + 1 \notin 1 .. t.n /\ \A w \in 1 .. t.n : w \in Nat /\ w # t.n + 1
  BY <1>1
<1>3. t.length[t.n + 1] = 0 /\ t.names[t.n + 1] = 0
  BY <1>1, <1>2 DEF Good
<1> QED
  BY <1>1, <1>2, <1>3 DEF Pushed

\* A new value is no member yet, and has none.
LEMMA FamilyPushed ==
    ASSUME NEW t, Good(t), NEW ty \in Kind, NEW w \in Nat \ {0}, NEW n, Family(t, w, n),
           NEW x, x.kids = n.kids, x.keys = n.keys, x.type = n.type
    PROVE  Family(Pushed(t, ty), w, x)
<1> DEFINE s == Pushed(t, ty)
           m == t.n + 1
<1>1. /\ s.n = m /\ s.open = t.open \cup {m} /\ s.named = t.named /\ s.length = t.length
      /\ \A c \in 1 .. t.n : s.parent[c] = t.parent[c]
      /\ t.length[m] = 0 /\ m \notin t.named
  BY PushedFacts
<1>2. t.n \in Nat
  BY GoodFacts
<1>3. \A c \in 1 .. t.n : c \in 1 .. m /\ c # m
  BY <1>2
<1>4. \A c \in 1 .. m : c \notin t.open \cup {m} => c \in 1 .. t.n /\ c \notin t.open
  BY <1>2
<1>5. w <= m <=> (w <= t.n \/ w = m)
  BY <1>2
<1>6. w = m => ~(w <= t.n)
  BY <1>2
<1> HIDE DEF s, m
<1>7. \A i \in 1 .. Len(x.kids) : /\ x.kids[i] \in 1 .. s.n /\ x.kids[i] \notin s.open
                                  /\ s.parent[x.kids[i]] = w
  BY <1>1, <1>3 DEF Family
<1>8. \A c \in 1 .. s.n : c \notin s.open /\ s.parent[c] = w =>
          \E i \in 1 .. Len(x.kids) : x.kids[i] = c
  <2> SUFFICES ASSUME NEW c \in 1 .. s.n, c \notin s.open, s.parent[c] = w
               PROVE  \E i \in 1 .. Len(x.kids) : x.kids[i] = c
    OBVIOUS
  <2>1. c \in 1 .. t.n /\ c \notin t.open
    BY <1>1, <1>4
  <2>2. t.parent[c] = w
    BY <1>1, <2>1
  <2> QED
    BY <2>1, <2>2 DEF Family
<1>9. Len(x.kids) = IF w <= s.n /\ x.type \in Holders THEN s.length[w] ELSE 0
  BY <1>1, <1>5, <1>6 DEF Family
<1>10. Len(x.keys) = IF w <= s.n /\ x.type = "object"
                     THEN s.length[w] + IF w \in s.named THEN 1 ELSE 0 ELSE 0
  BY <1>1, <1>5, <1>6 DEF Family
<1>11. Family(s, w, x)
  BY <1>7, <1>8, <1>9, <1>10 DEF Family
<1> QED
  BY <1>11 DEF s

LEMMA RedrawnPushed ==
    ASSUME NEW t, Good(t), NEW ty \in Kind, NEW F, Good(F), Part(Pushed(t, ty), F),
           NEW tr, Redrawn(t, F, tr)
    PROVE  /\ Redrawn(Pushed(t, ty), F, NewSecond(tr))
           /\ tr.alloc = t.n + 1 /\ tr.node[t.n + 1].type = ty
<1> DEFINE s == Pushed(t, ty)
           m == t.n + 1
           n == tr.node[m]
           x == Emptied(n)
           out == NewSecond(tr)
           live == Values(1 .. F.n) \cup Data(MadeSet(t, F))
           next == IF m < F.n THEN m + 1 ELSE 0
<1>1. /\ s.n = m /\ s.top = m /\ s.length = t.length /\ s.names = t.names
      /\ m \in Nat \ {0} /\ t.length[m] = 0 /\ t.names[m] = 0 /\ s.type[m] = ty
  BY PushedFacts
<1>2. t.n \in Nat /\ F.n \in Nat
  BY GoodFacts
<1>3. m <= F.n /\ F.type[m] = ty /\ m \in 1 .. F.n /\ t.n < F.n
  <2>1. m <= F.n /\ m \in 1 .. m
    BY <1>1, <1>2 DEF Part
  <2>2. F.type[m] = ty
    BY <1>1, <2>1 DEF Part
  <2> QED
    BY <1>1, <1>2, <2>1, <2>2
<1>4. /\ Framed(tr, t.top, RootOf(t), m, live) /\ Len(tr.node) = F.n
      /\ n \in NodeType /\ n.type = ty /\ Halfway(t, F, m, n) /\ Family(t, m, n)
  <2>1. n \in NodeType /\ n.type = F.type[m] /\ Halfway(t, F, m, n) /\ Family(t, m, n)
    BY <1>3, RedrawnAt
  <2> QED
    BY <1>3, <2>1, RedrawnFacts
<1>a. tr.alloc = m
  BY <1>4, FramedFacts
<1>5. ~Made(t, F, m)
  BY <1>2 DEF Made
<1>6. /\ n.length = F.length[m] /\ n.names = F.names[m] /\ n.size = 0 /\ n.room = 0
      /\ n.type = F.type[m] /\ n.parent = F.parent[m] /\ n.next_alloc = Chained(F.n, m)
  BY <1>4, <1>5 DEF Halfway
<1>7. Chained(F.n, m) = next
  BY <1>1, <1>2, <1>3 DEF Chained
<1>8. (IF RootOf(t) = 0 THEN m ELSE RootOf(t)) = 1 /\ RootOf(s) = 1
  BY <1>1, <1>2 DEF RootOf
<1> HIDE DEF live, next
<1>9. Framed(Taken(tr), m, 1, next, live) /\ Taken(tr).node = tr.node
  <2>1. tr.node[m].next_alloc = next
    BY <1>6, <1>7
  <2> QED
    BY <1>4, <1>8, <2>1, TakenFramed
<1>10. /\ x \in NodeType /\ x.type = n.type /\ x.parent = n.parent
       /\ x.next_alloc = n.next_alloc /\ x.size = n.length /\ x.room = n.names
       /\ x.length = 0 /\ x.names = 0 /\ x.keys = n.keys /\ x.kids = n.kids
  BY <1>4, NodeEmptied
<1>o. out = IF ty \notin Sized THEN Taken(tr) ELSE WithData(Taken(tr), m, x)
  BY <1>a, <1>4 DEF NewSecond, WithData, Block, Emptied
<1> HIDE DEF out, x, n
<1>11. Made(s, F, m) <=> ty \in Sized
  BY <1>1, <1>3 DEF Made
<1>12. \A w \in 1 .. F.n : w # m => (Made(s, F, w) <=> Made(t, F, w))
  <2>1. \A w \in 1 .. F.n : w # m => (w <= m <=> w <= t.n)
    BY <1>1, <1>2
  <2> QED
    BY <1>1, <2>1 DEF Made
<1>13. /\ Len(out.node) = F.n
       /\ \A w \in 1 .. F.n : w # m => out.node[w] = tr.node[w]
       /\ out.node[m] = IF ty \in Sized THEN x ELSE n
       /\ Framed(out, m, 1, next, live \cup IF ty \in Sized THEN {<<"data", m>>} ELSE {})
  <2>1. CASE ty \in Sized
    <3>0. PICK y : y = Taken(tr)
      OBVIOUS
    <3>1. m \in 1 .. Len(y.node) /\ Len(y.node) = F.n /\ y.node = tr.node
      BY <1>3, <1>4, <1>9, <3>0
    <3>2. out = WithData(y, m, x)
      BY <1>o, <2>1, <3>0
    <3>8. PICK one, a : one = 1 /\ a = m
      OBVIOUS
    <3>4. Framed(y, a, one, next, live)
      BY <1>9, <3>0, <3>8
    <3>6. x \in NodeType /\ m \in 1 .. Len(y.node)
      BY <1>10, <3>1
    <3> HIDE DEF m
    <3>7. PICK more : more = live \cup Block(m)
      OBVIOUS
    <3>3. /\ Framed(out, a, one, next, more)
          /\ Len(out.node) = Len(y.node)
          /\ \A w \in 1 .. Len(y.node) : out.node[w] = IF w = m THEN x ELSE y.node[w]
      <4>1. Provided(y, a, one, next, live, m, x, out, more)
        BY <3>2, <3>4, <3>6, <3>7 DEF Provided
      <4> QED
        BY <4>1, DataFramed
    <3>5. m \in 1 .. F.n
      BY <3>1
    <3> QED
      BY <2>1, <3>1, <3>3, <3>5, <3>7, <3>8 DEF Block
  <2>2. CASE ty \notin Sized
    <3>1. out = Taken(tr) /\ live \cup {} = live
      BY <1>o, <2>2
    <3> QED
      BY <1>4, <1>9, <2>2, <3>1 DEF n
  <2> QED
    BY <2>1, <2>2
<1>14. MadeSet(s, F) = MadeSet(t, F) \cup IF ty \in Sized THEN {m} ELSE {}
  <2>1. 1 .. m = 1 .. t.n \cup {m}
    BY <1>1, <1>2
  <2> QED
    BY <1>1, <1>3, <2>1 DEF MadeSet
<1>15. live \cup (IF ty \in Sized THEN {<<"data", m>>} ELSE {}) = Values(1 .. F.n) \cup Data(MadeSet(s, F))
  BY <1>14 DEF live, Data
<1>16. ASSUME NEW w \in 1 .. F.n PROVE Halfway(s, F, w, out.node[w])
  <2>1. CASE w = m /\ ty \in Sized
    <3>1. out.node[w] = x
      BY <1>13, <2>1
    <3> QED
      BY <1>1, <1>6, <1>10, <1>11, <2>1, <3>1 DEF Halfway
  <2>2. CASE w = m /\ ty \notin Sized
    <3>1. out.node[w] = n
      BY <1>13, <2>2
    <3> QED
      BY <1>4, <1>5, <1>11, <2>2, <3>1 DEF Halfway
  <2>3. CASE w # m
    <3>1. out.node[w] = tr.node[w] /\ Halfway(t, F, w, tr.node[w])
      BY <1>13, <2>3, RedrawnAt
    <3> QED
      BY <1>1, <1>12, <2>3, <3>1 DEF Halfway
  <2> QED
    BY <2>1, <2>2, <2>3
<1>17. ASSUME NEW w \in 1 .. F.n PROVE Family(s, w, out.node[w])
  <2>0. w \in Nat \ {0}
    BY <1>2
  <2>1. Family(t, w, tr.node[w])
    BY RedrawnAt
  <2>2. /\ out.node[w].kids = tr.node[w].kids /\ out.node[w].keys = tr.node[w].keys
        /\ out.node[w].type = tr.node[w].type
    <3>1. CASE w = m
      <4>1. tr.node[w] = n
        BY <3>1 DEF n
      <4> QED
        BY <1>10, <1>13, <3>1, <4>1
    <3>2. CASE w # m
      BY <1>13, <3>2
    <3> QED
      BY <3>1, <3>2
  <2> QED
    BY <2>0, <2>1, <2>2, FamilyPushed
<1>18. Framed(out, s.top, RootOf(s), IF s.n < F.n THEN s.n + 1 ELSE 0,
              Values(1 .. F.n) \cup Data(MadeSet(s, F)))
  BY <1>1, <1>8, <1>13, <1>15 DEF next
<1> HIDE DEF s, m
<1>19. Redrawn(s, F, out)
  BY <1>13, <1>16, <1>17, <1>18 DEF Redrawn, s
<1> QED
  BY <1>19, <1>a, <1>4 DEF s, out, n, m

-----------------------------------------------------------------------------
(***************************************************************************)
(* Either pass.                                                            *)
(***************************************************************************)
Rep(ps, t, F, tr) == IF ps = 1 THEN Drawn(t, tr) ELSE Good(F) /\ Redrawn(t, F, tr)

\* The clean-up of the first pass: what is left of the chain is in use.
Doomed(tr) ==
    /\ Framed(tr, tr.top, tr.root, tr.alloc, tr.live)
    /\ {tr.top, tr.root, tr.alloc} \subseteq 0 .. Len(tr.node)
    /\ tr.live = IF tr.alloc = 0 THEN {} ELSE Values(tr.alloc .. Len(tr.node))
    /\ \A v \in 1 .. Len(tr.node) : tr.node[v].next_alloc = Chained(Len(tr.node), v)

\* n is the value v of t.
Like(t, v, n) == /\ n \in NodeType /\ n.parent = t.parent[v] /\ n.type = t.type[v]
                 /\ t.type[v] \in Sized => n.length = t.length[v] /\ n.names = t.names[v]

LEMMA RepAt ==
    ASSUME NEW ps, NEW t, Good(t), NEW F, NEW tr, Rep(ps, t, F, tr), NEW v \in 1 .. t.n
    PROVE  Like(t, v, tr.node[v]) /\ v \in 1 .. Len(tr.node)
<1>1. CASE ps = 1
  <2>1. Drawn(t, tr)
    BY <1>1 DEF Rep
  <2>2. tr.top = t.top /\ tr.node[v] \in NodeType /\ v \in 1 .. Len(tr.node)
    BY <2>1, DrawnFacts
  <2>3. tr.node[v] = [type |-> t.type[v], parent |-> t.parent[v], length |-> t.length[v],
                      names |-> t.names[v], size |-> 0, room |-> 0,
                      next_alloc |-> Chained(t.n, v), keys |-> <<>>, kids |-> <<>>]
    BY <2>1, DrawnAt
  <2>4. PICK n : n = tr.node[v]
    OBVIOUS
  <2>5. n \in NodeType /\ n.parent = t.parent[v] /\ n.type = t.type[v]
        /\ n.length = t.length[v] /\ n.names = t.names[v]
    BY <2>2, <2>3, <2>4
  <2> QED
    BY <2>2, <2>4, <2>5 DEF Like
<1>2. CASE ps # 1
  <2>1. Redrawn(t, F, tr) /\ Good(F)
    BY <1>2 DEF Rep
  <2>2. tr.top = t.top /\ Part(t, F) /\ Len(tr.node) = F.n
    BY <2>1, RedrawnFacts
  <2>3. v \in 1 .. F.n /\ v <= t.n
    <3>1. t.n \in Nat /\ F.n \in Nat
      BY <2>1, GoodFacts
    <3> QED
      BY <2>2, <3>1 DEF Part
  <2>4. Halfway(t, F, v, tr.node[v])
    BY <2>1, <2>3, RedrawnAt
  <2>5. F.parent[v] = t.parent[v] /\ F.type[v] = t.type[v]
    BY <2>2 DEF Part
  <2> QED
    BY <2>2, <2>3, <2>4, <2>5 DEF Halfway, Made, Like
<1> QED
  BY <1>1, <1>2

LEMMA RepTop ==
    ASSUME NEW ps, NEW t, NEW F, NEW tr, Rep(ps, t, F, tr)
    PROVE  tr.top = t.top
BY DrawnFacts, RedrawnFacts DEF Rep

\* The value new_value makes or takes.
Newer(ps, tr, ty) == IF ps = 1 THEN NewFirst(tr, ty) ELSE NewSecond(tr)

LEMMA RepPushed ==
    ASSUME NEW ps, NEW t, Good(t), NEW ty \in Kind, NEW F, ps # 1 => Part(Pushed(t, ty), F),
           NEW tr, Rep(ps, t, F, tr)
    PROVE  Rep(ps, Pushed(t, ty), F, Newer(ps, tr, ty))
<1>1. CASE ps = 1
  BY <1>1, DrawnPushed DEF Rep, Newer
<1>2. CASE ps # 1
  BY <1>2, RedrawnPushed DEF Rep, Newer
<1> QED
  BY <1>1, <1>2

LEMMA RepMeasured ==
    ASSUME NEW ps, NEW t, Good(t), t.n # 0, t.type[t.top] = "string", NEW F,
           NEW tr, Rep(ps, t, F, tr), NEW k \in Nat,
           NEW out, out = [tr EXCEPT !.node[tr.top].length = k]
    PROVE  Rep(ps, Measured(t, k), F, out)
<1>1. CASE ps = 1
  BY <1>1, DrawnMeasured DEF Rep
<1>2. CASE ps # 1
  BY <1>2, RedrawnMeasured DEF Rep
<1> QED
  BY <1>1, <1>2

\* What StringEnd stores.
Renamed(ps, n, k) ==
    [n EXCEPT !.names = @ + NameSize(k), !.keys = IF ps = 1 THEN @ ELSE Append(@, k)]

LEMMA RepNamed ==
    ASSUME NEW ps, NEW t, Good(t), t.n # 0, t.type[t.top] = "object", t.top \notin t.named, NEW F,
           NEW tr, Rep(ps, t, F, tr), NEW k \in Nat,
           NEW out, out = [tr EXCEPT !.node[tr.top] = Renamed(ps, tr.node[tr.top], k)]
    PROVE  Rep(ps, NameRead(t, k), F, out)
<1>0. t.top \in 1 .. t.n
  BY GoodFacts
<1>n. tr.node[tr.top] \in NodeType
  <2>1. Like(t, t.top, tr.node[t.top])
    BY <1>0, RepAt
  <2>2. tr.top = t.top
    BY RepTop
  <2> QED
    BY <2>1, <2>2 DEF Like
<1>1. CASE ps = 1
  <2>1. out = [tr EXCEPT !.node[tr.top] = [tr.node[tr.top] EXCEPT !.names = @ + NameSize(k)]]
    <3>1. \A n \in NodeType : \A m : [n EXCEPT !.names = m, !.keys = n.keys] = [n EXCEPT !.names = m]
      BY DEF NodeType
    <3>2. [tr.node[tr.top] EXCEPT !.names = @ + NameSize(k), !.keys = IF ps = 1 THEN @ ELSE Append(@, k)]
          = [tr.node[tr.top] EXCEPT !.names = @ + NameSize(k)]
      BY <1>1, <1>n, <3>1
    <3> QED
      BY <3>2 DEF Renamed
  <2> QED
    BY <1>1, <2>1, DrawnNamed DEF Rep
<1>2. CASE ps # 1
  <2>1. out = [tr EXCEPT !.node[tr.top] = WithName(tr.node[tr.top], k)]
    BY <1>2 DEF WithName, Renamed
  <2> QED
    BY <1>2, <2>1, RedrawnNamed DEF Rep
<1> QED
  BY <1>1, <1>2

\* What Finish stores.
Stored(ps, n, c) == [n EXCEPT !.length = @ + 1, !.kids = IF ps = 1 THEN @ ELSE MembersWith(n, c)]

LEMMA RepPopped ==
    ASSUME NEW ps, NEW t, Good(t), t.n # 0, Up(t) # 0, NEW F,
           NEW tr, Rep(ps, t, F, tr),
           NEW out, out = SetAt(tr, Up(t), Stored(ps, tr.node[Up(t)], t.top), Up(t))
    PROVE  Rep(ps, Popped(t), F, out)
<1>0. Up(t) \in 1 .. t.n
  BY PoppedFacts
<1>n. tr.node[Up(t)] \in NodeType
  BY <1>0, RepAt DEF Like
<1>1. CASE ps = 1
  <2>1. Stored(ps, tr.node[Up(t)], t.top) = [tr.node[Up(t)] EXCEPT !.length = @ + 1]
    <3>1. \A n \in NodeType : \A m : [n EXCEPT !.length = m, !.kids = n.kids] = [n EXCEPT !.length = m]
      BY DEF NodeType
    <3> QED
      BY <1>1, <1>n, <3>1 DEF Stored
  <2> QED
    BY <1>1, <2>1, DrawnPopped DEF Rep
<1>2. CASE ps # 1
  <2>1. Stored(ps, tr.node[Up(t)], t.top) = WithMember(tr.node[Up(t)], t.top)
    BY <1>2 DEF Stored, WithMember, MembersWith
  <2> QED
    BY <1>2, <2>1, RedrawnPopped DEF Rep
<1> QED
  BY <1>1, <1>2

LEMMA DrawnDoomed ==
    ASSUME NEW t, Good(t), NEW tr, Drawn(t, tr), NEW out, out = [tr EXCEPT !.alloc = tr.root]
    PROVE  Doomed(out)
<1>1. t.n \in Nat /\ t.top \in 0 .. t.n
  BY GoodFacts
<1>2. /\ Framed(tr, t.top, RootOf(t), t.n, Values(1 .. t.n)) /\ Len(tr.node) = t.n
      /\ tr.node \in Seq(NodeType)
  BY DrawnFacts
<1>3. PICK root \in 0 .. t.n : root = RootOf(t)
  BY <1>1 DEF RootOf
<1>4. PICK nd \in Seq(NodeType) :
          tr = [node |-> nd, top |-> t.top, root |-> root, alloc |-> t.n, live |-> Values(1 .. t.n)]
  BY <1>2, <1>3 DEF Framed
<1>5. out = [node |-> nd, top |-> t.top, root |-> root, alloc |-> root, live |-> Values(1 .. t.n)]
  BY <1>4
<1>6. nd = tr.node /\ out.node = nd
  BY <1>4, <1>5
<1>7. Values(1 .. t.n) = IF root = 0 THEN {} ELSE Values(root .. t.n)
  <2>1. CASE t.n = 0
    BY <1>3, <2>1 DEF RootOf, Values
  <2>2. CASE t.n # 0
    BY <1>3, <2>2 DEF RootOf
  <2> QED
    BY <2>1, <2>2
<1>8. /\ out.top = t.top /\ out.root = root /\ out.alloc = root /\ out.live = Values(1 .. t.n)
      /\ Framed(out, t.top, root, root, Values(1 .. t.n))
  <2>1. Framed(out, t.top, root, root, Values(1 .. t.n))
    BY <1>5 DEF Framed
  <2>2. out.top = t.top /\ out.root = root /\ out.alloc = root /\ out.live = Values(1 .. t.n)
    BY <1>5
  <2> QED
    BY <2>1, <2>2
<1>9. ASSUME NEW v \in 1 .. t.n PROVE out.node[v].next_alloc = Chained(t.n, v)
  <2>1. tr.node[v] = [type |-> t.type[v], parent |-> t.parent[v], length |-> t.length[v],
                      names |-> t.names[v], size |-> 0, room |-> 0,
                      next_alloc |-> Chained(t.n, v), keys |-> <<>>, kids |-> <<>>]
    BY DrawnAt
  <2> QED
    BY <1>6, <2>1
<1>10. Len(out.node) = t.n
  BY <1>2, <1>6
<1> QED
  BY <1>1, <1>7, <1>8, <1>9, <1>10 DEF Doomed

LEMMA SetDoomed ==
    ASSUME NEW old, Doomed(old), NEW u \in 1 .. Len(old.node), NEW x \in NodeType,
           x.next_alloc = old.node[u].next_alloc, NEW out, out = SetStill(old, u, x)
    PROVE  Doomed(out)
<1>1. Framed(old, old.top, old.root, old.alloc, old.live)
  BY DEF Doomed
<1>2. out = SetAt(old, u, x, old.top)
  BY <1>1, SetFramedStill
<1>3. /\ Framed(out, old.top, old.root, old.alloc, old.live) /\ Len(out.node) = Len(old.node)
      /\ \A w \in 1 .. Len(old.node) : out.node[w] = IF w = u THEN x ELSE old.node[w]
  BY <1>1, <1>2, SetFramed
<1>4. /\ out.top = old.top /\ out.root = old.root /\ out.alloc = old.alloc /\ out.live = old.live
  BY <1>3, FramedFacts
<1>5. \A v \in 1 .. Len(old.node) : out.node[v].next_alloc = Chained(Len(old.node), v)
  <2> SUFFICES ASSUME NEW v \in 1 .. Len(old.node)
               PROVE  out.node[v].next_alloc = Chained(Len(old.node), v)
    OBVIOUS
  <2>1. old.node[v].next_alloc = Chained(Len(old.node), v)
    BY DEF Doomed
  <2> QED
    BY <1>3, <2>1
<1> QED
  BY <1>3, <1>4, <1>5 DEF Doomed

\* The clean-up begins in the middle of Finish.
LEMMA StoredDoomed ==
    ASSUME NEW t, Good(t), NEW tr, Drawn(t, tr), NEW u \in 1 .. t.n,
           NEW x \in NodeType, x.next_alloc = tr.node[u].next_alloc,
           NEW out, out = [SetStill(tr, u, x) EXCEPT !.alloc = tr.root]
    PROVE  Doomed(out)
<1> DEFINE old == [tr EXCEPT !.alloc = tr.root]
<1>1. Doomed(old)
  BY DrawnDoomed
<1>2. /\ Framed(tr, t.top, RootOf(t), t.n, Values(1 .. t.n)) /\ Len(tr.node) = t.n
  BY DrawnFacts
<1>3. old.node = tr.node
  BY <1>2 DEF Framed
<1>5. out = SetStill(old, u, x)
  BY <1>2 DEF Framed, SetStill
<1> HIDE DEF old
<1>6. u \in 1 .. Len(old.node) /\ x.next_alloc = old.node[u].next_alloc
  BY <1>2, <1>3
<1> QED
  BY <1>1, <1>5, <1>6, SetDoomed

-----------------------------------------------------------------------------
(***************************************************************************)
(* The steps of the loop.                                                  *)
(***************************************************************************)
FlagSet == Core \cup {"num_e", "num_e_got_sign", "num_zero"}

\* The loop is at p.
On(p, F) ==
    /\ pos = p.pos /\ flags \in SUBSET FlagSet /\ flags \cap Core = p.flags
    /\ string_length \in Nat /\ ("string" \in p.flags => string_length = p.sl)
    /\ Rep(pass, p.t, F, tree)

\* It goes on, or to the clean-up.
GoesOn == UNCHANGED <<pass, phase, cause>>

Broken == /\ phase' = "unwind" /\ cause' \in {"syntax", "overflow"}
          /\ pass = 1 => Doomed(tree')
          /\ UNCHANGED <<pos, pass, flags, string_length, num_digits>>

LEMMA FailBroken ==
    ASSUME NEW t, Good(t), NEW F, Rep(pass, t, F, tree), NEW why \in {"syntax", "overflow"},
           FailWith(tree, why)
    PROVE  Broken
<1>1. CASE pass = 1
  BY <1>1, DrawnDoomed DEF FailWith, Broken, Rep
<1>2. CASE pass # 1
  BY <1>2 DEF FailWith, Broken
<1> QED
  BY <1>1, <1>2

LEMMA RepUp ==
    ASSUME NEW ps, NEW t, Good(t), t.n # 0, NEW F, NEW tr, Rep(ps, t, F, tr)
    PROVE  tr.top = t.top /\ tr.node[t.top].parent = Up(t) /\ tr.node[t.top].type = t.type[t.top]
<1>1. PICK v : v = t.top
  OBVIOUS
<1>2. v \in 1 .. t.n
  BY <1>1, GoodFacts
<1>3. Like(t, v, tr.node[v])
  BY <1>2, RepAt
<1>4. tr.top = t.top
  BY RepTop
<1> QED
  BY <1>1, <1>3, <1>4 DEF Up, Like

LEMMA RepParent ==
    ASSUME NEW ps, NEW t, Good(t), t.n # 0, Up(t) # 0, NEW F, NEW tr, Rep(ps, t, F, tr)
    PROVE  /\ tr.node[Up(t)] \in NodeType
           /\ tr.node[Up(t)].type = t.type[Up(t)] /\ tr.node[Up(t)].length = t.length[Up(t)]
<1>0. PICK u : u = Up(t)
  OBVIOUS
<1>1. u \in 1 .. t.n /\ t.type[u] \in Sized
  BY <1>0, PoppedFacts DEF Holders, Sized
<1>2. Like(t, u, tr.node[u])
  BY <1>1, RepAt
<1> QED
  BY <1>0, <1>1, <1>2 DEF Like

LEMMA Finished ==
    ASSUME NEW t, Good(t), t.n # 0, NEW F, NEW tr, Rep(pass, t, F, tr),
           NEW e, NEW f \in SUBSET FlagSet, Finish(tr, e, f)
    PROVE  \/ /\ PopFits(t) /\ pos' = e /\ flags' \in SUBSET FlagSet
              /\ flags' \cap Core = PopFlags(t, f \cap Core)
              /\ Rep(pass, Popped(t), F, tree')
              /\ GoesOn /\ UNCHANGED <<string_length, num_digits>>
           \/ ~PopFits(t) /\ Broken
<1> DEFINE parent == tr.node[tr.top].parent
           n      == tr.node[parent]
           after  == (f \ {"next"}) \cup {"need_comma"}
           x      == Stored(pass, n, tr.top)
<1>1. t.top \in 1 .. t.n
  BY GoodFacts

<1>d. /\ parent = tr.node[tr.top].parent /\ n = tr.node[parent] /\ x = Stored(pass, n, tr.top)
      /\ after = (f \ {"next"}) \cup {"need_comma"}
  OBVIOUS
<1> HIDE DEF parent, n, x, after
<1>2. tr.top = t.top /\ parent = Up(t)
  <2>1. tr.top = t.top /\ tr.node[t.top].parent = Up(t)
    BY RepUp
  <2> QED
    BY <2>1, <1>d
<1>3. after = f \cup {"need_comma"}
  BY <1>d DEF FlagSet, Core
<1>4. after \in SUBSET FlagSet /\ after \cap Core = (f \cap Core) \cup {"need_comma"}
  BY <1>3 DEF FlagSet, Core
<1>5. CASE Up(t) = 0
  <2>1. Go(e, after \cup {"done"}) /\ tree' = tr /\ UNCHANGED <<string_length, num_digits>>
    BY <1>2, <1>5 DEF Finish, NULL, after, n, parent
  <2>2. Popped(t) = t /\ PopFits(t)
    BY <1>5 DEF Popped, PopFits
  <2>3. PopFlags(t, f \cap Core) = (f \cap Core) \cup {"need_comma"} \cup {"done"}
    BY <1>5 DEF PopFlags

  <2>4. /\ (after \cup {"done"}) \in SUBSET FlagSet
        /\ (after \cup {"done"}) \cap Core = (f \cap Core) \cup {"need_comma"} \cup {"done"}
    BY <1>4 DEF FlagSet, Core
  <2> QED
    BY <2>1, <2>2, <2>3, <2>4 DEF Go, GoesOn
<1>6. CASE Up(t) # 0
  <2>1. /\ Up(t) \in 1 .. t.n /\ t.type[Up(t)] \in Holders /\ t.length[Up(t)] \in Nat /\ Up(t) \in Nat
    BY <1>6, PoppedFacts
  <2>2. n \in NodeType /\ n.type = t.type[Up(t)] /\ n.length = t.length[Up(t)]
    <3>1. /\ tr.node[Up(t)] \in NodeType
          /\ tr.node[Up(t)].type = t.type[Up(t)] /\ tr.node[Up(t)].length = t.length[Up(t)]
      BY <1>6, RepParent
    <3> QED
      BY <1>2, <1>d, <3>1
  <2>3. /\ IF n.length + 1 > uint_max
           THEN FailWith([tr EXCEPT !.node[parent] = x], "overflow")
           ELSE /\ Go(e, after \cup IF n.type = "array" THEN {"seek_value"} ELSE {})
                /\ tree' = [tr EXCEPT !.node[parent] = x, !.top = parent]
        /\ UNCHANGED <<string_length, num_digits>>
    BY <1>2, <1>6 DEF Finish, NULL, Stored, parent, n, after, x
  <2>4. PopFits(t) <=> ~(n.length + 1 > uint_max)
    <3>1. uint_max \in Nat
      BY JsonAssumption
    <3> QED
      BY <1>6, <2>1, <2>2, <3>1 DEF PopFits
  <2>5. CASE PopFits(t)
    <3>1. /\ Go(e, after \cup IF n.type = "array" THEN {"seek_value"} ELSE {})
          /\ tree' = SetAt(tr, Up(t), Stored(pass, tr.node[Up(t)], t.top), Up(t))
      BY <1>2, <1>d, <2>3, <2>4, <2>5 DEF SetAt
    <3>2. Rep(pass, Popped(t), F, tree')
      BY <1>6, <3>1, RepPopped
    <3>3. PopFlags(t, f \cap Core) = (f \cap Core) \cup {"need_comma"} \cup
                                        IF n.type = "array" THEN {"seek_value"} ELSE {}
      BY <1>6, <2>2 DEF PopFlags

    <3> DEFINE more == IF n.type = "array" THEN {"seek_value"} ELSE {}
    <3>4. more \subseteq Core
      BY DEF Core
    <3> HIDE DEF more
    <3>5. /\ (after \cup more) \in SUBSET FlagSet
          /\ (after \cup more) \cap Core = (f \cap Core) \cup {"need_comma"} \cup more
      BY <1>4, <3>4 DEF FlagSet
    <3> QED
      BY <2>3, <2>5, <3>1, <3>2, <3>3, <3>5 DEF Go, GoesOn, more
  <2>6. CASE ~PopFits(t)
    <3>1. FailWith(SetStill(tr, Up(t), x), "overflow")
      BY <1>2, <2>3, <2>4, <2>6 DEF SetStill
    <3>2. ASSUME pass = 1 PROVE Doomed(tree')
      <4>1. Drawn(t, tr)
        BY <3>2 DEF Rep
      <4>2. x \in NodeType /\ x.next_alloc = n.next_alloc
        <5>0. \A a \in NodeType, m \in Nat :
                 /\ [a EXCEPT !.length = m, !.kids = a.kids] \in NodeType
                 /\ [a EXCEPT !.length = m, !.kids = a.kids].next_alloc = a.next_alloc
          <6> SUFFICES ASSUME NEW a \in NodeType, NEW m \in Nat
                       PROVE  /\ [a EXCEPT !.length = m, !.kids = a.kids] \in NodeType
                              /\ [a EXCEPT !.length = m, !.kids = a.kids].next_alloc = a.next_alloc
            OBVIOUS
          <6>1. [a EXCEPT !.length = m, !.kids = a.kids] \in NodeType
            BY DEF NodeType
          <6>2. [a EXCEPT !.length = m, !.kids = a.kids].next_alloc = a.next_alloc
            BY DEF NodeType
          <6> QED
            BY <6>1, <6>2
        <5>1. \A m \in Nat : [n EXCEPT !.length = m, !.kids = n.kids] \in NodeType
                             /\ [n EXCEPT !.length = m, !.kids = n.kids].next_alloc = n.next_alloc
          <6>1. PICK a : a = n
            OBVIOUS
          <6>2. a \in NodeType
            BY <2>2, <6>1
          <6>3. \A m \in Nat : [a EXCEPT !.length = m, !.kids = a.kids] \in NodeType
                             /\ [a EXCEPT !.length = m, !.kids = a.kids].next_alloc = a.next_alloc
            BY <5>0, <6>2
          <6> QED
            BY <6>1, <6>3
        <5>2. n.length + 1 \in Nat
          BY <2>1, <2>2
        <5> QED
          BY <1>d, <3>2, <5>1, <5>2 DEF Stored
      <4>3. /\ Framed(tr, t.top, RootOf(t), t.n, Values(1 .. t.n))
        BY <4>1, DrawnFacts
      <4>4. SetStill(tr, Up(t), x).root = tr.root
        BY <4>3 DEF Framed, SetStill
      <4>5. tree' = [SetStill(tr, Up(t), x) EXCEPT !.alloc = tr.root]
        BY <3>1, <3>2, <4>4 DEF FailWith
      <4> QED
        BY <1>2, <1>d, <2>1, <4>1, <4>2, <4>5, StoredDoomed
    <3> QED
      BY <2>6, <3>1, <3>2 DEF FailWith, Broken
  <2> QED
    BY <2>5, <2>6
<1> QED
  BY <1>5, <1>6

-----------------------------------------------------------------------------
Here(p, F) == GoodSnap(p) /\ On(p, F) /\ pass \in {1, 2} /\ phase = "parse"

NoMore(p, b) == \A q : ~Moves(p, b, q)

\* What a step does at p for the symbol b.
Outcome(p, b, F) ==
    \/ \E q : Moves(p, b, q) /\ On(q, F)' /\ GoesOn
    \/ NoMore(p, b) /\ Broken

LEMMA Lands ==
    ASSUME NEW p, NEW b, NEW F, NEW q, Moves(p, b, q), NEW g \in SUBSET FlagSet, g \cap Core = q.flags,
           Go(q.pos, g), string_length' \in Nat, "string" \in q.flags => string_length' = q.sl,
           Rep(pass, q.t, F, tree')
    PROVE  Outcome(p, b, F)
<1>1. On(q, F)' /\ GoesOn
  BY DEF On, Go, GoesOn
<1> QED
  BY <1>1 DEF Outcome

LEMMA Shifts ==
    ASSUME NEW p, NEW b, NEW F, Here(p, F), NEW g \in SUBSET FlagSet, NEW f, f = g \cap Core,
           Moves(p, b, Shift(p, f)), "string" \in f => "string" \in p.flags, Continue(g)
    PROVE  Outcome(p, b, F)
<1>1. PICK q : q = Shift(p, f)
  OBVIOUS
<1>2. /\ q.pos = pos + 1 /\ q.flags = f /\ q.sl = p.sl /\ q.t = p.t
  BY <1>1 DEF Shift, At, Here, On
<1>3. Go(q.pos, g) /\ string_length' = string_length /\ tree' = tree
  BY <1>2 DEF Continue
<1>4. string_length' \in Nat /\ ("string" \in q.flags => string_length' = q.sl)
  BY <1>2, <1>3 DEF Here, On
<1>5. Rep(pass, q.t, F, tree')
  BY <1>2, <1>3 DEF Here, On
<1>6. Moves(p, b, q) /\ g \cap Core = q.flags
  BY <1>1, <1>2
<1> QED
  BY <1>3, <1>4, <1>5, <1>6, Lands

LEMMA Counts ==
    ASSUME NEW p, NEW b, NEW F, Here(p, F), NEW g \in SUBSET FlagSet, NEW f, f = g \cap Core,
           NEW k \in Nat, Moves(p, b, WithSl(p, k, f)), string_length' = k,
           Go(pos + 1, g), tree' = tree
    PROVE  Outcome(p, b, F)
<1>1. PICK q : q = WithSl(p, k, f)
  OBVIOUS
<1>2. /\ q.pos = pos + 1 /\ q.flags = f /\ q.sl = k /\ q.t = p.t
  BY <1>1 DEF WithSl, Here, On
<1>3. Go(q.pos, g)
  BY <1>2
<1>4. string_length' \in Nat /\ ("string" \in q.flags => string_length' = q.sl)
  BY <1>2
<1>5. Rep(pass, q.t, F, tree')
  BY <1>2 DEF Here, On
<1>6. Moves(p, b, q) /\ g \cap Core = q.flags
  BY <1>1, <1>2
<1> QED
  BY <1>3, <1>4, <1>5, <1>6, Lands

LEMMA PopLands ==
    ASSUME NEW p, NEW b, NEW F, Here(p, F), NEW g \in SUBSET FlagSet, NEW f, f = g \cap Core,
           "string" \notin f, NEW t, Good(t), t.n # 0, NEW tr, Rep(pass, t, F, tr),
           NEW e, Finish(tr, e, g),
           PopFits(t) => Moves(p, b, Popping(p, t, e, f)), ~PopFits(t) => NoMore(p, b)
    PROVE  Outcome(p, b, F)
<1>1. PICK q : q = Popping(p, t, e, f)
  OBVIOUS
<1>2. /\ q.pos = e /\ q.flags = PopFlags(t, f) /\ q.t = Popped(t)
  BY <1>1 DEF Popping, At
<1>3. "string" \notin q.flags
  BY <1>2 DEF PopFlags
<1>4. \/ /\ PopFits(t) /\ pos' = e /\ flags' \in SUBSET FlagSet
         /\ flags' \cap Core = PopFlags(t, g \cap Core)
         /\ Rep(pass, Popped(t), F, tree')
         /\ GoesOn /\ UNCHANGED <<string_length, num_digits>>
      \/ ~PopFits(t) /\ Broken
  BY Finished
<1>5. CASE ~PopFits(t)
  BY <1>4, <1>5 DEF Outcome
<1>6. CASE PopFits(t)
  <2>1. /\ pos' = e /\ flags' \in SUBSET FlagSet /\ flags' \cap Core = PopFlags(t, f)
        /\ Rep(pass, Popped(t), F, tree') /\ GoesOn /\ UNCHANGED <<string_length, num_digits>>
    BY <1>4, <1>6
  <2>2. On(q, F)'
    BY <1>2, <1>3, <2>1 DEF On, GoesOn, Here
  <2> QED
    BY <1>1, <1>6, <2>1, <2>2 DEF Outcome
<1> QED
  BY <1>5, <1>6

LEMMA FailOutcome ==
    ASSUME NEW p, NEW b, NEW F, Here(p, F), NoMore(p, b), NEW why \in {"syntax", "overflow"},
           FailWith(tree, why)
    PROVE  Outcome(p, b, F)
<1>1. Good(p.t) /\ Rep(pass, p.t, F, tree)
  BY DEF Here, GoodSnap, On
<1>2. Broken
  BY <1>1, FailBroken
<1> QED
  BY <1>2 DEF Outcome

\* The flags that the loop looks at are those of p.
LEMMA HereFacts ==
    ASSUME NEW p, NEW F, Here(p, F)
    PROVE  /\ pos = p.pos /\ pos \in Nat \ {0} /\ flags \in SUBSET FlagSet /\ flags \cap Core = p.flags
           /\ \A c \in Core : c \in flags <=> c \in p.flags
           /\ string_length \in Nat /\ ("string" \in p.flags => string_length = p.sl)
           /\ Good(p.t) /\ Rep(pass, p.t, F, tree) /\ Mode(p.flags, p.t) /\ p.flags \in SUBSET Core
           /\ p.sl \in Nat
BY DEF Here, On, GoodSnap, SnapType

\* Steps that change the flags.
LEMMA FlagsLess ==
    ASSUME NEW f \in SUBSET FlagSet, NEW A, A \in SUBSET Core
    PROVE  (f \ A) \in SUBSET FlagSet /\ (f \ A) \cap Core = (f \cap Core) \ A
BY DEF FlagSet

LEMMA FlagsMore ==
    ASSUME NEW f \in SUBSET FlagSet, NEW A, A \in SUBSET Core
    PROVE  (f \cup A) \in SUBSET FlagSet /\ (f \cup A) \cap Core = (f \cap Core) \cup A
BY DEF FlagSet

LEMMA CharacterStep ==
    ASSUME NEW p, NEW b, NEW F, Here(p, F), Character(b)
    PROVE  Outcome(p, b, F)
<1> DEFINE f == p.flags
           t == p.t
<1>0. /\ pos = p.pos /\ pos \in Nat \ {0} /\ flags \in SUBSET FlagSet /\ flags \cap Core = f
      /\ \A c \in Core : c \in flags <=> c \in f
      /\ string_length \in Nat /\ ("string" \in f => string_length = p.sl)
      /\ Good(t) /\ Rep(pass, t, F, tree) /\ Mode(f, t) /\ p.sl \in Nat
  BY HereFacts
<1> HIDE DEF f, t
<1>1. "done" \notin f /\ "string" \in f /\ ("escaped" \in flags <=> "escaped" \in f)
  BY <1>0 DEF Character, Core
<1>2. string_length = p.sl
  BY <1>0, <1>1
<1>3. \A q : Moves(p, b, q) <=> TextMove(p, b, q)
  BY <1>1 DEF Moves, f
<1>4. CASE b = "eof"
  <2>1. FailWith(tree, "syntax")
    BY <1>4 DEF Character, Fail
  <2>2. NoMore(p, b)
    BY <1>3, <1>4 DEF TextMove, NoMore
  <2> QED
    BY <2>1, <2>2, FailOutcome
<1>5. CASE b # "eof" /\ string_length > uint_max
  <2>1. FailWith(tree, "overflow")
    BY <1>5 DEF Character
  <2>2. ~(p.sl <= uint_max)
    BY <1>0, <1>2, <1>5, JsonAssumption
  <2>3. NoMore(p, b)
    BY <1>3, <2>2 DEF TextMove, NoMore
  <2> QED
    BY <2>1, <2>3, FailOutcome
<1>6. CASE b # "eof" /\ ~(string_length > uint_max) /\ "escaped" \in flags
  <2>0. p.sl <= uint_max
    BY <1>0, <1>2, <1>6, JsonAssumption
  <2>1. CASE b = "badhex"
    <3>1. FailWith(tree, "syntax")
      BY <1>6, <2>1 DEF Character, Fail
    <3>2. NoMore(p, b)
      BY <1>1, <1>3, <1>6, <2>1 DEF TextMove, NoMore, f
    <3> QED
      BY <3>1, <3>2, FailOutcome
  <2>2. CASE b # "badhex"
    <3>1. Add(Bytes(b), flags \ {"escaped"})
      BY <1>6, <2>2 DEF Character
    <3>0. Bytes(b) \in Nat
      BY DEF Bytes
    <3>9. p.sl + Bytes(b) \in Nat
      BY <1>0, <3>0
    <3>6. PICK k \in Nat : k = p.sl + Bytes(b)
      BY <3>9
    <3>7. PICK g, h : g = flags \ {"escaped"} /\ h = f \ {"escaped"}
      OBVIOUS
    <3>2. k = p.sl + Bytes(b) /\ g = flags \ {"escaped"} /\ h = f \ {"escaped"}
      BY <3>6, <3>7
    <3>3. g \in SUBSET FlagSet /\ h = g \cap Core
      BY <1>0, <3>2 DEF FlagSet
    <3>4. Go(pos + 1, g) /\ string_length' = k /\ tree' = tree
      BY <1>2, <3>1, <3>2 DEF Add
    <3>5. Moves(p, b, WithSl(p, k, h))
      BY <1>1, <1>3, <1>6, <2>0, <2>2, <3>2 DEF TextMove, f
    <3> QED
      BY <3>3, <3>4, <3>5, Counts
  <2> QED
    BY <2>1, <2>2
<1>7. CASE b # "eof" /\ ~(string_length > uint_max) /\ "escaped" \notin flags
  <2>0. p.sl <= uint_max
    BY <1>0, <1>2, <1>7, JsonAssumption
  <2>1. CASE b = "back"
    <3>1. PICK g, h : g = flags \cup {"escaped"} /\ h = f \cup {"escaped"}
      OBVIOUS
    <3>2. g \in SUBSET FlagSet /\ h = g \cap Core
      BY <1>0, <3>1 DEF FlagSet, Core
    <3>3. Continue(g)
      BY <1>7, <2>1, <3>1 DEF Character
    <3>4. Moves(p, b, Shift(p, h))
      BY <1>1, <1>3, <1>7, <2>0, <2>1, <3>1 DEF TextMove, f
    <3>5. "string" \in p.flags
      BY <1>1 DEF f
    <3> QED
      BY <3>2, <3>3, <3>4, <3>5, Shifts
  <2>2. CASE b = "quote" /\ t.type[t.top] = "string"
    <3>1. t.n # 0
      BY <1>0, <1>1 DEF Mode, AtEnd, AtStart, InArray, InObject, BehindName, InText, Lacks
    <3>2. tree.top = t.top /\ tree.node[t.top].type = "string"
      BY <1>0, <2>2, <3>1, RepUp
    <3>3. PICK tr : tr = [tree EXCEPT !.node[tree.top].length = string_length]
      OBVIOUS
    <3>4. PICK g, h, e, m : /\ g = flags \ {"string"} /\ h = f \ {"string"} /\ e = pos + 1
                            /\ m = Measured(t, p.sl)
      OBVIOUS
    <3>5. Finish(tr, e, g)
      BY <1>7, <2>1, <2>2, <3>2, <3>3, <3>4 DEF Character, StringEnd
    <3>6. Rep(pass, m, F, tr)
      BY <1>0, <1>2, <2>2, <3>1, <3>3, <3>4, RepMeasured
    <3>7. Good(m) /\ m.n # 0
      BY <1>0, <3>1, <3>4, GoodMeasured DEF Measured
    <3>8. g \in SUBSET FlagSet /\ h = g \cap Core /\ "string" \notin h
      BY <1>0, <3>4 DEF FlagSet
    <3>9. \A q : Moves(p, b, q) <=> PopFits(m) /\ q = Popping(p, m, e, h)
      BY <1>0, <1>1, <1>3, <1>7, <2>0, <2>2, <3>4 DEF TextMove, f, t
    <3>10. (PopFits(m) => Moves(p, b, Popping(p, m, e, h))) /\ (~PopFits(m) => NoMore(p, b))
      BY <3>9 DEF NoMore
    <3> QED
      BY <3>5, <3>6, <3>7, <3>8, <3>10, PopLands
  <2>3. CASE b = "quote" /\ t.type[t.top] # "string"
    <3>1. t.n # 0 /\ t.type[t.top] = "object" /\ t.top \notin t.named
      BY <1>0, <1>1, <2>3 DEF Mode, AtEnd, AtStart, InArray, InObject, BehindName, InText, Lacks
    <3>2. tree.top = t.top /\ tree.node[t.top].type = "object"
      BY <1>0, <3>1, RepUp
    <3>3. PICK g, q : /\ g = (flags \ {"string"}) \cup {"seek_value", "need_colon"}
                      /\ q = At(p, p.pos + 1, (f \ {"string"}) \cup {"seek_value", "need_colon"},
                                NameRead(t, p.sl))
      OBVIOUS
    <3>4. Moves(p, b, q)
      BY <1>1, <1>3, <1>7, <2>0, <2>3, <3>3 DEF TextMove, f, t
    <3>5. /\ q.pos = pos + 1 /\ q.t = NameRead(t, p.sl)
          /\ q.flags = (f \ {"string"}) \cup {"seek_value", "need_colon"}
      BY <1>0, <3>3 DEF At
    <3>6. g \in SUBSET FlagSet /\ g \cap Core = q.flags /\ "string" \notin q.flags
      BY <1>0, <3>3, <3>5 DEF FlagSet, Core
    <3>7. StringEnd
      BY <1>7, <2>3 DEF Character
    <3>8. /\ Go(q.pos, g) /\ UNCHANGED <<string_length, num_digits>>
          /\ tree' = [tree EXCEPT !.node[tree.top] =
                            Renamed(pass, tree.node[tree.top], string_length)]
      BY <3>2, <3>3, <3>5, <3>7 DEF StringEnd, Renamed
    <3>9. Rep(pass, q.t, F, tree')
      BY <1>0, <1>2, <3>1, <3>5, <3>8, RepNamed
    <3>10. string_length' \in Nat
      BY <1>0, <3>8
    <3> QED
      BY <3>4, <3>6, <3>8, <3>9, <3>10, Lands
  <2>4. CASE b # "back" /\ b # "quote"
    <3>1. PICK k \in Nat : k = p.sl + 1
      BY <1>0
    <3>2. Go(pos + 1, flags) /\ string_length' = k /\ tree' = tree
      BY <1>2, <1>7, <2>4, <3>1 DEF Character, Add
    <3>3. Moves(p, b, WithSl(p, k, f))
      BY <1>1, <1>3, <1>7, <2>0, <2>4, <3>1 DEF TextMove, f
    <3>4. f = flags \cap Core /\ flags \in SUBSET FlagSet
      BY <1>0
    <3> QED
      BY <3>2, <3>3, <3>4, Counts
  <2> QED
    BY <2>1, <2>2, <2>3, <2>4
<1> QED
  BY <1>4, <1>5, <1>6, <1>7

\* In the second pass the step is the one of the first.
Ahead(p, b, F) == pass # 1 => \E q : Moves(p, b, q) /\ Part(q.t, F)

LEMMA AheadPart ==
    ASSUME NEW p, NEW b, NEW F, Ahead(p, b, F), pass # 1, NEW q, Moves(p, b, q)
    PROVE  Part(q.t, F)
<1>1. PICK r : Moves(p, b, r) /\ Part(r.t, F)
  BY DEF Ahead
<1>2. r = q
  BY <1>1, MovesOnce
<1> QED
  BY <1>1, <1>2

LEMMA PartPopped == ASSUME NEW t, NEW F, Part(Popped(t), F) PROVE Part(t, F)
<1>1. CASE Up(t) = 0
  BY <1>1 DEF Popped
<1>2. CASE Up(t) # 0
  <2>1. Popped(t).n = t.n /\ Popped(t).parent = t.parent /\ Popped(t).type = t.type
    BY <1>2 DEF Popped
  <2> QED
    BY <2>1 DEF Part
<1> QED
  BY <1>1, <1>2

LEMMA TypeHere ==
    ASSUME NEW p, NEW F, Here(p, F)
    PROVE  /\ tree.top = p.t.top /\ (tree.top = 0 <=> p.t.n = 0)
           /\ p.t.n # 0 => Type(tree, tree.top) = p.t.type[p.t.top]
<1>1. Good(p.t) /\ Rep(pass, p.t, F, tree)
  BY HereFacts
<1>2. tree.top = p.t.top
  BY <1>1, RepTop
<1>3. p.t.top = 0 <=> p.t.n = 0
  BY <1>1, GoodFacts
<1>4. p.t.n # 0 => tree.node[p.t.top].type = p.t.type[p.t.top]
  BY <1>1, RepUp
<1> QED
  BY <1>2, <1>3, <1>4 DEF Type

LEMMA SeekFacts ==
    ASSUME NEW p, NEW F, Here(p, F), Seeking, NEW b
    PROVE  /\ Lacks(p.flags, {"done", "string"}) /\ "seek_value" \in p.flags
           /\ \A q : Moves(p, b, q) <=> SeekMove(p, b, q)
<1>1. /\ \A c \in Core : c \in flags <=> c \in p.flags
  BY HereFacts
<1>2. "done" \notin flags /\ "string" \notin flags /\ "seek_value" \in flags
  BY DEF Seeking
<1>3. "done" \notin p.flags /\ "string" \notin p.flags /\ "seek_value" \in p.flags
  BY <1>1, <1>2 DEF Core
<1> QED
  BY <1>3 DEF Moves, Lacks

LEMMA SeekSpaceStep ==
    ASSUME NEW p, NEW b, NEW F, Here(p, F), SeekSpace(b)
    PROVE  Outcome(p, b, F)
<1>1. Seeking /\ b = "ws" /\ Continue(flags)
  BY DEF SeekSpace
<1>2. flags \in SUBSET FlagSet /\ p.flags = flags \cap Core
  BY HereFacts
<1>3. Moves(p, b, Shift(p, p.flags))
  BY <1>1, SeekFacts DEF SeekMove
<1> QED
  BY <1>1, <1>2, <1>3, Shifts

LEMMA CloseArrayStep ==
    ASSUME NEW p, NEW b, NEW F, Here(p, F), CloseArray(b), p.t.n # 0
    PROVE  Outcome(p, b, F)
<1>1. Seeking /\ b = "]" /\ tree.top # NULL
  BY TypeHere DEF CloseArray, NULL
<1>2. /\ flags \in SUBSET FlagSet /\ flags \cap Core = p.flags /\ pos = p.pos
      /\ Good(p.t) /\ Rep(pass, p.t, F, tree)
  BY HereFacts
<1>3. Type(tree, tree.top) = p.t.type[p.t.top]
  BY TypeHere
<1>4. /\ Lacks(p.flags, {"done", "string"})
      /\ \A q : Moves(p, b, q) <=> SeekMove(p, b, q)
  BY <1>1, SeekFacts
<1>5. CASE p.t.type[p.t.top] = "array"
  <2>1. PICK g, f, e : /\ g = flags \ {"need_comma", "seek_value"}
                       /\ f = p.flags \ {"need_comma", "seek_value"} /\ e = pos + 1
    OBVIOUS
  <2>2. Finish(tree, e, g)
    BY <1>1, <1>3, <1>5, <2>1 DEF CloseArray
  <2>3. g \in SUBSET FlagSet /\ f = g \cap Core /\ "string" \notin f
    BY <1>2, <1>4, <2>1 DEF Lacks, FlagSet
  <2>4. \A q : Moves(p, b, q) <=> PopFits(p.t) /\ q = Popping(p, p.t, e, f)
    BY <1>1, <1>2, <1>4, <1>5, <2>1 DEF SeekMove
  <2>5. (PopFits(p.t) => Moves(p, b, Popping(p, p.t, e, f))) /\ (~PopFits(p.t) => NoMore(p, b))
    BY <2>4 DEF NoMore
  <2> QED
    BY <1>2, <2>2, <2>3, <2>5, PopLands
<1>6. CASE p.t.type[p.t.top] # "array"
  <2>1. FailWith(tree, "syntax")
    BY <1>1, <1>3, <1>6 DEF CloseArray, Fail
  <2>2. NoMore(p, b)
    BY <1>1, <1>4, <1>6 DEF SeekMove, NoMore
  <2> QED
    BY <2>1, <2>2, FailOutcome
<1> QED
  BY <1>5, <1>6

LEMMA CommaStep ==
    ASSUME NEW p, NEW b, NEW F, Here(p, F), Comma(b)
    PROVE  Outcome(p, b, F)
<1>1. Seeking /\ b \notin {"ws", "]"} /\ "need_comma" \in flags
  BY DEF Comma, Before
<1>2. /\ flags \in SUBSET FlagSet /\ flags \cap Core = p.flags
      /\ \A c \in Core : c \in flags <=> c \in p.flags
  BY HereFacts
<1>3. "need_comma" \in p.flags
  BY <1>1, <1>2 DEF Core
<1>4. \A q : Moves(p, b, q) <=> b = "comma" /\ q = Shift(p, p.flags \ {"need_comma"})
  BY <1>1, <1>3, SeekFacts DEF SeekMove
<1>5. CASE b = "comma"
  <2>1. PICK g, f : g = flags \ {"need_comma"} /\ f = p.flags \ {"need_comma"}
    OBVIOUS
  <2>2. Continue(g)
    BY <1>5, <2>1 DEF Comma
  <2>3. g \in SUBSET FlagSet /\ f = g \cap Core /\ ("string" \in f => "string" \in p.flags)
    BY <1>2, <2>1 DEF FlagSet
  <2>4. Moves(p, b, Shift(p, f))
    BY <1>4, <1>5, <2>1
  <2> QED
    BY <2>2, <2>3, <2>4, Shifts
<1>6. CASE b # "comma"
  <2>1. FailWith(tree, "syntax")
    BY <1>6 DEF Comma, Fail
  <2>2. NoMore(p, b)
    BY <1>4, <1>6 DEF NoMore
  <2> QED
    BY <2>1, <2>2, FailOutcome
<1> QED
  BY <1>5, <1>6

LEMMA ColonStep ==
    ASSUME NEW p, NEW b, NEW F, Here(p, F), Colon(b)
    PROVE  Outcome(p, b, F)
<1>1. Seeking /\ b \notin {"ws", "]"} /\ "need_comma" \notin flags /\ "need_colon" \in flags
  BY DEF Colon, Before
<1>2. /\ flags \in SUBSET FlagSet /\ flags \cap Core = p.flags
      /\ \A c \in Core : c \in flags <=> c \in p.flags
  BY HereFacts
<1>3. "need_comma" \notin p.flags /\ "need_colon" \in p.flags
  BY <1>1, <1>2 DEF Core
<1>4. \A q : Moves(p, b, q) <=> b = ":" /\ q = Shift(p, p.flags \ {"need_colon"})
  BY <1>1, <1>3, SeekFacts DEF SeekMove
<1>5. CASE b = ":"
  <2>1. PICK g, f : g = flags \ {"need_colon"} /\ f = p.flags \ {"need_colon"}
    OBVIOUS
  <2>2. Continue(g)
    BY <1>5, <2>1 DEF Colon
  <2>3. g \in SUBSET FlagSet /\ f = g \cap Core /\ ("string" \in f => "string" \in p.flags)
    BY <1>2, <2>1 DEF FlagSet
  <2>4. Moves(p, b, Shift(p, f))
    BY <1>4, <1>5, <2>1
  <2> QED
    BY <2>2, <2>3, <2>4, Shifts
<1>6. CASE b # ":"
  <2>1. FailWith(tree, "syntax")
    BY <1>6 DEF Colon, Fail
  <2>2. NoMore(p, b)
    BY <1>4, <1>6 DEF NoMore
  <2> QED
    BY <2>1, <2>2, FailOutcome
<1> QED
  BY <1>5, <1>6

LEMMA StartFacts ==
    ASSUME NEW p, NEW F, Here(p, F), NEW b, StartsValue(b)
    PROVE  /\ Seeking /\ b \notin {"ws", "]"} /\ Beginning(p) /\ MayPush(p.t)
           /\ \A q : Moves(p, b, q) <=>
                \/ b = "lbrace" /\ q = At(p, p.pos + 1, p.flags \ {"seek_value"}, Pushed(p.t, "object"))
                \/ b = "[" /\ q = At(p, p.pos + 1, p.flags, Pushed(p.t, "array"))
                \/ b = "quote" /\ q = [pos |-> p.pos + 1,
                                       flags |-> (p.flags \ {"seek_value"}) \cup {"string"}, sl |-> 0,
                                       t |-> Pushed(p.t, "string")]
                \/ /\ b = "lit" /\ PopFits(Pushed(p.t, "literal"))
                   /\ q = Popping(p, Pushed(p.t, "literal"), p.pos + 1, p.flags \ {"seek_value"})
<1>1. Seeking /\ b \notin {"ws", "]"} /\ "need_comma" \notin flags /\ "need_colon" \notin flags
  BY DEF StartsValue, Before
<1>2. /\ \A c \in Core : c \in flags <=> c \in p.flags
  BY HereFacts
<1>3. "need_comma" \notin p.flags /\ "need_colon" \notin p.flags
  BY <1>1, <1>2 DEF Core
<1>4. Lacks(p.flags, {"done", "string"}) /\ "seek_value" \in p.flags
  BY <1>1, SeekFacts
<1>5. Beginning(p)
  BY <1>3, <1>4 DEF Beginning, Here, Lacks
<1>6. MayPush(p.t)
  BY <1>5 DEF Beginning, GoodSnap, Mode, AtEnd, AtStart, InArray, InObject, BehindName, InText, Lacks,
         MayPush, Holders
<1>7. \A q : Moves(p, b, q) <=> SeekMove(p, b, q)
  BY <1>1, SeekFacts
<1> QED
  BY <1>1, <1>3, <1>5, <1>6, <1>7 DEF SeekMove

LEMMA Opens ==
    ASSUME NEW p, NEW b, NEW F, Here(p, F), Ahead(p, b, F), NEW ty \in Kind,
           NEW g \in SUBSET FlagSet, NEW f, f = g \cap Core, "string" \notin f,
           Moves(p, b, At(p, p.pos + 1, f, Pushed(p.t, ty))),
           Go(pos + 1, g), tree' = New(ty), UNCHANGED string_length
    PROVE  Outcome(p, b, F)
<1>1. PICK q : q = At(p, p.pos + 1, f, Pushed(p.t, ty))
  OBVIOUS
<1>2. q.pos = p.pos + 1 /\ q.flags = f /\ q.t = Pushed(p.t, ty)
  BY <1>1 DEF At
<1>3. pos = p.pos /\ string_length \in Nat /\ Good(p.t) /\ Rep(pass, p.t, F, tree)
  BY HereFacts
<1>4. Moves(p, b, q)
  BY <1>1
<1>5. pass # 1 => Part(Pushed(p.t, ty), F)
  BY <1>2, <1>4, AheadPart
<1>6. Rep(pass, Pushed(p.t, ty), F, Newer(pass, tree, ty))
  BY <1>3, <1>5, RepPushed
<1>7. tree' = Newer(pass, tree, ty)
  BY DEF New, Newer
<1>8. Go(q.pos, g) /\ g \cap Core = q.flags /\ "string" \notin q.flags /\ string_length' \in Nat
  BY <1>2, <1>3
<1>9. Rep(pass, q.t, F, tree')
  BY <1>2, <1>6, <1>7
<1> QED
  BY <1>4, <1>8, <1>9, Lands

LEMMA OpenObjectStep ==
    ASSUME NEW p, NEW b, NEW F, Here(p, F), Ahead(p, b, F), OpenObject(b)
    PROVE  Outcome(p, b, F)
<1>1. StartsValue(b) /\ b = "lbrace"
  BY DEF OpenObject
<1>2. PICK g, f : g = flags \ {"seek_value"} /\ f = p.flags \ {"seek_value"}
  OBVIOUS
<1>3. flags \in SUBSET FlagSet /\ flags \cap Core = p.flags
  BY HereFacts
<1>4. Lacks(p.flags, {"done", "string"})
  BY <1>1, StartFacts, SeekFacts
<1>5. g \in SUBSET FlagSet /\ f = g \cap Core /\ "string" \notin f
  BY <1>2, <1>3, <1>4 DEF FlagSet, Lacks
<1>6. Moves(p, b, At(p, p.pos + 1, f, Pushed(p.t, "object")))
  BY <1>1, <1>2, StartFacts
<1>7. Go(pos + 1, g) /\ tree' = New("object") /\ UNCHANGED string_length
  BY <1>2 DEF OpenObject, Starts
<1>8. "object" \in Kind
  BY DEF Kind, Sized
<1> QED
  BY <1>5, <1>6, <1>7, <1>8, Opens

LEMMA OpenArrayStep ==
    ASSUME NEW p, NEW b, NEW F, Here(p, F), Ahead(p, b, F), OpenArray(b)
    PROVE  Outcome(p, b, F)
<1>1. StartsValue(b) /\ b = "["
  BY DEF OpenArray
<1>2. PICK g, f : g = flags /\ f = p.flags
  OBVIOUS
<1>3. flags \in SUBSET FlagSet /\ flags \cap Core = p.flags
  BY HereFacts
<1>4. Lacks(p.flags, {"done", "string"})
  BY <1>1, StartFacts, SeekFacts
<1>5. g \in SUBSET FlagSet /\ f = g \cap Core /\ "string" \notin f
  BY <1>2, <1>3, <1>4 DEF Lacks
<1>6. Moves(p, b, At(p, p.pos + 1, f, Pushed(p.t, "array")))
  BY <1>1, <1>2, StartFacts
<1>7. Go(pos + 1, g) /\ tree' = New("array") /\ UNCHANGED string_length
  BY <1>2 DEF OpenArray
<1>8. "array" \in Kind
  BY DEF Kind, Sized
<1> QED
  BY <1>5, <1>6, <1>7, <1>8, Opens

LEMMA OpenStringStep ==
    ASSUME NEW p, NEW b, NEW F, Here(p, F), Ahead(p, b, F), OpenString(b)
    PROVE  Outcome(p, b, F)
<1>1. StartsValue(b) /\ b = "quote"
  BY DEF OpenString
<1>2. PICK g, f, q : /\ g = (flags \ {"seek_value"}) \cup {"string"}
                     /\ f = (p.flags \ {"seek_value"}) \cup {"string"}
                     /\ q = [pos |-> p.pos + 1, flags |-> f, sl |-> 0, t |-> Pushed(p.t, "string")]
  OBVIOUS
<1>3. flags \in SUBSET FlagSet /\ flags \cap Core = p.flags /\ pos = p.pos
      /\ Good(p.t) /\ Rep(pass, p.t, F, tree)
  BY HereFacts
<1>5. g \in SUBSET FlagSet /\ f = g \cap Core
  BY <1>2, <1>3 DEF FlagSet, Core
<1>6. Moves(p, b, q)
  BY <1>1, <1>2, StartFacts
<1>7. Go(pos + 1, g) /\ tree' = New("string") /\ string_length' = 0
  BY <1>2 DEF OpenString, Starts
<1>8. "string" \in Kind
  BY DEF Kind, Sized
<1>9. q.pos = p.pos + 1 /\ q.flags = f /\ q.sl = 0 /\ q.t = Pushed(p.t, "string")
  BY <1>2
<1>10. pass # 1 => Part(Pushed(p.t, "string"), F)
  BY <1>6, <1>9, AheadPart
<1>11. Rep(pass, Pushed(p.t, "string"), F, Newer(pass, tree, "string"))
  BY <1>3, <1>8, <1>10, RepPushed
<1>12. tree' = Newer(pass, tree, "string")
  BY <1>7 DEF New, Newer
<1>13. Go(q.pos, g) /\ g \cap Core = q.flags /\ string_length' \in Nat /\ string_length' = q.sl
       /\ Rep(pass, q.t, F, tree')
  BY <1>3, <1>5, <1>7, <1>9, <1>11, <1>12
<1> QED
  BY <1>5, <1>6, <1>13, Lands

LEMMA LiteralStep ==
    ASSUME NEW p, NEW b, NEW F, Here(p, F), Ahead(p, b, F), Literal(b)
    PROVE  Outcome(p, b, F)
<1>1. StartsValue(b) /\ b = "lit"
  BY DEF Literal
<1>2. PICK g, f, x, e, tr :
          /\ g = flags \ {"seek_value"} /\ f = p.flags \ {"seek_value"} /\ e = pos + 1
          /\ x = Pushed(p.t, "literal") /\ tr = Newer(pass, tree, "literal")
  OBVIOUS
<1>3. flags \in SUBSET FlagSet /\ flags \cap Core = p.flags /\ pos = p.pos
      /\ Good(p.t) /\ Rep(pass, p.t, F, tree)
  BY HereFacts
<1>4. Lacks(p.flags, {"done", "string"}) /\ MayPush(p.t)
  BY <1>1, StartFacts, SeekFacts
<1>5. g \in SUBSET FlagSet /\ f = g \cap Core /\ "string" \notin f
  BY <1>2, <1>3, <1>4 DEF FlagSet, Lacks
<1>6. \A q : Moves(p, b, q) <=> PopFits(x) /\ q = Popping(p, x, e, f)
  BY <1>1, <1>2, <1>3, StartFacts
<1>7. "literal" \in Kind
  BY DEF Kind
<1>8. pass # 1 => Part(x, F)
  <2> SUFFICES ASSUME pass # 1 PROVE Part(x, F)
    OBVIOUS
  <2>1. PICK q : Moves(p, b, q) /\ Part(q.t, F)
    BY DEF Ahead
  <2>2. q.t = Popped(x)
    BY <1>6, <2>1 DEF Popping, At
  <2> QED
    BY <2>1, <2>2, PartPopped
<1>9. Rep(pass, x, F, tr)
  BY <1>2, <1>3, <1>7, <1>8, RepPushed
<1>10. Good(x) /\ x.n # 0
  <2>1. Good(x)
    BY <1>2, <1>3, <1>4, <1>7, GoodPushed
  <2>2. x.n = p.t.n + 1 /\ p.t.n \in Nat
    BY <1>2, <1>3, GoodFacts DEF Pushed
  <2> QED
    BY <2>1, <2>2
<1>11. Finish(tr, e, g)
  BY <1>2 DEF Literal, Starts, New, Newer
<1>12. (PopFits(x) => Moves(p, b, Popping(p, x, e, f))) /\ (~PopFits(x) => NoMore(p, b))
  BY <1>6 DEF NoMore
<1> QED
  BY <1>5, <1>9, <1>10, <1>11, <1>12, PopLands

LEMMA NoValueStep ==
    ASSUME NEW p, NEW b, NEW F, Here(p, F), NoValue(b)
    PROVE  Outcome(p, b, F)
<1>1. StartsValue(b) /\ b \notin {"lbrace", "[", "quote", "lit"} /\ FailWith(tree, "syntax")
  BY DEF NoValue, Fail
<1>2. NoMore(p, b)
  BY <1>1, StartFacts DEF NoMore
<1> QED
  BY <1>1, <1>2, FailOutcome

LEMMA ObjectStep ==
    ASSUME NEW p, NEW b, NEW F, Here(p, F), Object(b)
    PROVE  Outcome(p, b, F)
<1>1. Inside({"object"})
  BY DEF Object
<1>2. /\ flags \in SUBSET FlagSet /\ flags \cap Core = p.flags /\ pos = p.pos
      /\ \A c \in Core : c \in flags <=> c \in p.flags
      /\ Good(p.t) /\ Rep(pass, p.t, F, tree) /\ Mode(p.flags, p.t)
  BY HereFacts
<1>3. Lacks(p.flags, {"done", "string", "seek_value"})
  <2>1. "done" \notin flags /\ "string" \notin flags /\ "seek_value" \notin flags
    BY <1>1 DEF Inside
  <2> QED
    BY <1>2, <2>1 DEF Core, Lacks
<1>4. p.t.n # 0
  BY <1>2, <1>3 DEF Mode, AtEnd, AtStart, InArray, InObject, BehindName, InText, Lacks
<1>5. \A q : Moves(p, b, q) <=> ObjectMove(p, b, q)
  BY <1>3 DEF Moves, Lacks
<1>6. "need_comma" \in flags <=> "need_comma" \in p.flags
  BY <1>2 DEF Core
<1>7. "string" \notin p.flags
  BY <1>3 DEF Lacks
<1>8. CASE b = "ws"
  <2>1. Continue(flags)
    BY <1>8 DEF Object
  <2>2. Moves(p, b, Shift(p, p.flags))
    BY <1>5, <1>8 DEF ObjectMove
  <2> QED
    BY <1>2, <2>1, <2>2, Shifts
<1>9. CASE b = "quote" /\ "need_comma" \notin flags
  <2>1. PICK g, f, k : g = flags \cup {"string"} /\ f = p.flags \cup {"string"} /\ k = 0
    OBVIOUS
  <2>2. Go(pos + 1, g) /\ string_length' = k /\ tree' = tree /\ k \in Nat
    BY <1>9, <2>1 DEF Object
  <2>3. g \in SUBSET FlagSet /\ f = g \cap Core
    BY <1>2, <2>1 DEF FlagSet, Core
  <2>4. Moves(p, b, WithSl(p, k, f))
    BY <1>5, <1>6, <1>9, <2>1 DEF ObjectMove
  <2> QED
    BY <2>2, <2>3, <2>4, Counts
<1>10. CASE b = "rbrace"
  <2>1. PICK g, f, e : g = flags \ {"need_comma"} /\ f = p.flags \ {"need_comma"} /\ e = pos + 1
    OBVIOUS
  <2>2. Finish(tree, e, g)
    BY <1>10, <2>1 DEF Object
  <2>3. g \in SUBSET FlagSet /\ f = g \cap Core /\ "string" \notin f
    BY <1>2, <1>7, <2>1 DEF FlagSet
  <2>4. \A q : Moves(p, b, q) <=> PopFits(p.t) /\ q = Popping(p, p.t, e, f)
    BY <1>2, <1>5, <1>10, <2>1 DEF ObjectMove
  <2>5. (PopFits(p.t) => Moves(p, b, Popping(p, p.t, e, f))) /\ (~PopFits(p.t) => NoMore(p, b))
    BY <2>4 DEF NoMore
  <2> QED
    BY <1>2, <1>4, <2>2, <2>3, <2>5, PopLands
<1>11. CASE b = "comma" /\ "need_comma" \in flags
  <2>1. PICK g, f : g = flags \ {"need_comma"} /\ f = p.flags \ {"need_comma"}
    OBVIOUS
  <2>2. Continue(g)
    BY <1>11, <2>1 DEF Object
  <2>3. g \in SUBSET FlagSet /\ f = g \cap Core /\ ("string" \in f => "string" \in p.flags)
    BY <1>2, <2>1 DEF FlagSet
  <2>4. Moves(p, b, Shift(p, f))
    BY <1>5, <1>6, <1>11, <2>1 DEF ObjectMove
  <2> QED
    BY <2>2, <2>3, <2>4, Shifts
<1>12. CASE /\ b \notin {"ws", "rbrace"} /\ ~(b = "quote" /\ "need_comma" \notin flags)
            /\ ~(b = "comma" /\ "need_comma" \in flags)
  <2>1. FailWith(tree, "syntax")
    BY <1>12 DEF Object, Fail
  <2>2. NoMore(p, b)
    BY <1>5, <1>6, <1>12 DEF ObjectMove, NoMore
  <2> QED
    BY <2>1, <2>2, FailOutcome
<1> QED
  BY <1>8, <1>9, <1>10, <1>11, <1>12

LEMMA TrailingStep ==
    ASSUME NEW p, NEW b, NEW F, Here(p, F), Trailing(b), b # "eof"
    PROVE  Outcome(p, b, F)
<1>1. /\ flags \in SUBSET FlagSet /\ flags \cap Core = p.flags
      /\ \A c \in Core : c \in flags <=> c \in p.flags
  BY HereFacts
<1>2. "done" \in p.flags
  BY <1>1 DEF Trailing, Core
<1>3. \A q : Moves(p, b, q) <=> b = "ws" /\ q = Shift(p, p.flags)
  BY <1>2 DEF Moves
<1>4. CASE b = "ws"
  <2>1. Continue(flags)
    BY <1>4 DEF Trailing
  <2>2. Moves(p, b, Shift(p, p.flags))
    BY <1>3, <1>4
  <2> QED
    BY <1>1, <2>1, <2>2, Shifts
<1>5. CASE b # "ws"
  <2>1. FailWith(tree, "syntax")
    BY <1>5 DEF Trailing, Fail
  <2>2. NoMore(p, b)
    BY <1>3, <1>5 DEF NoMore
  <2> QED
    BY <2>1, <2>2, FailOutcome
<1> QED
  BY <1>4, <1>5

\* The steps of the loop but Read.
Handle(b) ==
    \/ Trailing(b) \/ Character(b) \/ SeekSpace(b) \/ CloseArray(b)
    \/ Comma(b) \/ Colon(b) \/ OpenObject(b) \/ NarrowObject(b)
    \/ OpenArray(b) \/ OpenString(b) \/ Literal(b) \/ OpenNumber(b)
    \/ SkipNumber(b) \/ NoValue(b) \/ NoMemory(b) \/ Object(b) \/ Digits(b) \/ Number(b)

\* Those that do not read one symbol.
Special(p, b) ==
    \/ "done" \in p.flags /\ b = "eof" /\ Trailing(b)
    \/ p.t.n = 0 /\ b = "]" /\ Seeking /\ tree.top = NULL /\ Fault
    \/ NumberAt(p, b) /\ (OpenNumber(b) \/ SkipNumber(b))
    \/ StartsValue(b) /\ NoMemory(b)
    \/ StartsValue(b) /\ NarrowObject(b)

\* An object whose entries are too many for an int.
LEMMA NarrowStep ==
    ASSUME NEW b, NarrowObject(b)
    PROVE  /\ StartsValue(b) /\ b = "lbrace" /\ pass = 2
           /\ Narrow(tree.node[tree.alloc]) /\ Type(tree, tree.alloc) \in Sized
           /\ FailWith(Taken(tree), "memory") \/ Fault
           /\ UNCHANGED <<pos, pass, flags, string_length, num_digits>>
<1>1. /\ StartsValue(b) /\ b = "lbrace" /\ pass = 2 /\ Narrow(tree.node[tree.alloc])
      /\ FailWith(Taken(tree), "memory") \/ Fault
  BY DEF NarrowObject
<1>2. Type(tree, tree.alloc) \in Sized
  BY <1>1 DEF Narrow, Type, Sized
<1>3. UNCHANGED <<pos, pass, flags, string_length, num_digits>>
  BY <1>1 DEF FailWith, Fault
<1> QED
  BY <1>1, <1>2, <1>3

LEMMA StartNumber ==
    ASSUME NEW p, NEW b, NEW F, Here(p, F), StartsValue(b), b \in Digit \cup {"-"}
    PROVE  NumberAt(p, b)
<1>1. Beginning(p)
  BY StartFacts
<1> QED
  BY <1>1 DEF NumberAt, Beginning

LEMMA NotInNumber ==
    ASSUME NEW p, NEW F, Here(p, F)
    PROVE  ~Inside({"integer", "double"})
<1> SUFFICES ASSUME Inside({"integer", "double"}) PROVE FALSE
  OBVIOUS
<1>1. /\ \A c \in Core : c \in flags <=> c \in p.flags
      /\ Mode(p.flags, p.t)
  BY HereFacts
<1>2. "done" \notin flags /\ "string" \notin flags /\ "seek_value" \notin flags
      /\ Type(tree, tree.top) \in {"integer", "double"}
  BY DEF Inside
<1>3. "done" \notin p.flags /\ "string" \notin p.flags /\ "seek_value" \notin p.flags
  BY <1>1, <1>2 DEF Core
<1>4. p.t.n # 0 /\ p.t.type[p.t.top] = "object"
  BY <1>1, <1>3 DEF Mode, AtEnd, AtStart, InArray, InObject, BehindName, InText, Lacks
<1> QED
  BY <1>2, <1>4, TypeHere

LEMMA LoopStep ==
    ASSUME NEW p, NEW b, NEW F, Here(p, F), Ahead(p, b, F), Handle(b)
    PROVE  Outcome(p, b, F) \/ Special(p, b)
<1>1. CASE Trailing(b)
  <2>1. CASE b = "eof"
    <3>1. "done" \in p.flags
      BY <1>1, HereFacts DEF Trailing, Core
    <3> QED
      BY <1>1, <2>1, <3>1 DEF Special
  <2>2. CASE b # "eof"
    BY <1>1, <2>2, TrailingStep
  <2> QED
    BY <2>1, <2>2
<1>2. CASE Character(b)
  BY <1>2, CharacterStep
<1>3. CASE SeekSpace(b)
  BY <1>3, SeekSpaceStep
<1>4. CASE CloseArray(b)
  <2>1. CASE p.t.n = 0
    <3>1. tree.top = NULL
      BY <2>1, TypeHere DEF NULL
    <3> QED
      BY <1>4, <2>1, <3>1 DEF CloseArray, Special
  <2>2. CASE p.t.n # 0
    BY <1>4, <2>2, CloseArrayStep
  <2> QED
    BY <2>1, <2>2
<1>5. CASE Comma(b)
  BY <1>5, CommaStep
<1>6. CASE Colon(b)
  BY <1>6, ColonStep
<1>7. CASE OpenObject(b)
  BY <1>7, OpenObjectStep
<1>8. CASE OpenArray(b)
  BY <1>8, OpenArrayStep
<1>9. CASE OpenString(b)
  BY <1>9, OpenStringStep
<1>10. CASE Literal(b)
  BY <1>10, LiteralStep
<1>11. CASE OpenNumber(b)
  <2>1. NumberAt(p, b)
    BY <1>11, StartNumber DEF OpenNumber
  <2> QED
    BY <1>11, <2>1 DEF Special
<1>12. CASE SkipNumber(b)
  <2>1. NumberAt(p, b)
    BY <1>12, StartNumber DEF SkipNumber
  <2> QED
    BY <1>12, <2>1 DEF Special
<1>13. CASE NoValue(b)
  BY <1>13, NoValueStep
<1>14. CASE NoMemory(b)
  BY <1>14 DEF NoMemory, Special
<1>15. CASE Object(b)
  BY <1>15, ObjectStep
<1>16. CASE Digits(b) \/ Number(b)
  BY <1>16, NotInNumber DEF Digits, Number
<1>17. CASE NarrowObject(b)
  BY <1>17, NarrowStep DEF Special
<1> QED
  BY <1>1, <1>2, <1>3, <1>4, <1>5, <1>6, <1>7, <1>8, <1>9, <1>10, <1>11, <1>12, <1>13, <1>14,
     <1>15, <1>16, <1>17 DEF Handle

-----------------------------------------------------------------------------
(***************************************************************************)
(* A number is read, behind p.                                             *)
(***************************************************************************)
Scanned(p, txt, e) ==
    /\ e \in Nat /\ p.pos <= e /\ p.pos <= Len(txt) /\ NumberAt(p, txt[p.pos])
    /\ \A k \in p.pos .. e - 1 : k <= Len(txt) /\ txt[k] \in Numeric
    /\ e = p.pos => txt[e] \in Digit

Scanning(p, ty) ==
    /\ GoodSnap(p) /\ pass = 1 /\ phase = "parse" /\ Scanned(p, text, pos)
    /\ flags \in SUBSET FlagSet /\ flags \cap Core = p.flags \ {"seek_value"}
    /\ string_length \in Nat
    /\ ty \in {"integer", "double"} /\ Drawn(Pushed(p.t, ty), tree)

\* The symbol b has been read.
ReadHere(b) == /\ text' \in Seq(Symbol) /\ Grown(text, text') /\ pos \in Nat \ {0}
               /\ pos <= Len(text') /\ text'[pos] = b

LEMMA ScannedGrows ==
    ASSUME NEW p, p.pos \in Nat \ {0}, NEW old, NEW txt, Grown(old, txt), NEW e, Scanned(p, old, e)
    PROVE  Scanned(p, txt, e)
<1>1. Len(old) \in Nat /\ Len(txt) \in Nat /\ Len(old) <= Len(txt) /\ e \in Nat /\ p.pos <= e
      /\ p.pos \in 1 .. Len(old)
  BY DEF Grown, Scanned
<1>2. txt[p.pos] = old[p.pos]
  BY <1>1 DEF Grown
<1>3. ASSUME NEW k \in p.pos .. e - 1 PROVE k <= Len(txt) /\ txt[k] \in Numeric
  <2>1. k <= Len(old) /\ old[k] \in Numeric
    BY <1>3 DEF Scanned
  <2>2. k \in 1 .. Len(old)
    BY <1>1, <2>1
  <2> QED
    BY <1>1, <2>1, <2>2 DEF Grown
<1>4. e = p.pos => txt[e] \in Digit
  BY <1>2 DEF Scanned
<1> QED
  BY <1>1, <1>2, <1>3, <1>4 DEF Scanned

\* One more symbol of the number.
LEMMA ScannedMore ==
    ASSUME NEW p, p.pos \in Nat \ {0}, NEW txt, NEW e, Scanned(p, txt, e),
           e <= Len(txt), txt[e] \in Numeric
    PROVE  Scanned(p, txt, e + 1)
<1>1. e \in Nat /\ p.pos <= e /\ p.pos <= Len(txt) /\ NumberAt(p, txt[p.pos])
  BY DEF Scanned
<1>2. ASSUME NEW k \in p.pos .. e PROVE k <= Len(txt) /\ txt[k] \in Numeric
  <2>1. CASE k = e
    BY <2>1
  <2>2. CASE k # e
    <3>1. k \in p.pos .. e - 1
      BY <1>1, <2>2
    <3> QED
      BY <3>1 DEF Scanned
  <2> QED
    BY <2>1, <2>2
<1>3. e + 1 - 1 = e /\ e + 1 # p.pos /\ e + 1 \in Nat /\ p.pos <= e + 1
  BY <1>1
<1> QED
  BY <1>1, <1>2, <1>3 DEF Scanned

LEMMA OpenNumberStep ==
    ASSUME NEW p, NEW b, NEW F, Here(p, F), NumberAt(p, b), OpenNumber(b), ReadHere(b)
    PROVE  Scanning(p, "integer")' /\ GoesOn
<1>1. /\ pos = p.pos /\ pos \in Nat \ {0} /\ flags \in SUBSET FlagSet /\ flags \cap Core = p.flags
      /\ string_length \in Nat /\ Good(p.t) /\ Rep(pass, p.t, F, tree)
  BY HereFacts
<1>2. /\ pass = 1 /\ tree' = NewFirst(tree, "integer") /\ string_length' = string_length
      /\ b \in Digit \cup {"-"}
      /\ Go(IF b = "-" THEN pos + 1 ELSE pos, Starts \ {"num_e", "num_e_got_sign", "num_zero"})
  BY DEF OpenNumber, New
<1>3. Drawn(Pushed(p.t, "integer"), tree')
  <2>1. Drawn(p.t, tree) /\ "integer" \in Kind
    BY <1>1, <1>2 DEF Rep, Kind
  <2> QED
    BY <1>1, <1>2, <2>1, DrawnPushed
<1>4. flags' \in SUBSET FlagSet /\ flags' \cap Core = p.flags \ {"seek_value"}
  BY <1>1, <1>2 DEF Go, Starts, FlagSet, Core
<1>5. text'[p.pos] = b /\ p.pos <= Len(text') /\ Len(text') \in Nat
  BY <1>1 DEF ReadHere
<1>6. Scanned(p, text', pos')
  <2>1. CASE b = "-"
    <3>1. pos' = p.pos + 1 /\ p.pos \in Nat
      BY <1>1, <1>2, <2>1 DEF Go
    <3>2. \A k \in p.pos .. pos' - 1 : k = p.pos
      BY <3>1
    <3>3. b \in Numeric
      BY <2>1 DEF Numeric
    <3>4. \A k \in p.pos .. pos' - 1 : k <= Len(text') /\ text'[k] \in Numeric
      BY <1>5, <3>2, <3>3
    <3>5. pos' \in Nat /\ p.pos <= pos' /\ pos' # p.pos
      BY <3>1
    <3> QED
      BY <1>5, <3>4, <3>5 DEF Scanned
  <2>2. CASE b # "-"
    <3>1. pos' = p.pos /\ p.pos \in Nat /\ b \in Digit
      BY <1>1, <1>2, <2>2 DEF Go
    <3>2. p.pos .. pos' - 1 = {}
      BY <3>1
    <3> QED
      BY <1>5, <3>1, <3>2 DEF Scanned
  <2> QED
    BY <2>1, <2>2
<1>7. phase' = "parse" /\ pass' = 1 /\ cause' = cause /\ GoodSnap(p) /\ string_length' \in Nat
  BY <1>1, <1>2 DEF Go, Here
<1> QED
  BY <1>2, <1>3, <1>4, <1>6, <1>7 DEF Scanning, GoesOn, Go

LEMMA ScanFacts ==
    ASSUME NEW p, NEW ty, Scanning(p, ty)
    PROVE  /\ Good(Pushed(p.t, ty)) /\ Pushed(p.t, ty).n # 0 /\ Type(tree, tree.top) = ty
           /\ "done" \notin flags /\ "string" \notin flags /\ "seek_value" \notin flags
           /\ p.pos \in Nat \ {0} /\ Good(p.t) /\ MayPush(p.t) /\ Beginning(p) /\ ty \in Kind
           /\ \A F : Rep(pass, Pushed(p.t, ty), F, tree)
<1>1. Good(p.t) /\ p.pos \in Nat \ {0} /\ ty \in {"integer", "double"} /\ ty \in Kind
      /\ Drawn(Pushed(p.t, ty), tree)
  BY DEF Scanning, GoodSnap, SnapType, Kind
<1>2. Beginning(p)
  BY DEF Scanning, Scanned, NumberAt, Beginning, Lacks
<1>3. MayPush(p.t)
  BY <1>2 DEF Beginning, GoodSnap, Mode, AtEnd, AtStart, InArray, InObject, BehindName, InText, Lacks,
         MayPush, Holders
<1>4. Good(Pushed(p.t, ty))
  BY <1>1, <1>3, GoodPushed
<1>5. /\ Pushed(p.t, ty).n = p.t.n + 1 /\ Pushed(p.t, ty).top = p.t.n + 1 /\ p.t.n + 1 \in Nat \ {0}
      /\ Pushed(p.t, ty).type[p.t.n + 1] = ty
  BY <1>1, PushedFacts
<1>6. \A F : Rep(pass, Pushed(p.t, ty), F, tree)
  BY <1>1 DEF Scanning, Rep
<1>7. Type(tree, tree.top) = ty
  <2>1. PICK x, F : x = Pushed(p.t, ty) /\ F = Blank
    OBVIOUS
  <2>2. Good(x) /\ x.n # 0 /\ Rep(pass, x, F, tree)
    BY <1>4, <1>5, <1>6, <2>1
  <2>3. tree.top = x.top /\ tree.node[x.top].type = x.type[x.top]
    BY <2>2, RepUp
  <2> QED
    BY <1>5, <2>1, <2>3 DEF Type
<1>8. "done" \notin flags /\ "string" \notin flags /\ "seek_value" \notin flags
  <2>1. flags \cap Core = p.flags \ {"seek_value"} /\ "done" \notin p.flags /\ "string" \notin p.flags
    BY <1>2 DEF Scanning, Beginning, Lacks
  <2> QED
    BY <2>1 DEF Core
<1> QED
  BY <1>1, <1>2, <1>3, <1>4, <1>5, <1>6, <1>7, <1>8

\* What comes of a symbol behind p in a number.
ScanOutcome(p, F) ==
    \/ \E ty : Scanning(p, ty)' /\ GoesOn
    \/ \E q : StepTo(text', p, q) /\ On(q, F)' /\ GoesOn
    \/ Broken

LEMMA ScanFails ==
    ASSUME NEW p, NEW ty, NEW F, Scanning(p, ty), FailWith(tree, "syntax")
    PROVE  ScanOutcome(p, F)
<1>1. Good(Pushed(p.t, ty)) /\ Rep(pass, Pushed(p.t, ty), F, tree)
  BY ScanFacts
<1>2. Broken
  BY <1>1, FailBroken
<1> QED
  BY <1>2 DEF ScanOutcome

\* The symbol belongs to the number.
LEMMA ScanGoes ==
    ASSUME NEW p, NEW ty, NEW F, Scanning(p, ty), NEW b \in Numeric, ReadHere(b),
           NEW g \in SUBSET FlagSet, g \cap Core = flags \cap Core, Go(pos + 1, g),
           string_length' = string_length,
           NEW up \in {"integer", "double"}, Drawn(Pushed(p.t, up), tree')
    PROVE  ScanOutcome(p, F)
<1>1. p.pos \in Nat \ {0}
  BY ScanFacts
<1>2. Scanned(p, text', pos)
  BY <1>1, ScannedGrows DEF Scanning, ReadHere
<1>3. Scanned(p, text', pos + 1)
  BY <1>1, <1>2, ScannedMore DEF ReadHere
<1>4. Scanning(p, up)'
  BY <1>3 DEF Scanning, Go
<1> QED
  BY <1>4 DEF ScanOutcome, GoesOn, Go

LEMMA DigitsStep ==
    ASSUME NEW p, NEW ty, NEW F, Scanning(p, ty), NEW b, ReadHere(b), Digits(b)
    PROVE  ScanOutcome(p, F)
<1>1. b \in Digit
  BY DEF Digits
<1>2. CASE ~Exponent /\ ~Double /\ "num_zero" \in flags
  <2>1. FailWith(tree, "syntax")
    BY <1>2 DEF Digits, Fail
  <2> QED
    BY <2>1, ScanFails
<1>3. CASE ~(~Exponent /\ ~Double /\ "num_zero" \in flags)
  <2>1. PICK g : /\ g \in {flags \cup {"num_e_got_sign"}, flags \cup {"num_zero"}, flags}
                 /\ Go(pos + 1, g) /\ UNCHANGED <<string_length, tree>>
    BY <1>3 DEF Digits
  <2>2. g \in SUBSET FlagSet /\ g \cap Core = flags \cap Core
    BY <2>1 DEF Scanning, FlagSet, Core
  <2>3. b \in Numeric
    BY <1>1 DEF Numeric
  <2>4. ty \in {"integer", "double"} /\ Drawn(Pushed(p.t, ty), tree')
    BY <2>1 DEF Scanning
  <2> QED
    BY <2>1, <2>2, <2>3, <2>4, ScanGoes
<1> QED
  BY <1>2, <1>3

LEMMA NumberStep ==
    ASSUME NEW p, NEW ty, NEW F, Scanning(p, ty), NEW b, ReadHere(b), Number(b)
    PROVE  ScanOutcome(p, F)
<1>1. b \notin Digit
  BY DEF Number
<1>2. CASE Sign(b)
  <2>1. PICK g : g = flags \cup {"num_e_got_sign"}
    OBVIOUS
  <2>2. Go(pos + 1, g) /\ UNCHANGED <<string_length, tree>>
    BY <1>2, <2>1 DEF Number, Continue
  <2>3. g \in SUBSET FlagSet /\ g \cap Core = flags \cap Core
    BY <2>1 DEF Scanning, FlagSet, Core
  <2>4. b \in Numeric
    BY <1>2 DEF Sign, Numeric
  <2>5. ty \in {"integer", "double"} /\ Drawn(Pushed(p.t, ty), tree')
    BY <2>2 DEF Scanning
  <2> QED
    BY <2>2, <2>3, <2>4, <2>5, ScanGoes
<1>3. CASE ~Sign(b) /\ num_digits = 0 /\ (Point(b) \/ Double)
  <2>1. FailWith(tree, "syntax")
    BY <1>3 DEF Number, Fail
  <2> QED
    BY <2>1, ScanFails
<1>4. CASE ~Sign(b) /\ ~(num_digits = 0 /\ (Point(b) \/ Double)) /\ (Point(b) \/ (b = "e" /\ ~Exponent))
  <2>1. PICK g : g = IF b = "." THEN flags ELSE (flags \cup {"num_e"}) \ {"num_zero"}
    OBVIOUS
  <2>2. Go(pos + 1, g) /\ tree' = [tree EXCEPT !.node[tree.top].type = "double"] /\ UNCHANGED string_length
    BY <1>4, <2>1 DEF Number
  <2>3. g \in SUBSET FlagSet /\ g \cap Core = flags \cap Core
    BY <2>1 DEF Scanning, FlagSet, Core
  <2>4. b \in Numeric
    BY <1>4 DEF Point, Numeric
  <2>5. Drawn(Pushed(p.t, "double"), tree')
    <3>1. Good(p.t) /\ MayPush(p.t) /\ ty \in Kind /\ Drawn(Pushed(p.t, ty), tree)
      BY ScanFacts DEF Scanning
    <3> QED
      BY <2>2, <3>1, DrawnDouble
  <2> QED
    BY <2>2, <2>3, <2>4, <2>5, ScanGoes
<1>5. CASE ~Sign(b) /\ ~(num_digits = 0 /\ (Point(b) \/ Double)) /\ ~(Point(b) \/ (b = "e" /\ ~Exponent))
  <2>1. PICK x : x = Pushed(p.t, ty)
    OBVIOUS
  <2>2. Finish(tree, pos, flags)
    BY <1>5 DEF Number
  <2>3. Good(x) /\ x.n # 0 /\ Rep(pass, x, F, tree) /\ p.pos \in Nat \ {0}
    BY <2>1, ScanFacts
  <2>4. flags \in SUBSET FlagSet /\ flags \cap Core = p.flags \ {"seek_value"} /\ string_length \in Nat
    BY DEF Scanning
  <2>5. \/ /\ PopFits(x) /\ pos' = pos /\ flags' \in SUBSET FlagSet
           /\ flags' \cap Core = PopFlags(x, flags \cap Core)
           /\ Rep(pass, Popped(x), F, tree')
           /\ GoesOn /\ UNCHANGED <<string_length, num_digits>>
        \/ ~PopFits(x) /\ Broken
    BY <2>2, <2>3, <2>4, Finished
  <2>6. CASE ~PopFits(x)
    BY <2>5, <2>6 DEF ScanOutcome
  <2>7. CASE PopFits(x)
    <3>1. PICK q : q = Popping(p, x, pos, p.flags \ {"seek_value"})
      OBVIOUS
    <3>2. Scanned(p, text', pos)
      BY <2>3, ScannedGrows DEF Scanning, ReadHere
    <3>3. pos \in p.pos + 1 .. Len(text') /\ Len(text') \in Nat
      <4>1. pos # p.pos
        BY <1>1, <3>2 DEF Scanned, ReadHere
      <4>2. p.pos \in Nat /\ pos \in Nat /\ p.pos <= pos /\ Len(text') \in Nat /\ pos <= Len(text')
        BY <2>3, <3>2 DEF Scanned, ReadHere
      <4> QED
        BY <4>1, <4>2
    <3>4. \A k \in p.pos .. pos - 1 : text'[k] \in Numeric
      BY <3>2 DEF Scanned
    <3>5. ty \in {"integer", "double"}
      BY DEF Scanning
    <3>6. NumberMove(text', p, q)
      BY <2>1, <2>7, <3>1, <3>3, <3>4, <3>5 DEF NumberMove
    <3>7. StepTo(text', p, q)
      BY <3>2, <3>6 DEF StepTo, Scanned
    <3>8. q.pos = pos /\ q.flags = PopFlags(x, flags \cap Core) /\ q.t = Popped(x)
      BY <2>4, <3>1 DEF Popping, At
    <3>9. "string" \notin q.flags
      <4>1. "string" \notin flags
        BY ScanFacts
      <4> QED
        BY <3>8, <4>1 DEF PopFlags
    <3>10. On(q, F)'
      BY <2>4, <2>5, <2>7, <3>8, <3>9 DEF On, GoesOn
    <3> QED
      BY <2>5, <2>7, <3>7, <3>10 DEF ScanOutcome
  <2> QED
    BY <2>6, <2>7
<1> QED
  BY <1>2, <1>3, <1>4, <1>5

LEMMA ScanStep ==
    ASSUME NEW p, NEW ty, NEW F, Scanning(p, ty), NEW b, ReadHere(b), Handle(b)
    PROVE  ScanOutcome(p, F)
<1>1. "done" \notin flags /\ "string" \notin flags /\ "seek_value" \notin flags
      /\ Type(tree, tree.top) # "object"
  BY ScanFacts DEF Scanning
<1>2. ~Trailing(b) /\ ~Character(b) /\ ~Seeking
  BY <1>1 DEF Trailing, Character, Seeking
<1>3. /\ ~SeekSpace(b) /\ ~CloseArray(b) /\ ~Comma(b) /\ ~Colon(b)
  BY <1>2 DEF SeekSpace, CloseArray, Comma, Colon, Before
<1>4. ~StartsValue(b)
  BY <1>2 DEF StartsValue, Before
<1>5. /\ ~OpenObject(b) /\ ~OpenArray(b) /\ ~OpenString(b) /\ ~Literal(b) /\ ~OpenNumber(b)
      /\ ~SkipNumber(b) /\ ~NoValue(b) /\ ~NoMemory(b) /\ ~NarrowObject(b)
  BY <1>4, NarrowStep DEF OpenObject, OpenArray, OpenString, Literal, OpenNumber, SkipNumber, NoValue,
                          NoMemory
<1>6. ~Object(b)
  BY <1>1 DEF Object, Inside
<1> QED
  BY <1>2, <1>3, <1>5, <1>6, DigitsStep, NumberStep DEF Handle

\* What Finish does.
Ended(t, F, e, f) ==
    \/ /\ PopFits(t) /\ pos' = e /\ flags' \in SUBSET FlagSet
       /\ flags' \cap Core = PopFlags(t, f \cap Core)
       /\ Rep(pass, Popped(t), F, tree')
       /\ GoesOn /\ UNCHANGED <<string_length, num_digits>>
    \/ ~PopFits(t) /\ Broken

LEMMA FinishEnds ==
    ASSUME NEW t, Good(t), t.n # 0, NEW F, NEW tr, Rep(pass, t, F, tr),
           NEW e, NEW f \in SUBSET FlagSet, Finish(tr, e, f)
    PROVE  Ended(t, F, e, f)
BY Finished DEF Ended

\* The second pass skips what the first has read.
LEMMA SkipStep ==
    ASSUME NEW p, NEW b, NEW F, Here(p, F), SkipNumber(b), text \in Seq(Symbol),
           NEW q, NumberMove(text, p, q), NumberAt(p, b), Part(q.t, F), text[q.pos] \notin Numeric
    PROVE  On(q, F)' /\ GoesOn
<1>1. /\ pos = p.pos /\ pos \in Nat \ {0} /\ flags \in SUBSET FlagSet /\ flags \cap Core = p.flags
      /\ string_length \in Nat /\ Good(p.t) /\ Rep(pass, p.t, F, tree)
  BY HereFacts
<1>2. PICK e \in p.pos + 1 .. Len(text), ty \in {"integer", "double"} :
          /\ \A k \in p.pos .. e - 1 : text[k] \in Numeric
          /\ PopFits(Pushed(p.t, ty))
          /\ q = Popping(p, Pushed(p.t, ty), e, p.flags \ {"seek_value"})
  BY DEF NumberMove
<1>3. PICK x, f, g : /\ x = Pushed(p.t, ty) /\ f = p.flags \ {"seek_value"}
                     /\ g = flags \ {"seek_value"}
  OBVIOUS
<1>4. q.pos = e /\ q.flags = PopFlags(x, f) /\ q.t = Popped(x)
  BY <1>2, <1>3 DEF Popping, At
<1>5. StartsValue(b) /\ pass = 2
  BY DEF SkipNumber
<1>6. g \in SUBSET FlagSet /\ f = g \cap Core /\ "string" \notin q.flags
  <2>1. "string" \notin p.flags
    BY DEF NumberAt, Lacks
  <2> QED
    BY <1>1, <1>3, <1>4, <2>1 DEF FlagSet, PopFlags
<1>7. ty \in Kind
  BY DEF Kind
<1>8. Rep(pass, x, F, Newer(pass, tree, ty)) /\ Good(x) /\ x.n # 0
  <2>1. Part(x, F)
    BY <1>4, PartPopped
  <2>2. MayPush(p.t)
    BY <1>5, StartFacts
  <2>3. x.n = p.t.n + 1 /\ p.t.n \in Nat
    BY <1>1, <1>3, GoodFacts DEF Pushed
  <2>4. Good(x) /\ x.n # 0
    BY <1>1, <1>3, <1>7, <2>2, <2>3, GoodPushed
  <2>5. Rep(pass, x, F, Newer(pass, tree, ty))
    BY <1>1, <1>3, <1>7, <2>1, RepPushed
  <2> QED
    BY <2>4, <2>5
<1>9. Newer(pass, tree, ty) = New("integer")
  BY <1>5 DEF Newer, New
<1>10. Finish(New("integer"), e, g)
  <2> DEFINE ends == {k \in pos..Len(text) : ~InNumeral(text[k])}
             first == CHOOSE k \in ends : \A j \in ends : k <= j
  <2>1. Finish(New("integer"), first, g)
    BY <1>3 DEF SkipNumber, Starts
  <2>2. e \in Nat /\ e \in pos .. Len(text) /\ pos \in Nat /\ Len(text) \in Nat
    BY <1>1
  <2>3. e \in ends
    BY <1>4, <2>2 DEF InNumeral
  <2>4. \A j \in ends : e <= j
    <3> SUFFICES ASSUME NEW j \in pos .. Len(text), text[j] \notin Numeric PROVE e <= j
      BY DEF InNumeral
    <3>1. ~(j \in p.pos .. e - 1)
      BY <1>2
    <3> QED
      BY <1>1, <2>2, <3>1
  <2>5. ends \subseteq Nat
    BY <2>2
  <2> HIDE DEF ends
  <2>6. first \in ends /\ \A j \in ends : first <= j
    BY <2>3, <2>4, Zenon
  <2> HIDE DEF first
  <2>7. first = e
    BY <2>2, <2>3, <2>4, <2>5, <2>6
  <2> QED
    BY <2>1, <2>7
<1>11. PICK tr, d : tr = New("integer") /\ d = e
  OBVIOUS
<1>12. Rep(pass, x, F, tr) /\ Finish(tr, d, g)
  BY <1>8, <1>9, <1>10, <1>11
<1>15. Good(x) /\ x.n # 0 /\ g \in SUBSET FlagSet
  BY <1>6, <1>8
<1>13. Ended(x, F, d, g)
  BY <1>12, <1>15, FinishEnds
<1>14. PopFits(x)
  BY <1>2, <1>3
<1> QED
  BY <1>1, <1>4, <1>6, <1>11, <1>13, <1>14 DEF On, GoesOn, Ended

-----------------------------------------------------------------------------
(***************************************************************************)
(* Between the passes.                                                     *)
(***************************************************************************)
LEMMA TurnStep ==
    ASSUME NEW p, NEW F, Here(p, F), pass = 1, "done" \in p.flags, NEW b, b = "eof", Trailing(b)
    PROVE  /\ On(Begin, p.t)' /\ pass' = 2 /\ UNCHANGED <<phase, cause>>
<1>1. /\ pos = p.pos /\ flags \in SUBSET FlagSet /\ flags \cap Core = p.flags
      /\ string_length \in Nat /\ Good(p.t) /\ Rep(pass, p.t, F, tree) /\ Mode(p.flags, p.t)
  BY HereFacts
<1>2. /\ pass' = 2 /\ pos' = 1 /\ flags' = {"seek_value"}
      /\ tree' = [tree EXCEPT !.top = NULL, !.root = NULL, !.alloc = tree.root]
      /\ UNCHANGED <<string_length, num_digits, phase, cause>>
  BY DEF Trailing
<1>3. p.t.n # 0 /\ p.t.n \in Nat
  BY <1>1, GoodFacts DEF Mode, AtEnd, AtStart, InArray, InObject, BehindName, InText, Lacks
<1>4. Drawn(p.t, tree)
  BY <1>1 DEF Rep
<1>5. PICK live, root : live = Values(1 .. p.t.n) /\ root = RootOf(p.t) /\ root = 1
  BY <1>3 DEF RootOf
<1>6. Framed(tree, p.t.top, root, p.t.n, live) /\ Len(tree.node) = p.t.n
  BY <1>4, <1>5, DrawnFacts
<1>7. PICK nd \in Seq(NodeType) :
          tree = [node |-> nd, top |-> p.t.top, root |-> root, alloc |-> p.t.n, live |-> live]
  BY <1>6 DEF Framed
<1>8. tree' = [node |-> nd, top |-> 0, root |-> 0, alloc |-> root, live |-> live]
  BY <1>2, <1>7 DEF NULL
<1>9. Framed(tree', 0, 0, root, live) /\ tree'.node = tree.node
  <2>1. tree'.node = tree.node
    BY <1>7, <1>8
  <2> QED
    BY <1>8, <2>1 DEF Framed
<1>10. /\ Begin.t = Blank /\ Blank.n = 0 /\ Blank.top = 0 /\ Blank.open = {} /\ Blank.named = {}
       /\ RootOf(Blank) = 0
  BY DEF Begin, Blank, RootOf
<1>11. MadeSet(Blank, p.t) = {}
  BY <1>10 DEF MadeSet
<1>12. live = Values(1 .. p.t.n) \cup Data(MadeSet(Blank, p.t))
  BY <1>5, <1>11 DEF Data
<1>13. (IF Blank.n < p.t.n THEN Blank.n + 1 ELSE 0) = root
  BY <1>3, <1>5, <1>10
<1>14. ASSUME NEW v \in 1 .. p.t.n
       PROVE  Halfway(Blank, p.t, v, tree'.node[v]) /\ Family(Blank, v, tree'.node[v])
  <2>1. PICK n : n = tree'.node[v]
    OBVIOUS
  <2>2. n = [type |-> p.t.type[v], parent |-> p.t.parent[v], length |-> p.t.length[v],
                         names |-> p.t.names[v], size |-> 0, room |-> 0,
                         next_alloc |-> Chained(p.t.n, v), keys |-> <<>>, kids |-> <<>>]
    BY <1>4, <1>9, <2>1, DrawnAt
  <2>3. n \in NodeType
    <3>1. tree.node \in Seq(NodeType) /\ Len(tree.node) = p.t.n
      BY <1>4, DrawnFacts
    <3> QED
      BY <1>9, <2>1, <3>1
  <2>4. ~(v <= 0) /\ ~Made(Blank, p.t, v)
    BY <1>10 DEF Made
  <2>5. Halfway(Blank, p.t, v, n)
    BY <2>2, <2>3, <2>4 DEF Halfway
  <2>6. n.kids = <<>> /\ n.keys = <<>>
    BY <2>2
  <2>7. Family(Blank, v, n)
    <3>1. Len(n.kids) = 0 /\ Len(n.keys) = 0 /\ 1 .. Len(n.kids) = {} /\ 1 .. Blank.n = {}
      BY <1>10, <2>6
    <3>2. ~(v <= Blank.n)
      BY <1>10, <2>4
    <3> QED
      BY <3>1, <3>2 DEF Family
  <2> QED
    BY <2>1, <2>5, <2>7
<1>15. Part(Blank, p.t)
  BY <1>3, <1>10 DEF Part
<1>16. Framed(tree', Blank.top, RootOf(Blank), IF Blank.n < p.t.n THEN Blank.n + 1 ELSE 0,
              Values(1 .. p.t.n) \cup Data(MadeSet(Blank, p.t)))
  BY <1>9, <1>10, <1>12, <1>13
<1>17. Len(tree'.node) = p.t.n
  BY <1>6, <1>9
<1>18. Redrawn(Blank, p.t, tree')
  BY <1>14, <1>15, <1>16, <1>17 DEF Redrawn
<1>19. Rep(pass', Begin.t, p.t, tree')
  BY <1>1, <1>2, <1>10, <1>18 DEF Rep
<1>20. Begin.pos = 1 /\ Begin.flags = {"seek_value"}
  BY DEF Begin
<1>21. flags' \in SUBSET FlagSet /\ flags' \cap Core = {"seek_value"} /\ "string" \notin Begin.flags
  BY <1>2, <1>20 DEF FlagSet, Core
<1> QED
  BY <1>1, <1>2, <1>19, <1>20, <1>21 DEF On

-----------------------------------------------------------------------------
(***************************************************************************)
(* The runs of the two passes.                                             *)
(***************************************************************************)
LEMMA ReadFacts ==
    ASSUME text \in Seq(Symbol), pos \in Nat \ {0}, pos <= Len(text) + 1, NEW b \in Symbol, Read(b)
    PROVE  ReadHere(b) /\ (text' = text \/ Len(text') = pos)
<1>1. CASE pos <= Len(text)
  <2>1. text' = text /\ b = text[pos]
    BY <1>1 DEF Read
  <2> QED
    BY <1>1, <2>1 DEF ReadHere, Grown
<1>2. CASE pos = Len(text) + 1
  <2>1. text' = Append(text, b)
    BY <1>2 DEF Read
  <2>2. text' \in Seq(Symbol) /\ Len(text') = pos /\ text'[pos] = b
        /\ \A k \in 1 .. Len(text) : text'[k] = text[k]
    BY <1>2, <2>1
  <2> QED
    BY <1>2, <2>2 DEF ReadHere, Grown
<1> QED
  BY <1>1, <1>2

\* The digits of a number are counted to 2.
LEMMA DigitsCounted ==
    ASSUME num_digits \in 0 .. 2, NEW b, Handle(b)
    PROVE  num_digits' \in 0 .. 2
<1>1. CASE Trailing(b) \/ Character(b) \/ SeekSpace(b) \/ CloseArray(b) \/ Comma(b) \/ Colon(b)
  BY <1>1 DEF Trailing, Character, SeekSpace, CloseArray, Comma, Colon, Continue, Fail, FailWith, Fault,
              Finish, Add, StringEnd
<1>2. CASE OpenObject(b) \/ OpenArray(b) \/ OpenString(b) \/ OpenNumber(b) \/ NoValue(b) \/ NoMemory(b)
  BY <1>2 DEF OpenObject, OpenArray, OpenString, OpenNumber, NoValue, NoMemory, Fail, FailWith
<1>7. CASE NarrowObject(b)
  BY <1>7, NarrowStep
<1>6. CASE Literal(b) \/ SkipNumber(b)
  <2>1. PICK t, p, f : Finish(t, p, f)
    BY <1>6 DEF Literal, SkipNumber
  <2> QED
    BY <2>1 DEF Finish
<1>3. CASE Object(b)
  BY <1>3 DEF Object, Continue, Finish, Fail, FailWith
<1>4. CASE Digits(b)
  <2>1. num_digits' = num_digits \/ num_digits' = IF num_digits = 2 THEN 2 ELSE num_digits + 1
    BY <1>4 DEF Digits, Fail, FailWith
  <2> QED
    BY <2>1
<1>5. CASE Number(b)
  <2>1. num_digits' = num_digits \/ num_digits' = 0
    BY <1>5 DEF Number, Continue, Finish, Fail, FailWith
  <2> QED
    BY <2>1
<1> QED
  BY <1>1, <1>2, <1>3, <1>4, <1>5, <1>6, <1>7 DEF Handle

\* The first pass goes on by one symbol at most.
LEMMA PosMoves ==
    ASSUME pass = 1, NEW b, Handle(b)
    PROVE  pos' \in {pos, pos + 1} \/ pass' = 2
<1>1. CASE Trailing(b) \/ Character(b) \/ SeekSpace(b) \/ CloseArray(b) \/ Comma(b) \/ Colon(b)
  BY <1>1 DEF Trailing, Character, SeekSpace, CloseArray, Comma, Colon, Continue, Fail, FailWith, Fault,
              Finish, Add, StringEnd, Go
<1>2. CASE OpenObject(b) \/ OpenArray(b) \/ OpenString(b) \/ Literal(b) \/ OpenNumber(b)
           \/ SkipNumber(b) \/ NoValue(b) \/ NoMemory(b)
  BY <1>2 DEF OpenObject, OpenArray, OpenString, Literal, OpenNumber, SkipNumber, NoValue, NoMemory,
              Finish, Fail, FailWith, Go
<1>3. CASE Object(b)
  BY <1>3 DEF Object, Continue, Finish, Fail, FailWith, Go
<1>4. CASE Digits(b)
  BY <1>4 DEF Digits, Fail, FailWith, Go
<1>5. CASE Number(b)
  BY <1>5 DEF Number, Continue, Finish, Fail, FailWith, Go
<1>6. CASE NarrowObject(b)
  BY <1>6, NarrowStep
<1> QED
  BY <1>1, <1>2, <1>3, <1>4, <1>5, <1>6 DEF Handle

\* Where a number begins nothing else does.
LEMMA NumberOnly ==
    ASSUME NEW p, NEW b, NEW F, Here(p, F), NumberAt(p, b), Handle(b)
    PROVE  OpenNumber(b) \/ SkipNumber(b) \/ NoMemory(b)
<1>1. /\ \A c \in Core : c \in flags <=> c \in p.flags
  BY HereFacts
<1>2. "done" \notin flags /\ "string" \notin flags /\ "seek_value" \in flags
      /\ "need_comma" \notin flags /\ "need_colon" \notin flags /\ b \in Digit \cup {"-"}
  BY <1>1 DEF NumberAt, Lacks, Core
<1>3. ~Trailing(b) /\ ~Character(b) /\ ~Comma(b) /\ ~Colon(b)
  BY <1>2 DEF Trailing, Character, Comma, Colon
<1>4. ~SeekSpace(b) /\ ~CloseArray(b) /\ ~OpenObject(b) /\ ~OpenArray(b) /\ ~OpenString(b)
      /\ ~Literal(b) /\ ~NoValue(b) /\ ~NarrowObject(b)
  BY <1>2, NarrowStep DEF SeekSpace, CloseArray, OpenObject, OpenArray, OpenString, Literal, NoValue, Digit
<1>5. ~Object(b) /\ ~Digits(b) /\ ~Number(b)
  BY <1>2 DEF Object, Digits, Number, Inside
<1> QED
  BY <1>3, <1>4, <1>5 DEF Handle

LEMMA DoneOnly ==
    ASSUME NEW p, NEW b, NEW F, Here(p, F), "done" \in p.flags, Handle(b)
    PROVE  Trailing(b)
<1>1. "done" \in flags
  BY HereFacts DEF Core
<1>2. ~Seeking /\ \A T : ~Inside(T)
  BY <1>1 DEF Seeking, Inside
<1>3. ~Character(b) /\ ~SeekSpace(b) /\ ~CloseArray(b) /\ ~Comma(b) /\ ~Colon(b)
  BY <1>1, <1>2 DEF Character, SeekSpace, CloseArray, Comma, Colon, Before
<1>4. ~StartsValue(b)
  BY <1>2 DEF StartsValue, Before
<1>5. /\ ~OpenObject(b) /\ ~OpenArray(b) /\ ~OpenString(b) /\ ~Literal(b) /\ ~OpenNumber(b)
      /\ ~SkipNumber(b) /\ ~NoValue(b) /\ ~NoMemory(b) /\ ~NarrowObject(b)
  BY <1>4, NarrowStep DEF OpenObject, OpenArray, OpenString, Literal, OpenNumber, SkipNumber, NoValue,
                          NoMemory
<1>6. ~Object(b) /\ ~Digits(b) /\ ~Number(b)
  BY <1>2 DEF Object, Digits, Number
<1> QED
  BY <1>3, <1>5, <1>6 DEF Handle

Spaces(p, txt) == p.t.n = 0 => \A k \in 1 .. p.pos - 1 : txt[k] = "ws"

Reached(p) == Here(p, Blank) \/ \E ty : Scanning(p, ty)

FirstPass == \E past : History(past, text) /\ Reached(Last(past)) /\ Spaces(Last(past), text)

\* The first pass has accepted the text.
Accepted(past, txt) ==
    "done" \in Last(past).flags /\ Last(past).pos <= Len(txt) /\ txt[Last(past).pos] = "eof"

SecondPass ==
    \E past : /\ History(past, text) /\ Accepted(past, text)
              /\ \E i \in 1 .. Len(past) : Here(past[i], Last(past).t)

LEMMA SpacesKept ==
    ASSUME NEW p, GoodSnap(p), NEW txt, Spaces(p, txt), NEW b, b = txt[p.pos], NEW q, Moves(p, b, q)
    PROVE  Spaces(q, txt)
<1> SUFFICES ASSUME q.t.n = 0 PROVE \A k \in 1 .. q.pos - 1 : txt[k] = "ws"
  BY DEF Spaces
<1>1. p.t.n \in Nat /\ p.pos \in Nat \ {0} /\ Good(p.t) /\ Mode(p.flags, p.t)
  BY DEF GoodSnap, SnapType, ShapeType
<1>2. p.t.n + 1 # 0
  BY <1>1
<1>3. CASE p.t.n # 0
  <2>1. \A t, ty, k : /\ Popped(t).n = t.n /\ Measured(t, k).n = t.n /\ NameRead(t, k).n = t.n
                      /\ Pushed(t, ty).n = t.n + 1
    BY DEF Popped, Measured, NameRead, Pushed
  <2>2. \A f, e, t, k : /\ Shift(p, f).t = p.t /\ WithSl(p, k, f).t = p.t
                        /\ At(p, e, f, t).t = t /\ Popping(p, t, e, f).t = Popped(t)
    BY DEF Shift, WithSl, Popping, At
  <2>3. TextMove(p, b, q) => q.t.n # 0
    BY <1>3, <2>1, <2>2 DEF TextMove
  <2>4. SeekMove(p, b, q) => q.t.n # 0
    BY <1>2, <1>3, <2>1, <2>2 DEF SeekMove
  <2>5. ObjectMove(p, b, q) => q.t.n # 0
    BY <1>3, <2>1, <2>2 DEF ObjectMove
  <2> QED
    BY <1>3, <2>2, <2>3, <2>4, <2>5 DEF Moves
<1>4. CASE p.t.n = 0
  <2>1. p.flags = {"seek_value"}
    BY <1>1, <1>4 DEF Mode, AtEnd, AtStart, InArray, InObject, BehindName, InText
  <2>2. SeekMove(p, b, q)
    BY <2>1 DEF Moves
  <2>3. \A t, ty, e, f : Popping(p, Pushed(t, ty), e, f).t.n = t.n + 1 /\ At(p, e, f, Pushed(t, ty)).t.n = t.n + 1
    BY DEF Popping, At, Popped, Pushed
  <2>4. [pos |-> p.pos + 1, flags |-> (p.flags \ {"seek_value"}) \cup {"string"}, sl |-> 0,
         t |-> Pushed(p.t, "string")].t.n = p.t.n + 1
    BY DEF Pushed
  <2>5. b = "ws" /\ q = Shift(p, p.flags)
    BY <1>2, <1>4, <2>1, <2>2, <2>3, <2>4 DEF SeekMove
  <2>6. q.pos = p.pos + 1
    BY <2>5 DEF Shift, At
  <2>7. \A k \in 1 .. q.pos - 1 : k = p.pos \/ k \in 1 .. p.pos - 1
    BY <1>1, <2>6
  <2> QED
    BY <1>4, <2>5, <2>7 DEF Spaces
<1> QED
  BY <1>3, <1>4

LEMMA SpacesGrow ==
    ASSUME NEW old, NEW txt, Grown(old, txt), NEW p, p.pos \in Nat, p.pos <= Len(old) + 1, Spaces(p, old)
    PROVE  Spaces(p, txt)
<1> SUFFICES ASSUME p.t.n = 0, NEW k \in 1 .. p.pos - 1 PROVE txt[k] = "ws"
  BY DEF Spaces
<1>1. Len(old) \in Nat
  BY DEF Grown
<1>2. k \in 1 .. Len(old) /\ old[k] = "ws"
  BY <1>1 DEF Spaces
<1> QED
  BY <1>2 DEF Grown

\* One more step of the first pass.
LEMMA FirstGoes ==
    ASSUME text' \in Seq(Symbol), NEW past, History(past, text'),
           NEW q, StepTo(text', Last(past), q), Spaces(q, text'),
           On(q, Blank)', pass' = 1, phase' = "parse"
    PROVE  FirstPass'
<1>1. PICK txt \in Seq(Symbol) : txt = text'
  OBVIOUS
<1>2. History(Append(past, q), txt) /\ Last(Append(past, q)) = q
  BY <1>1, HistoryAppends
<1>3. PICK new : new = Append(past, q)
  OBVIOUS
<1>4. GoodSnap(q)
  BY <1>2, HistoryLast
<1>5. Here(q, Blank)'
  BY <1>4 DEF Here
<1> QED
  BY <1>1, <1>2, <1>3, <1>5 DEF FirstPass, Reached

\* What a step of the first pass comes to.
Onward == /\ cause' = cause /\ phase' = "parse"
          /\ \/ pass' = 1 /\ FirstPass'
             \/ pass' = 2 /\ SecondPass'

GivesUp == pass' = 1 /\ phase' = "unwind" /\ cause' \in {"syntax", "overflow", "memory"} /\ Doomed(tree')

Stumbles(b) == /\ pass' = 1 /\ phase' = "fault" /\ cause' = cause /\ UNCHANGED <<pos, tree>>
               /\ b = "]" /\ \A k \in 1 .. pos - 1 : text'[k] = "ws"

LEMMA FirstStepHere ==
    ASSUME NEW past, History(past, text'), text' \in Seq(Symbol), Here(Last(past), Blank), pass = 1,
           Spaces(Last(past), text'), NEW b, ReadHere(b), Handle(b)
    PROVE  Onward \/ GivesUp \/ Stumbles(b)
<1>1. PICK p : p = Last(past)
  OBVIOUS
<1>2. /\ GoodSnap(p) /\ Here(p, Blank) /\ Spaces(p, text')
  BY <1>1 DEF Here
<1>3. pos = p.pos /\ pos \in Nat \ {0} /\ Good(p.t) /\ Rep(pass, p.t, Blank, tree)
  BY <1>2, HereFacts
<1>4. phase = "parse" /\ Drawn(p.t, tree) /\ p.pos <= Len(text') /\ text'[p.pos] = b
  BY <1>2, <1>3 DEF Here, Rep, ReadHere
<1>5. ASSUME NoMemory(b) PROVE GivesUp
  <2>1. phase' = "unwind" /\ cause' = "memory" /\ tree' = [tree EXCEPT !.alloc = tree.root] /\ pass' = 1
    BY <1>5 DEF NoMemory, FailWith
  <2>2. Doomed(tree')
    BY <1>3, <1>4, <2>1, DrawnDoomed
  <2> QED
    BY <2>1, <2>2 DEF GivesUp
<1>6. CASE NumberAt(p, b)
  <2>1. OpenNumber(b) \/ NoMemory(b)
    BY <1>2, <1>6, NumberOnly DEF SkipNumber
  <2>2. CASE OpenNumber(b)
    <3>1. Scanning(p, "integer")' /\ GoesOn
      BY <1>2, <1>6, <2>2, OpenNumberStep
    <3>2. Reached(Last(past))'
      BY <1>1, <3>1 DEF Reached
    <3>3. Spaces(Last(past), text')
      OBVIOUS
    <3>4. FirstPass'
      BY <3>2, <3>3 DEF FirstPass
    <3> QED
      BY <1>4, <3>1, <3>4 DEF GoesOn, Onward
  <2> QED
    BY <1>5, <2>1, <2>2
<1>7. CASE ~NumberAt(p, b)
  <2>1. Ahead(p, b, Blank)
    BY DEF Ahead
  <2>2. Outcome(p, b, Blank) \/ Special(p, b)
    BY <1>2, <2>1, LoopStep
  <2>3. ASSUME NEW q, Moves(p, b, q), On(q, Blank)', GoesOn PROVE Onward
    <3>1. StepTo(text', p, q)
      BY <1>4, <1>7, <2>3 DEF StepTo
    <3>2. Spaces(q, text')
      BY <1>2, <1>4, <2>3, SpacesKept
    <3>3. StepTo(text', Last(past), q) /\ On(q, Blank)' /\ pass' = 1 /\ phase' = "parse"
      BY <1>1, <1>4, <2>3, <3>1 DEF GoesOn
    <3>4. FirstPass'
      BY <3>2, <3>3, FirstGoes
    <3> QED
      BY <2>3, <3>3, <3>4 DEF GoesOn, Onward
  <2>4. CASE Broken
    BY <2>4 DEF Broken, GivesUp
  <2>5. CASE "done" \in p.flags /\ b = "eof" /\ Trailing(b)
    <3>1. On(Begin, p.t)' /\ pass' = 2 /\ UNCHANGED <<phase, cause>>
      BY <1>2, <2>5, TurnStep
    <3>2. Len(past) \in Nat \ {0} /\ past[1] = Begin
      BY HistoryLast DEF History
    <3>3. Here(Begin, p.t)'
      BY <1>4, <3>1, GoodBegin DEF Here
    <3>4. Accepted(past, text')
      BY <1>1, <1>4, <2>5 DEF Accepted
    <3>5. \E i \in 1 .. Len(past) : Here(past[i], Last(past).t)'
      <4>1. PICK i \in 1 .. Len(past) : i = 1
        BY <3>2
      <4>2. Here(past[i], Last(past).t)'
        BY <1>1, <3>2, <3>3, <4>1
      <4> QED
        BY <4>2
    <3>6. SecondPass'
      BY <3>4, <3>5 DEF SecondPass
    <3> QED
      BY <1>4, <3>1, <3>6 DEF Onward
  <2>6. CASE p.t.n = 0 /\ b = "]" /\ Seeking /\ tree.top = NULL /\ Fault
    BY <1>2, <1>3, <2>6 DEF Fault, Stumbles, Spaces
  <2>7. ~NarrowObject(b)
    BY NarrowStep
  <2> QED
    BY <1>5, <1>7, <2>2, <2>3, <2>4, <2>5, <2>6, <2>7 DEF Outcome, Special
<1> QED
  BY <1>6, <1>7

LEMMA FirstStepScan ==
    ASSUME NEW past, History(past, text'), text' \in Seq(Symbol), NEW ty, Scanning(Last(past), ty),
           Spaces(Last(past), text'), NEW b, ReadHere(b), Handle(b)
    PROVE  Onward \/ GivesUp
<1>1. PICK p : p = Last(past)
  OBVIOUS
<1>2. Scanning(p, ty) /\ pass = 1 /\ phase = "parse" /\ p.t.n \in Nat
  BY <1>1, ScanFacts, GoodFacts DEF Scanning
<1>3. ScanOutcome(p, Blank)
  BY <1>2, ScanStep
<1>4. CASE Broken
  BY <1>2, <1>4 DEF Broken, GivesUp
<1>5. ASSUME NEW up, Scanning(p, up)', GoesOn PROVE Onward
  <2>1. Reached(Last(past))'
    BY <1>1, <1>5 DEF Reached
  <2>2. FirstPass'
    BY <2>1 DEF FirstPass
  <2> QED
    BY <1>2, <1>5, <2>2 DEF GoesOn, Onward
<1>6. ASSUME NEW q, StepTo(text', p, q), On(q, Blank)', GoesOn PROVE Onward
  <2>1. p.pos \in Nat \ {0} /\ GoodSnap(p)
    BY <1>2, ScanFacts DEF Scanning
  <2>2. Scanned(p, text', pos)
    BY <1>2, <2>1, ScannedGrows DEF Scanning, ReadHere
  <2>3. NumberMove(text', p, q)
    BY <1>6, <2>2 DEF StepTo, Scanned
  <2>4. q.t.n # 0
    <3>1. \A t, k : Popped(Pushed(t, k)).n = t.n + 1
      BY DEF Popped, Pushed
    <3>2. \A t, e, f : Popping(p, t, e, f).t = Popped(t)
      BY DEF Popping, At
    <3>3. q.t.n = p.t.n + 1
      BY <2>3, <3>1, <3>2 DEF NumberMove
    <3> QED
      BY <1>2, <3>3
  <2>5. Spaces(q, text')
    BY <2>4 DEF Spaces
  <2>6. StepTo(text', Last(past), q) /\ pass' = 1 /\ phase' = "parse"
    BY <1>1, <1>2, <1>6 DEF GoesOn
  <2>7. FirstPass'
    BY <1>6, <2>5, <2>6, FirstGoes
  <2> QED
    BY <1>6, <2>6, <2>7 DEF GoesOn, Onward
<1> QED
  BY <1>3, <1>4, <1>5, <1>6 DEF ScanOutcome

LEMMA FirstStep ==
    ASSUME FirstPass, pass = 1, pos \in Nat, pos <= Len(text) + 1, NEW b, ReadHere(b), Handle(b)
    PROVE  Onward \/ GivesUp \/ Stumbles(b)
<1>1. PICK past : History(past, text) /\ Reached(Last(past)) /\ Spaces(Last(past), text)
  BY DEF FirstPass
<1>2. Grown(text, text') /\ text' \in Seq(Symbol) /\ text \in Seq(Symbol)
  BY DEF ReadHere, Grown
<1>3. History(past, text')
  <2>1. PICK old, txt : old = text /\ txt = text'
    OBVIOUS
  <2>2. Grown(old, txt) /\ History(past, old)
    BY <1>1, <1>2, <2>1
  <2>3. History(past, txt)
    BY <2>2, HistoryGrows
  <2> QED
    BY <2>1, <2>3
<1>4. Last(past).pos \in Nat /\ Last(past).pos <= Len(text) + 1
  <2>1. CASE Here(Last(past), Blank)
    BY <2>1 DEF Here, On
  <2>2. ASSUME NEW ty, Scanning(Last(past), ty) PROVE Last(past).pos \in Nat /\ Last(past).pos <= Len(text) + 1
    BY <1>2, <2>2 DEF Scanning, Scanned, GoodSnap, SnapType
  <2> QED
    BY <1>1, <2>1, <2>2 DEF Reached
<1>5. Spaces(Last(past), text')
  <2>1. PICK old, txt, p : old = text /\ txt = text' /\ p = Last(past)
    OBVIOUS
  <2>2. Grown(old, txt) /\ p.pos \in Nat /\ p.pos <= Len(old) + 1 /\ Spaces(p, old)
    BY <1>1, <1>2, <1>4, <2>1
  <2>3. Spaces(p, txt)
    BY <2>2, SpacesGrow
  <2> QED
    BY <2>1, <2>3
<1>6. CASE Here(Last(past), Blank)
  BY <1>2, <1>3, <1>5, <1>6, FirstStepHere
<1>7. ASSUME NEW ty, Scanning(Last(past), ty) PROVE Onward \/ GivesUp
  BY <1>2, <1>3, <1>5, <1>7, FirstStepScan
<1> QED
  BY <1>1, <1>6, <1>7 DEF Reached

-----------------------------------------------------------------------------
\* The parse has ended, and F is what it has made.
Ready(F, tr) == Good(F) /\ F.n # 0 /\ F.top = 1 /\ F.named = {} /\ Redrawn(F, F, tr)

\* There was no memory for the members of the value behind t.
Short(t, F, tr) == /\ Good(t) /\ Good(F) /\ Redrawn(t, F, tr)
                   /\ t.n < F.n /\ F.type[t.n + 1] \in Sized

Succeeds == pass' = 2 /\ phase' = "ok" /\ cause' = cause /\ tree' = tree /\ \E F : Ready(F, tree)

RunsShort == /\ pass' = 2 /\ phase' = "unwind" /\ cause' = "memory" /\ tree' = Taken(tree)
             /\ \E t, F : Short(t, F, tree)

Overruns == /\ pass' = 2 /\ phase' = "fault" /\ cause' = cause /\ tree' = tree
            /\ Narrow(tree.node[tree.alloc])

LEMMA LePart == ASSUME NEW p, NEW q, Le(p, q) PROVE Part(p.t, q.t)
BY DEF Le, Part

LEMMA DoneReady ==
    ASSUME NEW p, Here(p, p.t), pass = 2, "done" \in p.flags
    PROVE  Ready(p.t, tree)
<1>1. Good(p.t) /\ Rep(pass, p.t, p.t, tree) /\ Mode(p.flags, p.t)
  BY HereFacts
<1>2. AtEnd(p.flags, p.t)
  BY <1>1 DEF Mode, AtStart, InArray, InObject, BehindName, InText, Lacks
<1>3. \A v \in p.t.open : v = 1
  <2>1. \A v \in p.t.open : v \in 1 .. p.t.n /\ v <= 1
    BY <1>1, <1>2 DEF Good, Path, AtEnd
  <2> QED
    BY <2>1, <1>1, GoodFacts
<1>4. p.t.named = {}
  BY <1>1, <1>2, <1>3 DEF Good, AtEnd
<1> QED
  BY <1>1, <1>2, <1>4 DEF Ready, Rep, AtEnd

LEMMA StartedOne ==
    ASSUME NEW p, NEW F, Here(p, F), NEW b, StartsValue(b), NEW txt, NEW q,
           b = txt[p.pos], StepTo(txt, p, q)
    PROVE  q.t.n = p.t.n + 1
<1>1. \A t, ty : Pushed(t, ty).n = t.n + 1 /\ Popped(Pushed(t, ty)).n = t.n + 1
  BY DEF Popped, Pushed
<1>2. \A t, e, f : Popping(p, t, e, f).t = Popped(t) /\ At(p, e, f, t).t = t
  BY DEF Popping, At
<1>3. CASE NumberMove(txt, p, q)
  BY <1>1, <1>2, <1>3 DEF NumberMove
<1>4. CASE Moves(p, b, q)
  <2>1. \/ \E e, f, ty : q = At(p, e, f, Pushed(p.t, ty))
        \/ \E f : q = [pos |-> p.pos + 1, flags |-> f, sl |-> 0, t |-> Pushed(p.t, "string")]
        \/ \E e, f, ty : q = Popping(p, Pushed(p.t, ty), e, f)
    BY <1>4, StartFacts
  <2> QED
    BY <1>1, <1>2, <2>1
<1> QED
  BY <1>3, <1>4 DEF StepTo

LEMMA SecondStep ==
    ASSUME SecondPass, pass = 2, text \in Seq(Symbol), NEW b, Read(b), Handle(b)
    PROVE  Onward \/ Succeeds \/ RunsShort \/ Overruns
<1>1. PICK past : /\ History(past, text) /\ Accepted(past, text)
                  /\ \E i \in 1 .. Len(past) : Here(past[i], Last(past).t)
  BY DEF SecondPass
<1>2. PICK n \in Nat \ {0} : n = Len(past)
  BY <1>1, HistoryLast
<1>3. PICK i \in 1 .. n : Here(past[i], Last(past).t)
  BY <1>1, <1>2
<1>4. PICK p, L, F : p = past[i] /\ L = Last(past) /\ F = L.t
  OBVIOUS
<1>5. Here(p, F) /\ phase = "parse" /\ pos = p.pos /\ Le(p, L) /\ GoodSnap(p) /\ p \in SnapType
  BY <1>1, <1>2, <1>3, <1>4 DEF Here, On, History, GoodSnap
<1>6. L = past[n] /\ "done" \in L.flags /\ L.pos <= Len(text) /\ text[L.pos] = "eof"
  BY <1>1, <1>2, <1>4, HistoryLast DEF Accepted
<1>7. CASE i = n
  <2>1. p = L
    BY <1>4, <1>6, <1>7
  <2>2. text' = text /\ b = "eof"
    BY <1>5, <1>6, <2>1 DEF Read
  <2>3. Trailing(b)
    BY <1>5, <1>6, <2>1, DoneOnly
  <2>4. phase' = "ok" /\ UNCHANGED <<pass, tree, cause>>
    BY <2>2, <2>3 DEF Trailing
  <2>5. Ready(F, tree)
    BY <1>4, <1>5, <1>6, <2>1, DoneReady
  <2> QED
    BY <2>4, <2>5 DEF Succeeds
<1>8. CASE i # n
  <2>1. PICK j \in 1 .. n : j = i + 1
    BY <1>8
  <2>2. i \in 1 .. n - 1
    BY <1>8
  <2>3. PICK q : q = past[j]
    OBVIOUS
  <2>4. StepTo(text, p, q)
    BY <1>1, <1>2, <1>4, <2>1, <2>2, <2>3 DEF History
  <2>5. GoodSnap(q) /\ Part(q.t, F)
    <3>1. GoodSnap(q) /\ Le(q, L)
      BY <1>1, <1>2, <1>4, <2>3 DEF History
    <3> QED
      BY <1>4, <3>1, LePart
  <2>6. text' = text /\ b = text[p.pos]
    BY <1>5, <2>4 DEF Read, StepTo
  <2>7. ASSUME On(q, F)', GoesOn PROVE Onward
    <3>1. Here(q, F)'
      BY <1>5, <2>5, <2>7 DEF Here, GoesOn
    <3>2. SecondPass'
      <4>1. Here(past[j], Last(past).t)'
        BY <1>4, <2>3, <3>1
      <4>2. History(past, text') /\ Accepted(past, text')
        BY <1>1, <2>6
      <4> QED
        BY <1>2, <4>1, <4>2 DEF SecondPass
    <3> QED
      BY <1>5, <2>7, <3>2 DEF Onward, GoesOn
  <2>8. ASSUME StartsValue(b), Type(tree, tree.alloc) \in Sized, FailWith(Taken(tree), "memory")
        PROVE  RunsShort
    <3>1. /\ StartsValue(b) /\ Type(tree, tree.alloc) \in Sized
          /\ phase' = "unwind" /\ cause' = "memory" /\ tree' = Taken(tree) /\ pass' = 2
      BY <2>8 DEF FailWith
    <3>2. q.t.n = p.t.n + 1
      BY <1>5, <2>4, <2>6, <3>1, StartedOne
    <3>3. Good(p.t) /\ Redrawn(p.t, F, tree) /\ Good(F)
      BY <1>5, HereFacts DEF Rep
    <3>4. p.t.n \in Nat /\ F.n \in Nat
      BY <3>3, GoodFacts
    <3>5. p.t.n < F.n /\ p.t.n + 1 \in 1 .. F.n
      BY <2>5, <3>2, <3>4 DEF Part
    <3>6. tree.alloc = p.t.n + 1
      <4>1. PICK live, root : live = Values(1 .. F.n) \cup Data(MadeSet(p.t, F)) /\ root = RootOf(p.t)
        OBVIOUS
      <4>2. Framed(tree, p.t.top, root, IF p.t.n < F.n THEN p.t.n + 1 ELSE 0, live)
        BY <3>3, <4>1, RedrawnFacts
      <4>3. PICK alloc : alloc = IF p.t.n < F.n THEN p.t.n + 1 ELSE 0
        OBVIOUS
      <4>4. Framed(tree, p.t.top, root, alloc, live)
        BY <4>2, <4>3
      <4> QED
        BY <3>5, <4>3, <4>4, FramedFacts
    <3>7. PICK v \in 1 .. F.n : v = p.t.n + 1
      BY <3>5
    <3>8. tree.node[v].type = F.type[v]
      BY <3>3, RedrawnAt
    <3>9. F.type[p.t.n + 1] \in Sized
      BY <3>1, <3>6, <3>7, <3>8 DEF Type
    <3>10. Short(p.t, F, tree)
      BY <3>3, <3>5, <3>9 DEF Short
    <3> QED
      BY <3>1, <3>10 DEF RunsShort
  <2>11. ASSUME NoMemory(b) PROVE RunsShort
    BY <2>8, <2>11 DEF NoMemory
  <2>12. ASSUME NarrowObject(b) PROVE RunsShort \/ Overruns
    <3>1. CASE FailWith(Taken(tree), "memory")
      BY <2>8, <2>12, <3>1, NarrowStep
    <3>2. CASE Fault
      BY <2>12, <3>2, NarrowStep DEF Fault, Overruns
    <3> QED
      BY <2>12, <3>1, <3>2, NarrowStep
  <2>9. CASE NumberAt(p, b)
    <3>1. SkipNumber(b) \/ NoMemory(b)
      BY <1>5, <2>9, NumberOnly DEF OpenNumber
    <3>2. NumberMove(text, p, q)
      BY <2>4, <2>6, <2>9 DEF StepTo
    <3>3. text[q.pos] \notin Numeric
      <4>1. CASE j = n
        BY <1>6, <2>3, <4>1 DEF Numeric, Digit
      <4>2. CASE j # n
        <5>1. PICK r : r = past[j + 1]
          OBVIOUS
        <5>2. StepTo(text, q, r)
          BY <1>1, <1>2, <2>1, <2>3, <4>2, <5>1 DEF History
        <5> QED
          BY <1>5, <2>6, <2>9, <3>2, <5>2, NumberEnds
      <4> QED
        BY <4>1, <4>2
    <3>4. ASSUME SkipNumber(b) PROVE On(q, F)' /\ GoesOn
      BY <1>5, <2>5, <2>9, <3>2, <3>3, <3>4, SkipStep
    <3> QED
      BY <2>7, <2>11, <3>1, <3>4
  <2>10. CASE ~NumberAt(p, b)
    <3>1. Moves(p, b, q) /\ b # "eof"
      <4>1. Moves(p, b, q)
        BY <2>4, <2>6, <2>10 DEF StepTo
      <4> QED
        BY <4>1 DEF Moves, TextMove, SeekMove, ObjectMove
    <3>2. Ahead(p, b, F)
      BY <2>5, <3>1 DEF Ahead
    <3>3. Outcome(p, b, F) \/ Special(p, b)
      BY <1>5, <3>2, LoopStep
    <3>4. ASSUME NEW r, Moves(p, b, r), On(r, F)', GoesOn PROVE Onward
      <4>1. r = q
        BY <3>1, <3>4, MovesOnce
      <4> QED
        BY <2>7, <3>4, <4>1
    <3>5. ~(p.t.n = 0 /\ b = "]" /\ Seeking)
      <4> SUFFICES ASSUME p.t.n = 0, b = "]", Seeking PROVE FALSE
        OBVIOUS
      <4>1. SeekMove(p, b, q)
        BY <1>5, <3>1, SeekFacts
      <4> QED
        BY <4>1 DEF SeekMove
    <3> QED
      BY <2>10, <2>11, <2>12, <3>1, <3>3, <3>4, <3>5 DEF Outcome, NoMore, Special
  <2> QED
    BY <2>9, <2>10
<1> QED
  BY <1>7, <1>8

-----------------------------------------------------------------------------
\* Within what the first pass has measured.
Fits(n, f, k, inside) ==
    /\ n.length <= n.size /\ n.names <= n.room
    /\ Len(n.kids) <= n.size /\ Len(n.keys) <= n.size
    /\ "string" \in f /\ inside =>
          IF n.type = "string" THEN k <= n.size ELSE n.names + k < n.room

LEMMA MadeFits ==
    ASSUME NEW p, GoodSnap(p), NEW L, GoodSnap(L), Le(p, L), "string" \notin L.flags, L.t.named = {},
           NEW v \in 1 .. p.t.n, NEW n, Halfway(p.t, L.t, v, n), Family(p.t, v, n),
           L.t.type[v] \in Sized
    PROVE  Fits(n, p.flags, p.sl, v = p.t.top)
<1>1. /\ p.t.n \in Nat /\ v \in Nat /\ p.t.length[v] \in Nat /\ p.t.names[v] \in Nat /\ p.sl \in Nat
      /\ L.t.length[v] \in Nat /\ L.t.names[v] \in Nat
  <2>1. p.t.n \in Nat
    BY DEF GoodSnap, SnapType, ShapeType
  <2>2. v \in Nat
    BY <2>1
  <2>3. p.t.length[v] \in Nat /\ p.t.names[v] \in Nat /\ p.sl \in Nat
    BY <2>2 DEF GoodSnap, SnapType, ShapeType
  <2>4. L.t.length[v] \in Nat /\ L.t.names[v] \in Nat
    BY <2>2 DEF GoodSnap, SnapType, ShapeType
  <2> QED
    BY <2>1, <2>2, <2>3, <2>4
<1>2. /\ n.length = p.t.length[v] /\ n.names = p.t.names[v]
      /\ n.size = L.t.length[v] /\ n.room = L.t.names[v]
      /\ n.type = L.t.type[v] /\ L.t.type[v] = p.t.type[v]
  <2>1. Made(p.t, L.t, v)
    BY <1>1 DEF Made
  <2>2. L.t.type[v] = p.t.type[v]
    BY DEF Le
  <2> QED
    BY <2>1, <2>2 DEF Halfway
<1>3. Extent(L, v) = L.t.length[v] /\ NamesExtent(L, v) = L.t.names[v]
  BY <1>1 DEF Extent, NamesExtent, Writing
<1>4. Extent(p, v) <= L.t.length[v] /\ NamesExtent(p, v) <= L.t.names[v]
  BY <1>3 DEF Le
<1>5. PICK one, k, m : /\ one = (IF v \in p.t.named THEN 1 ELSE 0)
                       /\ k = (IF Writing(p, v) /\ p.t.type[v] = "string" THEN p.sl ELSE 0)
                       /\ m = (IF Writing(p, v) /\ p.t.type[v] = "object" THEN p.sl + 1 ELSE 0)
  OBVIOUS
<1>6. /\ one \in Nat /\ k \in Nat /\ m \in Nat
      /\ p.t.length[v] + one + k <= L.t.length[v] /\ p.t.names[v] + m <= L.t.names[v]
  BY <1>1, <1>4, <1>5 DEF Extent, NamesExtent
<1>7. n.length <= n.size /\ n.names <= n.room /\ p.t.length[v] + one <= n.size
  BY <1>1, <1>2, <1>6
<1>8. Len(n.kids) <= n.size
  <2>1. Len(n.kids) = p.t.length[v] \/ Len(n.kids) = 0
    BY DEF Family
  <2> QED
    BY <1>1, <1>2, <1>7, <2>1
<1>9. Len(n.keys) <= n.size
  <2>1. Len(n.keys) = p.t.length[v] + one \/ Len(n.keys) = 0
    BY <1>5 DEF Family
  <2> QED
    BY <1>1, <1>2, <1>7, <2>1
<1>10. ASSUME "string" \in p.flags, v = p.t.top
       PROVE  IF n.type = "string" THEN p.sl <= n.size ELSE n.names + p.sl < n.room
  <2>1. Writing(p, v)
    BY <1>10 DEF Writing
  <2>2. CASE n.type = "string"
    <3>1. k = p.sl
      BY <1>2, <1>5, <2>1, <2>2
    <3> QED
      BY <1>1, <1>2, <1>6, <2>2, <3>1
  <2>3. CASE n.type # "string"
    <3>1. "done" \notin p.flags /\ p.t.type[p.t.top] = "object"
      BY <1>2, <1>10, <2>3 DEF GoodSnap, Mode, AtEnd, AtStart, InArray, InObject, BehindName, InText, Lacks
    <3>2. m = p.sl + 1
      BY <1>5, <1>10, <2>1, <3>1
    <3> QED
      BY <1>1, <1>2, <1>6, <2>3, <3>2
  <2> QED
    BY <2>2, <2>3
<1> QED
  BY <1>7, <1>8, <1>9, <1>10 DEF Fits

LEMMA AtTheEnd ==
    ASSUME NEW p, GoodSnap(p), "done" \in p.flags
    PROVE  "string" \notin p.flags /\ p.t.named = {} /\ p.t.top = 1 /\ p.t.n # 0
<1>1. Good(p.t) /\ Mode(p.flags, p.t)
  BY DEF GoodSnap
<1>2. AtEnd(p.flags, p.t)
  BY <1>1 DEF Mode, AtStart, InArray, InObject, BehindName, InText, Lacks
<1>3. \A v \in p.t.open : v = 1
  <2>1. \A v \in p.t.open : v \in 1 .. p.t.n /\ v <= 1
    BY <1>1, <1>2 DEF Good, Path, AtEnd
  <2> QED
    BY <2>1, <1>1, GoodFacts
<1> QED
  BY <1>1, <1>2, <1>3 DEF Good, AtEnd

LEMMA SecondFits ==
    ASSUME SecondPass, pass = 2, text \in Seq(Symbol)
    PROVE  WritesFit /\ pos <= Len(text)
<1>1. PICK past : /\ History(past, text) /\ Accepted(past, text)
                  /\ \E i \in 1 .. Len(past) : Here(past[i], Last(past).t)
  BY DEF SecondPass
<1>2. PICK n \in Nat \ {0} : n = Len(past)
  BY <1>1, HistoryLast
<1>3. PICK i \in 1 .. n : Here(past[i], Last(past).t)
  BY <1>1, <1>2
<1>4. PICK p, L, F : p = past[i] /\ L = Last(past) /\ F = L.t
  OBVIOUS
<1>5. Here(p, F) /\ pos = p.pos /\ Le(p, L) /\ GoodSnap(p)
  BY <1>1, <1>2, <1>3, <1>4 DEF Here, On, History
<1>6. L = past[n] /\ GoodSnap(L) /\ "done" \in L.flags /\ L.pos <= Len(text)
  BY <1>1, <1>2, <1>4, HistoryLast DEF Accepted
<1>7. "string" \notin L.flags /\ F.named = {}
  BY <1>4, <1>6, AtTheEnd
<1>8. pos <= Len(text)
  <2>1. CASE i = n
    BY <1>4, <1>5, <1>6, <2>1
  <2>2. CASE i # n
    <3>1. StepTo(text, p, past[i + 1])
      BY <1>1, <1>2, <1>4, <2>2 DEF History
    <3> QED
      BY <1>5, <3>1 DEF StepTo
  <2> QED
    BY <2>1, <2>2
<1>9. /\ Redrawn(p.t, F, tree) /\ Good(p.t) /\ Good(F)
      /\ \A c \in Core : c \in flags <=> c \in p.flags
      /\ "string" \in p.flags => string_length = p.sl
  BY <1>5, HereFacts DEF Rep
<1>10. ASSUME NEW v \in 1 .. Len(tree.node), <<"data", v>> \in tree.live
       PROVE  Fits(tree.node[v], flags, string_length, tree.top = v)
  <2>1. v \in 1 .. F.n /\ tree.top = p.t.top /\ F.n \in Nat /\ p.t.n \in Nat
    BY <1>9, RedrawnFacts, GoodFacts
  <2>2. v \in MadeSet(p.t, F)
    <3>1. PICK live, root, alloc : /\ live = Values(1 .. F.n) \cup Data(MadeSet(p.t, F)) /\ root = RootOf(p.t)
                                   /\ alloc = IF p.t.n < F.n THEN p.t.n + 1 ELSE 0
      OBVIOUS
    <3>2. Framed(tree, p.t.top, root, alloc, live)
      BY <1>9, <3>1, RedrawnFacts
    <3>3. <<"data", v>> \in live
      BY <1>10, <3>2, FramedFacts
    <3> QED
      BY <3>1, <3>3 DEF Values, Data
  <2>3. v \in 1 .. p.t.n /\ F.type[v] \in Sized
    BY <2>2 DEF MadeSet
  <2>4. PICK m : m = tree.node[v]
    OBVIOUS
  <2>5. Halfway(p.t, F, v, m) /\ Family(p.t, v, m)
    BY <1>9, <2>1, <2>4, RedrawnAt
  <2>6. Fits(m, p.flags, p.sl, v = p.t.top)
    BY <1>4, <1>5, <1>6, <1>7, <2>3, <2>5, MadeFits
  <2> QED
    BY <1>9, <2>1, <2>4, <2>6 DEF Fits, Core
<1>11. WritesFit
  BY <1>10 DEF WritesFit, Fits
<1> QED
  BY <1>8, <1>11

LEMMA ReadyUsed ==
    ASSUME NEW F, Ready(F, tree)
    PROVE  AllUsed
<1>1. Redrawn(F, F, tree) /\ Good(F)
  BY DEF Ready
<1>2. F.n \in Nat /\ Len(tree.node) = F.n
  BY <1>1, RedrawnFacts, GoodFacts
<1>3. tree.alloc = 0
  <2>1. PICK live, root, alloc : /\ live = Values(1 .. F.n) \cup Data(MadeSet(F, F)) /\ root = RootOf(F)
                                 /\ alloc = IF F.n < F.n THEN F.n + 1 ELSE 0
    OBVIOUS
  <2>2. Framed(tree, F.top, root, alloc, live)
    BY <1>1, <2>1, RedrawnFacts
  <2> QED
    BY <1>2, <2>1, <2>2, FramedFacts
<1>4. ASSUME NEW v \in 1 .. Len(tree.node), tree.node[v].type \in Sized
      PROVE  tree.node[v].length = tree.node[v].size /\ tree.node[v].names = tree.node[v].room
  <2>1. v \in 1 .. F.n
    BY <1>2
  <2>2. Halfway(F, F, v, tree.node[v])
    BY <1>1, <2>1, RedrawnAt
  <2>3. Made(F, F, v)
    BY <1>4, <2>1, <2>2 DEF Made, Halfway
  <2> QED
    BY <2>2, <2>3 DEF Halfway
<1> QED
  BY <1>3, <1>4 DEF AllUsed, NULL

-----------------------------------------------------------------------------
(***************************************************************************)
(* Freeing what a call has made.                                           *)
(***************************************************************************)
Whole(tr) ==
    /\ Framed(tr, tr.top, tr.root, tr.alloc, tr.live)
    /\ {tr.top, tr.root, tr.alloc} \subseteq 0 .. Len(tr.node)
    /\ tr.live \subseteq {"value", "data"} \X (1 .. Len(tr.node))

LEMMA BlocksIn ==
    ASSUME NEW n \in Nat, NEW A, A \subseteq 1 .. n
    PROVE  /\ Values(A) \subseteq {"value", "data"} \X (1 .. n)
           /\ Data(A) \subseteq {"value", "data"} \X (1 .. n)
BY DEF Values, Data

LEMMA DrawnWhole ==
    ASSUME NEW t, Good(t), NEW tr, Drawn(t, tr)
    PROVE  Whole(tr)
<1>1. t.n \in Nat /\ t.top \in 0 .. t.n
  BY GoodFacts
<1>2. PICK live, root : live = Values(1 .. t.n) /\ root = RootOf(t)
  OBVIOUS
<1>3. Framed(tr, t.top, root, t.n, live) /\ Len(tr.node) = t.n
  BY <1>2, DrawnFacts
<1>4. tr.top = t.top /\ tr.root = root /\ tr.alloc = t.n /\ tr.live = live
  BY <1>3, FramedFacts
<1>5. root \in 0 .. t.n
  BY <1>1, <1>2 DEF RootOf
<1>6. live \subseteq {"value", "data"} \X (1 .. t.n)
  BY <1>1, <1>2, BlocksIn
<1> QED
  BY <1>1, <1>3, <1>4, <1>5, <1>6 DEF Whole

LEMMA RedrawnFields ==
    ASSUME NEW t, Good(t), NEW F, Good(F), NEW tr, Redrawn(t, F, tr)
    PROVE  /\ Framed(tr, tr.top, tr.root, tr.alloc, tr.live) /\ Len(tr.node) = F.n
           /\ tr.top = t.top /\ tr.root = RootOf(t) /\ tr.alloc = (IF t.n < F.n THEN t.n + 1 ELSE 0)
           /\ tr.live = Values(1 .. F.n) \cup Data(MadeSet(t, F))
           /\ t.n \in Nat /\ F.n \in Nat /\ t.n <= F.n /\ Part(t, F)
<1>1. PICK live, root, alloc : /\ live = Values(1 .. F.n) \cup Data(MadeSet(t, F)) /\ root = RootOf(t)
                               /\ alloc = IF t.n < F.n THEN t.n + 1 ELSE 0
  OBVIOUS
<1>2. Framed(tr, t.top, root, alloc, live) /\ Len(tr.node) = F.n /\ Part(t, F)
  BY <1>1, RedrawnFacts
<1>3. tr.top = t.top /\ tr.root = root /\ tr.alloc = alloc /\ tr.live = live
  BY <1>2, FramedFacts
<1>4. t.n \in Nat /\ F.n \in Nat
  BY GoodFacts
<1> QED
  BY <1>1, <1>2, <1>3, <1>4 DEF Part

LEMMA RedrawnWhole ==
    ASSUME NEW t, Good(t), NEW F, Good(F), NEW tr, Redrawn(t, F, tr)
    PROVE  Whole(tr)
<1>1. /\ Framed(tr, tr.top, tr.root, tr.alloc, tr.live) /\ Len(tr.node) = F.n
      /\ tr.top = t.top /\ tr.root = RootOf(t) /\ tr.alloc = (IF t.n < F.n THEN t.n + 1 ELSE 0)
      /\ tr.live = Values(1 .. F.n) \cup Data(MadeSet(t, F))
      /\ t.n \in Nat /\ F.n \in Nat /\ t.n <= F.n
  BY RedrawnFields
<1>2. t.top \in 0 .. t.n
  BY GoodFacts
<1>3. tr.root \in 0 .. F.n /\ tr.alloc \in 0 .. F.n /\ tr.top \in 0 .. F.n
  BY <1>1, <1>2 DEF RootOf
<1>4. MadeSet(t, F) \subseteq 1 .. F.n
  BY <1>1 DEF MadeSet
<1>5. tr.live \subseteq {"value", "data"} \X (1 .. F.n)
  BY <1>1, <1>4, BlocksIn
<1> QED
  BY <1>1, <1>3, <1>5 DEF Whole

LEMMA DoomedWhole ==
    ASSUME NEW tr, Doomed(tr)
    PROVE  Whole(tr)
<1>1. PICK n \in Nat : n = Len(tr.node)
  BY DEF Doomed, Framed
<1>2. tr.live \subseteq {"value", "data"} \X (1 .. n)
  <2>1. CASE tr.alloc = 0
    BY <2>1 DEF Doomed
  <2>2. CASE tr.alloc # 0
    <3>1. tr.alloc .. n \subseteq 1 .. n
      BY <1>1, <2>2 DEF Doomed
    <3> QED
      BY <1>1, <2>2, <3>1, BlocksIn DEF Doomed
  <2> QED
    BY <2>1, <2>2
<1> QED
  BY <1>1, <1>2 DEF Doomed, Whole

\* The first value of the chain is freed.
Unlinked(tr) == [Released(tr, {<<"value", tr.alloc>>}) EXCEPT !.alloc = tr.node[tr.alloc].next_alloc]

LEMMA UnlinkedFields ==
    ASSUME NEW tr, Whole(tr), tr.alloc # 0, NEW out, out = Unlinked(tr),
           \A v \in 1 .. Len(tr.node) : tr.node[v].next_alloc = Chained(Len(tr.node), v)
    PROVE  /\ Whole(out) /\ out.node = tr.node /\ out.top = tr.top /\ out.root = tr.root
           /\ out.alloc = Chained(Len(tr.node), tr.alloc) /\ out.live = tr.live \ {<<"value", tr.alloc>>}
           /\ Len(tr.node) \in Nat /\ tr.alloc \in 1 .. Len(tr.node) /\ out.alloc \in 0 .. Len(tr.node)
<1>0. PICK top, root, alloc, live : top = tr.top /\ root = tr.root /\ alloc = tr.alloc /\ live = tr.live
  OBVIOUS
<1>a. PICK nd \in Seq(NodeType) :
          tr = [node |-> nd, top |-> top, root |-> root, alloc |-> alloc, live |-> live]
  BY <1>0 DEF Whole, Framed
<1>1. /\ tr = [node |-> nd, top |-> top, root |-> root, alloc |-> alloc, live |-> live]
      /\ top = tr.top /\ root = tr.root /\ alloc = tr.alloc /\ live = tr.live
  BY <1>0, <1>a
<1>2. nd = tr.node
  BY <1>1
<1>3. PICK n \in Nat : n = Len(nd)
  OBVIOUS
<1>4. alloc \in 1 .. n /\ top \in 0 .. n /\ root \in 0 .. n
      /\ live \subseteq {"value", "data"} \X (1 .. n)
  BY <1>1, <1>2, <1>3 DEF Whole
<1>5. PICK next, less : next = Chained(n, alloc) /\ less = live \ {<<"value", alloc>>}
  OBVIOUS
<1>6. next = nd[alloc].next_alloc
  BY <1>2, <1>3, <1>4, <1>5
<1>7. out = [node |-> nd, top |-> top, root |-> root, alloc |-> next, live |-> less]
  BY <1>1, <1>2, <1>5, <1>6 DEF Unlinked, Released
<1>8. next \in 0 .. n
  BY <1>4, <1>5 DEF Chained
<1>9. less \subseteq {"value", "data"} \X (1 .. n)
  BY <1>4, <1>5
<1>10. out.node = nd /\ out.top = top /\ out.root = root /\ out.alloc = next /\ out.live = less
  BY <1>7
<1>11. Framed(out, top, root, next, less)
  BY <1>7 DEF Framed
<1>12. Whole(out)
  BY <1>3, <1>4, <1>8, <1>9, <1>10, <1>11 DEF Whole
<1> QED
  BY <1>1, <1>2, <1>3, <1>4, <1>5, <1>8, <1>10, <1>12

LEMMA DoomedGoes ==
    ASSUME NEW tr, Doomed(tr), tr.alloc # 0, NEW out, out = Unlinked(tr)
    PROVE  Doomed(out)
<1>1. Whole(tr) /\ \A v \in 1 .. Len(tr.node) : tr.node[v].next_alloc = Chained(Len(tr.node), v)
  BY DoomedWhole DEF Doomed
<1>2. /\ Whole(out) /\ out.node = tr.node /\ out.top = tr.top /\ out.root = tr.root
      /\ out.alloc = Chained(Len(tr.node), tr.alloc) /\ out.live = tr.live \ {<<"value", tr.alloc>>}
      /\ Len(tr.node) \in Nat /\ tr.alloc \in 1 .. Len(tr.node) /\ out.alloc \in 0 .. Len(tr.node)
  BY <1>1, UnlinkedFields
<1>3. PICK n, a : n = Len(tr.node) /\ a = tr.alloc /\ n \in Nat /\ a \in 1 .. n
  BY <1>2
<1>4. tr.live = Values(a .. n)
  BY <1>3 DEF Doomed
<1>5. out.live = IF out.alloc = 0 THEN {} ELSE Values(out.alloc .. n)
  <2>1. CASE a = n
    <3>1. a .. n = {a} /\ out.alloc = 0
      BY <1>2, <1>3, <2>1 DEF Chained
    <3> QED
      BY <1>2, <1>3, <1>4, <3>1 DEF Values
  <2>2. CASE a # n
    <3>1. \A v : v \in a + 1 .. n <=> v \in a .. n /\ v # a
      BY <1>3
    <3>2. out.alloc = a + 1 /\ out.alloc # 0
      BY <1>2, <1>3, <2>2 DEF Chained
    <3> QED
      BY <1>2, <1>3, <1>4, <3>1, <3>2 DEF Values
  <2> QED
    BY <2>1, <2>2
<1> QED
  BY <1>1, <1>2, <1>3, <1>5 DEF Doomed, Whole

-----------------------------------------------------------------------------
(***************************************************************************)
(* The walk: W are the values it may still free, O those on its way from   *)
(* the root to top.                                                        *)
(***************************************************************************)
Rooted(nd, W) ==
    W \subseteq 1 .. Len(nd) /\ \A v \in W : nd[v].parent \in 0 .. v - 1 /\ (nd[v].parent = 0 <=> v = 1)

Way(nd, top, W, O) ==
    /\ O \subseteq W
    /\ IF top = 0 THEN O = {} ELSE top \in O /\ 1 \in O
    /\ \A v \in O : v <= top /\ nd[v].parent \in O \cup {0}
    /\ \A u, v \in O : u < v => u <= nd[v].parent

\* What it will use is in use.
InUse(nd, live, W) ==
    \A v \in W : <<"value", v>> \in live /\ (nd[v].type \in Sized => <<"data", v>> \in live)

\* The members that are left have not been freed and are not on the way.
Sound(nd, W, O) ==
    \A v \in W : nd[v].type \in Holders =>
        /\ nd[v].length <= Len(nd[v].kids)
        /\ \A i \in 1 .. nd[v].length : nd[v].kids[i] \in W \ O /\ nd[nd[v].kids[i]].parent = v
        /\ \A i, j \in 1 .. nd[v].length : nd[v].kids[i] = nd[v].kids[j] => i = j

Walk(nd, live, top, W, O) ==
    /\ nd \in Seq(NodeType)
    /\ Rooted(nd, W) /\ Way(nd, top, W, O) /\ InUse(nd, live, W) /\ Sound(nd, W, O)

\* Nothing is left out.
Listed(nd, c) == /\ nd[nd[c].parent].type \in Holders
                 /\ \E i \in 1 .. nd[nd[c].parent].length : nd[nd[c].parent].kids[i] = c

Exact(nd, live, top, W, O) ==
    /\ live = Values(W) \cup Data({v \in W : nd[v].type \in Sized})
    /\ \A c \in W \ O : nd[c].parent \in W /\ Listed(nd, c)
    /\ top = 0 => W = {}

\* Every set of numbers has a least one: the principle behind the proofs that
\* would otherwise be by induction.
LEMMA LeastNumber ==
    ASSUME NEW T \in SUBSET Nat, T # {}
    PROVE  \E n \in T : \A m \in 0 .. n - 1 : m \notin T
<1>1. IsWellFoundedOn(OpToRel(<, Nat), Nat)
  BY NatLessThanWellFounded
<1>2. PICK n \in T : \A y \in T : ~(<<y, n>> \in OpToRel(<, Nat))
  BY <1>1, WFMin
<1>3. \A m \in 0 .. n - 1 : <<m, n>> \in OpToRel(<, Nat)
  BY DEF OpToRel
<1> QED
  BY <1>2, <1>3

LEMMA NodeFacts ==
    ASSUME NEW nd \in Seq(NodeType), NEW v \in 1 .. Len(nd)
    PROVE  nd[v] \in NodeType /\ nd[v].length \in Nat /\ Len(nd[v].kids) \in Nat
<1>1. PICK x \in NodeType : x = nd[v]
  OBVIOUS
<1>2. x.length \in Nat /\ Len(x.kids) \in Nat
  BY DEF NodeType
<1> QED
  BY <1>1, <1>2

\* A member is counted down.
Counted(nd, v) == [nd EXCEPT ![v] = [nd[v] EXCEPT !.length = @ - 1]]

LEMMA CountedFacts ==
    ASSUME NEW nd \in Seq(NodeType), NEW v \in 1 .. Len(nd), nd[v].length > 0, NEW new, new = Counted(nd, v)
    PROVE  /\ new \in Seq(NodeType) /\ Len(new) = Len(nd)
           /\ \A w \in 1 .. Len(nd) : /\ new[w].type = nd[w].type /\ new[w].parent = nd[w].parent
                                      /\ new[w].kids = nd[w].kids
                                      /\ new[w].length = IF w = v THEN nd[v].length - 1 ELSE nd[w].length
<1>1. PICK x : x = [nd[v] EXCEPT !.length = @ - 1]
  OBVIOUS
<1>2. nd[v] \in NodeType /\ nd[v].length - 1 \in Nat
  <2>1. nd[v] \in NodeType /\ nd[v].length \in Nat
    BY NodeFacts
  <2> QED
    BY <2>1
<1>3. /\ x \in NodeType /\ x.type = nd[v].type /\ x.parent = nd[v].parent /\ x.kids = nd[v].kids
      /\ x.length = nd[v].length - 1
  BY <1>1, <1>2 DEF NodeType
<1>4. new = [nd EXCEPT ![v] = x]
  BY <1>1 DEF Counted
<1>5. /\ new \in Seq(NodeType) /\ Len(new) = Len(nd)
      /\ \A w \in 1 .. Len(nd) : new[w] = IF w = v THEN x ELSE nd[w]
  BY <1>3, <1>4, SetNode
<1> QED
  BY <1>3, <1>5

LEMMA WalkDescends ==
    ASSUME NEW nd, NEW live, NEW top, NEW W, NEW O, Walk(nd, live, top, W, O),
           top # 0, nd[top].type \in Holders, nd[top].length > 0,
           NEW new, new = Counted(nd, top), NEW c, c = nd[top].kids[nd[top].length]
    PROVE  /\ Walk(new, live, c, W, O \cup {c}) /\ <<"data", top>> \in live /\ c \in 1 .. Len(nd)
           /\ Exact(nd, live, top, W, O) => Exact(new, live, c, W, O \cup {c})
<1>1. /\ nd \in Seq(NodeType) /\ top \in O /\ 1 \in O /\ O \subseteq W /\ W \subseteq 1 .. Len(nd)
      /\ top \in 1 .. Len(nd)
  BY DEF Walk, Way, Rooted
<1>2. /\ new \in Seq(NodeType) /\ Len(new) = Len(nd)
      /\ \A w \in 1 .. Len(nd) : /\ new[w].type = nd[w].type /\ new[w].parent = nd[w].parent
                                 /\ new[w].kids = nd[w].kids
                                 /\ new[w].length = IF w = top THEN nd[top].length - 1 ELSE nd[w].length
  BY <1>1, CountedFacts
<1>3. PICK k \in Nat \ {0} : k = nd[top].length
  <2>1. nd[top].length \in Nat
    BY <1>1, NodeFacts
  <2> QED
    BY <2>1
<1>4. /\ c \in W \ O /\ nd[c].parent = top /\ k <= Len(nd[top].kids)
      /\ \A i, j \in 1 .. k : nd[top].kids[i] = nd[top].kids[j] => i = j
  <2>1. k \in 1 .. nd[top].length
    BY <1>3
  <2> QED
    BY <1>1, <1>3, <2>1 DEF Walk, Sound
<1>5. c \in 1 .. Len(nd) /\ top < c /\ c # 1
  <2>1. c \in 1 .. Len(nd) /\ nd[c].parent \in 0 .. c - 1
    BY <1>1, <1>4 DEF Walk, Rooted
  <2> QED
    BY <1>1, <1>4, <2>1
<1>6. Rooted(new, W)
  BY <1>1, <1>2 DEF Walk, Rooted
<1>7. InUse(new, live, W)
  BY <1>1, <1>2 DEF Walk, InUse
<1>8. Way(new, c, W, O \cup {c})
  <2>1. \A v \in O : v \in 1 .. Len(nd) /\ v <= top /\ nd[v].parent \in O \cup {0}
    BY <1>1 DEF Walk, Way
  <2>2. \A v \in O \cup {c} : v <= c /\ new[v].parent \in (O \cup {c}) \cup {0}
    <3> SUFFICES ASSUME NEW v \in O \cup {c} PROVE v <= c /\ new[v].parent \in (O \cup {c}) \cup {0}
      OBVIOUS
    <3>1. CASE v = c
      <4>1. new[c].parent = top /\ c <= c
        BY <1>2, <1>4, <1>5
      <4> QED
        BY <1>1, <3>1, <4>1
    <3>2. CASE v \in O
      <4>1. v \in 1 .. Len(nd) /\ v <= top /\ nd[v].parent \in O \cup {0}
        BY <2>1, <3>2
      <4>2. v <= c
        BY <1>1, <1>5, <4>1
      <4> QED
        BY <1>2, <4>1, <4>2
    <3> QED
      BY <3>1, <3>2
  <2>3. ASSUME NEW u \in O \cup {c}, NEW v \in O \cup {c}, u < v PROVE u <= new[v].parent
    <3>1. u \in O
      <4>1. v \in 1 .. Len(nd) /\ v <= c
        BY <1>5, <2>1, <2>2
      <4>2. u # c
        BY <1>5, <2>3, <4>1
      <4> QED
        BY <4>2
    <3>2. CASE v = c
      BY <1>2, <1>4, <1>5, <2>1, <3>1, <3>2
    <3>3. CASE v \in O
      <4>1. u <= nd[v].parent
        BY <2>3, <3>1, <3>3 DEF Walk, Way
      <4> QED
        BY <1>2, <2>1, <3>3, <4>1
    <3> QED
      BY <3>2, <3>3
  <2>4. O \cup {c} \subseteq W /\ c \in O \cup {c} /\ 1 \in O \cup {c} /\ c # 0
    BY <1>1, <1>4, <1>5
  <2> QED
    BY <2>2, <2>3, <2>4 DEF Way
<1>9. Sound(new, W, O \cup {c})
  <2> SUFFICES ASSUME NEW v \in W, new[v].type \in Holders
               PROVE  /\ new[v].length <= Len(new[v].kids)
                      /\ \A i \in 1 .. new[v].length : new[v].kids[i] \in W \ (O \cup {c})
                                                       /\ new[new[v].kids[i]].parent = v
                      /\ \A i, j \in 1 .. new[v].length : new[v].kids[i] = new[v].kids[j] => i = j
    BY DEF Sound
  <2>1. v \in 1 .. Len(nd) /\ new[v].kids = nd[v].kids /\ nd[v].type \in Holders
        /\ nd[v].length \in Nat /\ Len(nd[v].kids) \in Nat
    <3>1. v \in 1 .. Len(nd)
      BY <1>1
    <3> QED
      BY <1>1, <1>2, <3>1, NodeFacts
  <2>2. /\ nd[v].length <= Len(nd[v].kids)
        /\ \A i \in 1 .. nd[v].length : nd[v].kids[i] \in W \ O /\ nd[nd[v].kids[i]].parent = v
        /\ \A i, j \in 1 .. nd[v].length : nd[v].kids[i] = nd[v].kids[j] => i = j
    BY <2>1 DEF Walk, Sound
  <2>3. ASSUME NEW i \in 1 .. new[v].length
        PROVE  i \in 1 .. nd[v].length /\ nd[v].kids[i] # c
    <3>1. CASE v = top
      <4>1. new[v].length = k - 1 /\ nd[v].length = k
        BY <1>1, <1>2, <1>3, <3>1
      <4>2. i \in 1 .. k /\ i # k /\ k \in 1 .. k
        BY <1>3, <4>1
      <4>3. nd[top].kids[i] # nd[top].kids[k]
        BY <1>4, <4>2
      <4> QED
        BY <1>3, <3>1, <4>1, <4>2, <4>3
    <3>2. CASE v # top
      <4>1. i \in 1 .. nd[v].length
        BY <1>2, <2>1, <3>2
      <4>2. nd[nd[v].kids[i]].parent = v
        BY <2>2, <4>1
      <4> QED
        BY <1>4, <3>2, <4>1, <4>2
    <3> QED
      BY <3>1, <3>2
  <2>4. new[v].length <= nd[v].length
    BY <1>2, <1>3, <2>1
  <2>5. new[v].length <= Len(new[v].kids)
    <3>1. new[v].length \in Nat
      BY <1>2, <1>3, <2>1
    <3> QED
      BY <2>1, <2>2, <2>4, <3>1
  <2>6. ASSUME NEW i \in 1 .. new[v].length
        PROVE  new[v].kids[i] \in W \ (O \cup {c}) /\ new[new[v].kids[i]].parent = v
    <3>1. nd[v].kids[i] \in W \ O /\ nd[nd[v].kids[i]].parent = v /\ nd[v].kids[i] # c
      BY <2>2, <2>3, <2>6
    <3> QED
      BY <1>1, <1>2, <2>1, <3>1
  <2>7. \A i, j \in 1 .. new[v].length : new[v].kids[i] = new[v].kids[j] => i = j
    BY <2>1, <2>2, <2>3
  <2> QED
    BY <2>5, <2>6, <2>7
<1>10. <<"data", top>> \in live
  BY <1>1 DEF Walk, InUse, Holders, Sized
<1>11. Walk(new, live, c, W, O \cup {c})
  BY <1>2, <1>6, <1>7, <1>8, <1>9 DEF Walk
<1>12. ASSUME Exact(nd, live, top, W, O) PROVE Exact(new, live, c, W, O \cup {c})
  <2>1. {v \in W : new[v].type \in Sized} = {v \in W : nd[v].type \in Sized}
    BY <1>1, <1>2
  <2>2. ASSUME NEW d \in W \ (O \cup {c}) PROVE new[d].parent \in W /\ Listed(new, d)
    <3>1. d \in W \ O /\ d # c /\ d \in 1 .. Len(nd)
      BY <1>1, <2>2
    <3>2. PICK u : u = nd[d].parent
      OBVIOUS
    <3>3. u \in W /\ nd[u].type \in Holders /\ u \in 1 .. Len(nd) /\ nd[u].length \in Nat
      <4>1. u \in W /\ nd[u].type \in Holders
        BY <1>12, <3>1, <3>2 DEF Exact, Listed
      <4>2. u \in 1 .. Len(nd)
        BY <1>1, <4>1
      <4> QED
        BY <1>1, <4>1, <4>2, NodeFacts
    <3>4. PICK i \in 1 .. nd[u].length : nd[u].kids[i] = d
      BY <1>12, <3>1, <3>2 DEF Exact, Listed
    <3>5. i \in 1 .. new[u].length
      <4>1. CASE u = top
        <5>1. i # k
          BY <1>3, <3>1, <3>4, <4>1
        <5>2. new[u].length = k - 1
          BY <1>2, <1>3, <3>3, <4>1
        <5> QED
          BY <1>3, <3>4, <4>1, <5>1, <5>2
      <4>2. CASE u # top
        BY <1>2, <3>3, <4>2
      <4> QED
        BY <4>1, <4>2
    <3>6. new[d].parent = u /\ new[u].kids = nd[u].kids /\ new[u].type = nd[u].type
      BY <1>2, <3>1, <3>2, <3>3
    <3>7. new[u].kids[i] = d
      BY <3>4, <3>6
    <3> QED
      BY <3>3, <3>5, <3>6, <3>7 DEF Listed
  <2>3. c # 0
    BY <1>5
  <2> QED
    BY <1>12, <2>1, <2>2, <2>3 DEF Exact
<1> QED
  BY <1>5, <1>10, <1>11, <1>12

\* The value is freed with what it has.
LEMMA WalkFrees ==
    ASSUME NEW nd, NEW live, NEW top, NEW W, NEW O, Walk(nd, live, top, W, O),
           top # 0, ~(nd[top].type \in Holders /\ nd[top].length > 0),
           NEW less, less = live \ {<<"value", top>>, <<"data", top>>},
           NEW up, up = nd[top].parent
    PROVE  /\ Walk(nd, less, up, W \ {top}, O \ {top}) /\ up \in 0 .. Len(nd) /\ top \in 1 .. Len(nd)
           /\ Exact(nd, live, top, W, O) => Exact(nd, less, up, W \ {top}, O \ {top})
<1>1. /\ nd \in Seq(NodeType) /\ top \in O /\ 1 \in O /\ O \subseteq W /\ W \subseteq 1 .. Len(nd)
      /\ top \in 1 .. Len(nd) /\ top \in W
  BY DEF Walk, Way, Rooted
<1>2. \A v \in O : v \in 1 .. Len(nd) /\ v <= top /\ nd[v].parent \in O \cup {0} /\ nd[v].parent \in 0 .. v - 1
  BY <1>1 DEF Walk, Way, Rooted
<1>3. up \in 0 .. top - 1 /\ (up = 0 <=> top = 1) /\ up \in O \cup {0}
  BY <1>1 DEF Walk, Rooted, Way
<1>4. Rooted(nd, W \ {top})
  BY DEF Walk, Rooted
<1>5. InUse(nd, less, W \ {top})
  BY DEF Walk, InUse
<1>6. Sound(nd, W \ {top}, O \ {top})
  <2> SUFFICES ASSUME NEW v \in W \ {top}, nd[v].type \in Holders
               PROVE  /\ nd[v].length <= Len(nd[v].kids)
                      /\ \A i \in 1 .. nd[v].length : nd[v].kids[i] \in (W \ {top}) \ (O \ {top})
                                                       /\ nd[nd[v].kids[i]].parent = v
                      /\ \A i, j \in 1 .. nd[v].length : nd[v].kids[i] = nd[v].kids[j] => i = j
    BY DEF Sound
  <2>1. /\ nd[v].length <= Len(nd[v].kids)
        /\ \A i \in 1 .. nd[v].length : nd[v].kids[i] \in W \ O /\ nd[nd[v].kids[i]].parent = v
        /\ \A i, j \in 1 .. nd[v].length : nd[v].kids[i] = nd[v].kids[j] => i = j
    BY DEF Walk, Sound
  <2> QED
    BY <1>1, <2>1
<1>7. Way(nd, up, W \ {top}, O \ {top})
  <2>1. O \ {top} \subseteq W \ {top}
    BY <1>1
  <2>2. CASE up = 0
    <3>1. \A v \in O : v = 1
      BY <1>2, <1>3, <2>2
    <3>2. O \ {top} = {}
      BY <1>3, <2>2, <3>1
    <3> QED
      BY <2>2, <3>2 DEF Way
  <2>3. CASE up # 0
    <3>1. up \in O \ {top} /\ 1 \in O \ {top}
      BY <1>1, <1>3, <2>3
    <3>2. ASSUME NEW v \in O \ {top} PROVE v <= up /\ nd[v].parent \in (O \ {top}) \cup {0}
      <4>1. v < top
        BY <1>1, <1>2, <3>2
      <4>2. v <= up
        BY <1>1, <3>2, <4>1 DEF Walk, Way
      <4>3. nd[v].parent # top
        BY <1>1, <1>2, <3>2, <4>1
      <4> QED
        BY <1>2, <3>2, <4>2, <4>3
    <3>3. \A u, v \in O \ {top} : u < v => u <= nd[v].parent
      BY DEF Walk, Way
    <3> QED
      BY <2>1, <2>3, <3>1, <3>2, <3>3 DEF Way
  <2> QED
    BY <2>2, <2>3
<1>8. Walk(nd, less, up, W \ {top}, O \ {top}) /\ up \in 0 .. Len(nd)
  BY <1>1, <1>3, <1>4, <1>5, <1>6, <1>7 DEF Walk
<1>9. ASSUME Exact(nd, live, top, W, O) PROVE Exact(nd, less, up, W \ {top}, O \ {top})
  <2>1. less = Values(W \ {top}) \cup Data({v \in W \ {top} : nd[v].type \in Sized})
    <3>1. live = Values(W) \cup Data({v \in W : nd[v].type \in Sized})
      BY <1>9 DEF Exact
    <3> QED
      BY <3>1 DEF Values, Data
  <2>2. ASSUME NEW c \in (W \ {top}) \ (O \ {top}) PROVE nd[c].parent \in W \ {top} /\ Listed(nd, c)
    <3>1. c \in W \ O
      BY <2>2
    <3>2. nd[c].parent \in W /\ Listed(nd, c)
      BY <1>9, <3>1 DEF Exact
    <3>3. nd[c].parent # top
      <4> SUFFICES ASSUME nd[c].parent = top PROVE FALSE
        OBVIOUS
      <4>1. nd[top].type \in Holders /\ \E i \in 1 .. nd[top].length : TRUE
        BY <3>2 DEF Listed
      <4>2. nd[top].length \in Nat
        BY <1>1, NodeFacts
      <4> QED
        BY <4>1, <4>2
    <3> QED
      BY <3>2, <3>3
  <2>3. ASSUME up = 0 PROVE W \ {top} = {}
    <3> DEFINE R == W \ {top}
    <3>1. top = 1 /\ O \ {top} = {}
      BY <1>3, <1>7, <2>3 DEF Way
    <3>2. \A c \in R : c \in Nat /\ nd[c].parent \in R /\ nd[c].parent < c /\ nd[c].parent \in Nat
      <4> SUFFICES ASSUME NEW c \in R PROVE c \in Nat /\ nd[c].parent \in R /\ nd[c].parent < c /\ nd[c].parent \in Nat
        OBVIOUS
      <4>1. nd[c].parent \in R
        BY <2>2, <3>1
      <4>2. c \in 1 .. Len(nd) /\ nd[c].parent \in 0 .. c - 1
        BY <1>4 DEF Rooted
      <4> QED
        BY <4>1, <4>2
    <3> HIDE DEF R
    <3>3. SUFFICES ASSUME R # {} PROVE FALSE
      BY DEF R
    <3>4. R \in SUBSET Nat
      BY <3>2
    <3>5. PICK least \in R : \A c \in R : least <= c
      BY <3>3, <3>4, LeastNumber
    <3> QED
      BY <3>2, <3>5
  <2> QED
    BY <2>1, <2>2, <2>3 DEF Exact
<1> QED
  BY <1>1, <1>8, <1>9

LEMMA RedrawnValue ==
    ASSUME NEW t, Good(t), NEW F, Good(F), NEW tr, Redrawn(t, F, tr), NEW v \in 1 .. t.n,
           NEW n, n = tr.node[v]
    PROVE  /\ n \in NodeType /\ n.type = F.type[v] /\ n.type = t.type[v] /\ n.parent = t.parent[v]
           /\ Family(t, v, n)
           /\ n.type \in Sized => n.length = t.length[v] /\ <<"data", v>> \in tr.live
           /\ <<"value", v>> \in tr.live /\ n.parent \in 0 .. v - 1 /\ (n.parent = 0 <=> v = 1)
<1>1. /\ Len(tr.node) = F.n /\ tr.live = Values(1 .. F.n) \cup Data(MadeSet(t, F))
      /\ t.n \in Nat /\ F.n \in Nat /\ t.n <= F.n /\ Part(t, F)
  BY RedrawnFields
<1>2. PICK w : w = v
  OBVIOUS
<1>3. w \in 1 .. t.n /\ w \in 1 .. F.n /\ w <= t.n
  BY <1>1, <1>2
<1>4. Halfway(t, F, w, n) /\ Family(t, w, n)
  BY <1>2, <1>3, RedrawnAt
<1>5. F.type[w] = t.type[w] /\ F.parent[w] = t.parent[w]
  BY <1>1, <1>3 DEF Part
<1>6. n \in NodeType /\ n.type = F.type[w] /\ n.parent = t.parent[w]
      /\ (n.type \in Sized => n.length = t.length[w])
  BY <1>3, <1>4, <1>5 DEF Halfway, Made
<1>7. <<"value", w>> \in tr.live /\ (n.type \in Sized => <<"data", w>> \in tr.live)
  BY <1>1, <1>3, <1>6 DEF Values, Data, MadeSet
<1>8. n.parent \in 0 .. v - 1 /\ (n.parent = 0 <=> v = 1)
  <2>1. t.parent[v] \in 0 .. v - 1 /\ (t.parent[v] = 0 <=> v = 1)
    BY DEF Good
  <2> QED
    BY <1>2, <1>6, <2>1
<1>9. /\ n \in NodeType /\ n.type = F.type[v] /\ n.type = t.type[v] /\ n.parent = t.parent[v]
      /\ Family(t, v, n)
  BY <1>2, <1>4, <1>5, <1>6
<1>10. n.type \in Sized => n.length = t.length[v] /\ <<"data", v>> \in tr.live
  BY <1>2, <1>6, <1>7
<1>11. <<"value", v>> \in tr.live
  BY <1>2, <1>7
<1> QED
  BY <1>8, <1>9, <1>10, <1>11

\* Value v is in the tree as in the snapshot, and in use.
Kept(t, nd, live, v) ==
    /\ nd[v].type = t.type[v] /\ nd[v].parent = t.parent[v] /\ Family(t, v, nd[v])
    /\ nd[v].type \in Sized => nd[v].length = t.length[v] /\ <<"data", v>> \in live
    /\ <<"value", v>> \in live
    /\ nd[v].parent \in 0 .. v - 1 /\ (nd[v].parent = 0 <=> v = 1)

LEMMA RedrawnValues ==
    ASSUME NEW t, Good(t), NEW F, Good(F), NEW tr, Redrawn(t, F, tr), NEW nd, nd = tr.node,
           NEW W, W = 1 .. t.n
    PROVE  \A v \in W : Kept(t, nd, tr.live, v)
<1> SUFFICES ASSUME NEW v \in W PROVE Kept(t, nd, tr.live, v)
  OBVIOUS
<1>1. PICK u \in 1 .. t.n : u = v
  OBVIOUS
<1>2. Kept(t, nd, tr.live, u)
  BY RedrawnValue DEF Kept
<1> QED
  BY <1>1, <1>2

LEMMA HalfWalk ==
    ASSUME NEW t, Good(t), NEW F, Good(F), NEW tr, Redrawn(t, F, tr), t.n # 0,
           NEW W, W = 1 .. t.n
    PROVE  Walk(tr.node, tr.live, 1, W, {1})
<1>0. Len(tr.node) = F.n /\ t.n \in Nat /\ F.n \in Nat /\ t.n <= F.n
  BY RedrawnFields
<1>00. tr.node \in Seq(NodeType)
  BY RedrawnFacts
<1>1. /\ Len(tr.node) = F.n /\ t.n \in Nat /\ F.n \in Nat /\ t.n <= F.n
      /\ tr.node \in Seq(NodeType)
  BY <1>0, <1>00
<1>2. PICK nd : nd = tr.node
  OBVIOUS
<1>3. W \subseteq 1 .. Len(nd) /\ 1 \in W
  BY <1>1, <1>2
<1>0a. \A v \in W : Kept(t, nd, tr.live, v)
  BY <1>2, RedrawnValues
<1>4. \A v \in W : /\ nd[v].type = t.type[v] /\ nd[v].parent = t.parent[v] /\ Family(t, v, nd[v])
                   /\ nd[v].type \in Sized => nd[v].length = t.length[v] /\ <<"data", v>> \in tr.live
                   /\ <<"value", v>> \in tr.live
                   /\ nd[v].parent \in 0 .. v - 1 /\ (nd[v].parent = 0 <=> v = 1)
  BY <1>0a DEF Kept
<1>5. Rooted(nd, W)
  BY <1>3, <1>4 DEF Rooted
<1>6. Way(nd, 1, W, {1})
  <2>1. nd[1].parent = 0 /\ {1} \subseteq W
    BY <1>3, <1>4
  <2> QED
    BY <2>1 DEF Way
<1>7. InUse(nd, tr.live, W)
  BY <1>4 DEF InUse
<1>8. Sound(nd, W, {1})
  <2> SUFFICES ASSUME NEW v \in W, nd[v].type \in Holders
               PROVE  /\ nd[v].length <= Len(nd[v].kids)
                      /\ \A i \in 1 .. nd[v].length : nd[v].kids[i] \in W \ {1}
                                                      /\ nd[nd[v].kids[i]].parent = v
                      /\ \A i, j \in 1 .. nd[v].length : nd[v].kids[i] = nd[v].kids[j] => i = j
    BY DEF Sound
  <2>1. PICK m : m = nd[v]
    OBVIOUS
  <2>2. Family(t, v, m) /\ m.type \in Holders /\ m.length = t.length[v] /\ v <= t.n /\ v # 0
    <3>1. v <= t.n /\ v # 0
      BY <1>1
    <3>2. m.type \in Holders /\ m.type \in Sized
      BY <2>1 DEF Holders, Sized
    <3> QED
      BY <1>4, <2>1, <3>1, <3>2
  <2>3. Len(m.kids) = m.length
    BY <2>2 DEF Family
  <2>4. \A i \in 1 .. m.length : m.kids[i] \in W /\ t.parent[m.kids[i]] = v
    BY <2>2, <2>3 DEF Family
  <2>5. \A i \in 1 .. m.length : m.kids[i] # 1
    <3>1. t.parent[1] = 0
      BY <1>3, <1>4
    <3> QED
      BY <2>2, <2>4, <3>1
  <2>6. \A i, j \in 1 .. m.length : m.kids[i] = m.kids[j] => i = j
    BY <2>2, <2>3 DEF Family
  <2>7. m.length <= Len(m.kids)
    <3>1. v \in 1 .. Len(nd)
      BY <1>3
    <3>2. m.length \in Nat
      BY <1>1, <1>2, <2>1, <3>1, NodeFacts
    <3> QED
      BY <2>3, <3>2
  <2>8. ASSUME NEW i \in 1 .. m.length PROVE m.kids[i] \in W \ {1} /\ nd[m.kids[i]].parent = v
    <3>1. PICK c : c = m.kids[i]
      OBVIOUS
    <3>2. c \in W /\ t.parent[c] = v /\ c # 1
      BY <2>4, <2>5, <2>8, <3>1
    <3>3. nd[c].parent = v
      BY <1>4, <3>2
    <3> QED
      BY <3>1, <3>2, <3>3
  <2> QED
    BY <2>1, <2>6, <2>7, <2>8
<1> QED
  BY <1>1, <1>2, <1>5, <1>6, <1>7, <1>8 DEF Walk

LEMMA ReadyWalk ==
    ASSUME NEW F, NEW tr, Ready(F, tr), NEW W, W = 1 .. F.n
    PROVE  Walk(tr.node, tr.live, 1, W, {1}) /\ Exact(tr.node, tr.live, 1, W, {1})
<1>1. Good(F) /\ F.n # 0 /\ F.top = 1 /\ Redrawn(F, F, tr)
  BY DEF Ready
<1>2. Walk(tr.node, tr.live, 1, W, {1})
  BY <1>1, HalfWalk
<1>3. /\ Len(tr.node) = F.n /\ tr.live = Values(1 .. F.n) \cup Data(MadeSet(F, F)) /\ F.n \in Nat
  BY <1>1, RedrawnFields
<1>4. PICK nd : nd = tr.node
  OBVIOUS
<1>0a. \A v \in W : Kept(F, nd, tr.live, v)
  BY <1>1, <1>4, RedrawnValues
<1>5. \A v \in W : /\ nd[v].type = F.type[v] /\ nd[v].parent = F.parent[v]
                   /\ Family(F, v, nd[v])
                   /\ nd[v].type \in Sized => nd[v].length = F.length[v]
                   /\ nd[v].parent \in 0 .. v - 1 /\ (nd[v].parent = 0 <=> v = 1)
  BY <1>0a DEF Kept
<1>6. MadeSet(F, F) = {v \in W : nd[v].type \in Sized}
  BY <1>5 DEF MadeSet
<1>7. ASSUME NEW c \in W \ {1} PROVE nd[c].parent \in W /\ Listed(nd, c)
  <2>1. PICK u, d : u = nd[c].parent /\ d = c
    OBVIOUS
  <2>2. u \in W /\ F.parent[d] = u /\ u \in Nat /\ d \in 1 .. F.n
    BY <1>3, <1>5, <2>1
  <2>3. d \notin F.open
    <3>1. \A v \in F.open : v \in 1 .. F.n /\ v <= 1
      BY <1>1 DEF Good, Path
    <3> QED
      BY <1>3, <2>1, <3>1
  <2>4. PICK m : m = nd[u]
    OBVIOUS
  <2>5. Family(F, u, m) /\ u <= F.n
    BY <1>3, <1>5, <2>2, <2>4
  <2>6. PICK i \in 1 .. Len(m.kids) : m.kids[i] = d
    BY <2>2, <2>3, <2>5 DEF Family
  <2>7. m.type \in Holders /\ Len(m.kids) = F.length[u]
    <3>1. Len(m.kids) # 0
      BY <2>6
    <3> QED
      BY <2>5, <3>1 DEF Family
  <2>8. m.length = F.length[u]
    BY <1>5, <2>2, <2>4, <2>7 DEF Holders, Sized
  <2>9. i \in 1 .. m.length
    BY <2>6, <2>7, <2>8
  <2> QED
    BY <2>1, <2>2, <2>4, <2>6, <2>7, <2>9 DEF Listed
<1> QED
  BY <1>2, <1>3, <1>4, <1>6, <1>7 DEF Exact

\* The tree with these fields, and what they may be.
Is(tr, nd, top, root, alloc, live) ==
    tr = [node |-> nd, top |-> top, root |-> root, alloc |-> alloc, live |-> live]

Bounded(nd, top, root, alloc, live) ==
    /\ nd \in Seq(NodeType) /\ top \in 0 .. Len(nd) /\ root \in 0 .. Len(nd) /\ alloc \in 0 .. Len(nd)
    /\ live \subseteq {"value", "data"} \X (1 .. Len(nd))

Fields(tr, nd, top, root, alloc, live) ==
    tr.node = nd /\ tr.top = top /\ tr.root = root /\ tr.alloc = alloc /\ tr.live = live

LEMMA IsFields ==
    ASSUME NEW tr, NEW nd, NEW top, NEW root, NEW alloc, NEW live, Is(tr, nd, top, root, alloc, live)
    PROVE  Fields(tr, nd, top, root, alloc, live)
BY DEF Is, Fields

LEMMA WholeFields ==
    ASSUME NEW tr, Whole(tr)
    PROVE  \E nd, top, root, alloc, live :
              /\ Is(tr, nd, top, root, alloc, live) /\ Bounded(nd, top, root, alloc, live)
              /\ Fields(tr, nd, top, root, alloc, live)
<1>0. PICK top, root, alloc, live : top = tr.top /\ root = tr.root /\ alloc = tr.alloc /\ live = tr.live
  OBVIOUS
<1>1. PICK nd \in Seq(NodeType) :
          tr = [node |-> nd, top |-> top, root |-> root, alloc |-> alloc, live |-> live]
  BY <1>0 DEF Whole, Framed
<1>2. Is(tr, nd, top, root, alloc, live)
  BY <1>1 DEF Is
<1>3. Fields(tr, nd, top, root, alloc, live)
  BY <1>2, IsFields
<1>4. Bounded(nd, top, root, alloc, live)
  <2>1. Whole(tr)
    OBVIOUS
  <2> QED
    BY <1>3, <2>1 DEF Whole, Fields, Bounded
<1> QED
  BY <1>2, <1>3, <1>4

LEMMA FramedWhole ==
    ASSUME NEW tr, NEW nd, NEW top, NEW root, NEW alloc, NEW live, Is(tr, nd, top, root, alloc, live),
           Bounded(nd, top, root, alloc, live)
    PROVE  Whole(tr) /\ Fields(tr, nd, top, root, alloc, live)
<1>1. Fields(tr, nd, top, root, alloc, live)
  BY IsFields
<1>2. Framed(tr, top, root, alloc, live)
  BY DEF Framed, Is, Bounded
<1> QED
  BY <1>1, <1>2 DEF Whole, Fields, Bounded

-----------------------------------------------------------------------------
\* Of the root nothing is in use but the value.
Stray(nd, live) == /\ nd \in Seq(NodeType) /\ nd[1].parent = 0
                   /\ <<"value", 1>> \in live /\ <<"data", 1>> \notin live

\* What is left when the second pass has failed: the chain of the values that
\* have not been taken, and a tree without the value that was.
Left(tr) ==
    /\ Whole(tr) /\ tr.root = 1 /\ Len(tr.node) # 0
    /\ \A v \in 1 .. Len(tr.node) : tr.node[v].next_alloc = Chained(Len(tr.node), v)
    /\ tr.alloc # 0 => Values(tr.alloc .. Len(tr.node)) \subseteq tr.live
    /\ \E m \in Nat : /\ tr.alloc # 0 => m + 1 < tr.alloc
                      /\ IF m = 0 THEN Stray(tr.node, tr.live)
                         ELSE \E W : /\ Walk(tr.node, tr.live, 1, W, {1})
                                     /\ \A w \in W : w <= m

LEMMA ShortLeft ==
    ASSUME NEW t, NEW F, NEW tr, Short(t, F, tr), NEW out, out = Taken(tr)
    PROVE  Left(out)
<1>1. Good(t) /\ Good(F) /\ Redrawn(t, F, tr) /\ t.n < F.n /\ F.type[t.n + 1] \in Sized
  BY DEF Short
<1>2. /\ Whole(tr) /\ Len(tr.node) = F.n /\ tr.top = t.top /\ tr.root = RootOf(t) /\ tr.alloc = t.n + 1
      /\ tr.live = Values(1 .. F.n) \cup Data(MadeSet(t, F)) /\ t.n \in Nat /\ F.n \in Nat
  BY <1>1, RedrawnFields, RedrawnWhole
<1>3. PICK nd, top, root, alloc, live :
              /\ Is(tr, nd, top, root, alloc, live) /\ Bounded(nd, top, root, alloc, live)
              /\ Fields(tr, nd, top, root, alloc, live)
  BY <1>2, WholeFields
<1>4. PICK m \in Nat, n \in Nat : m = t.n /\ n = Len(nd)
  BY <1>2, <1>3 DEF Bounded
<1>3a. /\ tr.node = nd /\ tr.top = top /\ tr.root = root /\ tr.alloc = alloc /\ tr.live = live
       /\ nd \in Seq(NodeType) /\ live \subseteq {"value", "data"} \X (1 .. n)
  BY <1>3, <1>4 DEF Fields, Bounded
<1>5. n = F.n /\ m < n /\ alloc = m + 1 /\ root = RootOf(t) /\ alloc \in 1 .. n
  BY <1>1, <1>2, <1>3a, <1>4
<1>6. \A v \in 1 .. n : nd[v].next_alloc = Chained(n, v)
  BY <1>1, <1>3a, <1>5, RedrawnAt DEF Halfway
<1>7. PICK next : next = Chained(n, alloc)
  OBVIOUS
<1>8. next = nd[alloc].next_alloc /\ next \in 0 .. n /\ (next # 0 => m + 1 < next)
  BY <1>5, <1>6, <1>7 DEF Chained
<1>9. IF root = 0 THEN alloc = 1 ELSE root = 1
  BY <1>4, <1>5 DEF RootOf
<1>10. Is(out, nd, alloc, 1, next, live)
  <2>1. out = [tr EXCEPT !.top = alloc, !.alloc = next, !.root = 1]
    BY <1>3a, <1>8, <1>9 DEF Taken, NULL
  <2> QED
    BY <1>3, <2>1 DEF Is
<1>11. Whole(out) /\ Fields(out, nd, alloc, 1, next, live)
  <2>1. 1 \in 0 .. n /\ alloc \in 0 .. n
    BY <1>5
  <2>2. Bounded(nd, alloc, 1, next, live)
    BY <1>3a, <1>4, <1>8, <2>1 DEF Bounded
  <2> QED
    BY <1>10, <2>2, FramedWhole
<1>11a. out.node = nd /\ out.root = 1 /\ out.alloc = next /\ out.live = live
  BY <1>11 DEF Fields
<1>11b. Len(nd) = n /\ n # 0
  BY <1>4, <1>5
<1>12. next # 0 => Values(next .. n) \subseteq live
  <2>1. next # 0 => next .. n \subseteq 1 .. n
    BY <1>8
  <2> QED
    BY <1>2, <1>3a, <1>5, <2>1 DEF Values
<1>13. CASE m = 0
  <2>1. MadeSet(t, F) = {}
    BY <1>4, <1>13 DEF MadeSet
  <2>2. <<"value", 1>> \in live /\ <<"data", 1>> \notin live
    <3>1. 1 \in 1 .. F.n
      BY <1>5
    <3> QED
      BY <1>2, <1>3a, <2>1, <3>1 DEF Values, Data
  <2>3. nd[1].parent = 0
    <3>1. 1 \in 1 .. F.n /\ F.parent[1] = 0
      BY <1>1, <1>5 DEF Good
    <3> QED
      BY <1>1, <1>3a, <3>1, RedrawnAt DEF Halfway
  <2>4. Stray(nd, live)
    BY <1>3a, <2>2, <2>3 DEF Stray
  <2> QED
    BY <1>6, <1>8, <1>11, <1>11a, <1>11b, <1>12, <1>13, <2>4 DEF Left
<1>14. CASE m # 0
  <2>1. PICK W : W = 1 .. t.n
    OBVIOUS
  <2>2. Walk(nd, live, 1, W, {1})
    BY <1>1, <1>3a, <1>4, <1>14, <2>1, HalfWalk
  <2>3. \A w \in W : w <= m
    BY <1>4, <2>1
  <2> QED
    BY <1>6, <1>8, <1>11, <1>11a, <1>11b, <1>12, <1>14, <2>2, <2>3 DEF Left
<1> QED
  BY <1>13, <1>14

LEMMA LeftGoes ==
    ASSUME NEW tr, Left(tr), tr.alloc # 0, NEW out, out = Unlinked(tr)
    PROVE  Left(out) /\ <<"value", tr.alloc>> \in tr.live
<1>1. Whole(tr) /\ \A v \in 1 .. Len(tr.node) : tr.node[v].next_alloc = Chained(Len(tr.node), v)
  BY DEF Left
<1>2. /\ Whole(out) /\ out.node = tr.node /\ out.top = tr.top /\ out.root = tr.root
      /\ out.alloc = Chained(Len(tr.node), tr.alloc) /\ out.live = tr.live \ {<<"value", tr.alloc>>}
      /\ Len(tr.node) \in Nat /\ tr.alloc \in 1 .. Len(tr.node) /\ out.alloc \in 0 .. Len(tr.node)
  BY <1>1, UnlinkedFields
<1>3. PICK nd, n, a, live, less, next :
         /\ nd = tr.node /\ n = Len(tr.node) /\ a = tr.alloc /\ n \in Nat /\ a \in 1 .. n
         /\ live = tr.live /\ less = out.live /\ next = out.alloc
  BY <1>2
<1>4. less = live \ {<<"value", a>>} /\ next = Chained(n, a) /\ n = Len(nd)
  BY <1>2, <1>3
<1>5. Values(a .. n) \subseteq live /\ a \in a .. n
  BY <1>3 DEF Left
<1>6. next # 0 => Values(next .. n) \subseteq less
  <2>1. next # 0 => next = a + 1
    BY <1>4 DEF Chained
  <2>2. \A v \in a + 1 .. n : v \in a .. n /\ v # a
    BY <1>3
  <2> QED
    BY <1>4, <1>5, <2>1, <2>2 DEF Values
<1>7. PICK m \in Nat : /\ m + 1 < a
                       /\ IF m = 0 THEN Stray(nd, live)
                          ELSE \E W : Walk(nd, live, 1, W, {1}) /\ \A w \in W : w <= m
  BY <1>3 DEF Left
<1>8. next # 0 => m + 1 < next
  BY <1>3, <1>4, <1>7 DEF Chained
<1>9. <<"value", a>> \in live
  BY <1>5 DEF Values
<1>10. CASE m = 0
  <2>1. a # 1
    BY <1>3, <1>7
  <2>2. Stray(nd, less)
    BY <1>4, <1>7, <1>10, <2>1 DEF Stray
  <2>3. Left(out)
    BY <1>1, <1>2, <1>3, <1>4, <1>6, <1>8, <1>10, <2>2 DEF Left
  <2> QED
    BY <1>3, <1>9, <2>3
<1>11. CASE m # 0
  <2>1. PICK W : Walk(nd, live, 1, W, {1}) /\ \A w \in W : w <= m
    BY <1>7, <1>11
  <2>2. \A w \in W : w # a
    BY <1>3, <1>7, <2>1
  <2>3. InUse(nd, less, W)
    BY <1>4, <2>1, <2>2 DEF Walk, InUse
  <2>4. Walk(nd, less, 1, W, {1})
    BY <2>1, <2>3 DEF Walk
  <2>5. Left(out)
    BY <1>1, <1>2, <1>3, <1>4, <1>6, <1>8, <1>11, <2>1, <2>4 DEF Left
  <2> QED
    BY <1>3, <1>9, <2>5
<1> QED
  BY <1>10, <1>11

-----------------------------------------------------------------------------
\* The walk of json_value_free, after a parse that has failed for c.
Walking(tr, c) ==
    /\ Whole(tr)
    /\ \/ \E W, O : /\ Walk(tr.node, tr.live, tr.top, W, O)
                    /\ c = "none" => Exact(tr.node, tr.live, tr.top, W, O)
       \/ c = "memory" /\ tr.top = 1 /\ tr.root = 1 /\ Stray(tr.node, tr.live)

Rerooted(tr) == [tr EXCEPT !.top = tr.root]

LEMMA RerootedFields ==
    ASSUME NEW tr, Whole(tr), NEW out, out = Rerooted(tr)
    PROVE  /\ Whole(out) /\ out.node = tr.node /\ out.top = tr.root /\ out.root = tr.root
           /\ out.live = tr.live
<1>1. PICK nd, top, root, alloc, live :
              /\ Is(tr, nd, top, root, alloc, live) /\ Bounded(nd, top, root, alloc, live)
              /\ Fields(tr, nd, top, root, alloc, live)
  BY WholeFields
<1>2. Is(out, nd, root, root, alloc, live)
  BY <1>1 DEF Rerooted, Is
<1>3. Bounded(nd, root, root, alloc, live)
  BY <1>1 DEF Bounded
<1>4. Whole(out) /\ Fields(out, nd, root, root, alloc, live)
  BY <1>2, <1>3, FramedWhole
<1> QED
  BY <1>1, <1>4 DEF Fields

LEMMA LeftBegins ==
    ASSUME NEW tr, Left(tr), tr.alloc = 0, NEW out, out = Rerooted(tr)
    PROVE  Walking(out, "memory")
<1>1. /\ Whole(out) /\ out.node = tr.node /\ out.top = 1 /\ out.root = 1 /\ out.live = tr.live
  BY RerootedFields DEF Left
<1>2. PICK m \in Nat : IF m = 0 THEN Stray(tr.node, tr.live)
                       ELSE \E W : Walk(tr.node, tr.live, 1, W, {1})
  BY DEF Left
<1> QED
  BY <1>1, <1>2 DEF Walking

LEMMA ReadyBegins ==
    ASSUME NEW F, NEW tr, Ready(F, tr), NEW out, out = Rerooted(tr)
    PROVE  Walking(out, "none")
<1>1. PICK W : W = 1 .. F.n
  OBVIOUS
<1>2. Walk(tr.node, tr.live, 1, W, {1}) /\ Exact(tr.node, tr.live, 1, W, {1})
  BY <1>1, ReadyWalk
<1>3. Whole(tr) /\ tr.root = RootOf(F)
  BY RedrawnWhole, RedrawnFields DEF Ready
<1>4. tr.root = 1
  BY <1>3 DEF Ready, RootOf
<1>5. /\ Whole(out) /\ out.node = tr.node /\ out.top = 1 /\ out.live = tr.live
  BY <1>3, <1>4, RerootedFields
<1> QED
  BY <1>2, <1>5 DEF Walking

LEMMA WalkingTop ==
    ASSUME NEW tr, NEW c, Walking(tr, c), tr.top # 0
    PROVE  <<"value", tr.top>> \in tr.live /\ tr.top \in 1 .. Len(tr.node)
<1>1. Len(tr.node) \in Nat /\ tr.top \in 0 .. Len(tr.node)
  <2>1. Whole(tr)
    BY DEF Walking
  <2> QED
    BY <2>1, WholeFields DEF Fields, Bounded
<1>2. <<"value", tr.top>> \in tr.live
  BY DEF Walking, Walk, Way, InUse, Stray
<1> QED
  BY <1>1, <1>2

\* The next member, if the members are there.
LEMMA WalkingDescends ==
    ASSUME NEW tr, NEW c, Walking(tr, c), NEW v, v = tr.top, v # 0, Members(tr.node[v]), NEW out,
           out = [tr EXCEPT !.node[v].length = @ - 1, !.top = tr.node[v].kids[tr.node[v].length]]
    PROVE  IF <<"data", v>> \in tr.live THEN Walking(out, c) ELSE c = "memory" /\ tr.top = tr.root
<1>1. CASE c = "memory" /\ tr.top = 1 /\ tr.root = 1 /\ Stray(tr.node, tr.live)
  BY <1>1 DEF Stray
<1>2. ASSUME NEW W, NEW O, Walk(tr.node, tr.live, tr.top, W, O),
             c = "none" => Exact(tr.node, tr.live, tr.top, W, O)
      PROVE  <<"data", v>> \in tr.live /\ Walking(out, c)
  <2>1. Whole(tr) /\ v \in 1 .. Len(tr.node)
    BY WalkingTop DEF Walking
  <2>2. PICK nd, top, root, alloc, live :
              /\ Is(tr, nd, top, root, alloc, live) /\ Bounded(nd, top, root, alloc, live)
              /\ Fields(tr, nd, top, root, alloc, live)
    BY <2>1, WholeFields
  <2>2a. tr.node = nd /\ tr.top = top /\ tr.live = live
    BY <2>2 DEF Fields
  <2>3. v \in 1 .. Len(nd) /\ v # 0 /\ Walk(nd, live, v, W, O)
        /\ (c = "none" => Exact(nd, live, v, W, O))
        /\ nd[v].type \in Holders /\ nd[v].length > 0
    BY <1>2, <2>1, <2>2a DEF Members, Holders
  <2>4. PICK new, k : new = Counted(nd, v) /\ k = nd[v].kids[nd[v].length]
    OBVIOUS
  <2>5. /\ Walk(new, live, k, W, O \cup {k}) /\ <<"data", v>> \in live /\ k \in 1 .. Len(nd)
        /\ Exact(nd, live, v, W, O) => Exact(new, live, k, W, O \cup {k})
    BY <2>3, <2>4, WalkDescends
  <2>6. new \in Seq(NodeType) /\ Len(new) = Len(nd)
    <3>1. nd \in Seq(NodeType)
      BY <2>2 DEF Bounded
    <3> QED
      BY <2>3, <2>4, <3>1, CountedFacts
  <2>7. Is(out, new, k, root, alloc, live)
    <3>1. out = [tr EXCEPT !.node[v].length = @ - 1, !.top = k]
      BY <2>2a, <2>4
    <3>2. new = [nd EXCEPT ![v].length = @ - 1]
      BY <2>4 DEF Counted
    <3> QED
      BY <2>2, <3>1, <3>2 DEF Is
  <2>8. Whole(out) /\ Fields(out, new, k, root, alloc, live)
    <3>1. k \in 0 .. Len(nd)
      BY <2>5
    <3>2. Bounded(new, k, root, alloc, live)
      BY <2>2, <2>6, <3>1 DEF Bounded
    <3> QED
      BY <2>7, <3>2, FramedWhole
  <2>9. out.node = new /\ out.top = k /\ out.live = live
    BY <2>8 DEF Fields
  <2> QED
    BY <2>2a, <2>3, <2>5, <2>8, <2>9 DEF Walking
<1> QED
  BY <1>1, <1>2 DEF Walking

LEMMA WalkingFrees ==
    ASSUME NEW tr, NEW c, Walking(tr, c), NEW v, v = tr.top, v # 0, ~Members(tr.node[v]), NEW out,
           out = [Released(tr, {<<"value", v>>, <<"data", v>>}) EXCEPT !.top = tr.node[v].parent]
    PROVE  Walking(out, c)
<1>1. Whole(tr) /\ v \in 1 .. Len(tr.node)
  BY WalkingTop DEF Walking
<1>2. PICK nd, top, root, alloc, live :
            /\ Is(tr, nd, top, root, alloc, live) /\ Bounded(nd, top, root, alloc, live)
            /\ Fields(tr, nd, top, root, alloc, live)
  BY <1>1, WholeFields
<1>3. PICK less, up : less = live \ {<<"value", v>>, <<"data", v>>} /\ up = nd[v].parent
  OBVIOUS
<1>2a. tr.node = nd /\ tr.top = top /\ tr.live = live /\ nd \in Seq(NodeType)
  BY <1>2 DEF Fields, Bounded
<1>4. Is(out, nd, up, root, alloc, less)
  BY <1>2, <1>3 DEF Released, Is
<1>6. ASSUME up \in 0 .. Len(nd), NEW W, NEW O, Walk(nd, less, up, W, O), c = "none" => Exact(nd, less, up, W, O)
      PROVE  Walking(out, c)
  <2>1. Bounded(nd, up, root, alloc, less)
    BY <1>2, <1>3, <1>6 DEF Bounded
  <2>2. Whole(out) /\ Fields(out, nd, up, root, alloc, less)
    BY <1>4, <2>1, FramedWhole
  <2>3. out.node = nd /\ out.top = up /\ out.live = less
    BY <2>2 DEF Fields
  <2> QED
    BY <1>6, <2>2, <2>3 DEF Walking
<1>7. ASSUME NEW W, NEW O, Walk(tr.node, tr.live, tr.top, W, O),
             c = "none" => Exact(tr.node, tr.live, tr.top, W, O)
      PROVE  Walking(out, c)
  <2>1. v = top /\ v # 0 /\ Walk(nd, live, v, W, O) /\ (c = "none" => Exact(nd, live, v, W, O))
        /\ ~(nd[v].type \in Holders /\ nd[v].length > 0)
    BY <1>2a, <1>7 DEF Members, Holders
  <2>2. /\ Walk(nd, less, up, W \ {v}, O \ {v}) /\ up \in 0 .. Len(nd)
        /\ Exact(nd, live, v, W, O) => Exact(nd, less, up, W \ {v}, O \ {v})
    BY <1>3, <2>1, WalkFrees
  <2> QED
    BY <1>6, <2>1, <2>2
<1>8. CASE c = "memory" /\ tr.top = 1 /\ tr.root = 1 /\ Stray(tr.node, tr.live)
  <2>1. up = 0 /\ up \in 0 .. Len(nd)
    BY <1>1, <1>2a, <1>3, <1>8 DEF Stray
  <2>2. Walk(nd, less, 0, {}, {})
    BY <1>2a DEF Walk, Rooted, Way, InUse, Sound
  <2> QED
    BY <1>6, <1>8, <2>1, <2>2
<1> QED
  BY <1>7, <1>8 DEF Walking

LEMMA WalkingEnds ==
    ASSUME NEW tr, Walking(tr, "none"), tr.top = 0
    PROVE  tr.live = {}
<1>1. PICK W, O : Exact(tr.node, tr.live, tr.top, W, O)
  BY DEF Walking
<1>2. W = {}
  BY <1>1 DEF Exact
<1> QED
  BY <1>1, <1>2 DEF Exact, Values, Data

-----------------------------------------------------------------------------
(***************************************************************************)
(* The invariant.                                                          *)
(***************************************************************************)
Causes == {"none", "syntax", "overflow", "memory"}
Late   == {"none", "memory"}

Basics ==
    /\ text \in Seq(Symbol) /\ pass \in {1, 2}
    /\ pass = 1 => pos \in Nat \ {0} /\ pos <= Len(text) + 1
    /\ pass = 2 /\ phase # "parse" => pos \in Nat \ {0} /\ pos <= Len(text)
    /\ flags \in SUBSET FlagSet /\ string_length \in Nat /\ num_digits \in 0 .. 2
    /\ cause \in Causes

\* What is not of a seed is read symbol by symbol.
SeedRead == Len(text) <= pos \/ text \in Seeds

Parsing == /\ phase = "parse" /\ cause = "none"
           /\ \/ pass = 1 /\ FirstPass /\ SeedRead
              \/ pass = 2 /\ SecondPass

Unwinding == /\ phase = "unwind"
             /\ \/ pass = 1 /\ Doomed(tree)
                \/ pass = 2 /\ cause = "memory" /\ Left(tree)

Parsed == phase = "ok" /\ pass = 2 /\ cause = "none" /\ \E F : Ready(F, tree)

Freeing == phase = "free" /\ pass = 2 /\ cause \in Late /\ Walking(tree, cause)

Over == /\ phase = "over" /\ (pass = 2 => cause \in Late) /\ Whole(tree)
        /\ tree.live = {} \/ NoMemoryLate

Stopped == /\ phase = "fault" /\ (pass = 2 => cause \in Late) /\ Whole(tree)
           /\ FaultsKnown

IInv == Basics /\ (Parsing \/ Unwinding \/ Parsed \/ Freeing \/ Over \/ Stopped)

-----------------------------------------------------------------------------
LEMMA FlagsKept ==
    ASSUME flags \in SUBSET FlagSet, string_length \in Nat, NEW b, Handle(b)
    PROVE  flags' \in SUBSET FlagSet /\ string_length' \in Nat
<1>1. CASE Trailing(b) \/ SeekSpace(b) \/ Comma(b) \/ Colon(b)
  BY <1>1 DEF Trailing, SeekSpace, Comma, Colon, Continue, Fail, FailWith, Go, FlagSet, Core
<1>2. ASSUME NEW t, NEW p, NEW f, f \in SUBSET FlagSet, Finish(t, p, f)
      PROVE  flags' \in SUBSET FlagSet /\ string_length' \in Nat
  <2>1. string_length' = string_length
    BY <1>2 DEF Finish
  <2>2. flags' \in SUBSET FlagSet
    BY <1>2 DEF Finish, Go, FailWith, FlagSet, Core
  <2> QED
    BY <2>1, <2>2
<1>3. CASE CloseArray(b)
  BY <1>2, <1>3 DEF CloseArray, Fault, Fail, FailWith
<1>4. CASE Literal(b) \/ SkipNumber(b)
  <2>1. PICK t, p : Finish(t, p, Starts)
    BY <1>4 DEF Literal, SkipNumber
  <2> QED
    BY <1>2, <2>1 DEF Starts
<1>5. CASE OpenObject(b) \/ OpenArray(b) \/ OpenString(b) \/ OpenNumber(b)
  <2>1. PICK f : f = Starts /\ f \in SUBSET FlagSet
    BY DEF Starts
  <2>2. CASE OpenObject(b)
    BY <2>1, <2>2 DEF OpenObject, Go
  <2>3. CASE OpenArray(b)
    BY <2>3 DEF OpenArray, Go
  <2>4. CASE OpenString(b)
    BY <2>1, <2>4 DEF OpenString, Go, FlagSet, Core
  <2>5. CASE OpenNumber(b)
    BY <2>1, <2>5 DEF OpenNumber, Go
  <2> QED
    BY <1>5, <2>2, <2>3, <2>4, <2>5
<1>6. CASE NoValue(b) \/ NoMemory(b)
  BY <1>6 DEF NoValue, NoMemory, Fail, FailWith
<1>11. CASE NarrowObject(b)
  BY <1>11, NarrowStep
<1>7. CASE Object(b)
  <2>1. CASE Continue(flags) \/ Continue(flags \ {"need_comma"}) \/ Fail
    BY <2>1 DEF Continue, Go, Fail, FailWith
  <2>2. CASE Go(pos + 1, flags \cup {"string"}) /\ string_length' = 0
    BY <2>2 DEF Go, FlagSet, Core
  <2>3. CASE Finish(tree, pos + 1, flags \ {"need_comma"})
    BY <1>2, <2>3
  <2> QED
    BY <1>7, <2>1, <2>2, <2>3 DEF Object
<1>8. CASE Digits(b)
  BY <1>8 DEF Digits, Fail, FailWith, Go, FlagSet, Core
<1>9. CASE Number(b)
  <2>1. CASE Continue(flags \cup {"num_e_got_sign"}) \/ Fail
    BY <2>1 DEF Continue, Go, Fail, FailWith, FlagSet
  <2>2. CASE /\ Go(pos + 1, IF b = "." THEN flags ELSE (flags \cup {"num_e"}) \ {"num_zero"})
             /\ UNCHANGED string_length
    BY <2>2 DEF Go, FlagSet
  <2>3. CASE Finish(tree, pos, flags)
    BY <1>2, <2>3
  <2> QED
    BY <1>9, <2>1, <2>2, <2>3 DEF Number
<1>10. CASE Character(b)
  <2>1. CASE Fail \/ FailWith(tree, "overflow") \/ Continue(flags \cup {"escaped"})
    BY <2>1 DEF Continue, Go, Fail, FailWith, FlagSet, Core
  <2>2. CASE Add(Bytes(b), flags \ {"escaped"}) \/ Add(1, flags)
    BY <2>2 DEF Add, Go, Bytes
  <2>3. CASE StringEnd
    <3>1. CASE \E t : Finish(t, pos + 1, flags \ {"string"})
      BY <1>2, <3>1
    <3>2. CASE /\ Go(pos + 1, (flags \ {"string"}) \cup {"seek_value", "need_colon"})
               /\ UNCHANGED string_length
      BY <3>2 DEF Go, FlagSet, Core
    <3> QED
      BY <2>3, <3>1, <3>2 DEF StringEnd
  <2> QED
    BY <1>10, <2>1, <2>2, <2>3 DEF Character
<1> QED
  BY <1>1, <1>3, <1>4, <1>5, <1>6, <1>7, <1>8, <1>9, <1>10, <1>11 DEF Handle

LEMMA PassStays ==
    ASSUME pass = 2, NEW b, Handle(b)
    PROVE  pass' = 2
<1>1. CASE Trailing(b) \/ Character(b) \/ SeekSpace(b) \/ CloseArray(b) \/ Comma(b) \/ Colon(b)
  BY <1>1 DEF Trailing, Character, SeekSpace, CloseArray, Comma, Colon, Continue, Fail, FailWith, Fault,
              Finish, Add, StringEnd, Go
<1>2. CASE OpenObject(b) \/ OpenArray(b) \/ OpenString(b) \/ Literal(b) \/ OpenNumber(b)
           \/ SkipNumber(b) \/ NoValue(b) \/ NoMemory(b)
  BY <1>2 DEF OpenObject, OpenArray, OpenString, Literal, OpenNumber, SkipNumber, NoValue, NoMemory,
              Finish, Fail, FailWith, Go
<1>3. CASE Object(b)
  BY <1>3 DEF Object, Continue, Finish, Fail, FailWith, Go
<1>4. CASE Digits(b)
  BY <1>4 DEF Digits, Fail, FailWith, Go
<1>5. CASE Number(b)
  BY <1>5 DEF Number, Continue, Finish, Fail, FailWith, Go
<1>6. CASE NarrowObject(b)
  BY <1>6, NarrowStep
<1> QED
  BY <1>1, <1>2, <1>3, <1>4, <1>5, <1>6 DEF Handle

\* Where parsing ends, i stays.
LEMMA PosStays ==
    ASSUME phase = "parse", NEW b, Handle(b)
    PROVE  phase' = "parse" \/ pos' = pos
<1>1. CASE Trailing(b) \/ Character(b) \/ SeekSpace(b) \/ CloseArray(b) \/ Comma(b) \/ Colon(b)
  BY <1>1 DEF Trailing, Character, SeekSpace, CloseArray, Comma, Colon, Continue, Fail, FailWith, Fault,
              Finish, Add, StringEnd, Go
<1>2. CASE OpenObject(b) \/ OpenArray(b) \/ OpenString(b) \/ Literal(b) \/ OpenNumber(b)
           \/ SkipNumber(b) \/ NoValue(b) \/ NoMemory(b)
  BY <1>2 DEF OpenObject, OpenArray, OpenString, Literal, OpenNumber, SkipNumber, NoValue, NoMemory,
              Finish, Fail, FailWith, Go
<1>3. CASE Object(b)
  BY <1>3 DEF Object, Continue, Finish, Fail, FailWith, Go
<1>4. CASE Digits(b)
  BY <1>4 DEF Digits, Fail, FailWith, Go
<1>5. CASE Number(b)
  BY <1>5 DEF Number, Continue, Finish, Fail, FailWith, Go
<1>6. CASE NarrowObject(b)
  BY <1>6, NarrowStep
<1> QED
  BY <1>1, <1>2, <1>3, <1>4, <1>5, <1>6 DEF Handle

-----------------------------------------------------------------------------
\* What the passes and the clean-up have in hand is a tree.
LEMMA ParsingWhole ==
    ASSUME Parsing
    PROVE  Whole(tree)
<1>1. ASSUME NEW p, Here(p, Blank), pass = 1 PROVE Whole(tree)
  BY <1>1, HereFacts, DrawnWhole DEF Rep
<1>2. ASSUME NEW p, NEW ty, Scanning(p, ty) PROVE Whole(tree)
  <2>1. Good(Pushed(p.t, ty)) /\ Drawn(Pushed(p.t, ty), tree)
    BY <1>2, ScanFacts DEF Scanning
  <2> QED
    BY <2>1, DrawnWhole
<1>3. ASSUME NEW p, NEW F, Here(p, F), pass = 2 PROVE Whole(tree)
  BY <1>3, HereFacts, RedrawnWhole DEF Rep
<1>4. CASE pass = 1 /\ FirstPass
  BY <1>1, <1>2, <1>4 DEF FirstPass, Reached
<1>5. CASE pass = 2 /\ SecondPass
  BY <1>3, <1>5 DEF SecondPass
<1> QED
  BY <1>4, <1>5 DEF Parsing

LEMMA InvWhole ==
    ASSUME IInv
    PROVE  Whole(tree)
<1>1. CASE Parsing
  BY <1>1, ParsingWhole
<1>2. CASE Unwinding
  BY <1>2, DoomedWhole DEF Unwinding, Left
<1>3. CASE Parsed
  BY <1>3, RedrawnWhole DEF Parsed, Ready
<1>4. CASE Freeing
  BY <1>4 DEF Freeing, Walking
<1>5. CASE Over \/ Stopped
  BY <1>5 DEF Over, Stopped
<1> QED
  BY <1>1, <1>2, <1>3, <1>4, <1>5 DEF IInv

LEMMA SecondPos ==
    ASSUME SecondPass
    PROVE  pos \in Nat \ {0}
<1>1. PICK p, F : Here(p, F)
  BY DEF SecondPass
<1> QED
  BY <1>1 DEF Here, On, GoodSnap, SnapType
-----------------------------------------------------------------------------
(***************************************************************************)
(* Every step keeps the invariant.                                         *)
(***************************************************************************)
\* The first pass stops at a bracket with which the text begins.
LEMMA StumblesKnown ==
    ASSUME NEW old, NEW txt \in Seq(Symbol), NEW p \in Nat \ {0}, p <= Len(txt),
           Len(txt) = p \/ txt \in Seeds, txt[p] = "]", \A k \in 1 .. p - 1 : txt[k] = "ws"
    PROVE  Last(txt) = "]" /\ Range(Front(txt)) \subseteq {"ws"}
<1>1. Len(txt) \in Nat
  OBVIOUS
<1>2. Len(txt) = p
  <2>1. CASE txt \in Seeds /\ p = 1
    <3>1. txt[1] = "]" /\ Head(txt) = txt[1]
      BY <1>1, <2>1
    <3> QED
      BY <2>1, <3>1, JsonAssumption
  <2>2. CASE txt \in Seeds /\ p # 1
    <3>1. 1 \in 1 .. p - 1
      BY <2>2
    <3>2. txt[1] = "ws" /\ Head(txt) = txt[1]
      BY <1>1, <3>1
    <3> QED
      BY <2>2, <3>2, JsonAssumption
  <2> QED
    BY <2>1, <2>2
<1>3. Last(txt) = "]"
  BY <1>2 DEF Last
<1>4. PICK s : s = Front(txt)
  OBVIOUS
<1>5. DOMAIN s = 1 .. p - 1 /\ \A k \in 1 .. p - 1 : s[k] = txt[k]
  BY <1>1, <1>2, <1>4 DEF Front
<1>6. Range(s) \subseteq {"ws"}
  BY <1>5 DEF Range
<1> QED
  BY <1>3, <1>4, <1>6

LEMMA ParseKeeps ==
    ASSUME Basics, Parsing, Parse
    PROVE  IInv'
<1>1. PICK b \in Symbol : Read(b) /\ Handle(b)
  BY DEF Parse, Handle
<1>2. phase = "parse" /\ cause = "none" /\ text \in Seq(Symbol) /\ pass \in {1, 2}
  BY DEF Parsing, Basics
<1>3. flags' \in SUBSET FlagSet /\ string_length' \in Nat
  BY <1>1, FlagsKept DEF Basics
<1>4. num_digits' \in 0 .. 2
  BY <1>1, DigitsCounted DEF Basics
<1>5. phase' = "parse" \/ pos' = pos
  BY <1>1, <1>2, PosStays
<1>6. CASE pass = 1
  <2>1. FirstPass /\ SeedRead /\ pos \in Nat \ {0} /\ pos <= Len(text) + 1
    BY <1>2, <1>6 DEF Parsing, Basics
  <2>2. ReadHere(b) /\ (text' = text \/ Len(text') = pos)
    BY <1>1, <1>2, <2>1, ReadFacts
  <2>3. Onward \/ GivesUp \/ Stumbles(b)
    BY <1>1, <1>6, <2>1, <2>2, FirstStep
  <2>4. pos' \in {pos, pos + 1} \/ pass' = 2
    BY <1>1, <1>6, PosMoves
  <2>5. text' \in Seq(Symbol) /\ pos <= Len(text') /\ text'[pos] = b /\ Len(text') \in Nat
    BY <2>2 DEF ReadHere
  <2>6. Len(text') <= pos \/ text' \in Seeds
    BY <2>1, <2>2, <2>5 DEF SeedRead
  <2>7. pass' = 1 => pos' \in Nat \ {0} /\ pos' <= Len(text') + 1
    BY <2>1, <2>4, <2>5
  <2>8. CASE Onward
    <3>1. phase' = "parse" /\ cause' = "none"
      BY <1>2, <2>8 DEF Onward
    <3>2. CASE pass' = 1 /\ FirstPass'
      <4>1. SeedRead'
        BY <2>1, <2>4, <2>5, <2>6, <3>2 DEF SeedRead
      <4>2. Parsing'
        BY <3>1, <3>2, <4>1 DEF Parsing
      <4>3. Basics'
        BY <1>3, <1>4, <2>5, <2>7, <3>1, <3>2 DEF Basics, Causes
      <4> QED
        BY <4>2, <4>3 DEF IInv
    <3>3. CASE pass' = 2 /\ SecondPass'
      <4>1. Parsing'
        BY <3>1, <3>3 DEF Parsing
      <4>2. Basics'
        BY <1>3, <1>4, <2>5, <3>1, <3>3 DEF Basics, Causes
      <4> QED
        BY <4>1, <4>2 DEF IInv
    <3> QED
      BY <2>8, <3>2, <3>3 DEF Onward
  <2>9. CASE GivesUp
    <3>1. Unwinding'
      BY <2>9 DEF GivesUp, Unwinding
    <3>2. Basics'
      BY <1>3, <1>4, <2>5, <2>7, <2>9 DEF Basics, Causes, GivesUp
    <3> QED
      BY <3>1, <3>2 DEF IInv
  <2>10. CASE Stumbles(b)
    <3>1. pass' = 1 /\ phase' = "fault" /\ cause' = "none" /\ tree' = tree /\ b = "]"
          /\ \A k \in 1 .. pos - 1 : text'[k] = "ws"
      BY <1>2, <2>10 DEF Stumbles
    <3>2. PICK txt, p : txt = text' /\ p = pos
      OBVIOUS
    <3>3. Last(txt) = "]" /\ Range(Front(txt)) \subseteq {"ws"}
      <4>1. Len(txt) = p \/ txt \in Seeds
        BY <2>1, <2>5, <2>6, <3>2
      <4> QED
        BY <2>1, <2>5, <3>1, <3>2, <4>1, StumblesKnown
    <3>4. FaultsKnown'
      BY <3>1, <3>2, <3>3 DEF FaultsKnown
    <3>5. Whole(tree)
      BY ParsingWhole
    <3>6. Stopped'
      BY <3>1, <3>4, <3>5 DEF Stopped
    <3>7. Basics'
      BY <1>3, <1>4, <2>5, <2>7, <3>1 DEF Basics, Causes
    <3> QED
      BY <3>6, <3>7 DEF IInv
  <2> QED
    BY <2>3, <2>8, <2>9, <2>10
<1>7. CASE pass = 2
  <2>1. SecondPass
    BY <1>7 DEF Parsing
  <2>2. pos \in Nat \ {0} /\ pos <= Len(text)
    BY <1>2, <1>7, <2>1, SecondPos, SecondFits
  <2>3. text' = text
    BY <1>1, <2>2 DEF Read
  <2>4. Onward \/ Succeeds \/ RunsShort \/ Overruns
    BY <1>1, <1>2, <1>7, <2>1, SecondStep
  <2>5. CASE Onward
    <3>1. phase' = "parse" /\ cause' = "none"
      BY <1>2, <2>5 DEF Onward
    <3>2. ASSUME pass' = 2, SecondPass' PROVE IInv'
      <4>1. Parsing'
        BY <3>1, <3>2 DEF Parsing
      <4>2. Basics'
        BY <1>2, <1>3, <1>4, <2>3, <3>1, <3>2 DEF Basics, Causes
      <4> QED
        BY <4>1, <4>2 DEF IInv
    <3>3. pass' = 2
      BY <1>1, <1>7, PassStays
    <3> QED
      BY <2>5, <3>2, <3>3 DEF Onward
  <2>6. CASE Succeeds
    <3>1. pass' = 2 /\ phase' = "ok" /\ cause' = "none" /\ tree' = tree /\ \E F : Ready(F, tree)
      BY <1>2, <2>6 DEF Succeeds
    <3>2. Parsed'
      BY <3>1 DEF Parsed
    <3>3. Basics'
      BY <1>2, <1>3, <1>4, <1>5, <2>2, <2>3, <3>1 DEF Basics, Causes
    <3> QED
      BY <3>2, <3>3 DEF IInv
  <2>7. CASE RunsShort
    <3>1. pass' = 2 /\ phase' = "unwind" /\ cause' = "memory"
      BY <2>7 DEF RunsShort
    <3>2. Left(tree')
      <4>1. PICK out : out = tree'
        OBVIOUS
      <4>2. PICK t, F : Short(t, F, tree)
        BY <2>7 DEF RunsShort
      <4>3. out = Taken(tree)
        BY <2>7, <4>1 DEF RunsShort
      <4>4. Left(out)
        BY <4>2, <4>3, ShortLeft
      <4> QED
        BY <4>1, <4>4
    <3>3. Unwinding'
      BY <3>1, <3>2 DEF Unwinding
    <3>4. Basics'
      BY <1>2, <1>3, <1>4, <1>5, <2>2, <2>3, <3>1 DEF Basics, Causes
    <3> QED
      BY <3>3, <3>4 DEF IInv
  <2>8. CASE Overruns
    <3>1. /\ pass' = 2 /\ phase' = "fault" /\ cause' = "none" /\ tree' = tree
          /\ Narrow(tree.node[tree.alloc])
      BY <1>2, <2>8 DEF Overruns
    <3>2. FaultsKnown'
      BY <3>1 DEF FaultsKnown
    <3>3. Whole(tree)
      BY ParsingWhole
    <3>4. Stopped'
      BY <3>1, <3>2, <3>3 DEF Stopped, Late
    <3>5. Basics'
      BY <1>2, <1>3, <1>4, <1>5, <2>2, <2>3, <3>1 DEF Basics, Causes
    <3> QED
      BY <3>4, <3>5 DEF IInv
  <2> QED
    BY <2>4, <2>5, <2>6, <2>7, <2>8
<1> QED
  BY <1>2, <1>6, <1>7

\* What the clean-up and json_value_free leave alone.
Settled == UNCHANGED <<text, pos, pass, flags, string_length, num_digits, cause>>

LEMMA SettledKeeps ==
    ASSUME Basics, Settled, phase # "parse", phase' # "parse"
    PROVE  Basics'
BY DEF Basics, Settled

LEMMA UnwindKeeps ==
    ASSUME Basics, Unwinding, Unwind
    PROVE  IInv'
<1>1. phase' = "unwind" /\ phase = "unwind" /\ Settled /\ tree' = Unlinked(tree) /\ tree.alloc # 0
  BY DEF Unwind, Settled, Unlinked, NULL
<1>2. Basics'
  BY <1>1, SettledKeeps
<1>3. PICK out : out = tree'
  OBVIOUS
<1>4. CASE pass = 1 /\ Doomed(tree)
  <2>1. Doomed(out)
    BY <1>1, <1>3, <1>4, DoomedGoes
  <2>2. Unwinding'
    BY <1>1, <1>3, <1>4, <2>1 DEF Unwinding, Settled
  <2> QED
    BY <1>2, <2>2 DEF IInv
<1>5. CASE pass = 2 /\ cause = "memory" /\ Left(tree)
  <2>1. Left(out)
    BY <1>1, <1>3, <1>5, LeftGoes
  <2>2. Unwinding'
    BY <1>1, <1>3, <1>5, <2>1 DEF Unwinding, Settled
  <2> QED
    BY <1>2, <2>2 DEF IInv
<1> QED
  BY <1>4, <1>5 DEF Unwinding

LEMMA FreeBeginKeeps ==
    ASSUME Basics, Unwinding \/ Parsed, FreeBegin
    PROVE  IInv'
<1>1. phase # "parse" /\ phase' \in {"free", "over"} /\ Settled
  BY DEF FreeBegin, Settled
<1>2. Basics'
  BY <1>1, SettledKeeps
<1>3. PICK out : out = tree'
  OBVIOUS
<1>4. CASE phase = "unwind" /\ pass = 1
  <2>1. tree.alloc = 0 /\ phase' = "over" /\ tree' = tree
    BY <1>4 DEF FreeBegin, NULL
  <2>2. Doomed(tree)
    BY <1>4 DEF Unwinding, Parsed
  <2>3. Whole(tree) /\ tree.live = {}
    BY <2>1, <2>2, DoomedWhole DEF Doomed
  <2>4. Over'
    BY <1>1, <1>4, <2>1, <2>3 DEF Over, Settled
  <2> QED
    BY <1>2, <2>4 DEF IInv
<1>5. ASSUME phase' = "free", pass = 2, cause \in Late, Walking(out, cause) PROVE IInv'
  <2>1. Freeing'
    BY <1>1, <1>3, <1>5 DEF Freeing, Settled
  <2> QED
    BY <1>2, <2>1 DEF IInv
<1>6. CASE phase = "unwind" /\ pass = 2
  <2>1. tree.alloc = 0 /\ phase' = "free" /\ tree' = Rerooted(tree)
    BY <1>6 DEF FreeBegin, NULL, Rerooted
  <2>2. Left(tree) /\ cause = "memory"
    BY <1>6 DEF Unwinding, Parsed
  <2>3. Walking(out, "memory")
    BY <1>3, <2>1, <2>2, LeftBegins
  <2> QED
    BY <1>5, <1>6, <2>1, <2>2, <2>3 DEF Late
<1>7. CASE phase = "ok"
  <2>1. phase' = "free" /\ tree' = Rerooted(tree)
    BY <1>7 DEF FreeBegin, Rerooted
  <2>2. pass = 2 /\ cause = "none"
    BY <1>7 DEF Unwinding, Parsed
  <2>3. PICK F : Ready(F, tree)
    BY <1>7 DEF Unwinding, Parsed
  <2>4. Walking(out, "none")
    BY <1>3, <2>1, <2>3, ReadyBegins
  <2> QED
    BY <1>5, <2>1, <2>2, <2>4 DEF Late
<1> QED
  BY <1>4, <1>6, <1>7 DEF Unwinding, Parsed

LEMMA FreeDescendKeeps ==
    ASSUME Basics, Freeing, FreeDescend
    PROVE  IInv'
<1>1. phase = "free" /\ pass = 2 /\ cause \in Late /\ Walking(tree, cause) /\ Settled
  BY DEF Freeing, FreeDescend, Settled
<1>2. PICK v, out : /\ v = tree.top
                    /\ out = [tree EXCEPT !.node[v].length = @ - 1,
                                          !.top = tree.node[v].kids[tree.node[v].length]]
  OBVIOUS
<1>3. /\ v # 0 /\ Members(tree.node[v])
      /\ IF <<"data", v>> \notin tree.live THEN phase' = "fault" /\ tree' = tree
         ELSE tree' = out /\ phase' = "free"
  BY <1>1, <1>2 DEF FreeDescend, NULL
<1>4. IF <<"data", v>> \in tree.live THEN Walking(out, cause)
      ELSE cause = "memory" /\ tree.top = tree.root
  BY <1>1, <1>2, <1>3, WalkingDescends
<1>5. Basics'
  BY <1>1, <1>3, SettledKeeps
<1>6. CASE <<"data", v>> \in tree.live
  <2>1. Freeing'
    BY <1>1, <1>3, <1>4, <1>6 DEF Freeing, Settled
  <2> QED
    BY <1>5, <2>1 DEF IInv
<1>7. CASE <<"data", v>> \notin tree.live
  <2>1. phase' = "fault" /\ tree' = tree /\ cause' = "memory" /\ pass' = 2 /\ tree.top = tree.root
    BY <1>1, <1>3, <1>4, <1>7 DEF Settled
  <2>2. FaultsKnown'
    BY <2>1 DEF FaultsKnown, NoMemoryLate
  <2>3. Stopped'
    BY <1>1, <2>1, <2>2 DEF Stopped, Walking, Late
  <2> QED
    BY <1>5, <2>3 DEF IInv
<1> QED
  BY <1>6, <1>7

LEMMA FreeValueKeeps ==
    ASSUME Basics, Freeing, FreeValue
    PROVE  IInv'
<1>1. phase = "free" /\ phase' = "free" /\ pass = 2 /\ cause \in Late /\ Walking(tree, cause) /\ Settled
  BY DEF Freeing, FreeValue, Settled
<1>2. PICK v, out : /\ v = tree.top
                    /\ out = [Released(tree, {<<"value", v>>, <<"data", v>>})
                                 EXCEPT !.top = tree.node[v].parent]
  OBVIOUS
<1>3. v # 0 /\ ~Members(tree.node[v]) /\ tree' = out
  BY <1>2 DEF FreeValue, NULL
<1>4. Walking(out, cause)
  BY <1>1, <1>2, <1>3, WalkingFrees
<1>5. Basics'
  BY <1>1, SettledKeeps
<1>6. Freeing'
  BY <1>1, <1>3, <1>4 DEF Freeing, Settled
<1> QED
  BY <1>5, <1>6 DEF IInv

LEMMA FreeEndKeeps ==
    ASSUME Basics, Freeing, FreeEnd
    PROVE  IInv'
<1>1. /\ phase = "free" /\ phase' = "over" /\ pass = 2 /\ cause \in Late /\ Walking(tree, cause) /\ Settled
      /\ tree.top = 0 /\ tree' = tree
  BY DEF Freeing, FreeEnd, Settled, NULL
<1>2. cause = "none" => tree.live = {}
  BY <1>1, WalkingEnds
<1>3. (tree.live = {} \/ NoMemoryLate)'
  BY <1>1, <1>2 DEF Settled, NoMemoryLate, Late
<1>4. Over'
  BY <1>1, <1>3 DEF Over, Settled, Walking
<1>5. Basics'
  BY <1>1, SettledKeeps
<1> QED
  BY <1>4, <1>5 DEF IInv
-----------------------------------------------------------------------------
(***************************************************************************)
(* What follows.                                                           *)
(***************************************************************************)
LEMMA InvBegins == Init => IInv
<1> SUFFICES ASSUME Init PROVE IInv
  OBVIOUS
<1>1. /\ text \in Seq(Symbol) /\ pos = 1 /\ pass = 1 /\ flags = {"seek_value"} /\ string_length = 0
      /\ num_digits = 0 /\ tree = EmptyTree /\ phase = "parse" /\ cause = "none"
      /\ (Len(text) <= 1 \/ text \in Seeds)
  <2>1. Seeds \subseteq Seq(Symbol)
    BY JsonAssumption
  <2>2. text = <<>> => text \in Seq(Symbol) /\ Len(text) <= 1
    OBVIOUS
  <2> QED
    BY <2>1, <2>2 DEF Init
<1>2. Basics
  <2>1. flags \in SUBSET FlagSet
    BY <1>1 DEF FlagSet, Core
  <2>2. Len(text) \in Nat
    BY <1>1
  <2> QED
    BY <1>1, <2>1, <2>2 DEF Basics, Causes
<1>3. Drawn(Blank, tree)
  <2>1. tree.node = <<>> /\ Len(tree.node) = 0
    BY <1>1 DEF EmptyTree
  <2>2. Blank.n = 0 /\ Blank.top = 0
    BY DEF Blank
  <2>3. Values(1 .. 0) = {} /\ <<>> \in Seq(NodeType) /\ RootOf(Blank) = 0
    BY <2>2 DEF Values, RootOf
  <2>4. Framed(tree, 0, 0, 0, {})
    BY <1>1, <2>3 DEF Framed, EmptyTree, NULL
  <2>5. \A v \in 1 .. 0 : FALSE
    OBVIOUS
  <2>6. Framed(tree, Blank.top, RootOf(Blank), Blank.n, Values(1 .. Blank.n))
    BY <2>2, <2>3, <2>4, Zenon
  <2>7. \A v \in 1 .. Blank.n : FALSE
    BY <2>2, <2>5, Zenon
  <2> QED
    BY <2>1, <2>2, <2>6, <2>7 DEF Drawn
<1>4. Here(Begin, Blank)
  <2>1. Begin.pos = 1 /\ Begin.flags = {"seek_value"} /\ Begin.t = Blank /\ Begin.sl = 0
    BY DEF Begin
  <2>2. Rep(pass, Begin.t, Blank, tree)
    BY <1>1, <1>3, <2>1 DEF Rep
  <2>3. flags \in SUBSET FlagSet /\ flags \cap Core = Begin.flags
    BY <1>1, <2>1 DEF FlagSet, Core
  <2>4. On(Begin, Blank)
    BY <1>1, <2>1, <2>2, <2>3 DEF On
  <2> QED
    BY <1>1, <2>4, GoodBegin DEF Here
<1>5. Spaces(Begin, text)
  BY DEF Spaces, Begin
<1>6. FirstPass
  <2>1. PICK past : past = <<Begin>>
    OBVIOUS
  <2>2. History(past, text) /\ Last(past) = Begin
    BY <2>1, HistoryBegins
  <2> QED
    BY <1>4, <1>5, <2>2 DEF FirstPass, Reached
<1>7. Parsing
  BY <1>1, <1>6 DEF Parsing, SeedRead
<1> QED
  BY <1>2, <1>7 DEF IInv

LEMMA InvKept == IInv /\ [Next]_vars => IInv'
<1> SUFFICES ASSUME IInv, [Next]_vars PROVE IInv'
  OBVIOUS
<1>1. Basics
  BY DEF IInv
<1>2. CASE Parse
  <2>1. phase = "parse"
    BY <1>2 DEF Parse
  <2>2. Parsing
    BY <2>1 DEF IInv, Unwinding, Parsed, Freeing, Over, Stopped
  <2> QED
    BY <1>1, <1>2, <2>2, ParseKeeps
<1>3. CASE Unwind
  <2>1. phase = "unwind"
    BY <1>3 DEF Unwind
  <2>2. Unwinding
    BY <2>1 DEF IInv, Parsing, Parsed, Freeing, Over, Stopped
  <2> QED
    BY <1>1, <1>3, <2>2, UnwindKeeps
<1>4. CASE FreeBegin
  <2>1. phase \in {"unwind", "ok"}
    BY <1>4 DEF FreeBegin
  <2>2. Unwinding \/ Parsed
    BY <2>1 DEF IInv, Parsing, Freeing, Over, Stopped
  <2> QED
    BY <1>1, <1>4, <2>2, FreeBeginKeeps
<1>5. CASE FreeDescend \/ FreeValue \/ FreeEnd
  <2>1. phase = "free"
    BY <1>5 DEF FreeDescend, FreeValue, FreeEnd
  <2>2. Freeing
    BY <2>1 DEF IInv, Parsing, Unwinding, Parsed, Over, Stopped
  <2> QED
    BY <1>1, <1>5, <2>2, FreeDescendKeeps, FreeValueKeeps, FreeEndKeeps
<1>6. CASE UNCHANGED vars
  <2>1. Basics'
    BY <1>1, <1>6 DEF Basics, vars
  <2>2. CASE Parsing
    <3>1. FirstPass => FirstPass'
      BY <1>6 DEF FirstPass, Reached, Here, On, Scanning, vars
    <3>2. SecondPass => SecondPass'
      BY <1>6 DEF SecondPass, Here, On, vars
    <3>3. Parsing'
      BY <1>6, <2>2, <3>1, <3>2 DEF Parsing, SeedRead, vars
    <3> QED
      BY <2>1, <3>3 DEF IInv
  <2>3. CASE Unwinding
    BY <1>6, <2>1, <2>3 DEF IInv, Unwinding, vars
  <2>4. CASE Parsed
    BY <1>6, <2>1, <2>4 DEF IInv, Parsed, vars
  <2>5. CASE Freeing
    BY <1>6, <2>1, <2>5 DEF IInv, Freeing, vars
  <2>6. CASE Over
    BY <1>6, <2>1, <2>6 DEF IInv, Over, NoMemoryLate, vars
  <2>7. CASE Stopped
    BY <1>6, <2>1, <2>7 DEF IInv, Stopped, FaultsKnown, NoMemoryLate, vars
  <2> QED
    BY <2>2, <2>3, <2>4, <2>5, <2>6, <2>7 DEF IInv
<1> QED
  BY <1>2, <1>3, <1>4, <1>5, <1>6 DEF Next

LEMMA InvTyped == IInv => TypeOK
<1> SUFFICES ASSUME IInv PROVE TypeOK
  OBVIOUS
<1>1. Basics /\ Whole(tree)
  BY InvWhole DEF IInv
<1>2. pos \in 1 .. IF pass = 1 THEN Len(text) + 1 ELSE Len(text)
  <2>1. Len(text) \in Nat /\ text \in Seq(Symbol) /\ pass \in {1, 2}
    BY <1>1 DEF Basics
  <2>2. CASE pass = 1 \/ phase # "parse"
    BY <1>1, <2>1, <2>2 DEF Basics
  <2>3. CASE pass = 2 /\ phase = "parse"
    <3>1. SecondPass
      BY <2>3 DEF IInv, Parsing, Unwinding, Parsed, Freeing, Over, Stopped
    <3>2. pos \in Nat \ {0} /\ pos <= Len(text)
      BY <2>1, <2>3, <3>1, SecondPos, SecondFits
    <3> QED
      BY <2>1, <2>3, <3>2
  <2> QED
    BY <2>1, <2>2, <2>3
<1>3. phase \in {"parse", "unwind", "ok", "free", "over", "fault"}
  BY DEF IInv, Parsing, Unwinding, Parsed, Freeing, Over, Stopped
<1>4. /\ {tree.top, tree.root, tree.alloc} \subseteq 0..Len(tree.node)
      /\ tree.live \subseteq {"value", "data"} \X (1..Len(tree.node))
  BY <1>1 DEF Whole
<1>5. flags \subseteq {"seek_value", "need_comma", "need_colon", "string", "escaped",
                       "done", "num_e", "num_e_got_sign", "num_zero"}
  BY <1>1 DEF Basics, FlagSet, Core
<1> QED
  BY <1>1, <1>2, <1>3, <1>4, <1>5 DEF TypeOK, Basics, Causes

LEMMA InvPasses == IInv => PassesAgree
<1> SUFFICES ASSUME IInv PROVE PassesAgree
  OBVIOUS
<1>1. TypeOK /\ text \in Seq(Symbol)
  BY InvTyped DEF IInv, Basics
<1>2. SecondPassFollows
  BY DEF SecondPassFollows, IInv, Parsing, Unwinding, Parsed, Freeing, Over, Stopped, Late
<1>3. WritesFit
  <2>1. CASE pass = 2 /\ phase = "parse"
    <3>1. SecondPass
      BY <2>1 DEF IInv, Parsing, Unwinding, Parsed, Freeing, Over, Stopped
    <3> QED
      BY <1>1, <2>1, <3>1, SecondFits
  <2>2. CASE ~(pass = 2 /\ phase = "parse")
    BY <2>2 DEF WritesFit
  <2> QED
    BY <2>1, <2>2
<1>4. AllUsed
  <2>1. CASE phase = "ok"
    <3>1. \E F : Ready(F, tree)
      BY <2>1 DEF IInv, Parsing, Unwinding, Parsed, Freeing, Over, Stopped
    <3> QED
      BY <3>1, ReadyUsed
  <2>2. CASE phase # "ok"
    BY <2>2 DEF AllUsed
  <2> QED
    BY <2>1, <2>2
<1> QED
  BY <1>1, <1>2, <1>3, <1>4 DEF PassesAgree

LEMMA InvBlocks == IInv => BlocksAccounted
<1> SUFFICES ASSUME IInv PROVE BlocksAccounted
  OBVIOUS
<1>1. NothingLost
  BY DEF NothingLost, IInv, Parsing, Unwinding, Parsed, Freeing, Over, Stopped
<1>2. FaultsKnown
  <2>1. phase = "fault" => Stopped
    BY DEF IInv, Parsing, Unwinding, Parsed, Freeing, Over
  <2> QED
    BY <2>1 DEF Stopped, FaultsKnown
<1>3. phase = "free" /\ tree.top # NULL => <<"value", tree.top>> \in tree.live
  <2> SUFFICES ASSUME phase = "free", tree.top # 0 PROVE <<"value", tree.top>> \in tree.live
    BY DEF NULL
  <2>1. Walking(tree, cause)
    BY DEF IInv, Parsing, Unwinding, Parsed, Freeing, Over, Stopped
  <2> QED
    BY <2>1, WalkingTop
<1>4. phase = "unwind" /\ tree.alloc # NULL => <<"value", tree.alloc>> \in tree.live
  <2> SUFFICES ASSUME phase = "unwind", tree.alloc # 0 PROVE <<"value", tree.alloc>> \in tree.live
    BY DEF NULL
  <2>1. Doomed(tree) \/ Left(tree)
    BY DEF IInv, Parsing, Unwinding, Parsed, Freeing, Over, Stopped
  <2>2. Values(tree.alloc .. Len(tree.node)) \subseteq tree.live
    BY <2>1 DEF Doomed, Left
  <2>3. tree.alloc \in tree.alloc .. Len(tree.node)
    <3>1. Whole(tree)
      BY InvWhole
    <3>2. Len(tree.node) \in Nat /\ tree.alloc \in 0 .. Len(tree.node)
      BY <3>1, WholeFields DEF Fields, Bounded
    <3> QED
      BY <3>2
  <2> QED
    BY <2>2, <2>3 DEF Values
<1>5. FreesLiveOnly
  BY <1>3, <1>4 DEF FreesLiveOnly
<1> QED
  BY <1>1, <1>2, <1>5 DEF BlocksAccounted

\* The second pass of json_parse_ex goes the way of the first: it fails only
\* for want of memory, writes within what the first has measured, members,
\* characters and names, and when it ends has used every value and every byte.
\* Objects whose entries an int cannot measure it does not get past: they are
\* among the known faults of the next theorem.
THEOREM JsonPasses == Spec => []PassesAgree
<1>1. Init => IInv
  BY InvBegins
<1>2. IInv /\ [Next]_vars => IInv'
  BY InvKept
<1>3. IInv => PassesAgree
  BY InvPasses
<1> QED
  BY <1>1, <1>2, <1>3, PTL DEF Spec

\* json_parse_ex and json_value_free free every block they have made, once,
\* when the parse succeeds and when it fails; the clean-up and the walk touch
\* only blocks that are in use, but for the three known faults, one of them an
\* object too large for an int, and what is lost when memory runs out in the
\* second pass.
THEOREM JsonBlocks == Spec => []BlocksAccounted
<1>1. Init => IInv
  BY InvBegins
<1>2. IInv /\ [Next]_vars => IInv'
  BY InvKept
<1>3. IInv => BlocksAccounted
  BY InvBlocks
<1> QED
  BY <1>1, <1>2, <1>3, PTL DEF Spec
=============================================================================
