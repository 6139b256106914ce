-------------------------------- MODULE Json --------------------------------
(***************************************************************************)
(* The JSON parser of json.c and json_value_free.                          *)
(*                                                                         *)
(* json_parse_ex runs twice over its text: the first pass allocates the    *)
(* values and measures strings, names and members, the second takes the    *)
(* values in the same order from the chain next_alloc, allocates what was  *)
(* measured and fills it.  An action is one iteration of its loop, of the  *)
(* clean-up under e_failed, or of the loop of json_value_free.             *)
(*                                                                         *)
(* The text is chosen while the first pass reads it.  A symbol is a        *)
(* character that matters, or its name; true, false and null are one       *)
(* symbol (lit), u2 and u3 are a u with the digits of a character of 2 or  *)
(* 3 bytes, and x is any other character.  Numbers have no value, strings  *)
(* only a length.                                                          *)
(* The settings are those of json_parse: strict commas, no memory limit.   *)
(***************************************************************************)
EXTENDS Integers, FiniteSets, SequencesExt

CONSTANTS MaxLen,     \* bound on the symbols of a text
          Seeds, More, \* or it begins with one of Seeds, with at most More beyond
          uint_max,   \* the largest length of a string, array or object
          int_max,    \* the largest int
          EntrySize,  \* the bytes of an object's entry, a name and a value
          Failing     \* the passes in which malloc may fail

VARIABLES text,       \* what has been read of the text in the first pass
          pos,        \* the place of i
          pass,       \* 1 or 2
          flags,
          string_length,
          num_digits, \* 0, 1 or 2 for more
          tree,       \* the values with top, root, alloc, and the blocks in use
          phase,      \* where the call is: parse, unwind, ok, free, over, fault
          cause       \* history: why parsing failed

vars == <<text, pos, pass, flags, string_length, num_digits, tree, phase, cause>>

NULL     == 0
Digit    == {"0", "1"}
Numeric  == Digit \cup {"+", "-", "e", "."}
Symbol   == Numeric \cup {"lbrace", "rbrace", "[", "]", "quote", "comma", ":", "ws", "lit", "x",
                          "eof", "back", "u2", "u3", "badhex"}
InString == {"quote", "back", "x"}
Escaped  == {"quote", "u2", "u3", "badhex"}

\* A seed spares the search; its first symbol is one that a value begins with.
ASSUME JsonAssumption ==
    /\ MaxLen \in Nat /\ More \in Nat /\ uint_max \in Nat \ {0} /\ Failing \subseteq {1, 2}
    /\ int_max \in Nat /\ EntrySize \in Nat
    /\ Seeds \subseteq Seq(Symbol)
    /\ \A s \in Seeds : Len(s) > MaxLen /\ s # <<>> /\ Head(s) \notin {"ws", "]"}

Seeded == \E s \in Seeds : IsPrefix(s, text)

MayGoOn == \/ Len(text) < MaxLen
           \/ \E s \in Seeds : IsPrefix(s, text) /\ Len(text) < Len(s) + More

\* What the text may go on with; in a string, a character that means nothing
\* there is an x.
Offered ==
    {"eof"} \cup
    IF ~MayGoOn THEN {}
    ELSE IF "string" \notin flags THEN Symbol \ {"back", "u2", "u3", "badhex"}
    ELSE IF "escaped" \in flags THEN Escaped ELSE InString

Read(b) == IF pos <= Len(text) THEN b = text[pos] /\ UNCHANGED text
           ELSE b \in Offered /\ text' = Append(text, b)

Type(t, v)   == t.node[v].type
Sized        == {"object", "array", "string"}
EmptyTree    == [node |-> <<>>, top |-> NULL, root |-> NULL, alloc |-> NULL, live |-> {}]

Init ==
    /\ text \in {<<>>} \cup Seeds /\ pos = 1 /\ pass = 1 /\ flags = {"seek_value"}
    /\ string_length = 0 /\ num_digits = 0
    /\ tree = EmptyTree /\ phase = "parse" /\ cause = "none"

-----------------------------------------------------------------------------
\* new_value.  size and room are what the second pass allocates for members or
\* bytes and for names; names counts the bytes of names in each pass.
NewFirst(t, type) ==
    LET v   == Len(t.node) + 1
        new == [type |-> type, parent |-> t.top, length |-> 0, names |-> 0, size |-> 0,
                room |-> 0, next_alloc |-> NULL, keys |-> <<>>, kids |-> <<>>]
        linked == IF t.alloc = NULL THEN t.node
                  ELSE [t.node EXCEPT ![t.alloc].next_alloc = v]
    IN  [node |-> Append(linked, new), top |-> v, alloc |-> v,
         root |-> IF t.root = NULL THEN v ELSE t.root,
         live |-> t.live \cup {<<"value", v>>}]

Taken(t) == [t EXCEPT !.top = t.alloc, !.alloc = t.node[t.alloc].next_alloc,
                      !.root = IF @ = NULL THEN t.alloc ELSE @]

NewSecond(t) ==
    LET v == t.alloc
        n == t.node[v]
    IN  IF n.type \notin Sized THEN Taken(t)
        ELSE [Taken(t) EXCEPT !.live = @ \cup {<<"data", v>>},
                  !.node[v] = [n EXCEPT !.size = n.length, !.room = n.names,
                                        !.length = 0, !.names = 0]]

New(type) == IF pass = 1 THEN NewFirst(tree, type) ELSE NewSecond(tree)

\* new_value has the size of an object's entries in an int, whatever their number.
Narrowed(k) == ((k + int_max + 1) % (2 * (int_max + 1))) - (int_max + 1)

Narrow(n) == n.type = "object" /\ EntrySize * n.length > int_max

\* Where the code would follow NULL, or write over what is not its own.
Fault ==
    /\ phase' = "fault"
    /\ UNCHANGED <<pos, pass, flags, string_length, num_digits, tree, cause>>

\* e_failed, with the values as they are in t.
FailWith(t, why) ==
    /\ phase' = "unwind" /\ cause' = why
    /\ tree' = IF pass = 1 THEN [t EXCEPT !.alloc = t.root] ELSE t
    /\ UNCHANGED <<pos, pass, flags, string_length, num_digits>>

Fail == FailWith(tree, "syntax")

Go(p, f) == /\ pos' = p /\ flags' = f
            /\ UNCHANGED <<pass, phase, cause>>

Continue(f) == Go(pos + 1, f) /\ UNCHANGED <<string_length, num_digits, tree>>

\* Faulty variant of the next: the members come out backwards.
MembersBack(n, v) == <<v>> \o n.kids

MembersWith(n, v) == Append(n.kids, v)

\* The end of an iteration with flag_next: the value is complete and goes to
\* its parent, whose members are stored in the second pass only.
Finish(t, p, f) ==
    LET parent == t.node[t.top].parent
        n      == t.node[parent]
        after  == (f \ {"next"}) \cup {"need_comma"}
        stored == [n EXCEPT !.length = @ + 1,
                            !.kids = IF pass = 1 THEN @ ELSE MembersWith(n, t.top)]
    IN  /\ IF parent = NULL
           THEN Go(p, after \cup {"done"}) /\ tree' = t
           ELSE IF n.length + 1 > uint_max
           THEN FailWith([t EXCEPT !.node[parent] = stored], "overflow")
           ELSE /\ Go(p, after \cup IF n.type = "array" THEN {"seek_value"} ELSE {})
                /\ tree' = [t EXCEPT !.node[parent] = stored, !.top = parent]
        /\ UNCHANGED <<string_length, num_digits>>

-----------------------------------------------------------------------------
\* flag_done: only whitespace may follow.  A pass ends at the end of the text.
Trailing(b) ==
    /\ "done" \in flags
    /\ \/ b = "ws" /\ Continue(flags)
       \/ b \notin {"ws", "eof"} /\ Fail
       \/ /\ b = "eof" /\ pass = 1
          /\ pass' = 2 /\ pos' = 1 /\ flags' = {"seek_value"}
          /\ tree' = [tree EXCEPT !.top = NULL, !.root = NULL, !.alloc = tree.root]
          /\ UNCHANGED <<string_length, num_digits, phase, cause>>
       \/ /\ b = "eof" /\ pass = 2
          /\ phase' = "ok"
          /\ UNCHANGED <<pos, pass, flags, string_length, num_digits, tree, cause>>

Add(k, f) == Go(pos + 1, f) /\ string_length' = string_length + k
             /\ UNCHANGED <<num_digits, tree>>

Bytes(b) == CASE b = "u2" -> 2 [] b = "u3" -> 3 [] OTHER -> 1

NameSize(k) == k + 1

\* The closing quote of a value, or of a name in an object.
StringEnd ==
    LET n == tree.node[tree.top]
    IN  IF n.type = "string"
        THEN Finish([tree EXCEPT !.node[tree.top].length = string_length],
                    pos + 1, flags \ {"string"})
        ELSE /\ Go(pos + 1, (flags \ {"string"}) \cup {"seek_value", "need_colon"})
             /\ tree' = [tree EXCEPT !.node[tree.top] =
                            [n EXCEPT !.names = @ + NameSize(string_length),
                                      !.keys = IF pass = 1 THEN @
                                               ELSE Append(@, string_length)]]
             /\ UNCHANGED <<string_length, num_digits>>

\* flag_string.
Character(b) ==
    /\ "done" \notin flags /\ "string" \in flags
    /\ IF b = "eof" THEN Fail
       ELSE IF string_length > uint_max THEN FailWith(tree, "overflow")
       ELSE IF "escaped" \in flags
       THEN IF b = "badhex" THEN Fail ELSE Add(Bytes(b), flags \ {"escaped"})
       ELSE IF b = "back" THEN Continue(flags \cup {"escaped"})
       ELSE IF b = "quote" THEN StringEnd
       ELSE Add(1, flags)

-----------------------------------------------------------------------------
Seeking == {"done", "string"} \cap flags = {} /\ "seek_value" \in flags

Before(b) == Seeking /\ b \notin {"ws", "]"}

\* The end of an array, also behind a comma.  Nothing keeps a text from
\* beginning with ], when top is NULL.
CloseArray(b) ==
    /\ Seeking /\ b = "]"
    /\ IF tree.top = NULL THEN Fault
       ELSE IF Type(tree, tree.top) = "array"
       THEN Finish(tree, pos + 1, flags \ {"need_comma", "seek_value"})
       ELSE Fail

SeekSpace(b) == Seeking /\ b = "ws" /\ Continue(flags)

Comma(b) ==
    /\ Before(b) /\ "need_comma" \in flags
    /\ IF b = "comma" THEN Continue(flags \ {"need_comma"}) ELSE Fail

Colon(b) ==
    /\ Before(b) /\ "need_comma" \notin flags /\ "need_colon" \in flags
    /\ IF b = ":" THEN Continue(flags \ {"need_colon"}) ELSE Fail

\* A value begins.
Starts == flags \ {"seek_value"}

StartsValue(b) == Before(b) /\ {"need_comma", "need_colon"} \cap flags = {}

OpenObject(b) ==
    /\ StartsValue(b) /\ b = "lbrace"
    /\ pass = 2 => ~Narrow(tree.node[tree.alloc])
    /\ Go(pos + 1, Starts) /\ tree' = New("object")
    /\ UNCHANGED <<string_length, num_digits>>

\* Less memory is asked for than the members need, and they are written outside
\* of it or over their names; or the sum is negative, and as an unsigned number
\* more than there is.
NarrowObject(b) ==
    LET n     == tree.node[tree.alloc]
        asked == Narrowed(EntrySize * n.length) + n.names
    IN  /\ StartsValue(b) /\ b = "lbrace"
        /\ pass = 2 /\ Narrow(n)
        /\ IF asked < 0 THEN FailWith(Taken(tree), "memory") ELSE Fault

OpenArray(b) ==
    /\ StartsValue(b) /\ b = "["
    /\ Go(pos + 1, flags) /\ tree' = New("array")
    /\ UNCHANGED <<string_length, num_digits>>

OpenString(b) ==
    /\ StartsValue(b) /\ b = "quote"
    /\ Go(pos + 1, Starts \cup {"string"}) /\ tree' = New("string")
    /\ string_length' = 0
    /\ UNCHANGED num_digits

Literal(b) == StartsValue(b) /\ b = "lit" /\ Finish(New("literal"), pos + 1, Starts)

\* The first pass looks at a digit again, as part of the number.
OpenNumber(b) ==
    /\ StartsValue(b) /\ b \in Digit \cup {"-"} /\ pass = 1
    /\ Go(IF b = "-" THEN pos + 1 ELSE pos, Starts \ {"num_e", "num_e_got_sign", "num_zero"})
    /\ tree' = New("integer") /\ num_digits' = 0
    /\ UNCHANGED string_length

\* Faulty variant of the next: the second pass stops at the exponent.
InMantissa(b) == b \in Numeric \ {"e"}

InNumeral(b) == b \in Numeric

\* The second pass skips whatever may stand in a number.
SkipNumber(b) ==
    /\ StartsValue(b) /\ b \in Digit \cup {"-"} /\ pass = 2
    /\ LET ends == {k \in pos..Len(text) : ~InNumeral(text[k])}
       IN  Finish(New("integer"), CHOOSE k \in ends : \A j \in ends : k <= j, Starts)

NoValue(b) ==
    /\ StartsValue(b) /\ b \notin Digit \cup {"-", "lbrace", "[", "quote", "lit"}
    /\ Fail

\* new_value fails.  In the second pass the value has been taken, but keeps its
\* length and gets no block for it; it is in the tree only if it is the root.
NoMemory(b) ==
    /\ StartsValue(b) /\ b \in Digit \cup {"-", "lbrace", "[", "quote", "lit"}
    /\ pass \in Failing
    /\ pass = 2 => Type(tree, tree.alloc) \in Sized
    /\ FailWith(IF pass = 1 THEN tree ELSE Taken(tree), "memory")

-----------------------------------------------------------------------------
Inside(types) == /\ {"done", "string", "seek_value"} \cap flags = {}
                 /\ Type(tree, tree.top) \in types

\* Between the members of an object.  A comma may come before the brace.
Object(b) ==
    /\ Inside({"object"})
    /\ CASE b = "ws" -> Continue(flags)
         [] b = "quote" /\ "need_comma" \notin flags ->
               /\ Go(pos + 1, flags \cup {"string"})
               /\ string_length' = 0
               /\ UNCHANGED <<num_digits, tree>>
         [] b = "rbrace" -> Finish(tree, pos + 1, flags \ {"need_comma"})
         [] b = "comma" /\ "need_comma" \in flags -> Continue(flags \ {"need_comma"})
         [] OTHER -> Fail

Exponent == "num_e" \in flags
Double   == Type(tree, tree.top) = "double"

Digits(b) ==
    /\ Inside({"integer", "double"}) /\ b \in Digit
    /\ IF ~Exponent /\ ~Double /\ "num_zero" \in flags THEN Fail
       ELSE /\ Go(pos + 1, IF Exponent THEN flags \cup {"num_e_got_sign"}
                           ELSE IF ~Double /\ num_digits = 0 /\ b = "0"
                           THEN flags \cup {"num_zero"} ELSE flags)
            /\ num_digits' = IF num_digits = 2 THEN 2 ELSE num_digits + 1
            /\ UNCHANGED <<string_length, tree>>

Sign(b)  == b \in {"+", "-"} /\ Exponent /\ "num_e_got_sign" \notin flags
Point(b) == b = "." /\ ~Double

\* The rest of a number: sign, point, exponent, and the symbol behind it, which
\* the next iteration looks at again.
Number(b) ==
    /\ Inside({"integer", "double"}) /\ b \notin Digit
    /\ IF Sign(b) THEN Continue(flags \cup {"num_e_got_sign"})
       ELSE IF num_digits = 0 /\ (Point(b) \/ Double) THEN Fail
       ELSE IF Point(b) \/ (b = "e" /\ ~Exponent)
       THEN /\ Go(pos + 1, IF b = "." THEN flags ELSE (flags \cup {"num_e"}) \ {"num_zero"})
            /\ num_digits' = 0
            /\ tree' = [tree EXCEPT !.node[tree.top].type = "double"]
            /\ UNCHANGED string_length
       ELSE Finish(tree, pos, flags)

Parse == /\ phase = "parse"
         /\ \E b \in Symbol :
                /\ Read(b)
                /\ \/ Trailing(b) \/ Character(b) \/ SeekSpace(b) \/ CloseArray(b)
                   \/ Comma(b) \/ Colon(b) \/ OpenObject(b) \/ NarrowObject(b)
                   \/ OpenArray(b) \/ OpenString(b) \/ Literal(b) \/ OpenNumber(b)
                   \/ SkipNumber(b) \/ NoValue(b) \/ NoMemory(b) \/ Object(b) \/ Digits(b) \/ Number(b)
-----------------------------------------------------------------------------
\* The clean-up frees the chain that is left: all values in the first pass, in
\* the second those that have not been taken.
Released(t, blocks) == [t EXCEPT !.live = @ \ blocks]

\* Faulty variant of the next: the chain is not followed.
UnwindStuck ==
    /\ phase = "unwind" /\ tree.alloc # NULL
    /\ tree' = Released(tree, {<<"value", tree.alloc>>})
    /\ UNCHANGED <<text, pos, pass, flags, string_length, num_digits, phase, cause>>

Unwind ==
    /\ phase = "unwind" /\ tree.alloc # NULL
    /\ tree' = [Released(tree, {<<"value", tree.alloc>>})
                   EXCEPT !.alloc = tree.node[tree.alloc].next_alloc]
    /\ UNCHANGED <<text, pos, pass, flags, string_length, num_digits, phase, cause>>

\* json_value_free, of the root after a failure or of what the client got.
FreeBegin ==
    /\ \/ phase = "unwind" /\ tree.alloc = NULL
       \/ phase = "ok"
    /\ IF phase = "unwind" /\ pass = 1
       THEN phase' = "over" /\ UNCHANGED tree
       ELSE phase' = "free" /\ tree' = [tree EXCEPT !.top = tree.root]
    /\ UNCHANGED <<text, pos, pass, flags, string_length, num_digits, cause>>

Members(n) == n.type \in {"object", "array"} /\ n.length > 0

\* The walk descends to the last member it has not freed, counting them down.
FreeDescend ==
    LET v == tree.top
        n == tree.node[v]
    IN  /\ phase = "free" /\ v # NULL /\ Members(n)
        /\ IF <<"data", v>> \notin tree.live
           THEN phase' = "fault" /\ UNCHANGED tree
           ELSE /\ tree' = [tree EXCEPT !.node[v].length = @ - 1, !.top = n.kids[n.length]]
                /\ UNCHANGED phase
        /\ UNCHANGED <<text, pos, pass, flags, string_length, num_digits, cause>>

\* Faulty variant of the next: the members' block is forgotten.
FreeBare ==
    LET v == tree.top
    IN  /\ phase = "free" /\ v # NULL /\ ~Members(tree.node[v])
        /\ tree' = [Released(tree, {<<"value", v>>}) EXCEPT !.top = tree.node[v].parent]
        /\ UNCHANGED <<text, pos, pass, flags, string_length, num_digits, phase, cause>>

FreeValue ==
    LET v == tree.top
    IN  /\ phase = "free" /\ v # NULL /\ ~Members(tree.node[v])
        /\ tree' = [Released(tree, {<<"value", v>>, <<"data", v>>})
                       EXCEPT !.top = tree.node[v].parent]
        /\ UNCHANGED <<text, pos, pass, flags, string_length, num_digits, phase, cause>>

FreeEnd ==
    /\ phase = "free" /\ tree.top = NULL
    /\ phase' = "over"
    /\ UNCHANGED <<text, pos, pass, flags, string_length, num_digits, tree, cause>>

Next == Parse \/ Unwind \/ FreeBegin \/ FreeDescend \/ FreeValue \/ FreeEnd

\* A call runs until it returns; texts end.
Spec == Init /\ [][Next]_vars /\ WF_vars(Next)

-----------------------------------------------------------------------------
\* Types; the second pass stays within the text, the end included.
TypeOK ==
    /\ text \in Seq(Symbol) /\ pass \in {1, 2}
    /\ pos \in 1..IF pass = 1 THEN Len(text) + 1 ELSE Len(text)
    /\ flags \subseteq {"seek_value", "need_comma", "need_colon", "string", "escaped",
                        "done", "num_e", "num_e_got_sign", "num_zero"}
    /\ string_length \in Nat /\ num_digits \in 0..2
    /\ {tree.top, tree.root, tree.alloc} \subseteq 0..Len(tree.node)
    /\ tree.live \subseteq {"value", "data"} \X (1..Len(tree.node))
    /\ phase \in {"parse", "unwind", "ok", "free", "over", "fault"}
    /\ cause \in {"none", "syntax", "overflow", "memory"}

NoMemoryLate == cause = "memory" /\ pass = 2

\* What the first pass accepts the second accepts, though it reads numbers by
\* another rule: after the first pass only malloc can fail.
SecondPassFollows == pass = 2 => cause \in {"none", "memory"}

\* The second pass writes only where the first has measured, members, bytes of
\* strings and the bytes of names behind the members: of an object whose entries
\* an int can measure.  A larger one is a known fault, see FaultsKnown.
WritesFit ==
    pass = 2 /\ phase = "parse" =>
        \A v \in 1..Len(tree.node) : <<"data", v>> \in tree.live =>
            LET n == tree.node[v]
            IN  /\ n.length <= n.size /\ n.names <= n.room
                /\ Len(n.kids) <= n.size /\ Len(n.keys) <= n.size
                /\ "string" \in flags /\ tree.top = v =>
                      IF n.type = "string" THEN string_length <= n.size
                      ELSE n.names + string_length < n.room

\* A parse that succeeds has used every value and all that was measured.
AllUsed ==
    phase = "ok" =>
        /\ tree.alloc = NULL
        /\ \A v \in 1..Len(tree.node) : tree.node[v].type \in Sized =>
              tree.node[v].length = tree.node[v].size /\ tree.node[v].names = tree.node[v].room

\* The passes agree: the second takes the path of the first, writes only what the
\* first has measured, and all of it.
PassesAgree == TypeOK /\ SecondPassFollows /\ WritesFit /\ AllUsed

\* The texts and failures that end the process or damage its memory: a text that
\* begins with a closing bracket; no memory for the members of the root; and an
\* object whose entries have more bytes than an int can count.
FaultsKnown ==
    phase = "fault" =>
        \/ cause = "none" /\ pass = 1 /\ Last(text) = "]" /\ Range(Front(text)) \subseteq {"ws"}
        \/ NoMemoryLate /\ tree.top = tree.root
        \/ cause = "none" /\ pass = 2 /\ Narrow(tree.node[tree.alloc])

\* Every block is freed, and none twice or while it is needed.  What is lost
\* when the second pass fails is the unfinished values but the root.
NothingLost == phase = "over" => (tree.live = {} \/ NoMemoryLate)

\* The values that a walk has still to free are in use.
FreesLiveOnly ==
    /\ phase = "free" /\ tree.top # NULL => <<"value", tree.top>> \in tree.live
    /\ phase = "unwind" /\ tree.alloc # NULL => <<"value", tree.alloc>> \in tree.live

\* Every block that json_parse makes is freed once, on the error paths as well,
\* and no step uses a block that was not made, but for the known faults.
BlocksAccounted == NothingLost /\ FreesLiveOnly /\ FaultsKnown

\* json_parse and json_value_free return, or the process ends.
ParseReturns == <>(phase \in {"over", "fault"})
=============================================================================
