---------------------------- MODULE JsonReference ----------------------------
(***************************************************************************)
(* The texts that Json should accept, generated from the grammar of JSON,  *)
(* and what the tree of a text should hold, read off its symbols.          *)
(***************************************************************************)
EXTENDS Json

Cat(A, B) == {a \o b : a \in A, b \in B}
Wrapped(open, A, close) == Cat(Cat({<<open>>}, A), {<<close>>})

\* Texts by length: F[n + 1] are those of n symbols, and F is long enough.
Of(F, n) == IF n < 0 \/ n >= Len(F) THEN {} ELSE F[n + 1]
Pairs(F, G, n) == UNION {Cat(Of(F, i), Of(G, n - i)) : i \in 0..n}
ByLength(Op(_)) == [k \in 1..(MaxLen + 1) |-> Op(k - 1)]

-----------------------------------------------------------------------------
DigitRun(n) == IF n < 1 THEN {} ELSE [1..n -> Digit]
Empty(n)    == IF n = 0 THEN {<<>>} ELSE {}

Whole    == ByLength(LAMBDA n : {s \in DigitRun(n) : n = 1 \/ s[1] # "0"})
Fraction == ByLength(LAMBDA n : Empty(n) \cup Cat({<<".">>}, DigitRun(n - 1)))
Power    == ByLength(LAMBDA n : Empty(n) \cup Cat({<<"e">>}, DigitRun(n - 1))
                                \cup Cat({<<"e", "+">>, <<"e", "-">>}, DigitRun(n - 2)))
Unsigned == ByLength(LAMBDA n : Pairs(ByLength(LAMBDA k : Pairs(Whole, Fraction, k)), Power, n))

\* The parser also takes a minus for a number, alone or before an exponent.
Numbers  == ByLength(LAMBDA n : Of(Unsigned, n) \cup Cat({<<"-">>}, Of(Unsigned, n - 1))
                                \cup Cat({<<"-">>}, Of(Power, n - 1)))

Content  == LET more(f, n) == Append(f,
                    IF n = 0 THEN {<<>>}
                    ELSE Cat({<<"x">>}, Of(f, n - 1)) \cup
                         Cat({<<"back", c>> : c \in Escaped \ {"badhex"}}, Of(f, n - 2)))
            IN  FoldLeft(more, <<>>, [k \in 1..(MaxLen + 1) |-> k - 1])
Strings  == ByLength(LAMBDA n : Wrapped("quote", Of(Content, n - 2), "quote"))

\* Values, and non-empty sequences of values and of members, of n symbols.  The
\* parser also takes a comma behind the last of them.
Grammar ==
    LET values(g)   == [k \in DOMAIN g |-> g[k].value]
        items(g)    == [k \in DOMAIN g |-> g[k].items]
        members(g)  == [k \in DOMAIN g |-> g[k].members]
        closed(F, n) == Empty(n) \cup Of(F, n) \cup Cat(Of(F, n - 1), {<<"comma">>})
        more(g, n)  ==
            LET value  == (IF n = 1 THEN {<<"lit">>} ELSE {})
                          \cup Of(Numbers, n) \cup Of(Strings, n)
                          \cup Wrapped("[", closed(items(g), n - 2), "]")
                          \cup Wrapped("lbrace", closed(members(g), n - 2), "rbrace")
                colon  == ByLength(LAMBDA k : Cat({<<":">>}, Of(values(g), k - 1)))
                member == ByLength(LAMBDA k : IF k > n THEN {} ELSE Pairs(Strings, colon, k))
                comma(F) == ByLength(LAMBDA k : Cat({<<"comma">>}, Of(F, k - 1)))
            IN  Append(g, [value   |-> value,
                           items   |-> value \cup Pairs(values(g), comma(items(g)), n),
                           members |-> Of(member, n)
                                       \cup Pairs(member, comma(members(g)), n)])
    IN  FoldLeft(more, <<>>, [k \in 1..(MaxLen + 1) |-> k - 1])

JsonTexts == Cat(UNION {Grammar[k].value : k \in 1..(MaxLen + 1)}, {<<"eof">>})
Beginnings == UNION {{SubSeq(s, 1, k) : k \in 0..Len(s)} : s \in JsonTexts}

-----------------------------------------------------------------------------
Stripped(s) == SelectSeq(s, LAMBDA b : b # "ws")
\* Whitespace in a number makes two numbers of it, or an unfinished one.
Broken(s) ==
    \/ \E i, j \in DOMAIN s : /\ i + 1 < j /\ {s[i], s[j]} \subseteq Numeric
                             /\ \A k \in (i + 1)..(j - 1) : s[k] = "ws"
    \/ Len(s) > 1 /\ s[Len(s)] = "ws" /\ s[Len(s) - 1] \in Numeric

\* The tokens of the text from place i on, without the commas before a bracket;
\* a string with its length in bytes.
Tokens ==
    LET s == Stripped(text)
        string[i \in Nat, k \in Nat] ==
            CASE s[i] = "quote" -> <<k, i + 1>>
              [] s[i] = "back" -> string[i + 2, k + Bytes(s[i + 1])]
              [] OTHER -> string[i + 1, k + 1]
        from[i \in Nat] ==
            CASE s[i] = "eof" -> <<>>
              [] s[i] = "quote" -> LET end == string[i + 1, 0]
                                   IN  <<<<"string", end[1]>>>> \o from[end[2]]
              [] s[i] \in Numeric ->
                     LET end == CHOOSE j \in i..Len(s) : /\ s[j] \notin Numeric
                                                         /\ \A k \in i..(j - 1) : s[k] \in Numeric
                         run == Range(SubSeq(s, i, end - 1))
                     IN  <<<<IF run \cap {".", "e"} = {} THEN "integer" ELSE "double", 0>>>>
                         \o from[end]
              [] s[i] = "lit" -> <<<<"literal", 0>>>> \o from[i + 1]
              [] s[i] = "comma" /\ s[i + 1] \in {"]", "rbrace"} -> from[i + 1]
              [] OTHER -> <<<<s[i], 0>>>> \o from[i + 1]
    IN  from[1]

\* The tokens of the value v of the tree.
Printed ==
    LET list(n, print(_)) ==
            FoldLeft(LAMBDA out, k : (IF k = 1 THEN <<>> ELSE Append(out, <<"comma", 0>>)) \o print(k),
                     <<>>, [k \in 1..n |-> k])
        value[v \in 1..Len(tree.node)] ==
            LET n == tree.node[v]
            IN  CASE n.type = "array" ->
                       <<<<"[", 0>>>> \o list(n.length, LAMBDA k : value[n.kids[k]]) \o <<<<"]", 0>>>>
                  [] n.type = "object" ->
                       <<<<"lbrace", 0>>>>
                       \o list(n.length, LAMBDA k : <<<<"string", n.keys[k]>>, <<":", 0>>>>
                                                    \o value[n.kids[k]])
                       \o <<<<"rbrace", 0>>>>
                  [] OTHER -> <<<<n.type, n.length>>>>
    IN  value[tree.root]

\* json_parse accepts the texts of the grammar and no others: the flags that it
\* keeps between characters stand for the grammar.
LanguageExact ==
    ~Seeded =>
        /\ phase = "ok" => Stripped(text) \in JsonTexts
        /\ phase = "unwind" /\ cause = "syntax" /\ ~Broken(text)
              => Stripped(text) \notin Beginnings

\* The tree has every value of the text, in its place and of its type, and
\* every name beside its value.
TreeExact == phase = "ok" => Printed = Tokens

\* json_parse accepts what it should and returns what the text says.
ParseExact == LanguageExact /\ TreeExact
=============================================================================
