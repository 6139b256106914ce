---------------------------- MODULE TnsReference ----------------------------
(***************************************************************************)
(* What a text says as a TNetstring, read off the text by a grammar, and   *)
(* the properties of Variant and Tns.  The grammar is the one the parser   *)
(* takes: a number may begin with zeros, with a minus, or be absent.       *)
(***************************************************************************)
EXTENDS Tns

\* Bytes that have not been read may be what they must be only when maybe holds.
IsDigit(i, maybe) == text[i] \in Digit \cup (IF maybe THEN {Unread} ELSE {})

IsNumber(i, j, maybe) ==
    \/ i = j
    \/ /\ IsDigit(j - 1, maybe)
       /\ IsDigit(i, maybe) \/ text[i] = "-"
       /\ \A n \in i + 1 .. j - 1 : IsDigit(n, maybe)

Magnitude(i, j) ==
    LET upto[n \in i .. j] == IF n = i THEN 0
                              ELSE 10 * upto[n - 1] + (IF text[n - 1] \in Digit THEN ValueOf[text[n - 1]] ELSE 0)
    IN  upto[j]

NumberAt(i, j) == IF text[i] = "-" THEN -Magnitude(i, j) ELSE Magnitude(i, j)

\* The bytes from i to j - 1 are a TNetstring whose payload begins after c.
Shape(i, c, j) ==
    /\ IsNumber(i, c, FALSE) /\ text[c] = ":"
    /\ NumberAt(i, c) = j - c - 2

RECURSIVE Possible(_, _), PossibleMembers(_, _)
PossiblePayload(i, k) ==
    CASE text[k] \in {Unread, ","} -> TRUE
      [] text[k] \in {"#", "^"}    -> IsNumber(i, k, TRUE)
      [] text[k] = "!"             -> k - i \in {4, 5}
      [] text[k] = "~"             -> i = k
      [] text[k] = "]"             -> PossibleMembers(i, k)
      [] text[k] = "}"             -> i = k
      [] OTHER                     -> FALSE

\* The bytes from i to j - 1 could still turn out to be a TNetstring.
Possible(i, j) == \E c \in i .. j - 2 : Shape(i, c, j) /\ PossiblePayload(c + 1, j - 1)

PossibleMembers(i, k) ==
    i = k \/ \E m \in i + 2 .. k : Possible(i, m) /\ PossibleMembers(m, k)

RECURSIVE Says(_, _, _), SaysMembers(_, _, _)
SaysPayload(v, i, k) ==
    LET n == Node(heap, v)
    IN  /\ text[k] \in Tag /\ TypeFor[text[k]] = n.type
        /\ CASE n.type = "string"  -> IF n.string = NULL THEN starved
                                      ELSE heap.string[n.string] = Part(i, k - i)
             [] n.type \in {"integer", "float"} -> IsNumber(i, k, FALSE) /\ n.value = NumberAt(i, k)
             [] n.type = "boolean" -> k - i = (IF n.value = 1 THEN 4 ELSE 5)
             [] n.type = "list"    -> SaysMembers(n.items, i, k)
             [] OTHER              -> i = k /\ n.entries = {}

\* The bytes from i to j - 1 say v.
Says(v, i, j) == \E c \in i .. j - 2 : Shape(i, c, j) /\ SaysPayload(v, c + 1, j - 1)

SaysMembers(items, i, k) ==
    IF items = <<>> THEN i = k
    ELSE \E m \in i + 2 .. k : Says(Head(items), i, m) /\ SaysMembers(Tail(items), m, k)

-----------------------------------------------------------------------------
\* What m2_parse_tns returns is what the text says, and *rest is where the text
\* goes on; members end inside their list, whatever their sizes claim.
AcceptedExact ==
    pc = "done" => \A p \in Range(parsed) : p.val # NULL => Says(p.val, p.data, p.rest)

\* A text that m2_parse_tns refuses does not begin with a TNetstring, unless
\* memory has run out.
RefusedExact ==
    pc = "done" /\ ~starved /\ Last(parsed).val = NULL =>
      LET from == Last(parsed).data
      IN  ~\E j \in from + 2 .. length : Possible(from, j)

\* m2_parse_tns accepts what it should and returns what the text says.
TnsExact == TypeOK /\ ParserTypeOK /\ AcceptedExact /\ RefusedExact

\* However sizes nest, the parser looks at most one byte further behind the
\* message for each list or dict it is in, and at the tag one byte behind that:
\* check compares the size before it steps over the colon (variant.c:314).
LooksNear == pc = "tag" => at <= length + 1 + Len(stack)

\* Every block in use belongs to a value or a key of the application, to a call
\* in progress, or is one that was let go: what dict_set replaced with the key
\* it did not need, both when there was no memory for the entry, and members of
\* a list there was no memory for.  Nothing else outlives m2_variant_destroy
\* (variant.h: all of the items contained will also be freed) or an error path.
Accounted ==
    fault = "none" => Accounts(held \cup lost.variants \cup Roots, keys \cup lost.strings)

\* No call touches what has been given back; an array is used beyond its end
\* exactly when its last place is taken; free() ends only processes in which an
\* array has an element or a dict of a text a key.
FaultsKnown ==
    /\ fault # "dead"
    /\ (\E v \in Ids : Len(Node(heap, v).items) >= Room) => fault = "overflow"
    /\ fault = "free" => \/ \E v \in Ids : Node(heap, v).items # <<>>
                         \/ stack # <<>> /\ Frame.key # NULL
    /\ fault = "assert" => call.size \in {4, 5}

=============================================================================
