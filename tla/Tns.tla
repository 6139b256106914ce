-------------------------------- MODULE Tns --------------------------------
(***************************************************************************)
(* m2_parse_tns of variant.c and the functions it calls, on the values of  *)
(* Variant, and the two calls parse_request makes of it.                   *)
(*                                                                         *)
(* text is the memory from the first byte of the headers; the message has  *)
(* length bytes there, and what lies behind it is anything.  A byte is     *)
(* chosen when the parser first reads it, so bytes it never looks at stay  *)
(* Unread.  Of a byte only what the code tells apart there is chosen: x is *)
(* a byte that means nothing at its place, and w the byte of true or false *)
(* that belongs there.  strtol and strtod also take leading blanks, a plus *)
(* sign and the other forms of a float; those are left out.                *)
(*                                                                         *)
(* An action reads a byte or returns from a call.  stack holds the calls   *)
(* of tns_parse_dict and tns_parse_list that wait for a member.            *)
(***************************************************************************)
EXTENDS Variant

CONSTANTS Length,     \* lengths of messages
          Behind,     \* bytes behind it that may be looked at
          Digit,      \* digits a text may hold
          MaxDigits,  \* bound on the digits of a number
          Wrap        \* size_t counts modulo Wrap

ASSUME TnsAssumption ==
    /\ Length \subseteq Nat /\ Behind \in Nat /\ MaxDigits \in Nat
    /\ Digit \subseteq {"0", "1", "2", "3", "4", "5", "6", "7", "8", "9"}
    /\ Wrap \in Nat /\ \A n \in Length : Wrap > n + Behind

VARIABLES text, length,
          pc,       \* what the innermost call does: idle, size, tag, number, word, back, done, taken
          at,       \* the byte it looks at
          number,   \* strtol: the value so far, and whether a sign or a digit was seen
          call,     \* its arguments and locals
          stack, ret,
          parsed,   \* the headers, then the body
          starved   \* history: an allocation has failed

parser == <<text, length, pc, at, number, call, stack, ret, parsed, starved>>
vars   == <<client, parser>>

Unread  == "?"
Tag     == {",", "#", "^", "!", "~", "}", "]"}
ValueOf == [d \in Digit |->
             CHOOSE n \in 0 .. 9 : d = <<"0","1","2","3","4","5","6","7","8","9">>[n + 1]]
TypeFor == [t \in Tag |-> CASE t = "," -> "string" [] t = "#" -> "integer" [] t = "^" -> "float"
                            [] t = "!" -> "boolean" [] t = "~" -> "null"
                            [] t = "}" -> "dict"    [] t = "]" -> "list"]

\* The byte at i is b, one of the bytes told apart there.
Read(i, b, S) ==
    IF text[i] = Unread THEN b \in S /\ text' = [text EXCEPT ![i] = b]
    ELSE b = text[i] /\ UNCHANGED text

NoNumber == [value |-> 0, negative |-> FALSE, digits |-> 0]
NoCall   == [data |-> 0, end |-> 0, body |-> 0, size |-> 0, rest |-> 0, val |-> NULL]

ParserInit ==
    /\ text = <<>> /\ length = 0 /\ pc = "idle" /\ at = 0 /\ number = NoNumber
    /\ call = NoCall /\ stack = <<>> /\ ret = NULL /\ parsed = <<>> /\ starved = FALSE

Fault(kind) ==
    /\ fault' = kind
    /\ UNCHANGED <<heap, held, keys, latest, lost, length, pc, at, number, call, stack, ret,
                   parsed, starved>>

\* Pointers do not wrap where sizes do: data + len is the end of the message
\* also when len is the difference of pointers in the wrong order.
Start(data, len) ==
    /\ pc' = (IF len = 0 THEN "back" ELSE "size")
    /\ ret' = NULL /\ at' = data /\ number' = NoNumber
    /\ call' = [NoCall EXCEPT !.data = data, !.end = (data + len) % Wrap]

-----------------------------------------------------------------------------
\* strtol and strtod.  A number without digits ends where it began.
Starting == number = NoNumber
Numeral  == Digit \cup (IF Starting THEN {"-"} ELSE {})
Stop     == IF number.digits = 0 THEN (IF pc = "size" THEN call.data ELSE call.body) ELSE at

Readable == IF pc = "size" THEN Digit \cup {"-", ":", "x"} ELSE Digit \cup {"-", "x"}
NextByte == IF number.digits < MaxDigits THEN Readable ELSE Readable \ Digit

ReadNumeral ==
    /\ pc \in {"size", "number"}
    /\ \E b \in NextByte \cup {text[at]} :
          /\ b \in Numeral /\ Read(at, b, NextByte)
          /\ number' = IF b = "-" THEN [number EXCEPT !.negative = TRUE]
                       ELSE [number EXCEPT !.value = 10 * @ + ValueOf[b], !.digits = @ + 1]
    /\ at' = at + 1
    /\ UNCHANGED <<client, length, pc, call, stack, ret, parsed, starved>>

Value == IF number.negative THEN -number.value ELSE number.value

\* Faulty variant of the next: the size is compared with the length of the text.
SizeFitsLength(n, colon) == n >= 0 /\ call.end - call.data >= n

\* The checks of the size, made before the colon is skipped.
SizeFits(n, colon) == n >= 0 /\ call.end >= colon + n

Return(v) == pc' = "back" /\ ret' = v

ReadSize ==
    /\ pc = "size"
    /\ \E b \in NextByte \cup {text[at]} :
          /\ b \notin Numeral /\ Read(at, b, NextByte)
          /\ LET byte == IF Stop = at THEN b ELSE text[Stop]
             IN  IF SizeFits(Value, Stop) /\ byte = ":"
                 THEN /\ pc' = "tag"
                      /\ call' = [call EXCEPT !.body = Stop + 1, !.size = Value,
                                              !.rest = Stop + 1 + Value + 1]
                      /\ at' = Stop + 1 + Value /\ UNCHANGED ret
                 ELSE Return(NULL) /\ UNCHANGED <<call, at>>
    /\ number' = NoNumber
    /\ UNCHANGED <<client, length, stack, parsed, starved>>

-----------------------------------------------------------------------------
\* The functions of each type.  An allocation may fail, once in a parse.
MayStarve == ~starved

Received(h, v) == heap' = h /\ Return(v) /\ UNCHANGED <<call, at, stack>>
Refuse         == Received(heap, NULL) /\ UNCHANGED <<fault, starved>>

Starve         == MayStarve /\ starved' = TRUE

Part(from, size) == <<"", from, size>>

ParseString ==
    \/ /\ Received(CreateString(heap, Part(call.body, call.size)), Newest(heap) + 1)
       /\ UNCHANGED <<fault, starved>>
    \/ Starve /\ Received(Create(heap, "string", NoValue), Newest(heap) + 1) /\ UNCHANGED fault
    \/ Starve /\ Received(heap, NULL) /\ UNCHANGED fault

\* The value is made before the digits are read.
ParseNumber(type) ==
    \/ /\ heap' = Create(heap, type, NoValue) /\ call' = [call EXCEPT !.val = Newest(heap')]
       /\ pc' = "number" /\ at' = call.body /\ UNCHANGED <<ret, stack, fault, starved>>
    \/ Starve /\ Received(heap, NULL) /\ UNCHANGED fault

ParseBoolean ==
    IF call.size \in {4, 5}
    THEN pc' = "word" /\ at' = call.body
         /\ UNCHANGED <<heap, call, ret, stack, fault, starved>>
    ELSE Refuse

ParseNull ==
    IF call.size # 0 THEN Refuse
    ELSE \/ /\ Received(Create(heap, "null", NoValue), Newest(heap) + 1)
            /\ UNCHANGED <<fault, starved>>
         \/ Starve /\ Received(heap, NULL) /\ UNCHANGED fault

\* tns_parse_dict and tns_parse_list up to their first member.  The variant that
\* could not be made is not missed until the end; the table or the array is.
Enter(h, type, v) ==
    /\ heap' = h
    /\ IF call.size = 0
       THEN Return(v) /\ UNCHANGED <<call, at, stack>>
       ELSE /\ Start(call.body, call.size)
            /\ stack' = Append(stack, [type |-> type, call |-> [call EXCEPT !.val = v],
                                       left |-> call.size, key |-> NULL])

ParseCompound(type) ==
    \/ Enter(Create(heap, type, NoValue), type, Newest(heap) + 1) /\ UNCHANGED <<fault, starved>>
    \/ Starve /\ Enter(heap, type, NULL) /\ UNCHANGED fault
    \/ /\ Starve /\ fault' = "null"
       /\ UNCHANGED <<heap, pc, ret, call, at, stack>>

ReadTag ==
    /\ pc = "tag"
    /\ \E b \in Tag \cup {"x", text[at]} :
          /\ Read(at, b, Tag \cup {"x"})
          /\ CASE b = ","        -> ParseString
               [] b = "#"        -> ParseNumber("integer")
               [] b = "^"        -> ParseNumber("float")
               [] b = "!"        -> ParseBoolean
               [] b = "~"        -> ParseNull
               [] b = "}"        -> ParseCompound("dict")
               [] b = "]"        -> ParseCompound("list")
               [] b \notin Tag   -> Refuse
    /\ number' = NoNumber
    /\ UNCHANGED <<held, keys, latest, lost, length, parsed>>

\* m2_variant_destroy of several values, one after the other.
Abandon(S) ==
    LET all == S \ {NULL}
    IN  /\ heap' = FoldSet(LAMBDA v, h : Destroy(h, v), heap, all)
        /\ fault' = (IF \A v \in all : DestroyFault(heap, v) = "none" THEN "none"
                     ELSE DestroyFault(heap, CHOOSE v \in all : DestroyFault(heap, v) # "none"))

\* tns_parse_integer and tns_parse_float.
ReadNumber ==
    /\ pc = "number"
    /\ \E b \in NextByte \cup {text[at]} :
          b \notin Numeral /\ Read(at, b, NextByte)
    /\ IF Stop - call.body = call.size
       THEN /\ heap' = [heap EXCEPT !.node[call.val].value = Value]
            /\ Return(call.val) /\ UNCHANGED fault
       ELSE Abandon({call.val}) /\ Return(NULL)
    /\ number' = NoNumber /\ call' = [call EXCEPT !.val = NULL]
    /\ UNCHANGED <<held, keys, latest, lost, length, at, stack, parsed, starved>>

\* The condition of check in tns_parse_bool is that a byte is wrong, so every
\* word of the right length is taken but the right one.  For that the condition
\* is evaluated again, from where i stands: the tag is no letter, and the
\* assertion fails.  The value is used without a test for NULL.
ReadWord ==
    /\ pc = "word" /\ at < call.body + call.size
    /\ \E b \in {"w", "x", text[at]} :
          /\ Read(at, b, {"w", "x"})
          /\ IF b = "w"
             THEN at' = at + 1 /\ UNCHANGED <<heap, fault, starved, pc, ret>>
             ELSE \/ /\ heap' = Create(heap, "boolean", IF call.size = 4 THEN 1 ELSE 0)
                     /\ Return(Newest(heap')) /\ UNCHANGED <<fault, starved, at>>
                  \/ Starve /\ fault' = "null" /\ UNCHANGED <<heap, pc, ret, at>>
    /\ UNCHANGED <<held, keys, latest, lost, length, number, call, stack, parsed>>

WholeWord == pc = "word" /\ at = call.body + call.size /\ Fault("assert") /\ UNCHANGED text

-----------------------------------------------------------------------------
\* Back in tns_parse_list or tns_parse_dict, or in parse_request.
Frame == Last(stack)

\* Faulty variant of the next: the lengths are signed.
RotateSigned(f) == IF f.left - (call.rest - call.data) < 0 THEN 0 ELSE f.left - (call.rest - call.data)

\* rotate_buffer: what is left for further members.
Rotate(f) == (f.left - (call.rest - call.data)) % Wrap

Rotates(f) == Rotate(f) < f.call.size

Leave(v) ==
    /\ Return(v) /\ stack' = Front(stack)
    /\ call' = [Frame.call EXCEPT !.val = NULL]
    /\ UNCHANGED <<at, number>>

\* The next member, or the end of the loop.
Proceed(f) ==
    IF Rotate(f) = 0 THEN Leave(f.call.val)
    ELSE /\ Start(call.rest, Rotate(f))
         /\ stack' = Append(Front(stack), [f EXCEPT !.left = Rotate(f), !.key = NULL])

Awaits(type) == pc = "back" /\ stack # <<>> /\ Frame.type = type

MemberFails ==
    /\ pc = "back" /\ stack # <<>>
    /\ \/ ret = NULL
       \/ ~Rotates(Frame)
       \/ Frame.type = "dict" /\ Frame.key = NULL /\ TypeOf(heap, ret) # "string"
    /\ Abandon({ret, Frame.key, Frame.call.val}) /\ Leave(NULL)
    /\ UNCHANGED <<held, keys, latest, lost, text, length, parsed, starved>>

Good == ret # NULL /\ Rotates(Frame)

\* m2_variant_list_append refuses NULL, and the member is nobody's any more.
ListMember ==
    /\ Awaits("list") /\ Good
    /\ LET l == Frame.call.val
       IN  IF l = NULL
           THEN lost' = And(lost, [variants |-> {ret}, strings |-> {}]) /\ UNCHANGED <<heap, fault>>
           ELSE heap' = Pushed(heap, l, ret) /\ fault' = PushFault(heap, l) /\ UNCHANGED lost
    /\ Proceed(Frame)
    /\ UNCHANGED <<held, keys, latest, text, length, parsed, starved>>

DictKey ==
    /\ Awaits("dict") /\ Frame.key = NULL /\ Good /\ TypeOf(heap, ret) = "string"
    /\ stack' = Append(Front(stack), [Frame EXCEPT !.left = Rotate(Frame), !.key = ret])
    /\ Start(call.rest, Rotate(Frame))
    /\ UNCHANGED <<client, text, length, parsed, starved>>

\* The key's variant is given to free(), which it did not come from, unless the
\* key has no string: then bstr_hash_fun has followed NULL before.
DictItem ==
    /\ Awaits("dict") /\ Frame.key # NULL /\ Good
    /\ Fault(IF Frame.call.val # NULL /\ Node(heap, Frame.key).string = NULL THEN "null" ELSE "free")
    /\ UNCHANGED text

\* parse_request: the body is what the headers have left of the message.
Finish ==
    /\ pc = "back" /\ stack = <<>>
    /\ parsed' = Append(parsed, [val |-> ret, data |-> call.data, rest |-> call.rest])
    /\ IF parsed = <<>> /\ ret # NULL /\ (length - call.rest) % Wrap > 0
       THEN Start(call.rest, (length - call.rest) % Wrap)
       ELSE pc' = "done" /\ UNCHANGED <<ret, at, number, call>>
    /\ UNCHANGED <<client, text, length, stack, starved>>

-----------------------------------------------------------------------------
\* A process gets a message before it makes values of its own.  What the message
\* says is the application's afterwards, which destroys it: the other calls do
\* not depend on who made a value.
Parse ==
    /\ pc = "idle" /\ heap = EmptyHeap
    /\ length' \in Length /\ text' = [i \in 0 .. length' + Behind - 1 |-> Unread]
    /\ Start(0, length')
    /\ UNCHANGED <<client, stack, parsed, starved>>

Take ==
    /\ pc = "done"
    /\ held' = {p.val : p \in Range(parsed)} \ {NULL}
    /\ text' = <<>> /\ length' = 0 /\ pc' = "taken" /\ at' = 0 /\ number' = NoNumber
    /\ call' = NoCall /\ stack' = <<>> /\ ret' = NULL /\ parsed' = <<>> /\ starved' = FALSE
    /\ UNCHANGED <<heap, keys, fault, latest, lost>>

Step == \/ ReadNumeral \/ ReadSize \/ ReadTag \/ ReadNumber \/ ReadWord \/ WholeWord
        \/ MemberFails \/ ListMember \/ DictKey \/ DictItem \/ Finish

TnsInit == Init /\ ParserInit

TnsNext ==
    /\ fault = "none"
    /\ \/ Step \/ Parse \/ Take
       \/ pc = "idle" /\ Calls /\ UNCHANGED parser
       \/ pc = "taken" /\ (\E v \in held : VariantDestroy(v)) /\ UNCHANGED parser

TnsSpec == TnsInit /\ [][TnsNext]_vars

-----------------------------------------------------------------------------
\* The values and calls in progress.
Roots == {ret, call.val} \cup {p.val : p \in Range(parsed)}
         \cup UNION {{f.key, f.call.val} : f \in Range(stack)}

\* Type invariant of the parser.
ParserTypeOK ==
    /\ length \in Length \cup {0} /\ at \in 0 .. length + Behind /\ starved \in BOOLEAN
    /\ pc \in {"idle", "size", "tag", "number", "word", "back", "done", "taken"}
    /\ Roots \subseteq Ids \cup {NULL}
    /\ \A f \in Range(stack) : f.left \in 0 .. f.call.size

=============================================================================
