------------------------------ MODULE Variant ------------------------------
(***************************************************************************)
(* The variants of variant.c: tagged values that own strings, hash tables  *)
(* and dynamic arrays, and the calls an application makes on them.         *)
(*                                                                         *)
(* Three kinds of memory meet in one value: variants, tables and arrays    *)
(* come from h_malloc, strings from malloc, and darray_clear gives         *)
(* elements back with free().  heap.live holds the blocks in use; a block  *)
(* is named by its kind and its variant or string.  The hash table is the  *)
(* set of entries that Hash implements.                                    *)
(***************************************************************************)
EXTENDS Integers, FiniteSets, SequencesExt, TLC

CONSTANTS Name,         \* contents of keys
          Made,         \* types of the values the application makes
          Room,         \* elements an array has room for (32 in the code)
          JsonValue,    \* what json_parse may return, besides a failure
          MaxVariants, MaxStrings  \* bounds on what the application makes

Type == {"string", "integer", "float", "boolean", "null", "dict", "list"}

ASSUME VariantAssumption ==
    Made \subseteq Type /\ Room \in Nat \ {0} /\ MaxVariants \in Nat /\ MaxStrings \in Nat

VARIABLES heap,    \* variants, strings, and the blocks in use
          held,    \* the variants the application has to destroy
          keys,    \* the strings it made and has not given away
          fault,   \* how the process ended
          latest,  \* history: the item last set for a name of a dict
          lost     \* history: the variants and strings dict_set has dropped

client == <<heap, held, keys, fault, latest, lost>>

NULL == 0

NoValue   == 0
EmptyHeap == [node |-> <<>>, string |-> <<>>, live |-> {}]
LostNone  == [variants |-> {}, strings |-> {}]

Node(h, v)    == h.node[v]
Live(h, v)    == <<"variant", v>> \in h.live
TypeOf(h, v)  == IF v = NULL THEN "invalid" ELSE Node(h, v).type
Newest(h)     == Len(h.node)
NewestText(h) == Len(h.string)

-----------------------------------------------------------------------------
\* variant_val_create and what the functions of each type add to it.
Interior(type) == CASE type = "dict" -> {"table"} [] type = "list" -> {"array"} [] OTHER -> {}

Create(h, type, value) ==
    LET v == Newest(h) + 1
    IN  [h EXCEPT !.node = Append(@, [type |-> type, value |-> value, string |-> NULL,
                                      entries |-> {}, items |-> <<>>]),
                  !.live = @ \cup {<<b, v>> : b \in {"variant"} \cup Interior(type)}]

\* blk2bstr and bfromcstr.  What a string says is a name, or a part of a text.
Named(name) == <<name, 0, 0>>

CreateText(h, content) ==
    [h EXCEPT !.string = Append(@, content), !.live = @ \cup {<<"string", NewestText(h) + 1>>}]

CreateString(h, content) ==
    LET with == CreateText(Create(h, "string", NoValue), content)
    IN  [with EXCEPT !.node[Newest(with)].string = NewestText(with)]

Inside(h, v) == {e.item : e \in Node(h, v).entries} \cup Range(Node(h, v).items)

\* S and everything inside.
Family(h, S) ==
    LET below[v \in 1 .. Newest(h)] == {v} \cup UNION {below[w] : w \in Inside(h, v)}
    IN  UNION {below[v] : v \in S \ {NULL}}

Strings(h, v) == ({Node(h, v).string} \cup {e.key : e \in Node(h, v).entries}) \ {NULL}

\* The blocks that make up v.
Blocks(h, v) ==
    {<<b, v>> : b \in {"variant"} \cup Interior(TypeOf(h, v))}
    \cup {<<"string", s>> : s \in Strings(h, v)}
    \cup {<<"node", e.key>> : e \in Node(h, v).entries}

BlocksOf(h, S) == UNION {Blocks(h, v) : v \in Family(h, S)}

\* Faulty variant of the next: hnode_free forgets the key.
GivesBackNodes(h, v) == Blocks(h, v) \ {<<"string", e.key>> : e \in Node(h, v).entries}

\* What the destruction of v gives back for v itself.
GivesBack(h, v) == Blocks(h, v)

\* darray_clear passes each element to free(), which knows nothing of it.
Unfreeable(h, v) == \E w \in Family(h, {v}) : Node(h, w).items # <<>>

DestroyFault(h, v) ==
    IF Unfreeable(h, v) THEN "free" ELSE IF BlocksOf(h, {v}) \subseteq h.live THEN "none" ELSE "dead"
Destroy(h, v)      == [h EXCEPT !.live = @ \ UNION {GivesBack(h, w) : w \in Family(h, {v})}]

-----------------------------------------------------------------------------
\* m2_variant_dict_set.  A name that is there keeps its key and gets the item.
ContentOf(h, k)  == h.string[k]
EntriesFor(h, d, content) == {e \in Node(h, d).entries : ContentOf(h, e.key) = content}

SetPresent(h, d, k, i) ==
    [h EXCEPT !.node[d].entries =
        {IF ContentOf(h, e.key) = ContentOf(h, k) THEN [e EXCEPT !.item = i] ELSE e : e \in @}]

SetAbsent(h, d, k, i) ==
    [h EXCEPT !.node[d].entries = @ \cup {[key |-> k, item |-> i]},
              !.live = @ \cup {<<"node", k>>}]

\* Faulty variant of the next: the name is not looked up first.
DictAdd(h, d, k, i) == SetAbsent(h, d, k, i)

DictSet(h, d, k, i) ==
    IF EntriesFor(h, d, ContentOf(h, k)) # {} THEN SetPresent(h, d, k, i)
    ELSE SetAbsent(h, d, k, i)

\* What dict_set was given to own, or owned, and no longer refers to.
Dropped(h, d, k) ==
    LET old == EntriesFor(h, d, ContentOf(h, k))
    IN  [variants |-> {e.item : e \in old}, strings |-> IF old = {} THEN {} ELSE {k}]

And(a, b) == [variants |-> a.variants \cup b.variants, strings |-> a.strings \cup b.strings]

\* darray_push: the element that fills the array makes darray_expand clear
\* expand_rate bytes behind it.
Pushed(h, l, i) == [h EXCEPT !.node[l].items = Append(@, i)]

\* Faulty variant of the next: the array is full one element later.
PushFaultLate(h, l) == IF Len(Node(h, l).items) + 1 > Room THEN "overflow" ELSE "none"

PushFault(h, l) == IF Len(Node(h, l).items) + 1 >= Room THEN "overflow" ELSE "none"

-----------------------------------------------------------------------------
\* json_val_to_variant, of a value [type, members], where the members of an
\* object are [name, value].  The fold carries the heap, what dict_set dropped
\* and the fault.
RECURSIVE Convert(_, _)
Convert(at, json) ==
    LET made == [at EXCEPT !.heap = CASE json.type = "string" -> CreateString(@, Named(""))
                                      [] OTHER -> Create(@, json.type, NoValue)]
        v    == Newest(made.heap)
        Element(acc, j) ==
            LET sub == Convert(acc, j)
            IN  [sub EXCEPT !.heap = Pushed(@, v, sub.result),
                            !.fault = IF @ = "none" THEN PushFault(sub.heap, v) ELSE @]
        Member(acc, p) ==
            LET sub == Convert([acc EXCEPT !.heap = CreateText(@, Named(p.name))], p.value)
                k   == NewestText(acc.heap) + 1
            IN  [sub EXCEPT !.heap = DictSet(@, v, k, sub.result),
                            !.lost = And(@, Dropped(sub.heap, v, k)),
                            !.latest = (<<v, p.name>> :> sub.result) @@ @]
        whole == CASE json.type = "list" -> FoldLeft(Element, made, json.members)
                   [] json.type = "dict" -> FoldLeft(Member, made, json.members)
                   [] OTHER -> made
    IN  [whole EXCEPT !.result = v]

-----------------------------------------------------------------------------
Init ==
    /\ heap = EmptyHeap /\ held = {} /\ keys = {}
    /\ fault = "none" /\ latest = <<>> /\ lost = LostNone

RoomForMore == Newest(heap) < MaxVariants

\* m2_variant_string_new and the others; only a table or an array that cannot
\* be made is not tested for NULL.
New(type) ==
    /\ RoomForMore
    /\ heap' = Create(heap, type, NoValue) /\ held' = held \cup {Newest(heap')}
    /\ UNCHANGED <<keys, fault, latest, lost>>

NewStarved(type) ==
    /\ Interior(type) # {} /\ fault' = "null"
    /\ UNCHANGED <<heap, held, keys, latest, lost>>

NewKey(name) ==
    /\ NewestText(heap) < MaxStrings
    /\ heap' = CreateText(heap, Named(name)) /\ keys' = keys \cup {NewestText(heap')}
    /\ UNCHANGED <<held, fault, latest, lost>>

KeyDestroy(k) ==
    /\ heap' = [heap EXCEPT !.live = @ \ {<<"string", k>>}] /\ keys' = keys \ {k}
    /\ UNCHANGED <<held, fault, latest, lost>>

\* d may be anywhere inside what the application holds, but not inside i.
Fits(d, type, i) ==
    /\ TypeOf(heap, d) = type
    /\ d \notin Family(heap, {i})

Set(d, k, i) ==
    /\ Fits(d, "dict", i)
    /\ heap' = DictSet(heap, d, k, i) /\ lost' = And(lost, Dropped(heap, d, k))
    /\ latest' = (<<d, ContentOf(heap, k)[1]>> :> i) @@ latest
    /\ held' = held \ {i} /\ keys' = keys \ {k} /\ UNCHANGED fault

\* hash_alloc_insert finds no memory for the node; dict_set returns 1 all the same.
SetStarved(d, k, i) ==
    /\ Fits(d, "dict", i)
    /\ EntriesFor(heap, d, ContentOf(heap, k)) = {}
    /\ lost' = And(lost, [variants |-> {i}, strings |-> {k}])
    /\ held' = held \ {i} /\ keys' = keys \ {k} /\ UNCHANGED <<heap, fault, latest>>

\* m2_variant_dict_get of a name that is not there.
GetAbsent(d, name) ==
    /\ TypeOf(heap, d) = "dict" /\ EntriesFor(heap, d, Named(name)) = {}
    /\ fault' = "null"
    /\ UNCHANGED <<heap, held, keys, latest, lost>>

ListAppend(l, i) ==
    /\ Fits(l, "list", i)
    /\ heap' = Pushed(heap, l, i) /\ fault' = PushFault(heap, l)
    /\ held' = held \ {i} /\ UNCHANGED <<keys, latest, lost>>

VariantDestroy(v) ==
    /\ heap' = Destroy(heap, v) /\ fault' = DestroyFault(heap, v)
    /\ held' = held \ {v} /\ UNCHANGED <<keys, latest, lost>>

\* The application had asked for the item before it replaced it, and kept a
\* pointer to the key it passed.
Reclaim ==
    /\ lost # LostNone
    /\ held' = held \cup lost.variants /\ keys' = keys \cup lost.strings
    /\ lost' = LostNone
    /\ UNCHANGED <<heap, fault, latest>>

\* m2_parse_json; json_value_free takes the parsed value away again.
ParseJson(json) ==
    LET at == Convert([heap |-> heap, lost |-> lost, latest |-> latest,
                       fault |-> fault, result |-> NULL], json)
    IN  /\ RoomForMore
        /\ heap' = at.heap /\ lost' = at.lost /\ latest' = at.latest /\ fault' = at.fault
        /\ held' = held \cup {at.result} /\ UNCHANGED keys

\* Its text is not JSON: the conversion follows NULL.
ParseNoJson ==
    /\ fault' = "null"
    /\ UNCHANGED <<heap, held, keys, latest, lost>>

Calls ==
    \/ \E type \in Made : New(type) \/ NewStarved(type)
    \/ \E name \in Name : NewKey(name)
    \/ \E k \in keys : KeyDestroy(k)
    \/ \E d \in Family(heap, held), k \in keys, i \in held : Set(d, k, i) \/ SetStarved(d, k, i)
    \/ \E d \in Family(heap, held), name \in Name : GetAbsent(d, name)
    \/ \E l \in Family(heap, held), i \in held : ListAppend(l, i)
    \/ \E v \in held : VariantDestroy(v)
    \/ Reclaim
    \/ \E json \in JsonValue : ParseJson(json)
    \/ ParseNoJson

-----------------------------------------------------------------------------
Ids   == 1 .. Newest(heap)
Texts == 1 .. NewestText(heap)

\* Type invariant: references lead to what was made, values of a type have the
\* interior of the type.
TypeOK ==
    /\ held \subseteq Ids /\ keys \subseteq Texts
    /\ lost.variants \subseteq Ids /\ lost.strings \subseteq Texts
    /\ fault \in {"none", "free", "assert", "null", "overflow", "dead"}
    /\ heap.live \subseteq ({"variant", "table", "array"} \X Ids) \cup ({"string", "node"} \X Texts)
    /\ \A v \in Ids :
         /\ TypeOf(heap, v) \in Type
         /\ Node(heap, v).string \in Texts \cup {NULL}
         /\ \A e \in Node(heap, v).entries : e.key \in Texts /\ e.item \in Ids
         /\ Range(Node(heap, v).items) \subseteq Ids
         /\ TypeOf(heap, v) # "dict" => Node(heap, v).entries = {}
         /\ TypeOf(heap, v) # "list" => Node(heap, v).items = <<>>

\* The blocks in use are those of the variants in S and of the strings in T.
Accounts(S, T) == heap.live = BlocksOf(heap, S) \cup {<<"string", t>> : t \in T}

\* A dict in use has one entry for each name that was set, with the item that
\* was set last (m2_variant_dict_set, m2_variant_dict_get).
LatestAnswers ==
    fault = "none" =>
      \A d \in Family(heap, held), name \in Name :
         TypeOf(heap, d) = "dict" =>
           {e.item : e \in EntriesFor(heap, d, Named(name))} =
              (IF <<d, name>> \in DOMAIN latest THEN {latest[<<d, name>>]} ELSE {})

=============================================================================
