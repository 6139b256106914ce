# Specifications of libmongrel2

TLA+ models of libmongrel2, a C library for writing Mongrel2 handlers, with the
TLC runs that check them and proofs that TLAPS checks. Paths are relative to the
root of the repository. `PROJECT.json` lists the runs, the source lines behind
each definition, the hazards and the theorems.

## The system

An application creates a *context*, opens *connections* under it, receives
*requests* on a connection, looks at their headers and body, and replies. The
library has no threads of its own and keeps no global state but the allocator
pointer, the list sentinel of the hierarchical allocator and a per-thread error.

| Part | Source | State | Operations | Talks to |
|---|---|---|---|---|
| contexts, connections, requests | `src/mongrel2.c` | ZeroMQ context, two sockets per connection, request fields | new/destroy, open/close, recv, parse, free, get header, is disconnected, send, reply | ZeroMQ, allocator, variants, errors |
| hierarchical allocator | `src/mem/halloc.c`, `hlist.h` | per block: sibling links, head of children; global: allocator, sentinel | halloc, hattach, h_realloc, h_free | malloc |
| variants and TNetstrings | `src/variant.c` | tagged values; dicts in a hash, lists in a darray | new, destroy, dict set/get, list append, parse TNetstring, convert JSON | hash, darray, JSON, bstring, allocator |
| hash table | `src/adt/hash.c` | chains, mask, marks, count, scans | create, insert, lookup, delete, scan, free nodes; grow and shrink inside | malloc; node allocator of variants |
| dynamic array | `src/adt/darray.c` | contents, end, max | push, pop, expand, contract, clear | allocator, libc free |
| JSON parser | `src/json.c` | parse state, value tree, counts of the first pass | parse, free | malloc |
| errors | `src/err.c`, `err.h` | errno and message, per thread | macro `check`, getters | all |
| red-black tree | `src/adt/dict.c` | nodes with colour and links | insert, delete, lookups, load, merge, process, free | compiled in, unused by the rest |
| linked list | `src/adt/list.c` | doubly linked nodes, count | insert, delete, transfer, merge, sort | compiled in, unused by the rest |
| bstring | `src/bstring/` | strings: text, length, capacity; streams: a buffer and a reader | create, assign, append, insert, replace, search, compare, trim, split, join, read, streams | malloc; used by all |

What is hard here:

* *Ownership.* Three allocators meet: blocks below a context or connection,
  blocks of the hierarchical allocator that hang nowhere (variants), and plain
  malloc (bstrings, hash tables). Every error path must undo exactly what was done.
* *Pointer surgery.* hlist edits lists through back pointers to cells that lie
  in other blocks; the hash table splits and splices its chains as it is used.
* *Threads.* The documentation allows contexts in several threads and objects
  to be passed between threads; the allocator takes no lock.
* *Assertions.* The Makefile does not define NDEBUG, so assertions are part of
  the behaviour: `check` evaluates its condition again in one, and the hash
  table verifies itself after each change.
* *Partial failure.* Each call of ZeroMQ or malloc may fail by itself.
* *Arithmetic on sizes.* The TNetstring parser trusts sizes from the message, the JSON
  parser measures in one pass what it writes in the next, and bstrings grow in powers of
  two of an `int`.
* *Overlap.* An argument of a bstring call may be a part of the buffer the call
  writes to, or reallocates.

## Modules

**`HallocForest`** is what `halloc.h` promises: live blocks form a forest, and
freeing a block frees what is below it. Its state is the parent map. Its
operators `Place`, `Prune` and `Rename` are `hattach`, `h_free` and `h_realloc`.

**`Halloc`** is the allocator at the level of pointers. `link` holds the cells
that point to list items (`children.next` and `siblings.next` of each block),
`prev` the back pointer of each block. An action is a whole call: `Attach(b, p)`
is `hattach`, first `hlist_del`, then the check for loops, then `hlist_add`.
The recursive walks `_relate` and `_free_children` are the least set closed
under "first child" and "next sibling" (`Subtree`). Failed allocations change
nothing and need no action. `realloc` may move a block; the constant
`RootsMove` says whether it may also move a block that is on no list. With
`RootsMove = TRUE` the code is wrong: `hlist_relink` then stores through a
pointer into the block that was freed. The library never does this (its one
`h_realloc`, in `darray.c`, is of an attached block), and all runs and proofs take
`RootsMove = FALSE`.

**`HallocThreads`** has the statements of `hlist_add` and `hlist_del` and the
lazy choice of the allocator as actions of threads: the test of `allocator`, the assertion that
nobody has chosen it yet, and the store. One thread runs first; it starts the others at any time, before or after its
own first call. Each thread works below a home block, which it is given or makes, and shares at least
the sentinel with the others.

**`Mongrel2`** has the life of a context, its connections and requests.
Blocks are in `parent` and manipulated with the operators of `HallocForest`;
what lies outside the hierarchy (headers, body) is in `values`. Calls that wait
are split where they wait, `m2_connection_open` at each ZeroMQ call, everything
else is one action including its error path. A message is a record of what the
code decides on: framed or not, what the headers and the body are to `m2_parse_tns` (`TnsType`: lists and
dicts with and without members, lists longer than their array, broken ones, what aborts in `check`), what they are to
`m2_parse_json` if they are strings (`JsonText`: the names, whether arrays are inside, whether a name is repeated), and
what METHOD says. Of a request the fields record what the calls on it depend on; `GetHeader(r, n)` asks
for any name. `unsent` holds the connections with a message that their peer has yet to take. `fault` records how the
process would end (a failed assertion, NULL followed, memory given to the wrong allocator, an access to
freed or unset memory), as `Variant` and `Tns` have it in detail.

**`Words`** is the scan in `parse_request` that finds the first three words of a message
in the receive buffer, one byte at a time. `Mongrel2` keeps of it whether it succeeds
(`framed`), and `Tns` begins where it ends.

**`NodeSet`** is what `hash.h` promises: a set of nodes and scans that return
each node once. **`Hash`** is the extendible hash table: chains as sequences,
growing, shrinking, insertion, deletion, scans with deletion, and
`hash_free_nodes` as the scan it is. Only dynamic tables are modelled.

**`Dict`** is the red-black tree at the level of its fields `left`, `right`,
`parent`, `color`; a dictionary is its own sentinel and `Load` is the one of a
`dict_load_t`. Mirror cases are one case with a side, so `Rotate` is both
rotations and `Neighbour` both `dict_next` and `dict_prev`. An operation that
loops (`dict_insert`, `dict_delete`, `safe_traverse`, `dict_load_end`,
`dict_merge`) takes one step per iteration and `op` holds its locals, so that
the invariants also speak of the middle of the loops. `scan` is a `dict_process`
whose callback deletes nodes. Assertions about arguments (a full dictionary,
duplicate keys, keys out of order) are guards.

**`List`** is `list.c` with the node pool. A list is its own nil node. The
history variable `seq` is the sequence each list stands for: an action changes it
as the comment of the function promises, and the pointers `next` and `prev` as the
code does. Loops that rewrite pointers take one step per iteration; the recursion
of `list_sort` is a stack of frames in `op`, with one extra list per depth.

**`Json`** is `json_parse_ex` and `json_value_free`, one action per iteration of
the loops. The text is chosen symbol by symbol while the first pass reads it; a
symbol is a class of characters the parser tells apart. `tree` holds the values with
what the first pass measured (`size`, `room`), what the second has written
(`length`, `names`) and which blocks are in use. **`JsonReference`** generates the
texts the parser should accept from the grammar of JSON and reads the tree off
the text.

**`Variant`** has the tagged values, which block belongs to whom, and the calls an
application makes on them: creation, `dict_set`, `dict_get`, `list_append`, destroy,
`m2_parse_json`. The hash table in a dict is the set of entries `NodeSet`
promises; the dynamic array appears with its room and its choice of `free`.
**`Tns`** adds `m2_parse_tns` with its callers in `mongrel2.c`. A byte of the message, or behind
it, is chosen when the parser first looks at it; `stack` holds the calls of
`tns_parse_dict` and `tns_parse_list`. **`TnsReference`** says what a text means, by a
grammar, and states the properties of both.

**`BstringReference`** has what the calls of `bstrlib.h` promise, on plain
sequences. **`Bstring`** is the code: operators with the names of the functions
take a string with its cells and return it as the call leaves it, what it
returned and what it damaged (`harm`). An argument is a text elsewhere, a part of the string's
own buffer, or the string itself; `mem` says which allocation of the call is
refused, or granted at the smallest size only. **`Bstream`** adds a stream with its buffer, whose
reads move characters from a source into that string. **`Bpieces`** adds splitting and joining: a step is one
turn of a splitting loop up to its callback, or the callback, which is the library's `bscb`, collecting copies in
a list, or a client's, which may change the string. **`Bsearch`** has the calls that only look, searches and
comparisons, as operators; there a character is its code, because case and sign matter.

`MCHallocThreads`, `MCMongrel2`, `MCHash`, `MCDict`, `MCList`, `MCJson` and `MCTns` give the
runs their constants. `HallocProofs`, `HallocThreadsProofs`, `Mongrel2Proofs`,
`HashProofs`, `WordsProofs`, `ListRings`, `ListProofs` and `JsonProofs` hold the proofs. Definitions marked
*faulty variant* are what a plausible mistake would look like; the properties
are known to reject them. Most properties of a run are conjunctions of named parts, each
with its comment; the run checks them all.

## Runs

| Run | Shows | Bounds |
|---|---|---|
| `halloc` | `TypeOK`, `ListsIntact` (doubly linked, inside live memory), `Rooted` (no loops) and `ForestRefined` (implements `HallocForest`) | 4 blocks: a parent with three children, or a chain of four, so that the first, middle and last item of a list are all deleted and moved |
| `threads_own_connections` | `QuietSound`: threads with a connection each never damage a list although they race on the sentinel | 2 threads, 3 blocks: two on one list while the other thread works |
| `threads_shared_context` | *violated*: two threads under one context lose blocks | same |
| `hash` | `TableIntact` (what the code asserts after each change), `LoadKept` (marks follow the size, load bounded unless a reallocation failed), `NodeSetRefined` | 9 nodes and INIT_SIZE 2 instead of 64: the table grows twice and shrinks back; hash values collide fully, partly and not |
| `dict` | `DictVerify` (`dict_verify`, and inside the loops the one fault that travels up), `BoundsExact`, `TraversalsExact` (with callbacks that delete or free), `LoadExact` (loading, merging, building) | one dictionary of up to 10 nodes, two of them with equal keys; a second of up to 2; traversals, merges and freeing while at most 4 nodes are in use |
| `server` | `SocketsAccounted`, `RequestsSound` (fields of held requests stay valid, nothing leaks but for repeated names), `CallsSafe` (no call ends the process but for absent headers and arrays that are destroyed), `DestroyReturns` of `m2_ctx_destroy` | 2 connections, 2 requests, failing zmq_socket and zmq_connect, the messages a Mongrel2 server sends, with repeated headers as arrays or repeated names, and notices with either; any name asked for; peers that take messages late or never |
| `any_message` | `HeapAccounted` (every block hangs below its owner); `FailuresKnown`: errno 0 means parsed, what ends the process, and when a request is freed under the client | 1 connection, 2 requests, each kind of headers, of bodies and of JSON texts, all failures, connections closed at any time |
| `words` | `WordsExact` (the messages that have three words and more are accepted, and split at the first three spaces), `ScanStays` (no byte behind the message is looked at, unless it is empty) | a buffer of 7 bytes, messages of 0 to 9: empty ones, ones that end in each word, at the end of the buffer and behind it |
| `list` | `ListVerify` (every list is the sequence promised, in the loops too, and counts stay within their maximum), `PoolExact`, `SearchesExact`, `LoopsExact` (traversals and merges of a list that changes), `SortSorts`, `CallsReturn` | 2 lists of 2 or 4 nodes, 4 nodes of which 2 belong to the pool, two with equal keys: sorting recurses twice |
| `json` | `PassesAgree` (the second pass follows the first and writes what it measured), `ParseExact` (what is accepted is the language, the tree is what the text says), `BlocksAccounted` (nothing is freed twice or lost but where stated), `ParseReturns` | all texts of up to 7 symbols; objects that begin with one or two members and arrays with four, of up to 6 symbols more; lengths overflow at 3, the int with the size of an object at 3 members of 2 bytes; malloc fails in either pass |
| `variants` | `TnsExact` (what is accepted is a TNetstring that says the result, what is refused is none), `LooksNear` (the parser stays near the message), `Accounted` (every block), `LatestAnswers` (a dict answers with the item set last), `FaultsKnown` (what ends the process) | messages of 0, 1, 3 and 7 bytes with nested dicts and lists, sizes of two digits; 3 variants and 2 keys made by the application; arrays with room for 3 |
| `strings` | `CallsExact` (calls leave what they promise whatever overlaps and moves, searches find the first or last place, comparisons are orders), `HarmsKnown` (damage to memory), `PiecesExact` (splits give the pieces in order, callbacks get parts of the string), `StaysTerminated`, `StreamsExact` (streams keep every character in order, know their end and fail only at it) | strings of up to 4 of two characters, arguments of up to 2, sources of up to 3, one refused allocation per call; lists that begin with 2 entries, any entry refused; an index of matches that grows at 2 and at 4 |

`threads_own_connections`, `server`, `any_message`, `words`, `json`, `variants` and `strings` do not
check for deadlock: a failed assertion or a fault ends the process, and the last four stop also when a call has returned for good or
an application has reached its bounds.

In `strings`, INT_MAX is 7 and the smallest buffer 2. Both regimes of `snapUpSize`
occur, rounding up to a power of two and, above a half of INT_MAX, taking the size as it is; sums with
INT_MAX overflow as in the code. A stream is opened while the string is new and has at most one
character, and its reader gives fewer characters than asked for only at the end. A
reallocation is taken to move the buffer, which is the case that
goes wrong. `SearchExact` compares every text of up to 6 characters with every
pattern of up to 3. `ComparesExact` takes all texts of up to 2 of five codes (NUL, `A`, `_`, `a`, 255), which lie
on all sides of the letters. Splits of streams read blocks of 3, from streams of up to 7 characters.

Ten nodes are what `dict` needs: with nine, no deletion makes its loop climb to a
black node and go on from there. The field `parent` of a sentinel is left
pointing anywhere by rotations and deletions, and read only where `dict_delete`
has just set it; the run's `VIEW` does not tell states apart by what is left
there. No invariant mentions it.

The other bounds are small because the interesting shapes are: connections do not
interact except through the context, and requests only through the list of their
connection. Request slots are reused, so histories are unbounded.

Fairness. `DestroyReturns` needs one assumption: `zmq_ctx_destroy` returns once it can (weak fairness of
`CtxDestroyed`), that is, once no socket of its context is open and every message sent has been taken. ZeroMQ
promises no more: the library never sets `ZMQ_LINGER`, which is without limit by default. Of peers nothing is
assumed (`Taken` need not happen), so the property says that `m2_ctx_destroy` returns if nothing is unsent;
what it shows of the library is that it leaves no socket open. `CallsReturn` of `List` assumes that a loop of the library goes on until
it ends (weak fairness of `Loop`), and `ParseReturns` of `Json` that the parser
runs (weak fairness of `Next`: one call on one text is all there is). The
application is under no obligation to make any call.

## Where the code and its documentation part

The run `threads_shared_context` is about one sentence of the documentation. The models
show more behaviours of the kind, which have no run of their own; where one ends the process or damages data, the property
that has it as an exception is named with each list.

Requests (`Mongrel2`; `EndsKnown` and `CallsSafe` say when they end the process):

* `mongrel2.h:86`: the body is "NULL if there is no body". `parse_request` sets `body` only
  if bytes follow the headers (`mongrel2.c:223`), so it is whatever `h_malloc` returned.
* `README.md:49`: the library "holds no internal references to any of the data
  structures it creates". Requests hang below their connection
  (`mongrel2.c:123`), so closing it frees requests the client still holds.
* `mongrel2.h:114`: `m2_request_get_header` returns a value "or NULL on error". When the
  header is absent `m2_variant_dict_get` dereferences NULL (`variant.c:147`).
* `mongrel2.h:58`: pending messages "cause the connection to block until they are sent or received".
  `m2_connection_close` returns at once (`Closed`); `m2_ctx_destroy` waits, without limit (`mongrel2.c:49`).
* JSON headers that hold an array, as those of a request with a repeated header may, end the process in `m2_request_free`
  (`mongrel2.c:249`), because `darray_clear` gives elements from `h_malloc` to `free()` (`darray.c:63`). So do
  headers in a TNetstring list, and an array in the body of a notice, in `m2_request_is_disconnected` (`mongrel2.c:279`).
* A name that is repeated in JSON headers, or in the body of a notice, leaks the earlier item and the
  later key (`variant.c:133-134`).
* `README.md:63-64`: "libmongrel2 handles both formats seamlessly". `tns_parse_dict` gives a key
  from `h_malloc` to `free()` (`variant.c:258`): headers in a TNetstring dict end the process.
* `m2_connection_open` refuses a NULL uuid (`mongrel2.c:63`), which `mongrel2.h:44` allows.
* `m2_recv` returns a request that could not be parsed (`mongrel2.c:139`): none
  of its pointer fields is set.
* When `zmq_recv` fails, the buffer is freed with the request and then once more
  (`mongrel2.c:144-145`), which `halloc.c:88` asserts never happens.
* Of an empty message the scan reads bytes it has not received, and of one that is longer than the buffer,
  bytes behind the buffer: `zmq_recv` returns the whole length (`mongrel2.c:133`).
* After a failed `zmq_send` the header is destroyed twice (`mongrel2.c:305` and `312`).
* `check(zmq_connect(...) == 0)` calls `zmq_connect` again in the assertion when it
  fails; if the second call succeeds the process aborts (`err.h:41`).
* A body that is an empty TNetstring dict, or a list, leaks its hash or array (`mongrel2.c:228`); a dict with an
  item does not get that far (`variant.c:258`).
* The check after the second `zmq_socket` tests the first socket (`mongrel2.c:84`);
  the failure is caught two lines later because `zmq_connect` refuses NULL.
* `dict_free_nodes` leaves the sentinel's `parent` pointing to a freed node, and
  `dict_verify` (`dict.c:425`) then rejects the emptied dictionary.
* `dict_prev` returns NULL where its comment (`dict.c:972-975`) promises the sentinel.
* The assertion of `dict_load_next` that keys come in order compares with the first
  key loaded only (`dict.c:1127`); `Dict` requires the order the caller owes.
* Two threads whose first calls coincide can fail the assertion in
  `_set_allocator` (`halloc.c:178`; `AssertUnset` in `HallocThreads`).
* A request freed in another thread than its connection's races with `m2_recv`
  there (`SpecPassing` in `HallocThreads`).

Variants and TNetstrings (`Variant`, `Tns`):

* `m2_variant_dict_set` over a name that exists lets go of the old item and of the
  new key; when there is no memory for the entry it lets go of both and still
  returns 1. `Accounted` names these as what is lost.
* The elements of a list come from `h_malloc` and `darray_clear` gives them to `free()`.
* The push that fills an array calls `darray_expand`, which clears memory behind the
  array instead of enlarging it (`darray.c:107`).
* A size may be absent, which counts as 0, or begin with zeros. The payload may end one
  byte behind its message (`variant.c:314`). A boolean may be any 4 or 5 bytes; the
  words `true` and `false` end in the assertion of `check`.

JSON (`Json`): a text that begins with `]` dereferences NULL; a comma may follow the last member;
`-` alone and `-e5` count as numbers. The size of an object's entries is kept in an `int` (`json.c:102`, `127`), which is
too narrow long before the length reaches the limit of an `unsigned int`: then the block is too small and the second pass
writes behind it, or the sum is negative and there is no such memory (`NarrowObject`). When malloc fails in the second pass, values
begun and not finished are lost, the root excepted; when it fails for the members of the root,
`json_value_free` follows NULL.

Strings (`Bstring`, `Bstream`, `Bpieces`, `Bsearch`; `HarmsKnown`, `StaysTerminated`, `StreamsExact`, `PiecesExact` and
`ComparesExact` name them):

* `bassign`, `bassignmidstr` and `breplace` ask for a buffer without the NUL
  (`bstrlib.c:457`, `490`, `1529`): one byte is written behind a buffer of just that size.
* When `bcatcstr` or `bassigncstr` fails, the string fills its buffer, and the next call
  writes its NUL behind it.
* `bfindreplace` does not copy a replacement from before `pos`, and uses it after the
  buffer has moved (`bstrlib.c:1576`).
* `pos + len` overflows in `bdelete`; `binsert` leaks its copy when lengths overflow (`bstrlib.c:1471`).
* `bsreadlna` returns success when it could not append the line (`bstrlib.c:2003`); when the string cannot grow
  after it took the buffer, the buffer's characters come again (`bstrlib.c:2015`).
* `bsplitstr` with an empty separator gives each character by itself (`bstrlib.c:2606-2609`); its comment
  (`bstrlib.c:2587-2588`) says the whole string once. `Collected` states what the code does.
* `bsplitstr` overlooks a separator directly behind another: its loop steps over the first and once more
  (`bstrlib.c:2619`, `2615`).
* `bsplitstrcb` calls once more, with a negative length, when a callback has made the string shorter than the place
  it has reached; its comment (`bstrlib.c:2594`) says that it halts.
* `bssplitstrcb` does not search the block in which a stream ends (`bstrlib.c:2407-2411`), so it never divides a short stream;
  without a separator it gives blocks and not characters (`bstrlib.c:2361-2362`).
* `bjoin` of a list without entries and a separator of one character writes to an empty block, as it does when the
  sizes of the separators overflow (`bstrlib.c:2264`); after `bsplit` ran out of memory it follows NULL (`bstrlib.c:2650`).
* `bstrnicmp` returns a difference of characters with their case, and decides without (`bstrlib.c:650`): it is no order.
  `bstrncmp` overlooks a NUL when both texts begin at one byte.
* `bsreada` records the end of the stream when the string cannot grow and the buffer is empty (`bstrlib.c:2170`).
* `bgetsa` and `bassigngets` lose the character they have read when the string cannot grow, and
  return 1 without a character, where the comment (`bstrlib.c:1863-1864`) ends with BSTR_ERR.

## Proofs

A theorem holds for every value of the constants that its module's assumptions and its own hypotheses
admit; the runs show the same property on one instance. In each module the invariant is the property
together with what the code relies on without checking it.

**`HallocProofs`**, for every finite or infinite set of blocks, under
`RootsMove = FALSE` and `HallocAssumption`:

* `HallocTypes`: `Spec => []TypeOK`
* `HallocListsIntact`: `Spec => []ListsIntact`
* `HallocRooted`: `Spec => []Rooted`
* `HallocForestRefined`: `Spec => ForestRefined`, so `Halloc` implements `HallocForest`.

The invariant is their conjunction `Heap` together with the fact that the
operations need each other: deleting an item keeps the lists intact only if both
halves of the double linking held before; attaching keeps the hierarchy free of
loops only because the parent is outside the item's subtree, and the lists tell what a
subtree is; freeing a subtree leaves no pointer into it because the only
cell that points into it is the one `hlist_del` clears (`SubtreeEntry`). One
lemma per action (`AllocKeepsHeap`, `DelKeepsHeap`, `AddKeepsHeap`,
`ResizeKeepsHeap`, `MoveKeepsHeap`, `FreeKeepsHeap`) states that it preserves
`Heap`; `HeapInductive` collects them.

The refinement mapping finds a block's parent by walking back along its list. The proof
replaces the walk by a local description, `Parents`: the parent of a first item owns the cell that points
to it, any other item has the parent of the item before it. In a heap without loops only one map
fits that description (`ParentsUnique`), so for each operation it is enough that the map after the
abstract step fits the heap after the concrete one (`ForestStep`).

**`HallocThreadsProofs`**, for any number of threads, blocks and homes:

* `ThreadsQuietSound`: `OwnHomes => (Spec => []QuietSound)`

`OwnHomes` says that no two threads work below the same block, which is what the threads of a
client do that have a connection each. Without it the property is false, as the run `threads_shared_context`
shows. That first calls may coincide does it no harm: the lists depend on neither the allocator nor on who chose it.
The invariant describes the list of each thread by itself (`ListOf`). Between the stores of
`hlist_add` and `hlist_del` no list is intact; there the invariant says which list
the remaining stores will complete (`Linking`, `Unlinking`). What the other threads do is
harmless because they write only cells of their own lists and the back pointer of the sentinel, and
nobody follows that one.

**`Mongrel2Proofs`**, for any connections, requests and messages:

* `Mongrel2Types`: `Spec => []TypeOK`
* `Mongrel2Sockets`: `Spec => []SocketsAccounted`
* `Mongrel2Heap`: `Spec => []HeapAccounted`
* `Mongrel2Failures`: `Spec => FailuresKnown`
* `Mongrel2Requests`: `Documented => (Spec => []RequestsSound)`
* `Mongrel2Calls`: `Documented => (Spec => CallsSafe)`

The first four hold whatever fails and whatever arrives. The invariant is `TypeOK /\ Control` and, until
a fault ends the process, `Heap`. `Control` says what each thread is in the middle of and which sockets it then has:
a call that waits in ZeroMQ depends on what it read before, and `m2_ctx_destroy` on there being no connection
left. `Heap` names the parent of each block by what the block is, and that no block is unaccounted for.
`RequestsSound` and `CallsSafe` are true only of the use the library is documented for, and `Documented` says what that is:
each message is one a server sends (`Usable`: headers in a JSON object with a METHOD, arrays and repeated names among
them or not, a body, and notices with a type), the client frees its requests before it closes the connection, and of the
system calls that can fail those for reconnecting, receiving and sending do not. Even then three calls can end the process, and
`CallsSafe` names them: asking for a header that is absent, freeing a request whose headers hold an array, and
reading a notice that holds one. The run `server` has constants
that satisfy `Documented`, and other failures; the run `any_message` shows with `FailuresKnown` what happens otherwise.

**`HashProofs`**, for any keys, any hash function and any initial size that is a power of two
(`HashAssumption`):

* `HashTableIntact`: `Spec => []TableIntact`
* `HashLoadKept`: `Spec => []LoadKept`
* `HashNodeSetRefined`: `Spec => NodeSetRefined`, so `Hash` implements `NodeSet`

Chains are sequences; the proofs translate what the code does to a chain into sets, the nodes on it
(`IsChain`) and those behind a node (`Behind`), and go on with sets. Splitting a chain is a recursive
function; what it computes is stated by `HalfChain`. Growing and shrinking are about indices: with a mask of one more bit, a node goes to
its old chain or to the one a table's length further (`SplitIndex`), and back (`FoldIndex`). The invariant adds to the
table's what the scan needs: the node it will return next is in the table, on the chain
it is at, and `hash_free_nodes` has still to return every node that is left. Inserting and
`hash_delete` during a scan are outside the model: they may resize the table, which is why `hash_scan_delete`
exists. What that one deletes is a node the scan has returned, which is why a scan fetches the next node before it
returns one.

**`WordsProofs`**, for a buffer of any size, any amount of memory behind it and any
lengths of messages (`WordsAssumption`):

* `WordsStay`: `Spec => []ScanStays`
* `WordsAreExact`: `Spec => []WordsExact`

The invariant `Scanned` adds two things to the types. `Row`: the words found so far stand
one behind the other, each without a space in it and with one behind it, and those not begun have length 0.
`Stands`: where the pointer is in relation to the current word and to the end of the message, at each place of
the loop. Both are needed because the code never looks at what it has passed again: that no three
spaces are left out of a refused message is only in what each word is known not to contain, and that the
pointer is not behind the end when a word begins is only in the check of the word
before it. An empty message, whose end the pointer has already passed, is refused by the check of the second
word; so from the third word on the length is known to be positive.

**`ListRings`** and **`ListProofs`**, for any number of nodes, lists, keys and limits, a pool of any size, and
as many extra lists as the recursion of `list_sort` is deep: `ListAssumption` asks for extra lists for
as many halvings as bring the number of nodes down to one, which is what the code creates on its way down.

* `ListVerified`: `Spec => []ListVerify`
* `ListPool`: `Spec => []PoolExact`
* `ListSearches`: `Spec => []SearchesExact`
* `ListLoops`: `Spec => []LoopsExact`
* `ListSorts`: `Spec => SortSorts`

`ListRings` knows nothing of the state: it is about pointers that thread a sequence (`Linked`). The six stores of an
extraction, and each store of the other operations, are one of two changes of a sequence: a slice is cut
out (`CutOut`) or put in (`PutIn`), and the rings of the other lists are as they were because no node
is in two places (`Apart`). `WalkReads` brings back the sequence from the pointers, so that what the code reads is
what the sequence has.

The invariant `Inv` of `ListProofs` says where each node is (`Places`), that each list is a ring (`Rings`) with the
count it has (`Counts`), and that what remains of the pool is a chain (`PoolInv`). That is what holds between calls; it is
not inductive, because the loops break it and depend on what they broke:

* `EmptyInv`: the list that `list_destroy_nodes` is emptying is no ring any more, but still a chain of the nodes to
  come. Its nil node is stale, and no other list can have a node of it.
* `ScanInv`: the next node of `list_process` has been read before the callback ran. It is still a place of the
  sequence, and the nodes from there on are those not yet visited.
* `SortInv`: the stack of `list_sort`. A frame that waits (`Waiting`) has one half in its own list or in its
  extra list; the half that is sorted first stays in order while the other is sorted. `Below` adds up, from the running frame
  down, how many nodes there are in the lists of a frame and of those above it, and which: with the first sum, each
  merge fits the maximum of its list and the depth stays within the extra lists (a list of at most 2^d nodes is
  split into two of at most 2^(d-1)); with the second, the first frame ends with all the nodes it began with. `Merged`
  is the invariant of the loop of `list_merge`: both lists are in order, and nothing before the place
  in the destination comes after anything left in the source.

Each of the actions has a lemma that it keeps `Inv`; for the steps of the sort these rest on how the stack
changes (`Extend`, `SplitSorting`, `MergeReturns`). `Inv` then implies each of the four invariants, and `SortStepSorts`
that a step which ends a sort ends it with the nodes in order.

**`JsonProofs`**, for texts of any length (`MaxLen` is any number), any largest length of a value, any largest int, any size of
an entry, and failures of malloc in either pass or none (`JsonAssumption`, which also keeps the texts of the run out of the way: none
of `Seeds` begins with a space or a closing bracket):

* `JsonPasses`: `Spec => []PassesAgree`
* `JsonBlocks`: `Spec => []BlocksAccounted`

The second pass decides nothing the first has not decided, but it decides it again, from the same text, with a tree that
is only half as it was. A step of it is safe because the first pass was at the same place of the text
in the same state, so the invariant of the second pass (`SecondPass`) contains the run of the first: `past`, the sequence
of its states (`History`), which the text determines and which is therefore no variable of the model. The proof has these parts:

* *Snapshots.* A state of the loop is a place, the flags, the length of the string and the shape of
  the tree (`Good`: parents come before their children, the open values lie on a path to `top`, an object that waits
  for the value of a name is `named`). `Moves` says where the loop goes from there for a symbol; a number is one move
  (`NumberMove`), because the passes read it differently: the first symbol by symbol (`Scanning`), the second by looking for the end of
  all that may stand in a number. `StepKeeps`: a move leads to a good snapshot in which nothing has shrunk (`Le`), where a string or a name that
  is being read counts with what has been read of it. So what the second pass has written is never more than the first had measured
  at the end.
* *Trees.* `Drawn` and `Redrawn` say what the tree is for a shape in the first and in the second pass; in the
  second, values up to the place carry the lengths of the shape and their blocks have the size of the final
  shape `F`, and those behind it still carry what was measured (`Halfway`).
* *Steps.* For each branch of the loop a lemma shows that at a snapshot it does what `Moves` says, or fails where there is no
  move (`Outcome`). One lemma serves both passes. `TurnStep` and `ScanStep` collect them, `FirstStep` and `SecondStep` say what comes of a
  step in each pass. That the second pass cannot fail but for want of memory follows from the state of the first at the same place: it had a
  move there, and a move is unique.
* *Freeing.* In the first pass the blocks in use are the values of the chain from `alloc` on (`Doomed`). `json_value_free` counts lengths down on
  its way, so its invariant (`Walk`) is about a set `W` of values it may still reach and the way `O` from the root to where it is: all members
  that are left of a value in `W` are in `W`, not on the way, and have it as their parent. After a successful parse nothing in
  use is outside `W` (`Exact`), and every value of `W` is still listed by its parent, so when the walk ends `W` is empty and
  nothing is left. After a failure of the second pass (`Left`) the walk is over the values that had been taken; the one for which there was no
  memory is in neither the tree nor the chain, unless it is the root: then its members are counted and
  not there (`Stray`), which is the fault listed above.

An object whose entries are more than an int can measure ends the second pass where it opens, in a fault or for want of memory
(`NarrowStep`); what the theorems say of the second pass they say up to there.

`IInv` says for each phase which of these holds. `ParseExact` is not among the theorems: it compares the parser with a grammar that is
written with recursive operators.

**Only model-checked.** The red-black tree, TNetstrings, variants and strings; `ParseExact` of the JSON parser;
that destruction, calls and parsing end (`DestroyReturns`, `CallsReturn`, `ParseReturns`), because the provers
have neither liveness under fairness nor `ENABLED`; that two threads below one home go wrong.

* The provers cannot instantiate the library's induction theorems. Where `HashProofs`, `ListRings` and `JsonProofs` need induction over numbers they take a
  least counterexample instead (`LeastNumber`, from the well-foundedness of the natural numbers), which is enough for
  functions of the natural numbers. It is not available for what `JsonReference`, `TnsReference`, `Variant`,
  `Bstring` and `Bpieces` compute with recursive operators, which the provers do not accept at all.

## Plan

1. Proofs: `DictVerify` between the operations of `Dict`.
2. Encodings and write streams of `bstraux`.

## Not modelled

* The text of messages, replies and errors; `m2_variant_dump_json`, which only
  prints; getters of scalars.
* Of bstring: searches for characters and sets of them, `btoupper`, `bfindreplacecaseless`,
  formatting (which depends on `vsnprintf`), `bstraux`. The rest of the library uses of these only `bformat`.
* Of the hash table: static tables. Of `dict.c`: node allocation and its replacement.
  Of the array: `darray_pop` and `darray_contract`. Nothing calls any of these.
* The Makefile, beyond that it leaves assertions enabled; ZeroMQ, beyond the outcomes
  of its calls and the messages it still holds; a signal that interrupts `zmq_ctx_destroy`, whose result
  `m2_ctx_destroy` does not look at.
