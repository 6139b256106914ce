--------------------------- MODULE HallocThreads ---------------------------
(***************************************************************************)
(* The hierarchical allocator called by several threads, one statement at  *)
(* a time: mem/halloc.c takes no lock.                                     *)
(*                                                                         *)
(* A thread is given its home block when it is started, or makes it in its *)
(* first call, the way m2_ctx_new does.  Then it allocates blocks and      *)
(* attaches them to its home, the way m2_connection_open does under a      *)
(* context and m2_recv under a connection, and frees the blocks it holds,  *)
(* the way m2_connection_close and m2_request_free do.  All lists end in   *)
(* the one sentinel hlist_null, so even threads that share no block write  *)
(* the sentinel's prev field, and the first call of halloc, whichever      *)
(* thread makes it, sets the variable `allocator'.                         *)
(*                                                                         *)
(* Statements interleave in program order; hardware may reorder the racing *)
(* accesses further.  malloc is thread-safe.  Which of its two functions   *)
(* `allocator' is set to makes no difference here: both free.              *)
(***************************************************************************)
EXTENDS Naturals

CONSTANTS Thread, Main,  \* Main starts the other threads
          Item,          \* addresses of the blocks that come and go
          Root,          \* the blocks they are attached to
          Null,          \* &hlist_null
          Home           \* [Thread -> Root]

ASSUME ThreadsAssumption ==
    /\ Main \in Thread
    /\ Home \in [Thread -> Root]
    /\ Item \cap Root = {} /\ Null \notin Item \cup Root

VARIABLES link, prev,    \* the pointer fields, as in Halloc
          owner,         \* [Item -> Thread], defined on allocated blocks
          home,          \* [Item -> Root], hattach's parent argument
          pc, op,        \* per thread: the next statement, of which call
          cur, next,     \* per thread: the item i and the local `next'
          allocatorSet,  \* allocator # NULL
          made,          \* the roots that are allocated
          started,       \* the threads that run
          asserted       \* assert(! allocator) in _set_allocator has failed

heap == <<link, prev>>
regs == <<op, cur, next>>
vars == <<heap, owner, home, pc, regs, allocatorSet, made, started, asserted>>

Block == Item \cup Root
Held  == DOMAIN owner
H == INSTANCE Halloc WITH RootsMove <- FALSE, live <- Held \cup Root

TypeOK == /\ link \in [H!Cell -> Block \cup {Null}]
          /\ prev \in [Item \cup {Null} -> H!Cell \cup {Null}]
          /\ Held \subseteq Item /\ owner \in [Held -> Thread]
          /\ home \in [Held -> Root]
          /\ pc \in [Thread -> {"idle", "test", "set", "store", "malloc",
                                "del1", "del2", "del3", "del4", "del5",
                                "add1", "add2", "add3", "add4", "add5", "release"}]
          /\ op \in [Thread -> {"attach", "free"}]
          /\ cur \in [Thread -> Item \cup {Null}]
          /\ next \in [Thread -> Item \cup {Null}]
          /\ allocatorSet \in BOOLEAN /\ asserted \in BOOLEAN
          /\ made \subseteq Root /\ started \subseteq Thread

Init == /\ link = [c \in H!Cell |-> Null]
        /\ prev = [i \in Item \cup {Null} |-> Null]
        /\ owner = [i \in {} |-> Main] /\ home = [i \in {} |-> Home[Main]]
        /\ pc = [t \in Thread |-> "idle"]
        /\ op = [t \in Thread |-> "attach"]
        /\ cur = [t \in Thread |-> Null] /\ next = [t \in Thread |-> Null]
        /\ allocatorSet = FALSE /\ asserted = FALSE
        /\ made = {} /\ started = {Main}

-----------------------------------------------------------------------------
At(t, s)    == t \in started /\ pc[t] = s /\ ~asserted
Goto(t, s)  == pc' = [pc EXCEPT ![t] = s]
i(t)        == cur[t]
h(t)        == H!Child(home[cur[t]])
Store(c, x) == link' = [link EXCEPT ![c] = x]

\* A thread that is to share Main's home is given it; another makes its own.
Start(t) == /\ t \notin started /\ At(Main, "idle")
            /\ Home[t] = Home[Main] => Home[t] \in made
            /\ started' = started \cup {t}
            /\ UNCHANGED <<heap, owner, home, pc, regs, allocatorSet, made, asserted>>

(***************************************************************************)
(* halloc(0, len), from `if (! allocator) _set_allocator();' on, and then  *)
(* hattach, which begins with hlist_del of the new block.                  *)
(***************************************************************************)
Call(t) == /\ At(t, "idle") /\ Goto(t, "test")
           /\ UNCHANGED <<heap, owner, home, regs, allocatorSet, made, started, asserted>>

Test(t) == /\ At(t, "test")
           /\ Goto(t, IF allocatorSet THEN "malloc" ELSE "set")
           /\ UNCHANGED <<heap, owner, home, regs, allocatorSet, made, started, asserted>>

\* _set_allocator: assert(! allocator), and what follows it.
AssertUnset(t) == /\ At(t, "set") /\ Goto(t, "store")
                  /\ asserted' = allocatorSet
                  /\ UNCHANGED <<heap, owner, home, regs, allocatorSet, made, started>>

SetAllocator(t) == /\ At(t, "store") /\ Goto(t, "malloc")
                   /\ allocatorSet' = TRUE
                   /\ UNCHANGED <<heap, owner, home, regs, made, started, asserted>>

\* The first block of a thread that has no home is its home.
MakeHome(t) == /\ At(t, "malloc") /\ Goto(t, "idle")
               /\ Home[t] \notin made
               /\ made' = made \cup {Home[t]}
               /\ UNCHANGED <<heap, owner, home, regs, allocatorSet, started, asserted>>

Malloc(t) == \E b \in Item \ Held :
    /\ At(t, "malloc") /\ Goto(t, "del1")
    /\ Home[t] \in made
    /\ link' = H!InitLink(link, {b})
    /\ prev' = [prev EXCEPT ![b] = H!Nxt(b)]
    /\ owner' = [x \in Held \cup {b} |-> IF x = b THEN t ELSE owner[x]]
    /\ home' = [x \in Held \cup {b} |-> IF x = b THEN Home[t] ELSE home[x]]
    /\ cur' = [cur EXCEPT ![t] = b]
    /\ op' = [op EXCEPT ![t] = "attach"]
    /\ UNCHANGED <<next, allocatorSet, made, started, asserted>>

NoMemory(t) == /\ At(t, "malloc") /\ Goto(t, "idle")
               /\ UNCHANGED <<heap, owner, home, regs, allocatorSet, made, started, asserted>>

\* halloc(p, 0) of a block without children, and its last statement.
CallFree(t) == \E b \in Held :
    /\ At(t, "idle") /\ Goto(t, "del1")
    /\ owner[b] = t
    /\ cur' = [cur EXCEPT ![t] = b]
    /\ op' = [op EXCEPT ![t] = "free"]
    /\ UNCHANGED <<heap, owner, home, next, allocatorSet, made, started, asserted>>

Release(t) == /\ At(t, "release") /\ Goto(t, "idle")
              /\ owner' = [x \in Held \ {i(t)} |-> owner[x]]
              /\ home' = [x \in Held \ {i(t)} |-> home[x]]
              /\ UNCHANGED <<heap, regs, allocatorSet, made, started, asserted>>

-----------------------------------------------------------------------------
(***************************************************************************)
(* The statements of hlist_del(i) and of hlist_add(h, i).                  *)
(***************************************************************************)
Statement(t, from, to) ==
    /\ At(t, from) /\ Goto(t, to)
    /\ UNCHANGED <<owner, home, op, cur, allocatorSet, made, started, asserted>>

\* Faulty variant of the third: *next->prev = next, which is the same cell
\* unless another thread has just written the sentinel's prev.
Del3ByNext(t) == /\ Statement(t, "del3", "del4")
                 /\ Store(prev[next[t]], next[t])
                 /\ UNCHANGED <<prev, next>>

Del1(t) == /\ Statement(t, "del1", "del2")              \* next = i->next
           /\ next' = [next EXCEPT ![t] = link[H!Nxt(i(t))]]
           /\ UNCHANGED heap
Del2(t) == /\ Statement(t, "del2", "del3")              \* next->prev = i->prev
           /\ prev' = [prev EXCEPT ![next[t]] = prev[i(t)]]
           /\ UNCHANGED <<link, next>>
Del3(t) == /\ Statement(t, "del3", "del4")              \* *i->prev = next
           /\ Store(prev[i(t)], next[t])
           /\ UNCHANGED <<prev, next>>
Del4(t) == /\ Statement(t, "del4", "del5")              \* i->prev = &i->next
           /\ prev' = [prev EXCEPT ![i(t)] = H!Nxt(i(t))]
           /\ UNCHANGED <<link, next>>
Del5(t) == /\ Statement(t, "del5", IF op[t] = "free" THEN "release" ELSE "add1")
           /\ Store(H!Nxt(i(t)), Null)                  \* i->next = &hlist_null
           /\ UNCHANGED <<prev, next>>

Add1(t) == /\ Statement(t, "add1", "add2")              \* next = h->next
           /\ next' = [next EXCEPT ![t] = link[h(t)]]
           /\ UNCHANGED heap
Add2(t) == /\ Statement(t, "add2", "add3")              \* i->next = next
           /\ Store(H!Nxt(i(t)), next[t])
           /\ UNCHANGED <<prev, next>>
Add3(t) == /\ Statement(t, "add3", "add4")              \* next->prev = &i->next
           /\ prev' = [prev EXCEPT ![next[t]] = H!Nxt(i(t))]
           /\ UNCHANGED <<link, next>>
Add4(t) == /\ Statement(t, "add4", "add5")              \* h->next = i
           /\ Store(h(t), i(t))
           /\ UNCHANGED <<prev, next>>
Add5(t) == /\ Statement(t, "add5", "idle")              \* i->prev = &h->next
           /\ prev' = [prev EXCEPT ![i(t)] = h(t)]
           /\ UNCHANGED <<link, next>>

Step(t) == \/ Call(t) \/ Test(t) \/ AssertUnset(t) \/ SetAllocator(t)
           \/ MakeHome(t) \/ Malloc(t) \/ NoMemory(t)
           \/ CallFree(t) \/ Release(t)
           \/ Del1(t) \/ Del2(t) \/ Del3(t) \/ Del4(t) \/ Del5(t)
           \/ Add1(t) \/ Add2(t) \/ Add3(t) \/ Add4(t) \/ Add5(t)

Next == \E t \in Thread : Start(t) \/ Step(t)

Spec == Init /\ [][Next]_vars

\* The application may also pass a block it is not using to another thread.
Pass(b, t) == /\ b \in Held /\ At(owner[b], "idle") /\ t \in started
              /\ owner' = [owner EXCEPT ![b] = t]
              /\ UNCHANGED <<heap, home, pc, regs, allocatorSet, made, started, asserted>>

NextPassing == Next \/ \E b \in Item, t \in Thread : Pass(b, t)

SpecPassing == Init /\ [][NextPassing]_vars

-----------------------------------------------------------------------------
(***************************************************************************)
(* While no thread is changing the list of r, whatever the other threads   *)
(* are in the middle of, the list holds exactly the blocks attached to r,  *)
(* each pointed to by the cell it names as its prev.                       *)
(***************************************************************************)
Changing(t)  == pc[t] \notin {"idle", "test", "set", "store", "malloc"}
Quiet(r)     == \A t \in Thread : Changing(t) => home[cur[t]] # r
Attached(r)  == {b \in Held : home[b] = r}

QuietListsIntact ==
    \A r \in Root : Quiet(r) =>
        /\ H!Kids(r) = Attached(r)
        /\ \A b \in Attached(r) : /\ prev[b] \in H!Cell
                                  /\ H!Owner(prev[b]) \in Attached(r) \cup {r}
                                  /\ link[prev[b]] = b

\* What a thread can rely on between its calls.
QuietSound == TypeOK /\ QuietListsIntact
=============================================================================
