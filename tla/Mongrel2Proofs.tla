--------------------------- MODULE Mongrel2Proofs ---------------------------
(***************************************************************************)
(* Proofs about Mongrel2, for any connections, requests and messages and   *)
(* any of the failures, unless a theorem restricts them.                   *)
(***************************************************************************)
EXTENDS Mongrel2, TLAPS

Opening == {"recv_socket", "send_socket", "recv_connect", "send_connect", "open_error"}

\* What is known of a thread in each call, and of its sockets.
Calls(c) ==
    /\ pc[c] \in Opening \cup {"closing"} => c \notin open
    /\ pc[c] = "receiving" => c \in open
    /\ pc[c] \in {"idle", "receiving", "closing"} =>
          \A k \in {"recv", "send"} : <<c, k>> \in sockets <=> c \in open
    /\ pc[c] \in {"send_socket", "recv_connect", "send_connect"} => <<c, "recv">> \in sockets

\* m2_ctx_destroy is called when no connection is left.
Alone == zctx # "live" => open = {} /\ \A c \in Conn : pc[c] = "idle"

\* What TypeOK says of the variables beside the forest.
Fields == /\ zctx \in {"none", "live", "terminating"}
          /\ sockets \subseteq Conn \X {"recv", "send"}
          /\ unsent \subseteq Conn
          /\ open \subseteq Conn
          /\ pc \in [Conn -> {"idle", "recv_socket", "send_socket", "recv_connect", "send_connect",
                              "open_error", "receiving", "closing"}]
          /\ cur \in [Conn -> Req \cup {None}]
          /\ errno \in [Conn -> {"ok", "error"}]
          /\ DOMAIN reqs \subseteq Req
          /\ \A r \in DOMAIN reqs : reqs[r] \in RequestType
          /\ values \subseteq Value
          /\ fault \in {"none", "assert", "magic", "free", "bdestroy", "null", "unset", "dangling",
                        "overflow"}

Control == Fields /\ Alone /\ \A c \in Conn : Calls(c)

LEMMA TypeOKSplit == TypeOK <=> F!TypeOK /\ Fields
BY DEF TypeOK, Fields

-----------------------------------------------------------------------------
\* What control does not depend on: the forest.
LEMMA ControlInit == Init => Control
BY DEF Init, Control, Fields, Alone, Calls, Opening, Value

LEMMA ControlContext ==
    Control /\ (CtxNew \/ CtxDestroy \/ CtxDestroyed) => Control'
BY DEF Control, Fields, Alone, Calls, Opening, CtxNew, CtxDestroy, CtxDestroyed

LEMMA ControlOpen ==
    ASSUME Control, NEW c \in Conn,
           OpenRefused(c) \/ Open(c) \/ OpenRecvSocket(c) \/ OpenSendSocket(c)
    PROVE  Control'
<1> USE DEF At, Goto, SetErrno
<1>1. Fields'
  BY DEF Control, Fields, OpenRefused, Open, OpenRecvSocket, OpenSendSocket
<1>2. Alone'
  BY DEF Control, Fields, Alone, OpenRefused, Open, OpenRecvSocket, OpenSendSocket
<1>3. ASSUME NEW d \in Conn PROVE Calls(d)'
  BY DEF Control, Fields, Calls, Opening, OpenRefused, Open, OpenRecvSocket, OpenSendSocket
<1> QED
  BY <1>1, <1>2, <1>3 DEF Control

LEMMA ControlConnect ==
    ASSUME Control, NEW c \in Conn, OpenRecvConnect(c) \/ OpenSendConnect(c)
    PROVE  Control'
<1> USE DEF At, Goto, SetErrno, ConnectFails, Reconnects
<1>1. Fields'
  BY DEF Control, Fields, OpenRecvConnect, OpenSendConnect
<1>2. Alone'
  BY DEF Control, Fields, Alone, OpenRecvConnect, OpenSendConnect
<1>3. ASSUME NEW d \in Conn PROVE Calls(d)'
  BY DEF Control, Fields, Calls, Opening, OpenRecvConnect, OpenSendConnect
<1> QED
  BY <1>1, <1>2, <1>3 DEF Control

LEMMA ControlClose ==
    ASSUME Control, NEW c \in Conn, OpenError(c) \/ Close(c) \/ Closed(c)
    PROVE  Control'
<1> USE DEF At, Goto, SetErrno
<1>1. Fields'
  BY DEF Control, Fields, OpenError, Close, Closed
<1>2. Alone'
  BY DEF Control, Fields, Alone, OpenError, Close, Closed
<1>3. ASSUME NEW d \in Conn PROVE Calls(d)'
  BY DEF Control, Fields, Calls, Opening, OpenError, Close, Closed
<1> QED
  BY <1>1, <1>2, <1>3 DEF Control

LEMMA ControlTaken == ASSUME Control, NEW c \in Conn, Taken(c) PROVE Control'
BY DEF Control, Fields, Alone, Calls, Opening, Taken

LEMMA ControlRecv ==
    ASSUME Control, NEW c \in Conn,
           Recv(c) \/ RecvNoMemory(c) \/ RecvFails(c) \/ Send(c)
    PROVE  Control'
<1> USE DEF At, Goto, SetErrno
<1>1. Fields'
  BY DEF Control, Fields, Recv, RecvNoMemory, RecvFails, Send, Sent, NotSent
<1>2. Alone'
  BY DEF Control, Fields, Alone, Recv, RecvNoMemory, RecvFails, Send, Sent, NotSent
<1>3. ASSUME NEW d \in Conn PROVE Calls(d)'
  BY DEF Control, Fields, Calls, Opening, Recv, RecvNoMemory, RecvFails, Send, Sent, NotSent
<1> QED
  BY <1>1, <1>2, <1>3 DEF Control

\* What parse_request sees of a message, short of memory or not, is a message.
LEMMA SeenTypes == ASSUME NEW sent \in Message, NEW m \in Seen(sent) PROVE m \in MessageType
<1>1. sent \in MessageType
  BY Mongrel2Assumption
<1>2. CASE m = sent
  BY <1>1, <1>2
<1>3. CASE m = [sent EXCEPT !.framed = FALSE]
  BY <1>1, <1>3 DEF MessageType
<1>4. CASE m = [sent EXCEPT !.method = "nostring"]
  BY <1>1, <1>4 DEF MessageType, MethodType
<1>5. ASSUME NEW k \in {"invalid", "nostring"},
             m = [sent EXCEPT !.headers = k] \/ m = [sent EXCEPT !.body = k]
      PROVE  m \in MessageType
  BY <1>1, <1>5 DEF MessageType, TnsType
<1>6. ASSUME NEW n \in sent.json.names,
             m = [sent EXCEPT !.json.names = @ \ {n}, !.json.repeats = TRUE]
      PROVE  m \in MessageType
  BY <1>1, <1>6 DEF MessageType, JsonText
<1> QED
  BY <1>2, <1>3, <1>4, <1>5, <1>6 DEF Seen, Short

\* What parse_request makes of any message has the types of a request.
LEMMA ParsedTypes ==
    ASSUME NEW m \in MessageType, NEW r \in Req, NEW c \in Conn
    PROVE  /\ Request(c, m) \in RequestType
           /\ Request(c, m).conn = c
           /\ Request(c, m).headers = "unset" <=> ParseFails(m)
           /\ ParsedErrno(m) \in {"ok", "error"}
           /\ ParsedValues(m, r) \subseteq Value
           /\ ParseFaults(m) \subseteq {"none", "assert", "free", "null", "overflow"}
<1>1. NoText \in JsonText
  BY DEF NoText, JsonText
<1>2. Unparsed(c) \in RequestType
  BY <1>1 DEF Unparsed, RequestType, MethodType
<1>3. Parsed(c, m) \in RequestType
  <2>1. m.json.names \subseteq Name /\ m.method \in MethodType /\ m.text \in JsonText
    BY DEF MessageType, JsonText
  <2>2. NamesOf(m) \subseteq Name /\ KeepsArray(m) \in BOOLEAN
    <3>1. m.json.arrays \in BOOLEAN
      BY DEF MessageType, JsonText
    <3> QED
      BY <2>1, <3>1 DEF NamesOf, KeepsArray
  <2> QED
    BY <1>1, <2>1, <2>2 DEF Parsed, RequestType, MethodType
<1>4. /\ Unparsed(c).conn = c /\ Unparsed(c).headers = "unset"
      /\ Parsed(c, m).conn = c /\ Parsed(c, m).headers # "unset"
  BY DEF Unparsed, Parsed
<1>5. ParsedErrno(m) \in {"ok", "error"}
  BY DEF ParsedErrno
<1>6. ParsedValues(m, r) \subseteq Value
  BY DEF ParsedValues, Value
<1>7. ParseFaults(m) \subseteq {"none", "assert", "free", "null", "overflow"}
  BY DEF ParseFaults, ParseFault, HeadersFault, BodyFault, JsonFault, TnsFault
<1> QED
  BY <1>2, <1>3, <1>4, <1>5, <1>6, <1>7 DEF Request

\* m2_recv with the message it has seen.
LEMMA Reception ==
    ASSUME NEW c \in Conn, cur[c] \in Req, Received(c)
    PROVE  \E m \in MessageType :
              /\ \E sent \in Message : m \in Seen(sent)
              /\ pc[c] = "receiving" /\ fault = "none"
              /\ pc' = [pc EXCEPT ![c] = "idle"]
              /\ errno' = [errno EXCEPT ![c] = ParsedErrno(m)]
              /\ parent' = WordsKept(m, cur[c])
              /\ reqs' = [x \in DOMAIN reqs \cup {cur[c]} |->
                             IF x # cur[c] THEN reqs[x] ELSE Request(c, m)]
              /\ values' = values \cup ParsedValues(m, cur[c])
              /\ fault' \in ParseFaults(m)
              /\ UNCHANGED <<zctx, sockets, unsent, open, cur>>
BY SeenTypes, Zenon DEF Received, At, Goto, SetErrno

LEMMA ControlReceived ==
    ASSUME Control, NEW c \in Conn, Received(c), cur[c] \in Req
    PROVE  Control'
<1>1. PICK m \in MessageType :
        /\ pc[c] = "receiving"
        /\ pc' = [pc EXCEPT ![c] = "idle"]
        /\ errno' = [errno EXCEPT ![c] = ParsedErrno(m)]
        /\ reqs' = [x \in DOMAIN reqs \cup {cur[c]} |->
                      IF x # cur[c] THEN reqs[x] ELSE Request(c, m)]
        /\ values' = values \cup ParsedValues(m, cur[c])
        /\ fault' \in ParseFaults(m)
        /\ UNCHANGED <<zctx, sockets, unsent, open, cur>>
  BY Reception
<1>2. /\ Request(c, m) \in RequestType
      /\ ParsedErrno(m) \in {"ok", "error"}
      /\ ParsedValues(m, cur[c]) \subseteq Value
      /\ ParseFaults(m) \subseteq {"none", "assert", "free", "null", "overflow"}
  BY ParsedTypes
<1>3. Fields'
  <2>1. \A r \in DOMAIN reqs' : reqs'[r] \in RequestType
    BY <1>1, <1>2 DEF Control, Fields
  <2> QED
    BY <1>1, <1>2, <2>1 DEF Control, Fields
<1>4. Alone'
  BY <1>1 DEF Control, Fields, Alone
<1>5. ASSUME NEW d \in Conn PROVE Calls(d)'
  BY <1>1 DEF Control, Fields, Calls, Opening
<1> QED
  BY <1>3, <1>4, <1>5 DEF Control

\* How the calls on a request may end.
LEMMA ClientFaults ==
    ASSUME NEW r \in Req, Client(r)
    PROVE  fault' \in {"none", "bdestroy", "free", "null", "unset", "dangling", "overflow"}
<1>1. ASSUME RequestFree(r) PROVE fault' \in {"none", "free", "unset", "dangling"}
  BY <1>1 DEF RequestFree, FreeFaults, UseOf
<1>2. ASSUME NEW n \in Name \cup {"METHOD"}, fault' \in LookupFaults(r, n)
      PROVE  fault' \in {"none", "null", "unset", "dangling"}
  BY <1>2 DEF LookupFaults, UseOf
<1>3. ASSUME IsDisconnected(r)
      PROVE  fault' \in {"none", "free", "null", "unset", "dangling", "overflow"}
  <2>1. ASSUME fault' \in NoticeFaults(r) PROVE fault' \in {"none", "free", "null", "unset", "overflow"}
    BY <2>1 DEF NoticeFaults, TypeFault, JsonFault
  <2> QED
    BY <1>2, <1>3, <2>1 DEF IsDisconnected
<1>4. ASSUME Reply(r) PROVE fault' \in {"none", "bdestroy", "unset", "dangling"}
  BY <1>4 DEF Reply, UseOf, Sent, NotSent
<1> QED
  BY <1>1, <1>2, <1>3, <1>4 DEF Client, GetHeader

\* The calls on a request leave the threads where they are.
LEMMA ControlClient == ASSUME Control, NEW r \in Req, Client(r) PROVE Control'
<1> USE DEF Using, At, SetErrno
<1>1. /\ UNCHANGED <<zctx, sockets, open, pc, cur>>
      /\ r \in DOMAIN reqs
      /\ DOMAIN reqs' \subseteq DOMAIN reqs /\ \A x \in DOMAIN reqs' : reqs'[x] = reqs[x]
      /\ values' \subseteq values \cup {Repeated}
  BY DEF Client, RequestFree, GetHeader, IsDisconnected, Reply
<1>2. reqs[r].conn \in Conn
  BY <1>1 DEF Control, Fields, RequestType
<1>3. errno' \in [Conn -> {"ok", "error"}]
  BY <1>2 DEF Control, Fields, Client, RequestFree, GetHeader, IsDisconnected, Reply,
         Sent, NotSent, LookupErrno, NoticeErrno
<1>4. unsent' \subseteq Conn
  BY <1>2 DEF Control, Fields, Client, RequestFree, GetHeader, IsDisconnected, Reply, Sent, NotSent
<1>5. Fields'
  BY <1>1, <1>3, <1>4, ClientFaults DEF Control, Fields, Value
<1> QED
  BY <1>1, <1>5 DEF Control, Alone, Calls

-----------------------------------------------------------------------------
(***************************************************************************)
(* The forest.  What is freed with a block b is the least closed set that  *)
(* has b in it.                                                            *)
(***************************************************************************)
LEMMA BelowLeast ==
    ASSUME NEW par, NEW b \in DOMAIN par
    PROVE  /\ F!Below(par, b) \subseteq DOMAIN par
           /\ b \in F!Below(par, b)
           /\ F!ClosedBelow(par, F!Below(par, b))
           /\ \A S \in SUBSET DOMAIN par :
                 b \in S /\ F!ClosedBelow(par, S) => F!Below(par, b) \subseteq S
<1> DEFINE T == F!Below(par, b)
<1>1. T \subseteq DOMAIN par
  BY DEF F!Below
<1>2. \A S \in SUBSET DOMAIN par : b \in S /\ F!ClosedBelow(par, S) => T \subseteq S
  BY DEF F!Below
<1>3. b \in T
  BY DEF F!Below
<1>4. F!ClosedBelow(par, T)
  <2> SUFFICES ASSUME NEW x \in DOMAIN par, par[x] \in T PROVE x \in T
    BY DEF F!ClosedBelow
  <2>1. ASSUME NEW S \in SUBSET DOMAIN par, b \in S, F!ClosedBelow(par, S) PROVE x \in S
    <3>1. par[x] \in S
      BY <1>2, <2>1
    <3> QED
      BY <2>1, <3>1 DEF F!ClosedBelow
  <2> QED
    BY <2>1 DEF F!Below
<1> QED
  BY <1>1, <1>2, <1>3, <1>4

\* Freeing keeps the blocks outside a set that is closed, with their parents, and
\* leaves no parent dangling.
LEMMA PruneKeeps ==
    ASSUME NEW par, NEW b \in DOMAIN par,
           \A x \in DOMAIN par : par[x] \in DOMAIN par \cup {None}
    PROVE  /\ DOMAIN F!Prune(par, b) \subseteq DOMAIN par
           /\ b \notin DOMAIN F!Prune(par, b)
           /\ \A x \in DOMAIN F!Prune(par, b) :
                 /\ F!Prune(par, b)[x] = par[x]
                 /\ F!Prune(par, b)[x] \in DOMAIN F!Prune(par, b) \cup {None}
           /\ \A S \in SUBSET DOMAIN par :
                 b \in S /\ F!ClosedBelow(par, S) => DOMAIN par \ S \subseteq DOMAIN F!Prune(par, b)
<1> DEFINE T == F!Below(par, b)
<1>1. /\ T \subseteq DOMAIN par /\ b \in T
      /\ \A x \in DOMAIN par : par[x] \in T => x \in T
      /\ \A S \in SUBSET DOMAIN par : b \in S /\ F!ClosedBelow(par, S) => T \subseteq S
  BY BelowLeast DEF F!ClosedBelow
<1>2. /\ DOMAIN F!Prune(par, b) = DOMAIN par \ T
      /\ \A x \in DOMAIN par \ T : F!Prune(par, b)[x] = par[x]
  BY DEF F!Prune
<1> QED
  BY <1>1, <1>2

LEMMA BlocksDiffer ==
    /\ \A c \in Conn : /\ ConnOf(c) # Ctx /\ ConnOf(c) # None /\ ConnOf(c) \in Block
                       /\ \A d \in Conn : ConnOf(c) = ConnOf(d) => c = d
    /\ \A r \in Req : /\ {ReqOf(r), Raw(r), Strings(r)} \subseteq Block
                      /\ ReqOf(r) # Raw(r) /\ ReqOf(r) # Strings(r) /\ Raw(r) # Strings(r)
                      /\ None \notin {ReqOf(r), Raw(r), Strings(r)}
                      /\ Ctx \notin {ReqOf(r), Raw(r), Strings(r)}
                      /\ \A c \in Conn : ConnOf(c) \notin {ReqOf(r), Raw(r), Strings(r)}
                      /\ \A q \in Req : /\ ReqOf(r) = ReqOf(q) => r = q
                                        /\ Raw(r) = Raw(q) => r = q
                                        /\ Strings(r) = Strings(q) => r = q
                                        /\ ReqOf(r) # Raw(q) /\ ReqOf(r) # Strings(q)
                                        /\ Raw(r) # Strings(q)
    /\ Ctx \in Block /\ Ctx # None
    /\ \A b \in Block : \/ b = Ctx \/ (\E c \in Conn : b = ConnOf(c))
                        \/ \E r \in Req : b \in {ReqOf(r), Raw(r), Strings(r)}
<1>1. Block = {Ctx} \cup {ConnOf(c) : c \in Conn}
              \cup UNION {{ReqOf(r), Raw(r), Strings(r)} : r \in Req}
  BY DEF Block
<1>2. /\ Ctx \in Block /\ \A c \in Conn : ConnOf(c) \in Block
      /\ \A r \in Req : {ReqOf(r), Raw(r), Strings(r)} \subseteq Block
  BY <1>1, Zenon
<1>3. \A b \in Block : \/ b = Ctx \/ (\E c \in Conn : b = ConnOf(c))
                       \/ \E r \in Req : b \in {ReqOf(r), Raw(r), Strings(r)}
  BY <1>1, Zenon
<1> QED
  BY <1>2, <1>3, NoneAssumption DEF Ctx, ConnOf, ReqOf, Raw, Strings

-----------------------------------------------------------------------------
(***************************************************************************)
(* HeapAccounted, with what makes it inductive: the context is a root, a   *)
(* connection that is being opened has no request below it, and the        *)
(* request being received is there and not yet the client's.               *)
(***************************************************************************)
ConnBlock(c) == /\ Live(ConnOf(c)) <=> c \in open \/ pc[c] \notin {"idle", "receiving"}
                /\ Live(ConnOf(c)) => parent[ConnOf(c)] = Ctx

ReqBlock(r) == Live(ReqOf(r)) => \E c \in Conn :
                   /\ parent[ReqOf(r)] = ConnOf(c) /\ pc[c] \notin Opening
                   /\ Receiving(c, r) \/ r \in HeldOn(c)

BelowReq(r) == /\ Live(Raw(r)) <=> Live(ReqOf(r))
               /\ Live(Strings(r)) => Live(ReqOf(r)) /\ r \in DOMAIN reqs
               /\ \A b \in {Raw(r), Strings(r)} : Live(b) => parent[b] = ReqOf(r)
               /\ r \in DOMAIN reqs /\ Live(ReqOf(r)) /\ reqs[r].headers # "unset" => Live(Strings(r))

Current(c) == pc[c] = "receiving" =>
                 /\ cur[c] \in Req \ DOMAIN reqs
                 /\ Live(ReqOf(cur[c])) /\ parent[ReqOf(cur[c])] = ConnOf(c)

Heap == /\ Live(Ctx) <=> zctx # "none"
        /\ Live(Ctx) => parent[Ctx] = None
        /\ \A c \in Conn : ConnBlock(c) /\ Current(c)
        /\ \A r \in Req : ReqBlock(r) /\ BelowReq(r)

IInv == F!TypeOK /\ Control /\ (fault = "none" => Heap)

\* The steps that touch neither the forest nor the requests.
LEMMA HeapSame ==
    ASSUME F!TypeOK, Control, Heap, NEW c \in Conn,
           \/ OpenRefused(c) \/ OpenRecvSocket(c) \/ OpenSendSocket(c)
           \/ OpenRecvConnect(c) \/ OpenSendConnect(c)
           \/ Close(c) \/ RecvNoMemory(c) \/ Send(c) \/ Taken(c)
    PROVE  F!TypeOK' /\ Heap'
<1> USE DEF At, Goto, SetErrno, ConnectFails, Reconnects
<1>1. UNCHANGED <<parent, zctx, cur, reqs>>
  BY DEF OpenRefused, OpenRecvSocket, OpenSendSocket, OpenRecvConnect, OpenSendConnect, Close,
         RecvNoMemory, Send, Taken
<1>2. \A d \in Conn : /\ pc[d] = "receiving" <=> pc'[d] = "receiving"
                      /\ pc'[d] \in Opening => pc[d] \in Opening
                      /\ d \in open' \/ pc'[d] \notin {"idle", "receiving"}
                            <=> d \in open \/ pc[d] \notin {"idle", "receiving"}
  BY DEF Control, Fields, Calls, Opening,
         OpenRefused, OpenRecvSocket, OpenSendSocket, OpenRecvConnect, OpenSendConnect, Close,
         RecvNoMemory, Send, Taken
<1>3. F!TypeOK'
  BY <1>1 DEF F!TypeOK
<1>4. (\A d \in Conn : ConnBlock(d) /\ Current(d))'
  BY <1>1, <1>2 DEF Heap, ConnBlock, Current, Live
<1>5. (\A r \in Req : ReqBlock(r) /\ BelowReq(r))'
  BY <1>1, <1>2 DEF Heap, ReqBlock, BelowReq, Receiving, HeldOn, Live
<1> QED
  BY <1>1, <1>3, <1>4, <1>5 DEF Heap, Live

LEMMA HeapInit == Init => F!TypeOK /\ Heap
BY BlocksDiffer DEF Init, F!TypeOK, Heap, ConnBlock, Current, ReqBlock, BelowReq, Live

\* m2_connection_open gives the connection its block.
LEMMA HeapOpen ==
    ASSUME F!TypeOK, Control, Heap, NEW c \in Conn, Open(c)
    PROVE  F!TypeOK' /\ Heap'
<1> USE DEF At, Goto, SetErrno
<1>1. /\ pc[c] = "idle" /\ c \notin open /\ Live(Ctx) /\ ~Live(ConnOf(c))
      /\ pc' = [pc EXCEPT ![c] = "recv_socket"]
      /\ UNCHANGED <<zctx, open, cur, reqs>>
  BY DEF Open, Heap, ConnBlock
<1>2. /\ DOMAIN parent' = DOMAIN parent \cup {ConnOf(c)}
      /\ parent'[ConnOf(c)] = Ctx
      /\ \A x \in DOMAIN parent : parent'[x] = parent[x]
  BY <1>1 DEF Open, NewUnder, F!Place, Live
<1>3. F!TypeOK'
  BY <1>1, <1>2, BlocksDiffer DEF F!TypeOK, Live
<1>4. ASSUME NEW d \in Conn PROVE (ConnBlock(d) /\ Current(d))'
  BY <1>1, <1>2, BlocksDiffer DEF Heap, ConnBlock, Current, Live, Control, Fields
<1>5. ASSUME NEW r \in Req PROVE ReqBlock(r)'
  <2> SUFFICES ASSUME ReqOf(r) \in DOMAIN parent PROVE ReqBlock(r)'
    BY <1>2, BlocksDiffer DEF ReqBlock, Live
  <2>1. PICK d \in Conn : /\ parent[ReqOf(r)] = ConnOf(d) /\ pc[d] \notin Opening
                          /\ Receiving(d, r) \/ r \in HeldOn(d)
    BY DEF Heap, ReqBlock, Live
  <2>2. d # c
    BY <1>1, <2>1, BlocksDiffer DEF F!TypeOK, Live
  <2> QED
    BY <1>1, <1>2, <2>1, <2>2, BlocksDiffer
       DEF ReqBlock, Receiving, HeldOn, Live, Control, Fields
<1>6. ASSUME NEW r \in Req PROVE BelowReq(r)'
  BY <1>1, <1>2, BlocksDiffer DEF Heap, BelowReq, Live
<1> QED
  BY <1>1, <1>2, <1>3, <1>4, <1>5, <1>6, BlocksDiffer DEF Heap, Live

\* What is freed with a connection: the requests below it, and nothing else.
LEMMA ConnPruned ==
    ASSUME F!TypeOK, Heap, NEW c \in Conn, Live(ConnOf(c)), parent' = F!Prune(parent, ConnOf(c))
    PROVE  /\ DOMAIN parent' \subseteq DOMAIN parent
           /\ ~Live(ConnOf(c))'
           /\ \A x \in DOMAIN parent' :
                 parent'[x] = parent[x] /\ parent'[x] \in DOMAIN parent' \cup {None}
           /\ Live(Ctx)' <=> Live(Ctx)
           /\ \A d \in Conn \ {c} : Live(ConnOf(d))' <=> Live(ConnOf(d))
           /\ \A r \in Req :
                 /\ Live(ReqOf(r))' <=> Live(ReqOf(r)) /\ parent[ReqOf(r)] # ConnOf(c)
                 /\ \A b \in {Raw(r), Strings(r)} : Live(b)' <=> Live(b) /\ Live(ReqOf(r))'
<1> DEFINE Under == {x \in DOMAIN parent :
                        \/ x = ConnOf(c)
                        \/ \E r \in Req : /\ x \in {ReqOf(r), Raw(r), Strings(r)}
                                          /\ parent[ReqOf(r)] = ConnOf(c)}
<1>1. \A x \in DOMAIN parent :
         /\ x = Ctx => parent[x] = None
         /\ \A d \in Conn : x = ConnOf(d) => parent[x] = Ctx
         /\ \A r \in Req :
              /\ x = ReqOf(r) => \E d \in Conn : parent[x] = ConnOf(d)
              /\ x \in {Raw(r), Strings(r)} => parent[x] = ReqOf(r)
  BY DEF Heap, ConnBlock, ReqBlock, BelowReq, Live
<1>2. F!ClosedBelow(parent, Under)
  <2> SUFFICES ASSUME NEW x \in DOMAIN parent, parent[x] \in Under PROVE x \in Under
    BY DEF F!ClosedBelow
  <2>1. x \in Block
    BY DEF F!TypeOK
  <2>2. ASSUME x = Ctx PROVE FALSE
    BY <1>1, <2>2, BlocksDiffer
  <2>3. ASSUME NEW d \in Conn, x = ConnOf(d) PROVE FALSE
    BY <1>1, <2>3, BlocksDiffer
  <2>4. ASSUME NEW r \in Req, x = ReqOf(r) PROVE x \in Under
    BY <1>1, <2>4, BlocksDiffer
  <2>5. ASSUME NEW r \in Req, x \in {Raw(r), Strings(r)} PROVE x \in Under
    BY <1>1, <2>5, BlocksDiffer
  <2> QED
    BY <2>1, <2>2, <2>3, <2>4, <2>5, BlocksDiffer
<1>3. /\ DOMAIN parent' \subseteq DOMAIN parent
      /\ ConnOf(c) \notin DOMAIN parent'
      /\ \A x \in DOMAIN parent' :
            parent'[x] = parent[x] /\ parent'[x] \in DOMAIN parent' \cup {None}
      /\ DOMAIN parent \ Under \subseteq DOMAIN parent'
  BY <1>2, PruneKeeps DEF F!TypeOK, Live
<1>4. Ctx \notin Under /\ \A d \in Conn : d # c => ConnOf(d) \notin Under
  BY BlocksDiffer
<1>5. \A r \in Req : parent[ReqOf(r)] # ConnOf(c) =>
         ReqOf(r) \notin Under /\ Raw(r) \notin Under /\ Strings(r) \notin Under
  BY BlocksDiffer
<1> HIDE DEF Under
<1>6. \A r \in Req : Live(ReqOf(r))' <=> Live(ReqOf(r)) /\ parent[ReqOf(r)] # ConnOf(c)
  BY <1>3, <1>5, BlocksDiffer DEF Live
<1>7. \A r \in Req : \A b \in {Raw(r), Strings(r)} : Live(b)' <=> Live(b) /\ Live(ReqOf(r))'
  BY <1>3, <1>5, <1>6, BlocksDiffer DEF Heap, BelowReq, Live
<1> QED
  BY <1>3, <1>4, <1>6, <1>7 DEF Live

\* What is freed with a request: its buffer and its words.
LEMMA ReqPruned ==
    ASSUME F!TypeOK, Heap, NEW r \in Req, Live(ReqOf(r)), parent' = F!Prune(parent, ReqOf(r))
    PROVE  /\ DOMAIN parent' \subseteq DOMAIN parent
           /\ \A b \in {ReqOf(r), Raw(r), Strings(r)} : ~Live(b)'
           /\ \A x \in DOMAIN parent' :
                 parent'[x] = parent[x] /\ parent'[x] \in DOMAIN parent' \cup {None}
           /\ Live(Ctx)' <=> Live(Ctx)
           /\ \A d \in Conn : Live(ConnOf(d))' <=> Live(ConnOf(d))
           /\ \A q \in Req \ {r} : \A b \in {ReqOf(q), Raw(q), Strings(q)} : Live(b)' <=> Live(b)
<1> DEFINE Under == {ReqOf(r), Raw(r), Strings(r)} \cap DOMAIN parent
<1>1. F!ClosedBelow(parent, Under)
  <2> SUFFICES ASSUME NEW x \in DOMAIN parent, parent[x] \in Under PROVE x \in Under
    BY DEF F!ClosedBelow
  <2>1. x \in Block
    BY DEF F!TypeOK
  <2>2. x # Ctx
    BY BlocksDiffer DEF Heap, Live
  <2>3. ASSUME NEW d \in Conn, x = ConnOf(d) PROVE FALSE
    BY <2>3, BlocksDiffer DEF Heap, ConnBlock, Live
  <2>4. ASSUME NEW q \in Req, x = ReqOf(q) PROVE FALSE
    BY <2>4, BlocksDiffer DEF Heap, ReqBlock, Live
  <2>5. ASSUME NEW q \in Req, x \in {Raw(q), Strings(q)} PROVE x \in Under
    BY <2>5, BlocksDiffer DEF Heap, BelowReq, Live
  <2> QED
    BY <2>1, <2>2, <2>3, <2>4, <2>5, BlocksDiffer
<1>2. /\ DOMAIN parent' \subseteq DOMAIN parent
      /\ ReqOf(r) \notin DOMAIN parent'
      /\ \A x \in DOMAIN parent' :
            parent'[x] = parent[x] /\ parent'[x] \in DOMAIN parent' \cup {None}
      /\ DOMAIN parent \ Under \subseteq DOMAIN parent'
  BY <1>1, PruneKeeps DEF F!TypeOK, Live
<1>3. \A b \in {Raw(r), Strings(r)} : ~Live(b)'
  BY <1>2, BlocksDiffer DEF Heap, BelowReq, Live
<1> QED
  BY <1>2, <1>3, BlocksDiffer DEF Live

\* m2_connection_open that fails, and m2_connection_close: with the connection go
\* the requests below it, and only those.
LEMMA HeapConnFreed ==
    ASSUME F!TypeOK, Control, Heap, NEW c \in Conn, OpenError(c) \/ Closed(c)
    PROVE  F!TypeOK' /\ Heap'
<1> USE DEF At, Goto
<1>1. /\ pc[c] \in {"open_error", "closing"} /\ c \notin open
      /\ pc' = [pc EXCEPT ![c] = "idle"]
      /\ parent' = F!Prune(parent, ConnOf(c))
      /\ UNCHANGED <<zctx, open, cur, reqs>>
      /\ ConnOf(c) \in DOMAIN parent
  BY DEF OpenError, Closed, Control, Calls, Opening, Heap, ConnBlock, Live
<1>2. /\ DOMAIN parent' \subseteq DOMAIN parent
      /\ ~Live(ConnOf(c))'
      /\ \A x \in DOMAIN parent' :
            parent'[x] = parent[x] /\ parent'[x] \in DOMAIN parent' \cup {None}
      /\ Live(Ctx)' <=> Live(Ctx)
      /\ \A d \in Conn \ {c} : Live(ConnOf(d))' <=> Live(ConnOf(d))
      /\ \A r \in Req :
            /\ Live(ReqOf(r))' <=> Live(ReqOf(r)) /\ parent[ReqOf(r)] # ConnOf(c)
            /\ \A b \in {Raw(r), Strings(r)} : Live(b)' <=> Live(b) /\ Live(ReqOf(r))'
  <2>1. Live(ConnOf(c))
    BY <1>1 DEF Live
  <2> QED
    BY <1>1, <2>1, ConnPruned
<1>3. F!TypeOK'
  BY <1>2 DEF F!TypeOK
<1>4. ASSUME NEW d \in Conn PROVE ConnBlock(d)'
  BY <1>1, <1>2 DEF Heap, ConnBlock, Live, Control, Fields
<1>5. ASSUME NEW d \in Conn PROVE Current(d)'
  BY <1>1, <1>2, BlocksDiffer DEF Heap, Current, Live, Control, Fields
<1>6. ASSUME NEW r \in Req PROVE ReqBlock(r)'
  BY <1>1, <1>2 DEF Heap, ReqBlock, Receiving, HeldOn, Live, Control, Fields, Opening
<1>7. ASSUME NEW r \in Req PROVE BelowReq(r)'
  BY <1>1, <1>2 DEF Heap, BelowReq, Live
<1> QED
  BY <1>1, <1>2, <1>3, <1>4, <1>5, <1>6, <1>7 DEF Heap, Live

\* m2_ctx_new and m2_ctx_destroy: when the context is freed there is nothing else.
LEMMA HeapContext ==
    ASSUME F!TypeOK, Control, Heap, CtxNew \/ CtxDestroy \/ CtxDestroyed
    PROVE  F!TypeOK' /\ Heap'
<1>1. UNCHANGED <<open, pc, cur, reqs>>
  BY DEF CtxNew, CtxDestroy, CtxDestroyed
<1>2. CASE CtxNew
  <2>1. /\ ~Live(Ctx) /\ DOMAIN parent' = DOMAIN parent \cup {Ctx}
        /\ parent'[Ctx] = None /\ zctx' = "live"
        /\ \A x \in DOMAIN parent : parent'[x] = parent[x]
    BY <1>2 DEF CtxNew, F!Place, Heap, Live
  <2>2. F!TypeOK'
    BY <2>1, BlocksDiffer DEF F!TypeOK
  <2>3. (\A c \in Conn : ConnBlock(c) /\ Current(c))'
    BY <1>1, <2>1, BlocksDiffer DEF Heap, ConnBlock, Current, Live
  <2>4. (\A r \in Req : ReqBlock(r) /\ BelowReq(r))'
    BY <1>1, <2>1, BlocksDiffer DEF Heap, ReqBlock, BelowReq, Receiving, HeldOn, Live
  <2> QED
    BY <2>1, <2>2, <2>3, <2>4 DEF Heap, Live
<1>3. CASE CtxDestroy
  <2>1. UNCHANGED parent /\ zctx = "live" /\ zctx' = "terminating"
    BY <1>3 DEF CtxDestroy
  <2> QED
    BY <1>1, <2>1
       DEF F!TypeOK, Heap, ConnBlock, Current, ReqBlock, BelowReq, Receiving, HeldOn, Live
<1>4. CASE CtxDestroyed
  <2>1. /\ zctx' = "none" /\ Live(Ctx) /\ open = {} /\ \A c \in Conn : pc[c] = "idle"
        /\ parent' = F!Prune(parent, Ctx)
    BY <1>4 DEF CtxDestroyed, Heap, Control, Alone
  <2>2. /\ DOMAIN parent' \subseteq DOMAIN parent
        /\ Ctx \notin DOMAIN parent'
        /\ \A x \in DOMAIN parent' :
              parent'[x] = parent[x] /\ parent'[x] \in DOMAIN parent' \cup {None}
    BY <2>1, PruneKeeps DEF F!TypeOK, Live
  <2>3. \A c \in Conn : ~Live(ConnOf(c))
    BY <2>1 DEF Heap, ConnBlock
  <2>4. \A r \in Req : ~Live(ReqOf(r)) /\ ~Live(Raw(r)) /\ ~Live(Strings(r))
    BY <2>3, BlocksDiffer DEF Heap, ReqBlock, BelowReq, F!TypeOK, Live
  <2>5. F!TypeOK'
    BY <2>2 DEF F!TypeOK
  <2> QED
    BY <1>1, <2>1, <2>2, <2>3, <2>4, <2>5
       DEF Heap, ConnBlock, Current, ReqBlock, BelowReq, Live
<1> QED
  BY <1>2, <1>3, <1>4

\* m2_recv: a request and its buffer below the connection.
LEMMA HeapRecv ==
    ASSUME F!TypeOK, Control, Heap, NEW c \in Conn, Recv(c)
    PROVE  F!TypeOK' /\ Heap'
<1> USE DEF At, Goto, SetErrno
<1>1. PICK r \in Req :
        /\ pc[c] = "idle" /\ c \in open /\ ~Live(ReqOf(r)) /\ r \notin DOMAIN reqs
        /\ pc' = [pc EXCEPT ![c] = "receiving"]
        /\ cur' = [cur EXCEPT ![c] = r]
        /\ parent' = NewUnder(NewUnder(parent, ReqOf(r), ConnOf(c)), Raw(r), ReqOf(r))
        /\ UNCHANGED <<zctx, open, reqs>>
  BY Zenon DEF Recv
<1>2. Live(ConnOf(c)) /\ ~Live(Raw(r)) /\ ~Live(Strings(r))
  BY <1>1 DEF Heap, ConnBlock, BelowReq
<1>3. /\ DOMAIN parent' = DOMAIN parent \cup {ReqOf(r), Raw(r)}
      /\ parent'[ReqOf(r)] = ConnOf(c) /\ parent'[Raw(r)] = ReqOf(r)
      /\ \A x \in DOMAIN parent : parent'[x] = parent[x]
  BY <1>1, <1>2, BlocksDiffer DEF NewUnder, F!Place, Live
<1>4. F!TypeOK'
  BY <1>2, <1>3, BlocksDiffer DEF F!TypeOK, Live
<1>5. ASSUME NEW d \in Conn PROVE ConnBlock(d)'
  BY <1>1, <1>3, BlocksDiffer DEF Heap, ConnBlock, Live, Control, Fields
<1>6. ASSUME NEW d \in Conn PROVE Current(d)'
  <2>1. CASE d = c
    BY <1>1, <1>3, <2>1 DEF Current, Live, Control, Fields
  <2>2. CASE d # c
    BY <1>1, <1>3, <2>2 DEF Heap, Current, Live, Control, Fields
  <2> QED
    BY <2>1, <2>2
<1>7. ASSUME NEW q \in Req PROVE (ReqBlock(q) /\ BelowReq(q))'
  <2>1. CASE q = r
    <3>1. Receiving(c, r)' /\ pc'[c] \notin Opening
      BY <1>1 DEF Receiving, Control, Fields, Opening
    <3>2. ~Live(Strings(r))'
      BY <1>2, <1>3, BlocksDiffer DEF Live
    <3> QED
      BY <1>1, <1>3, <2>1, <3>1, <3>2 DEF ReqBlock, BelowReq, Live
  <2>2. CASE q # r
    <3>1. /\ Live(ReqOf(q))' <=> Live(ReqOf(q))
          /\ Live(Raw(q))' <=> Live(Raw(q))
          /\ Live(Strings(q))' <=> Live(Strings(q))
      BY <1>3, <2>2, BlocksDiffer DEF Live
    <3>2. BelowReq(q)'
      BY <1>1, <1>3, <3>1 DEF Heap, BelowReq, Live
    <3>3. ReqBlock(q)'
      BY <1>1, <1>3, <2>2, <3>1
         DEF Heap, ReqBlock, Receiving, HeldOn, Live, Control, Fields, Opening
    <3> QED
      BY <3>2, <3>3
  <2> QED
    BY <2>1, <2>2
<1>8. Ctx \in DOMAIN parent' <=> Ctx \in DOMAIN parent
  BY <1>3, BlocksDiffer
<1> QED
  BY <1>1, <1>3, <1>4, <1>5, <1>6, <1>7, <1>8 DEF Heap, Live

\* m2_recv that fails frees the request, and its buffer once more: never without a fault.
LEMMA HeapRecvFails ==
    ASSUME F!TypeOK, Control, Heap, NEW c \in Conn, RecvFails(c)
    PROVE  F!TypeOK' /\ fault' = "magic"
<1>1. /\ pc[c] = "receiving"
      /\ parent' = F!Prune(parent, ReqOf(cur[c]))
      /\ fault' = IF Raw(cur[c]) \in DOMAIN parent' THEN "none" ELSE "magic"
  BY DEF RecvFails, At
<1>2. /\ cur[c] \in Req /\ ReqOf(cur[c]) \in DOMAIN parent
      /\ Raw(cur[c]) \in DOMAIN parent => parent[Raw(cur[c])] = ReqOf(cur[c])
  BY <1>1 DEF Heap, Current, BelowReq, Live
<1>3. /\ DOMAIN parent' \subseteq DOMAIN parent
      /\ ReqOf(cur[c]) \notin DOMAIN parent'
      /\ \A x \in DOMAIN parent' :
            parent'[x] = parent[x] /\ parent'[x] \in DOMAIN parent' \cup {None}
  BY <1>1, <1>2, PruneKeeps DEF F!TypeOK
<1>4. Raw(cur[c]) \notin DOMAIN parent'
  BY <1>2, <1>3, BlocksDiffer
<1> QED
  BY <1>1, <1>3, <1>4 DEF F!TypeOK

\* The request that m2_recv returns is the client's, complete or not.
LEMMA HeapReceived ==
    ASSUME F!TypeOK, Control, Heap, NEW c \in Conn, Received(c)
    PROVE  F!TypeOK' /\ Heap'
<1> DEFINE r == cur[c]
<1>0. r \in Req
  BY DEF Received, At, Heap, Current
<1>1. PICK m \in MessageType :
        /\ pc[c] = "receiving" /\ pc' = [pc EXCEPT ![c] = "idle"]
        /\ parent' = WordsKept(m, r)
        /\ DOMAIN reqs' = DOMAIN reqs \cup {r}
        /\ reqs'[r].conn = c /\ (reqs'[r].headers = "unset" <=> ParseFails(m))
        /\ \A x \in DOMAIN reqs : x # r => reqs'[x] = reqs[x]
        /\ UNCHANGED <<zctx, open, cur>>
  <2>1. PICK m \in MessageType :
          /\ pc[c] = "receiving" /\ pc' = [pc EXCEPT ![c] = "idle"]
          /\ parent' = WordsKept(m, r)
          /\ reqs' = [x \in DOMAIN reqs \cup {r} |-> IF x # r THEN reqs[x] ELSE Request(c, m)]
          /\ UNCHANGED <<zctx, open, cur>>
    BY <1>0, Reception
  <2>2. Request(c, m).conn = c /\ (Request(c, m).headers = "unset" <=> ParseFails(m))
    BY <1>0, ParsedTypes
  <2> QED
    BY <2>1, <2>2
<1>2. /\ r \in Req /\ r \notin DOMAIN reqs
      /\ Live(ReqOf(r)) /\ parent[ReqOf(r)] = ConnOf(c) /\ ~Live(Strings(r))
  BY <1>1 DEF Heap, Current, BelowReq
<1> HIDE DEF r
<1>3. /\ DOMAIN parent \subseteq DOMAIN parent'
      /\ DOMAIN parent' \subseteq DOMAIN parent \cup {Strings(r)}
      /\ \A x \in DOMAIN parent : parent'[x] = parent[x]
      /\ Strings(r) \in DOMAIN parent' => parent'[Strings(r)] = ReqOf(r)
      /\ reqs'[r].headers # "unset" => Strings(r) \in DOMAIN parent'
  BY <1>1, <1>2 DEF WordsKept, NewUnder, F!Place, Live
<1>4. F!TypeOK'
  BY <1>2, <1>3, BlocksDiffer DEF F!TypeOK, Live
<1>5. ASSUME NEW d \in Conn PROVE (ConnBlock(d) /\ Current(d))'
  <2>1. ConnOf(d) \in DOMAIN parent' <=> ConnOf(d) \in DOMAIN parent
    BY <1>2, <1>3, BlocksDiffer
  <2>2. ConnBlock(d)'
    BY <1>1, <1>3, <2>1 DEF Heap, ConnBlock, Live, Control, Fields
  <2>3. ASSUME pc'[d] = "receiving"
        PROVE  cur[d] # r
    BY <1>1, <1>2, <2>3, BlocksDiffer DEF Heap, Current, Control, Fields
  <2> QED
    BY <1>1, <1>3, <2>2, <2>3 DEF Heap, Current, Live, Control, Fields
<1>6. ASSUME NEW q \in Req PROVE (ReqBlock(q) /\ BelowReq(q))'
  <2>1. /\ Live(ReqOf(q))' <=> Live(ReqOf(q))
        /\ Live(Raw(q))' <=> Live(Raw(q))
        /\ q # r => (Live(Strings(q))' <=> Live(Strings(q)))
    BY <1>2, <1>3, BlocksDiffer DEF Live
  <2>2. BelowReq(q)'
    BY <1>1, <1>2, <1>3, <2>1 DEF Heap, BelowReq, Live
  <2>3. ASSUME q = r PROVE ReqBlock(q)'
    <3>1. r \in HeldOn(c)' /\ pc'[c] = "idle"
      BY <1>1 DEF HeldOn, Control, Fields
    <3> QED
      BY <1>2, <1>3, <2>3, <3>1 DEF ReqBlock, Live, Opening
  <2>4. ASSUME q # r, Live(ReqOf(q)) PROVE ReqBlock(q)'
    <3>1. PICK d \in Conn : /\ parent[ReqOf(q)] = ConnOf(d) /\ pc[d] \notin Opening
                            /\ Receiving(d, q) \/ q \in HeldOn(d)
      BY <2>4 DEF Heap, ReqBlock
    <3>2. pc'[d] \notin Opening
      BY <1>1, <3>1 DEF Control, Fields, Opening
    <3>3. Receiving(d, q)' \/ q \in HeldOn(d)'
      BY <1>1, <2>4, <3>1 DEF Receiving, HeldOn, Control, Fields, r
    <3> QED
      BY <1>3, <2>4, <3>1, <3>2, <3>3 DEF ReqBlock, Live
  <2>5. ~Live(ReqOf(q)) => ReqBlock(q)'
    BY <2>1 DEF ReqBlock
  <2> QED
    BY <2>2, <2>3, <2>4, <2>5
<1>7. Ctx \in DOMAIN parent' <=> Ctx \in DOMAIN parent
  BY <1>2, <1>3, BlocksDiffer
<1> QED
  BY <1>1, <1>3, <1>4, <1>5, <1>6, <1>7 DEF Heap, Live

\* m2_request_free frees the request and what is below it; the other calls on a
\* request change no block.
LEMMA HeapClient ==
    ASSUME F!TypeOK, Control, Heap, NEW r \in Req, Client(r)
    PROVE  F!TypeOK' /\ Heap'
<1>1. UNCHANGED <<zctx, open, pc, cur>>
  BY DEF Client, RequestFree, GetHeader, IsDisconnected, Reply
<1>2. CASE UNCHANGED <<parent, reqs>>
  BY <1>1, <1>2
     DEF F!TypeOK, Heap, ConnBlock, Current, ReqBlock, BelowReq, Receiving, HeldOn, Live
<1>3. ASSUME ~UNCHANGED <<parent, reqs>>
      PROVE  /\ r \in DOMAIN reqs /\ pc[reqs[r].conn] = "idle" /\ Live(ReqOf(r))
             /\ parent' = F!Prune(parent, ReqOf(r))
             /\ reqs' = [x \in DOMAIN reqs \ {r} |-> reqs[x]]
  BY <1>3 DEF Client, RequestFree, GetHeader, IsDisconnected, Reply, Using, At
<1>4. CASE ~UNCHANGED <<parent, reqs>>
  <2>2. /\ DOMAIN parent' \subseteq DOMAIN parent
        /\ \A b \in {ReqOf(r), Raw(r), Strings(r)} : ~Live(b)'
        /\ \A x \in DOMAIN parent' :
              parent'[x] = parent[x] /\ parent'[x] \in DOMAIN parent' \cup {None}
        /\ Live(Ctx)' <=> Live(Ctx)
        /\ \A d \in Conn : Live(ConnOf(d))' <=> Live(ConnOf(d))
        /\ \A q \in Req \ {r} : \A b \in {ReqOf(q), Raw(q), Strings(q)} : Live(b)' <=> Live(b)
    BY <1>3, <1>4, ReqPruned
  <2>3. F!TypeOK'
    BY <2>2 DEF F!TypeOK
  <2>4. ASSUME NEW d \in Conn PROVE (ConnBlock(d) /\ Current(d))'
    <3>1. ConnBlock(d)'
      BY <1>1, <2>2 DEF Heap, ConnBlock, Live
    <3> QED
      BY <1>1, <1>3, <1>4, <2>2, <3>1 DEF Heap, Current, Live
  <2>5. ASSUME NEW q \in Req PROVE (ReqBlock(q) /\ BelowReq(q))'
    <3>1. CASE q = r
      BY <2>2, <3>1 DEF ReqBlock, BelowReq
    <3>2. CASE q # r
      <4>1. BelowReq(q)'
        BY <1>3, <1>4, <2>2, <3>2 DEF Heap, BelowReq, Live
      <4>2. ReqBlock(q)'
        BY <1>1, <1>3, <1>4, <2>2, <3>2
           DEF Heap, ReqBlock, Receiving, HeldOn, Live
      <4> QED
        BY <4>1, <4>2
    <3> QED
      BY <3>1, <3>2
  <2> QED
    BY <1>1, <2>2, <2>3, <2>4, <2>5 DEF Heap, Live
<1> QED
  BY <1>2, <1>4

-----------------------------------------------------------------------------
LEMMA InvInit == Init => IInv
BY HeapInit, ControlInit DEF IInv

\* A process that a fault has ended takes no step.
LEMMA NoStepAfterFault == Next => fault = "none"
BY DEF Next, Thread, Client, CtxNew, CtxDestroy, CtxDestroyed, OpenRefused, Open, OpenRecvSocket,
       OpenSendSocket, OpenRecvConnect, OpenSendConnect, OpenError, Close, Closed, Recv,
       RecvNoMemory, RecvFails,
       Received, Send, Taken, RequestFree, GetHeader, IsDisconnected, Reply, Using, At

LEMMA InvNext == IInv /\ Next => IInv'
<1> SUFFICES ASSUME IInv, Next PROVE IInv'
  OBVIOUS
<1>1. F!TypeOK /\ Control /\ Heap
  BY NoStepAfterFault DEF IInv
<1>2. CASE CtxNew \/ CtxDestroy \/ CtxDestroyed
  BY <1>1, <1>2, ControlContext, HeapContext DEF IInv
<1>3. ASSUME NEW c \in Conn, Thread(c) PROVE IInv'
  <2>1. CASE \/ OpenRefused(c) \/ OpenRecvSocket(c) \/ OpenSendSocket(c)
             \/ OpenRecvConnect(c) \/ OpenSendConnect(c)
             \/ Close(c) \/ RecvNoMemory(c) \/ Send(c)
    <3>1. F!TypeOK' /\ Heap'
      BY <1>1, <2>1, HeapSame
    <3>2. Control'
      BY <1>1, <2>1, ControlOpen, ControlConnect, ControlClose, ControlRecv
    <3> QED
      BY <3>1, <3>2 DEF IInv
  <2>2. CASE Open(c)
    BY <1>1, <2>2, ControlOpen, HeapOpen DEF IInv
  <2>3. CASE OpenError(c) \/ Closed(c)
    BY <1>1, <2>3, ControlClose, HeapConnFreed DEF IInv
  <2>4. CASE Recv(c)
    BY <1>1, <2>4, ControlRecv, HeapRecv DEF IInv
  <2>5. CASE RecvFails(c)
    BY <1>1, <2>5, ControlRecv, HeapRecvFails DEF IInv
  <2>6. CASE Received(c)
    <3>1. cur[c] \in Req
      BY <1>1, <2>6 DEF Received, At, Heap, Current
    <3> QED
      BY <1>1, <2>6, <3>1, ControlReceived, HeapReceived DEF IInv
  <2> QED
    BY <1>3, <2>1, <2>2, <2>3, <2>4, <2>5, <2>6 DEF Thread
<1>4. ASSUME NEW c \in Conn, Taken(c) PROVE IInv'
  BY <1>1, <1>4, ControlTaken, HeapSame DEF IInv
<1>5. ASSUME NEW r \in Req, Client(r) PROVE IInv'
  BY <1>1, <1>5, ControlClient, HeapClient DEF IInv
<1> QED
  BY <1>2, <1>3, <1>4, <1>5 DEF Next

LEMMA InvStutters == IInv /\ UNCHANGED vars => IInv'
BY DEF IInv, vars, F!TypeOK, Control, Fields, Alone, Calls, Heap, ConnBlock, Current,
       ReqBlock, BelowReq, Receiving, HeldOn, Live

LEMMA Invariant == Spec => []IInv
<1>1. IInv /\ [Next]_vars => IInv'
  BY InvNext, InvStutters
<1> QED
  BY InvInit, <1>1, PTL DEF Spec

(***************************************************************************)
(* The state is well formed: at most the parents of a forest, and requests *)
(* with the fields parse_request gives them; also where a fault ended the  *)
(* process.                                                                *)
(***************************************************************************)
THEOREM Mongrel2Types == Spec => []TypeOK
<1>1. IInv => TypeOK
  BY TypeOKSplit DEF IInv, Control
<1> QED
  BY Invariant, <1>1, PTL

(***************************************************************************)
(* Between calls the open sockets are the two of each connection that the  *)
(* client holds, whatever failed in m2_connection_open and in whichever    *)
(* order the connections are opened and closed: no socket is left that     *)
(* would keep m2_ctx_destroy waiting.                                      *)
(***************************************************************************)
THEOREM Mongrel2Sockets == Spec => []SocketsAccounted
<1>1. IInv => SocketsAccounted
  <2> SUFFICES ASSUME IInv, NEW c \in Conn, pc[c] \in {"idle", "receiving"}
               PROVE  {s \in sockets : s[1] = c} =
                          IF c \in open THEN {c} \X {"recv", "send"} ELSE {}
    BY DEF SocketsAccounted
  <2>1. /\ sockets \subseteq Conn \X {"recv", "send"}
        /\ \A k \in {"recv", "send"} : <<c, k>> \in sockets <=> c \in open
    BY DEF IInv, Control, Fields, Calls
  <2>2. \A s \in sockets : s[1] = c => \E k \in {"recv", "send"} : s = <<c, k>>
    BY <2>1
  <2> QED
    BY <2>1, <2>2
<1> QED
  BY Invariant, <1>1, PTL

(***************************************************************************)
(* Every block has an owner below which it hangs: the context, a           *)
(* connection held, being opened or being closed, a request held or being  *)
(* received.  So h_free of the owner frees it, and nothing but its owner's *)
(* end does, for any messages, failures and number of threads.             *)
(***************************************************************************)
THEOREM Mongrel2Heap == Spec => []HeapAccounted
<1>1. IInv => HeapAccounted
  BY DEF IInv, Heap, ConnBlock, ReqBlock, BelowReq, HeapAccounted
<1> QED
  BY Invariant, <1>1, PTL

-----------------------------------------------------------------------------
\* A request that comes with m2_errno() = 0 was parsed: only m2_recv gives the
\* client a request.
LEMMA ParsedIfClean ==
    ASSUME IInv, Next, NEW r \in DOMAIN reqs' \ DOMAIN reqs, errno'[reqs'[r].conn] = "ok"
    PROVE  reqs'[r].headers # "unset"
<1>1. PICK c \in Conn : Received(c)
  BY DEF Next, Thread, Client, CtxNew, CtxDestroy, CtxDestroyed, OpenRefused, Open, OpenRecvSocket,
       OpenSendSocket, OpenRecvConnect, OpenSendConnect, OpenError, Close, Closed, Recv,
       RecvNoMemory, RecvFails, Send, Taken, RequestFree, GetHeader, IsDisconnected, Reply
<1>2. cur[c] \in Req
  BY <1>1 DEF Received, At, IInv, Heap, Current
<1>3. PICK m \in MessageType :
        /\ errno' = [errno EXCEPT ![c] = ParsedErrno(m)]
        /\ reqs' = [x \in DOMAIN reqs \cup {cur[c]} |->
                      IF x # cur[c] THEN reqs[x] ELSE Request(c, m)]
  BY <1>1, <1>2, Reception
<1>4. Request(c, m).conn = c /\ (Request(c, m).headers = "unset" <=> ParseFails(m))
  BY <1>2, ParsedTypes
<1>5. r = cur[c] /\ reqs'[r] = Request(c, m)
  BY <1>3
<1>6. ParsedErrno(m) = "ok"
  BY <1>3, <1>4, <1>5 DEF IInv, Control, Fields
<1> QED
  BY <1>4, <1>5, <1>6 DEF ParsedErrno

\* What ends the process in each call.
LEMMA EndsInThread == ASSUME IInv, NEW c \in Conn, Thread(c) PROVE Ends(fault')
<1> USE DEF At, Goto, SetErrno
<1>0. fault = "none" /\ errno \in [Conn -> {"ok", "error"}]
  BY DEF IInv, Control, Fields, Thread, OpenRefused, Open, OpenRecvSocket, OpenSendSocket,
         OpenRecvConnect, OpenSendConnect, OpenError, Close, Closed, Recv, RecvNoMemory, RecvFails,
         Received, Send
<1>1. CASE Received(c)
  <2>1. cur[c] \in Req \ DOMAIN reqs
    BY <1>0, <1>1 DEF Received, IInv, Heap, Current
  <2>2. PICK m \in MessageType :
          /\ fault' \in ParseFaults(m)
          /\ reqs' = [x \in DOMAIN reqs \cup {cur[c]} |->
                         IF x # cur[c] THEN reqs[x] ELSE Request(c, m)]
    BY <1>1, <2>1, Reception
  <2>3. fault' \in {"none", "assert", "free", "null", "overflow"}
    BY <2>1, <2>2, ParsedTypes
  <2>4. Receives
    BY <2>1, <2>2 DEF Receives
  <2> QED
    BY <2>3, <2>4 DEF Ends
<1>2. CASE OpenRecvConnect(c) \/ OpenSendConnect(c) \/ RecvFails(c) \/ Send(c)
  <2>1. fault' = "none" \/ (fault' \in {"assert", "magic", "bdestroy"} /\ errno'[c] = "error")
    BY <1>0, <1>2 DEF OpenRecvConnect, OpenSendConnect, ConnectFails, Reconnects, RecvFails, Send,
                      Sent, NotSent
  <2> QED
    BY <2>1 DEF Ends
<1>3. CASE fault' = "none"
  BY <1>3 DEF Ends
<1> QED
  BY <1>0, <1>1, <1>2, <1>3 DEF Thread, OpenRefused, Open, OpenRecvSocket, OpenSendSocket,
         OpenError, Close, Closed, Recv, RecvNoMemory

\* A lookup ends the process at a request that is freed or incomplete, or that has
\* not the name.
LEMMA EndsInLookup ==
    ASSUME NEW r \in DOMAIN reqs, NEW n \in Name, fault' \in LookupFaults(r, n)
    PROVE  \/ fault' = "none" \/ (fault' = "dangling" /\ ~Live(ReqOf(r)))
           \/ (fault' = "unset" /\ Incomplete(r)) \/ (fault' = "null" /\ n \notin reqs[r].names)
BY DEF LookupFaults, UseOf, Incomplete

LEMMA EndsInClient == ASSUME IInv, NEW r \in Req, Client(r) PROVE Ends(fault')
<1>0. /\ fault = "none" /\ r \in DOMAIN reqs /\ reqs[r].conn \in Conn
      /\ errno \in [Conn -> {"ok", "error"}]
      /\ Live(ReqOf(r)) /\ ~Live(Strings(r)) => reqs[r].headers = "unset"
  BY DEF IInv, Control, Fields, RequestType, Heap, BelowReq, Client, RequestFree, GetHeader,
         IsDisconnected, Reply, Using, At
<1>1. CASE RequestFree(r)
  <2>1. \/ fault' = "none" \/ (fault' = "dangling" /\ ~Live(ReqOf(r)))
        \/ fault' = "unset" /\ Incomplete(r)
        \/ fault' = "free" /\ reqs[r].arrays
    BY <1>1 DEF RequestFree, FreeFaults, UseOf, Incomplete
  <2> QED
    BY <1>0, <1>1, <2>1 DEF Ends
<1>2. ASSUME NEW n \in Name, GetHeader(r, n) PROVE Ends(fault')
  <2>1. \/ fault' = "none" \/ (fault' = "dangling" /\ ~Live(ReqOf(r)))
        \/ (fault' = "unset" /\ Incomplete(r)) \/ (fault' = "null" /\ n \notin reqs[r].names)
    BY <1>0, <1>2, EndsInLookup DEF GetHeader
  <2> QED
    BY <1>0, <1>2, <2>1 DEF Ends
<1>3. ASSUME IsDisconnected(r) PROVE Ends(fault')
  <2>1. ASSUME fault' \in NoticeFaults(r)
        PROVE  \/ fault' = "none" \/ (fault' = "unset" /\ Incomplete(r))
               \/ fault' = "null" /\ Illegible(r)
               \/ fault' = "free" /\ reqs[r].text.arrays
               \/ fault' = "overflow" /\ reqs[r].text.kind = "full"
    BY <2>1 DEF NoticeFaults, TypeFault, JsonFault, Incomplete, Illegible
  <2>2. CASE Live(ReqOf(r)) /\ reqs[r].method = "JSON"
    BY <1>0, <1>3, <2>1, <2>2 DEF IsDisconnected, Ends
  <2>3. CASE ~(Live(ReqOf(r)) /\ reqs[r].method = "JSON")
    <3>1. \/ fault' = "none" \/ (fault' = "dangling" /\ ~Live(ReqOf(r)))
          \/ (fault' = "unset" /\ Incomplete(r)) \/ (fault' = "null" /\ Illegible(r))
      <4>1. "METHOD" \in Name
        BY Mongrel2Assumption
      <4> QED
        BY <1>0, <1>3, <2>3, <4>1, EndsInLookup DEF IsDisconnected, Illegible
    <3> QED
      BY <1>0, <1>3, <3>1 DEF Ends
  <2> QED
    BY <2>2, <2>3
<1>4. CASE Reply(r)
  <2>1. \/ fault' = "none" \/ (fault' = "dangling" /\ ~Live(ReqOf(r)))
        \/ fault' = "unset" /\ Incomplete(r)
        \/ fault' = "bdestroy" /\ errno'[reqs[r].conn] = "error"
    BY <1>0, <1>4 DEF Reply, UseOf, Incomplete, Sent, NotSent, SetErrno
  <2> QED
    BY <1>0, <2>1 DEF Ends
<1> QED
  BY <1>1, <1>2, <1>3, <1>4 DEF Client

\* A request that the client still holds loses its block to m2_connection_close only.
LEMMA FreedByClose ==
    ASSUME IInv, Next, NEW r \in DOMAIN reqs \cap DOMAIN reqs',
           Live(ReqOf(r)), ReqOf(r) \notin DOMAIN parent'
    PROVE  pc[reqs[r].conn] = "closing"
<1>1. F!TypeOK /\ Control /\ Heap /\ r \in Req
  BY NoStepAfterFault DEF IInv, Control, Fields
<1>2. PICK d \in Conn : /\ parent[ReqOf(r)] = ConnOf(d) /\ pc[d] \notin Opening
                        /\ Receiving(d, r) \/ r \in HeldOn(d)
  BY <1>1 DEF Heap, ReqBlock
<1>3. reqs[r].conn = d
  BY <1>1, <1>2 DEF Heap, Current, Receiving, HeldOn
<1>4. Live(ConnOf(d)) /\ zctx # "terminating"
  BY <1>1, <1>2, BlocksDiffer DEF F!TypeOK, Heap, ConnBlock, Control, Alone, Live
<1>5. CASE CtxNew \/ CtxDestroy \/ CtxDestroyed
  BY <1>4, <1>5 DEF CtxNew, CtxDestroy, CtxDestroyed, F!Place, Live
<1>6. ASSUME NEW c \in Conn, Thread(c) PROVE pc[d] = "closing"
  <2>1. CASE OpenError(c) \/ Closed(c)
    <3>1. Live(ConnOf(c)) /\ parent' = F!Prune(parent, ConnOf(c))
          /\ pc[c] \in {"open_error", "closing"}
      BY <1>1, <2>1 DEF OpenError, Closed, At, Heap, ConnBlock
    <3>2. c = d
      BY <1>1, <1>2, <3>1, ConnPruned, BlocksDiffer DEF Live
    <3> QED
      BY <1>2, <3>1, <3>2 DEF Opening
  <2>2. CASE RecvFails(c)
    <3>1. /\ cur[c] \in Req /\ cur[c] # r /\ Live(ReqOf(cur[c]))
          /\ parent' = F!Prune(parent, ReqOf(cur[c]))
      BY <1>1, <2>2 DEF RecvFails, At, Heap, Current
    <3>2. Live(ReqOf(r))'
      BY <1>1, <3>1, ReqPruned
    <3> QED
      BY <3>2 DEF Live
  <2>3. DOMAIN parent \subseteq DOMAIN parent' \/ OpenError(c) \/ Closed(c) \/ RecvFails(c)
    BY <1>6 DEF Thread, OpenRefused, Open, OpenRecvSocket, OpenSendSocket, OpenRecvConnect,
         OpenSendConnect, Close, Recv, RecvNoMemory, Received, Send, WordsKept, NewUnder, F!Place
  <2> QED
    BY <2>1, <2>2, <2>3 DEF Live
<1>7. ASSUME NEW c \in Conn, Taken(c) PROVE FALSE
  BY <1>7 DEF Taken, Live
<1>8. ASSUME NEW q \in Req, Client(q) PROVE FALSE
  <2>1. q # r /\ Live(ReqOf(q)) /\ parent' = F!Prune(parent, ReqOf(q))
    BY <1>8 DEF Client, RequestFree, GetHeader, IsDisconnected, Reply, Live
  <2>2. Live(ReqOf(r))'
    BY <1>1, <1>8, <2>1, ReqPruned
  <2> QED
    BY <2>2 DEF Live
<1> QED
  BY <1>3, <1>5, <1>6, <1>7, <1>8 DEF Next

(***************************************************************************)
(* Whatever arrives and whatever fails, a client can know: a request that  *)
(* comes with m2_errno() = 0 was parsed; the process ends only when        *)
(* receiving, when a call of ZeroMQ has failed, by the use of a request    *)
(* that is incomplete or was freed with its connection, by asking for a    *)
(* header that is absent, by destroying an array, or by reading a notice   *)
(* that is no JSON object with a type; and only the closing of its own     *)
(* connection frees a request the client still holds.                      *)
(***************************************************************************)
THEOREM Mongrel2Failures == Spec => FailuresKnown
<1>1. IInv /\ [Next]_vars =>
         [\A r \in DOMAIN reqs' \ DOMAIN reqs :
             errno'[reqs'[r].conn] = "ok" => reqs'[r].headers # "unset"]_vars
  BY ParsedIfClean
<1>2. IInv /\ Next => Ends(fault')
  <2>1. CASE CtxNew \/ CtxDestroy \/ CtxDestroyed \/ \E c \in Conn : Taken(c)
    BY <2>1 DEF CtxNew, CtxDestroy, CtxDestroyed, Taken, Ends
  <2> QED
    BY <2>1, EndsInThread, EndsInClient DEF Next
<1>3. IInv /\ [Next]_vars =>
         [/\ Ends(fault')
          /\ \A r \in DOMAIN reqs \cap DOMAIN reqs' :
                Live(ReqOf(r)) /\ ReqOf(r) \notin DOMAIN parent' => pc[reqs[r].conn] = "closing"]_vars
  BY <1>2, FreedByClose
<1>4. Spec => CleanErrnoMeansParsed
  BY Invariant, <1>1, PTL DEF Spec, CleanErrnoMeansParsed
<1>5. Spec => EndsKnown
  BY Invariant, <1>3, PTL DEF Spec, EndsKnown
<1> QED
  BY <1>4, <1>5 DEF FailuresKnown

-----------------------------------------------------------------------------
(***************************************************************************)
(* A server and a client that keep to what is documented.  The messages    *)
(* are framed; their headers are a JSON object with a METHOD, with any     *)
(* other names, any of them repeated, and any arrays; their body is a      *)
(* string, and an object with a type when the METHOD is JSON.  The client  *)
(* frees requests before it closes their connection; it asks for any       *)
(* header.  Of the calls that fail, those remain whose error paths do not  *)
(* end the process.                                                        *)
(***************************************************************************)
Usable(m) ==
    /\ m.framed
    /\ m.headers = "string" /\ m.json.kind = "object" /\ "METHOD" \in m.json.names
    /\ m.body = "string"
    /\ m.method = "JSON" => m.text.kind = "object" /\ "type" \in m.text.names

Documented == /\ \A m \in Message : Usable(m)
              /\ FreeFirst
              /\ MayFail \cap {"reconnect", "recv", "send", "malloc"} = {}

\* The requests held are complete and live, and own what is outside the hierarchy.
Legible(q) == /\ q.headers = "dict" /\ "METHOD" \in q.names /\ q.body = "string"
              /\ q.method = "JSON" => q.text.kind = "object" /\ "type" \in q.text.names

Complete(r) == Live(ReqOf(r)) /\ reqs[r].conn \in open /\ Legible(reqs[r])

Held == fault = "none" =>
        /\ \A r \in DOMAIN reqs : Complete(r)
        /\ \A v \in values : v = Repeated \/ \E r \in DOMAIN reqs : v \in {Headers(r), Body(r)}

LEMMA HeldInit == Init => Held
BY DEF Init, Held

\* What m2_recv makes of a message that is documented.
LEMMA ParsedUsable ==
    ASSUME Documented, NEW sent \in Message, NEW m \in Seen(sent), NEW c \in Conn, NEW r \in Req
    PROVE  /\ ParseFaults(m) = {"none"}
           /\ Request(c, m).conn = c /\ Legible(Request(c, m))
           /\ ParsedValues(m, r) \subseteq {Headers(r), Body(r), Repeated}
<1>1. m = sent /\ Usable(m)
  BY DEF Documented, Seen
<1>2. ~ParseFails(m) /\ IsDict(m) /\ NamesOf(m) = m.json.names /\ HasMethod(m)
  BY <1>1 DEF Usable, ParseFails, IsDict, NamesOf, HasMethod
<1>3. HeadersFault(m) = "none" /\ BodyFault(m) = "none"
  BY <1>1 DEF Usable, HeadersFault, BodyFault, JsonFault, TnsFault
<1>4. ParseFaults(m) = {"none"}
  BY <1>1, <1>3 DEF Usable, ParseFaults, ParseFault, Documented
<1>5. Request(c, m) = Parsed(c, m)
  BY <1>2 DEF Request
<1>6. /\ Parsed(c, m).conn = c
      /\ Parsed(c, m).headers = "dict" /\ "METHOD" \in Parsed(c, m).names
      /\ Parsed(c, m).body = "string" /\ Parsed(c, m).method = m.method
  BY <1>1, <1>2 DEF Usable, Parsed
<1>7. m.method = "JSON" => Parsed(c, m).text = m.text
  BY <1>1, <1>2 DEF Usable, Parsed, IsNotice
<1>8. ParsedValues(m, r) \subseteq {Headers(r), Body(r), Repeated}
  BY <1>1 DEF Usable, ParsedValues
<1> QED
  BY <1>1, <1>4, <1>5, <1>6, <1>7, <1>8 DEF Legible, Usable

LEMMA HeldReceived ==
    ASSUME Documented, IInv, Held, NEW c \in Conn, Received(c)
    PROVE  Held' /\ fault' = "none"
<1>1. fault = "none" /\ pc[c] = "receiving"
  BY DEF Received, At
<1>2. /\ cur[c] \in Req \ DOMAIN reqs /\ c \in open
      /\ Live(ReqOf(cur[c]))
  BY <1>1 DEF IInv, Heap, Current, Control, Calls
<1>3. PICK m \in MessageType :
        /\ \E sent \in Message : m \in Seen(sent)
        /\ parent' = WordsKept(m, cur[c])
        /\ reqs' = [x \in DOMAIN reqs \cup {cur[c]} |->
                      IF x # cur[c] THEN reqs[x] ELSE Request(c, m)]
        /\ values' = values \cup ParsedValues(m, cur[c])
        /\ fault' \in ParseFaults(m)
        /\ UNCHANGED open
  BY <1>2, Reception
<1>4. /\ ParseFaults(m) = {"none"}
      /\ Request(c, m).conn = c /\ Legible(Request(c, m))
      /\ ParsedValues(m, cur[c]) \subseteq {Headers(cur[c]), Body(cur[c]), Repeated}
  BY <1>2, <1>3, ParsedUsable
<1>5. DOMAIN parent \subseteq DOMAIN parent'
  BY <1>3 DEF WordsKept, NewUnder, F!Place
<1>6. ASSUME NEW r \in DOMAIN reqs' PROVE Complete(r)'
  <2>1. CASE r = cur[c]
    BY <1>2, <1>3, <1>4, <1>5, <2>1 DEF Complete, Live
  <2>2. CASE r # cur[c]
    BY <1>1, <1>3, <1>5, <2>2 DEF Held, Complete, Live
  <2> QED
    BY <2>1, <2>2
<1>7. ASSUME NEW v \in values'
      PROVE  v = Repeated \/ \E r \in DOMAIN reqs' : v \in {Headers(r), Body(r)}
  BY <1>1, <1>3, <1>4 DEF Held
<1> QED
  BY <1>3, <1>4, <1>6, <1>7 DEF Held

\* A call on a complete request ends the process as CallsSafe says, or not at all.
LEMMA CallsOnComplete ==
    ASSUME IInv, Documented, Held, NEW r \in Req, Client(r)
    PROVE  \/ fault' = "none"
           \/ \E n \in Name \ reqs[r].names : GetHeader(r, n)
           \/ reqs[r].arrays /\ RequestFree(r)
           \/ reqs[r].text.arrays /\ IsDisconnected(r)
<1>1. fault = "none" /\ r \in DOMAIN reqs
  BY DEF Client, RequestFree, GetHeader, IsDisconnected, Reply, Using, At
<1>2. Live(ReqOf(r)) /\ Legible(reqs[r])
  BY <1>1 DEF Held, Complete
<1>3. Live(Strings(r))
  BY <1>1, <1>2 DEF Legible, IInv, Heap, BelowReq
<1>4. ASSUME RequestFree(r), ~reqs[r].arrays PROVE fault' = "none"
  BY <1>2, <1>4 DEF RequestFree, FreeFaults, UseOf, Legible
<1>5. ASSUME NEW n \in reqs[r].names, fault' \in LookupFaults(r, n) PROVE fault' = "none"
  BY <1>2, <1>5 DEF LookupFaults, Legible
<1>6. ASSUME IsDisconnected(r), ~reqs[r].text.arrays PROVE fault' = "none"
  <2>1. CASE reqs[r].method = "JSON"
    <3>1. TypeFault(reqs[r].text) = "none"
      BY <1>2, <1>6, <2>1 DEF TypeFault, JsonFault, Legible
    <3>2. NoticeFaults(r) = {"none"}
      BY <1>2, <3>1 DEF NoticeFaults, Legible, Documented
    <3> QED
      BY <1>2, <1>6, <2>1, <3>2 DEF IsDisconnected
  <2>2. CASE reqs[r].method # "JSON"
    BY <1>2, <1>5, <1>6, <2>2 DEF IsDisconnected, Legible
  <2> QED
    BY <2>1, <2>2
<1>7. ASSUME Reply(r) PROVE fault' = "none"
  BY <1>2, <1>3, <1>7 DEF Reply, Sent, NotSent, Documented
<1> QED
  BY <1>4, <1>5, <1>6, <1>7 DEF Client, GetHeader

LEMMA HeldClient ==
    ASSUME IInv, Held, NEW r \in Req, Client(r),
           \A q \in DOMAIN reqs' : Live(ReqOf(q))'
    PROVE  Held'
<1>1. fault = "none" /\ r \in DOMAIN reqs
  BY DEF Client, RequestFree, GetHeader, IsDisconnected, Reply, Using, At
<1>2. UNCHANGED open
  BY DEF Client, RequestFree, GetHeader, IsDisconnected, Reply
<1>3. \/ UNCHANGED reqs /\ values' \subseteq values \cup {Repeated}
      \/ /\ reqs' = [x \in DOMAIN reqs \ {r} |-> reqs[x]]
         /\ values' = values \ {Headers(r), Body(r)}
  BY DEF Client, RequestFree, GetHeader, IsDisconnected, Reply, OwnedValues
<1>4. ASSUME NEW q \in DOMAIN reqs' PROVE Complete(q)'
  BY <1>1, <1>2, <1>3 DEF Held, Complete
<1>5. ASSUME NEW v \in values'
      PROVE  v = Repeated \/ \E q \in DOMAIN reqs' : v \in {Headers(q), Body(q)}
  BY <1>1, <1>3 DEF Held
<1> QED
  BY <1>4, <1>5 DEF Held

\* Neither the calls of a thread nor the peers end the process.
LEMMA FaultInThread ==
    ASSUME Documented, IInv, Held, NEW c \in Conn, Thread(c) \/ Taken(c)
    PROVE  fault' = "none"
<1>1. CASE Received(c)
  BY <1>1, HeldReceived
<1>2. CASE ~Received(c)
  BY <1>2 DEF Thread, OpenRefused, Open, OpenRecvSocket, OpenSendSocket, OpenRecvConnect,
       OpenSendConnect, ConnectFails, Reconnects, OpenError, Close, Closed, Recv,
       RecvNoMemory, RecvFails, Send, Taken, At, Sent, NotSent, Documented
<1> QED
  BY <1>1, <1>2

\* The calls of a thread but m2_recv, as it returns a request, and the peers leave
\* the requests alone.
LEMMA HeldThread ==
    ASSUME Documented, IInv, Held, NEW c \in Conn, Thread(c) \/ Taken(c), ~Received(c),
           \A r \in DOMAIN reqs \cap DOMAIN reqs' : Live(ReqOf(r))'
    PROVE  Held'
<1> USE DEF Thread, OpenRefused, Open, OpenRecvSocket, OpenSendSocket, OpenRecvConnect,
            OpenSendConnect, ConnectFails, Reconnects, OpenError, Close, Closed, Recv,
            RecvNoMemory, RecvFails, Send, Taken
<1>1. fault = "none"
  BY DEF At
<1>2. UNCHANGED <<reqs, values>>
  OBVIOUS
<1>3. \A d \in open : d \in open' \/ HeldOn(d) = {}
  BY DEF Documented
<1> QED
  BY <1>1, <1>2, <1>3 DEF Held, Complete, HeldOn

LEMMA HeldNext == ASSUME Documented, IInv, Held, Next PROVE Held'
<1>1. \A r \in DOMAIN reqs \cap DOMAIN reqs' : Live(ReqOf(r))'
  <2> SUFFICES ASSUME NEW r \in DOMAIN reqs \cap DOMAIN reqs', ~Live(ReqOf(r))'
               PROVE  FALSE
    OBVIOUS
  <2>1. Live(ReqOf(r)) /\ reqs[r].conn \in open
    BY NoStepAfterFault DEF Held, Complete
  <2>2. pc[reqs[r].conn] = "closing"
    BY <2>1, FreedByClose DEF Live
  <2> QED
    BY <2>1, <2>2 DEF IInv, Control, Fields, Calls
<1>2. CASE CtxNew \/ CtxDestroy \/ CtxDestroyed
  BY <1>1, <1>2 DEF CtxNew, CtxDestroy, CtxDestroyed, Held, Complete
<1>3. ASSUME NEW c \in Conn, Thread(c) \/ Taken(c) PROVE Held'
  BY <1>1, <1>3, HeldReceived, HeldThread
<1>4. ASSUME NEW r \in Req, Client(r) PROVE Held'
  <2>1. DOMAIN reqs' \subseteq DOMAIN reqs
    BY <1>4 DEF Client, RequestFree, GetHeader, IsDisconnected, Reply
  <2> QED
    BY <1>1, <1>4, <2>1, HeldClient
<1> QED
  BY <1>2, <1>3, <1>4 DEF Next

LEMMA HeldAlways == Documented => (Spec => [](IInv /\ Held))
<1> SUFFICES ASSUME Documented PROVE Spec => [](IInv /\ Held)
  OBVIOUS
<1>1. IInv /\ Held /\ [Next]_vars => Held'
  <2>1. Held /\ UNCHANGED vars => Held'
    BY DEF vars, Held, Complete, Live
  <2> QED
    BY <2>1, HeldNext
<1> QED
  BY Invariant, HeldInit, <1>1, PTL DEF Spec

(***************************************************************************)
(* With a documented server and client every request held can be used to   *)
(* the end, with all that its fields point to, and a request that was      *)
(* freed has left nothing behind but what a repeated name drops.           *)
(***************************************************************************)
THEOREM Mongrel2Requests == Documented => (Spec => []RequestsSound)
<1> SUFFICES ASSUME Documented PROVE Spec => []RequestsSound
  OBVIOUS
<1>1. IInv /\ Held => RequestsSound
  <2> SUFFICES ASSUME IInv, Held PROVE RequestsSound
    OBVIOUS
  <2>1. TypeOK
    BY TypeOKSplit DEF IInv, Control
  <2>2. HeldRequestsUsable
    BY DEF HeldRequestsUsable, Held, Complete, IInv, Control, Fields, Heap, BelowReq
  <2>3. NoLeak
    BY DEF NoLeak, Held, Headers, Body, Repeated
  <2> QED
    BY <2>1, <2>2, <2>3 DEF RequestsSound
<1> QED
  BY HeldAlways, <1>1, PTL

(***************************************************************************)
(* With a documented server and client no call ends the process but the    *)
(* three that a client cannot know to avoid: asking for a header that is   *)
(* absent, freeing a request whose headers hold an array, and looking      *)
(* whether a notice that holds one is of a disconnection.                  *)
(***************************************************************************)
THEOREM Mongrel2Calls == Documented => (Spec => CallsSafe)
<1> SUFFICES ASSUME Documented PROVE Spec => CallsSafe
  OBVIOUS
<1> DEFINE Safe == fault' = "none" \/ \E r \in DOMAIN reqs :
                      \/ \E n \in Name \ reqs[r].names : GetHeader(r, n)
                      \/ reqs[r].arrays /\ RequestFree(r)
                      \/ reqs[r].text.arrays /\ IsDisconnected(r)
<1>1. ASSUME IInv, Held, Next PROVE Safe
  <2>1. CASE CtxNew \/ CtxDestroy \/ CtxDestroyed
    BY <2>1 DEF CtxNew, CtxDestroy, CtxDestroyed
  <2>2. ASSUME NEW c \in Conn, Thread(c) \/ Taken(c) PROVE fault' = "none"
    BY <1>1, <2>2, FaultInThread
  <2>3. ASSUME NEW r \in Req, Client(r) PROVE Safe
    <3>1. r \in DOMAIN reqs
      BY <2>3 DEF Client, RequestFree, GetHeader, IsDisconnected, Reply, Using
    <3> QED
      BY <1>1, <2>3, <3>1, CallsOnComplete
  <2> QED
    BY <1>1, <2>1, <2>2, <2>3 DEF Next
<1>2. IInv /\ Held /\ [Next]_vars => [Safe]_vars
  BY <1>1
<1> QED
  BY HeldAlways, <1>2, PTL DEF Spec, CallsSafe
=============================================================================
