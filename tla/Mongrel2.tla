------------------------------ MODULE Mongrel2 ------------------------------
(***************************************************************************)
(* The objects of the library, mongrel2.c: a context, connections, and the *)
(* requests received on them.                                              *)
(*                                                                         *)
(* Blocks of the hierarchical allocator form the forest `parent' (see      *)
(* HallocForest): connections hang below the context, requests below their *)
(* connection.  Headers and bodies are outside the hierarchy, in `values'. *)
(* Each connection is used by one thread of its own; the calls that wait   *)
(* (zmq_recv, zmq_ctx_destroy) are split where they wait, and              *)
(* m2_connection_open at each call of ZeroMQ.                              *)
(*                                                                         *)
(* The C program has assertions enabled (the Makefile does not define      *)
(* NDEBUG).  A failed assertion, or an access to memory that was freed or  *)
(* never set, sets `fault', after which nothing happens.                   *)
(***************************************************************************)
EXTENDS Naturals

CONSTANTS Conn,        \* connections, each with its thread
          Req,         \* requests
          None,
          Name,        \* names a client may ask for
          Message,     \* what zmq_recv may deliver, see MessageType
          MayFail,     \* the calls that may fail
          FreeFirst    \* does the client free requests before it closes?

\* What a TNetstring is to m2_parse_tns.  A value inside a list or dict counts
\* for the whole when the whole ends or fails because of it.
TnsType == {"string",
            "nostring",    \* a string for whose text there is no memory
            "scalar",      \* a number, null, or what passes for a boolean
            "truth",       \* 4:true! or 5:false!
            "emptydict",
            "dict",        \* at least one item
            "emptylist",
            "list",        \* at least one element, and room for one more
            "fulllist",    \* as many as darray_create makes room for, or more
            "brokenlist",  \* at least one element, then something invalid
            "invalid"}

\* What a string is to m2_parse_json: the names of an object, whether an array
\* with elements is somewhere in the value, and whether a name is repeated.
JsonText == [kind : {"object", "other", "bad",
                     "full"},      \* it has an array as long as a fulllist
             names : SUBSET Name, arrays : BOOLEAN, repeats : BOOLEAN]
NoText   == [kind |-> "bad", names |-> {}, arrays |-> FALSE, repeats |-> FALSE]

\* The value of METHOD: JSON, another string, or no string.
MethodType == {"JSON", "http", "nostring"}

\* framed: three space-separated words precede the headers.
MessageType == [framed : BOOLEAN, headers : TnsType, json : JsonText, method : MethodType,
                body : TnsType \cup {"absent"}, text : JsonText]

ASSUME Mongrel2Assumption ==
    /\ {"METHOD", "type"} \subseteq Name
    /\ Message \subseteq MessageType
    /\ MayFail \subseteq {"socket", "connect", "reconnect", "recv", "send", "malloc"}
    /\ FreeFirst \in BOOLEAN

VARIABLES parent,      \* the forest of blocks
          zctx,        \* the ZeroMQ context: "none", "live" or "terminating"
          sockets,     \* the open sockets <<c, "recv">> and <<c, "send">>
          unsent,      \* connections with a message their peer has yet to take
          open,        \* the connections the client holds
          pc, cur,     \* per thread: the call it is in, and its request
          errno,       \* per thread: m2_errno()
          reqs,        \* [requests the client holds -> their fields]
          values,      \* the variants and strings outside the hierarchy
          fault        \* "none", or what ended the process

vars == <<parent, zctx, sockets, unsent, open, pc, cur, errno, reqs, values, fault>>

Ctx        == <<"ctx", None>>
ConnOf(c)  == <<"conn", c>>
ReqOf(r)   == <<"req", r>>
Raw(r)     == <<"raw", r>>
Strings(r) == <<"strings", r>>
Block == {Ctx} \cup {ConnOf(c) : c \in Conn}
         \cup UNION {{ReqOf(r), Raw(r), Strings(r)} : r \in Req}

ASSUME NoneAssumption == None \notin Block

F == INSTANCE HallocForest

Headers(r) == <<"headers", r>>
Body(r)    == <<"body", r>>
\* Lost as soon as they are there:
Payload    == <<"payload", None>>   \* the hash or darray inside a compound body
Repeated   == <<"repeated", None>>  \* old items and new keys of repeated JSON names
Value == {Payload, Repeated} \cup UNION {{Headers(r), Body(r)} : r \in Req}

\* A request with its fields.  names and method: of headers that are a dict;
\* arrays: the headers hold a list with elements; text: what the body of a notice
\* says, a request whose METHOD is JSON.
RequestType == [conn : Conn, headers : {"unset", "dict", "other"}, names : SUBSET Name,
                method : MethodType, arrays : BOOLEAN,
                body : {"unset", "null", "string"}, text : JsonText]

Live(b) == b \in DOMAIN parent

TypeOK == /\ F!TypeOK
          /\ zctx \in {"none", "live", "terminating"}
          /\ sockets \subseteq Conn \X {"recv", "send"}
          /\ unsent \subseteq Conn
          /\ open \subseteq Conn
          /\ pc \in [Conn -> {"idle", "recv_socket", "send_socket", "recv_connect", "send_connect",
                              "open_error", "receiving", "closing"}]
          /\ cur \in [Conn -> Req \cup {None}]
          /\ errno \in [Conn -> {"ok", "error"}]
          /\ DOMAIN reqs \subseteq Req
          /\ \A r \in DOMAIN reqs : reqs[r] \in RequestType
          /\ values \subseteq Value
          /\ fault \in {"none", "assert", "magic", "free", "bdestroy", "null", "unset", "dangling",
                        "overflow"}

Init == /\ parent = [b \in {} |-> None]
        /\ zctx = "none" /\ sockets = {} /\ unsent = {} /\ open = {}
        /\ pc = [c \in Conn |-> "idle"]
        /\ cur = [c \in Conn |-> None]
        /\ errno = [c \in Conn |-> "ok"]
        /\ reqs = [r \in {} |-> None]
        /\ values = {}
        /\ fault = "none"

-----------------------------------------------------------------------------
At(c, s)        == pc[c] = s /\ fault = "none"
Goto(c, s)      == pc' = [pc EXCEPT ![c] = s]
SetErrno(c, e)  == errno' = [errno EXCEPT ![c] = e]
NewUnder(par, b, p) == F!Place(F!Place(par, b, None), b, p)  \* h_malloc, hattach

\* m2_ctx_new.  When memory or the ZeroMQ context is not to be had it undoes
\* what it did and returns NULL, which changes nothing here.
CtxNew == /\ zctx = "none" /\ fault = "none"
          /\ zctx' = "live"
          /\ parent' = F!Place(parent, Ctx, None)
          /\ UNCHANGED <<sockets, unsent, open, pc, cur, errno, reqs, values, fault>>

\* m2_ctx_destroy, called as mongrel2.h asks once all connections are closed.
\* zmq_ctx_destroy waits until no socket is open, and until what was sent has
\* been taken: the library leaves ZMQ_LINGER as it is, without limit.
CtxDestroy == /\ zctx = "live" /\ fault = "none"
              /\ open = {} /\ \A c \in Conn : pc[c] = "idle"
              /\ zctx' = "terminating"
              /\ UNCHANGED <<parent, sockets, unsent, open, pc, cur, errno, reqs, values, fault>>

CtxDestroyed == /\ zctx = "terminating" /\ fault = "none"
                /\ sockets = {} /\ unsent = {}
                /\ zctx' = "none"
                /\ parent' = F!Prune(parent, Ctx)
                /\ UNCHANGED <<sockets, unsent, open, pc, cur, errno, reqs, values, fault>>

-----------------------------------------------------------------------------
\* m2_connection_open: an argument is NULL (the uuid too must not be), or there
\* is no memory.
OpenRefused(c) == /\ At(c, "idle") /\ zctx = "live" /\ c \notin open
                  /\ SetErrno(c, "error")
                  /\ UNCHANGED <<parent, zctx, sockets, unsent, open, pc, cur, reqs, values, fault>>

Open(c) == /\ At(c, "idle") /\ zctx = "live" /\ c \notin open
           /\ Goto(c, "recv_socket")
           /\ SetErrno(c, "ok")
           /\ parent' = NewUnder(parent, ConnOf(c), Ctx)
           /\ UNCHANGED <<zctx, sockets, unsent, open, cur, reqs, values, fault>>

OpenRecvSocket(c) ==
    /\ At(c, "recv_socket")
    /\ \/ /\ sockets' = sockets \cup {<<c, "recv">>}
          /\ Goto(c, "send_socket") /\ SetErrno(c, "ok")
       \/ /\ "socket" \in MayFail
          /\ Goto(c, "open_error") /\ SetErrno(c, "error")
          /\ UNCHANGED sockets
    /\ UNCHANGED <<parent, zctx, unsent, open, cur, reqs, values, fault>>

\* The check after this call tests recv_sock again: a NULL send_sock goes on.
OpenSendSocket(c) ==
    /\ At(c, "send_socket")
    /\ Goto(c, "recv_connect") /\ SetErrno(c, "ok")
    /\ \/ sockets' = sockets \cup {<<c, "send">>}
       \/ "socket" \in MayFail /\ UNCHANGED sockets
    /\ UNCHANGED <<parent, zctx, unsent, open, cur, reqs, values, fault>>

\* When a condition fails, the macro `check' asserts its negation, which calls
\* zmq_connect again.
ConnectFails(c) == /\ Goto(c, "open_error") /\ SetErrno(c, "error")
                   /\ UNCHANGED fault
Reconnects(c)   == /\ "reconnect" \in MayFail
                   /\ SetErrno(c, "error") /\ fault' = "assert"
                   /\ UNCHANGED pc

OpenRecvConnect(c) ==
    /\ At(c, "recv_connect")
    /\ \/ Goto(c, "send_connect") /\ SetErrno(c, "ok") /\ UNCHANGED fault
       \/ "connect" \in MayFail /\ ConnectFails(c)
       \/ Reconnects(c)
    /\ UNCHANGED <<parent, zctx, sockets, unsent, open, cur, reqs, values>>

\* On a NULL socket zmq_connect fails, with ENOTSOCK.
OpenSendConnect(c) ==
    /\ At(c, "send_connect")
    /\ \/ /\ <<c, "send">> \in sockets
          /\ Goto(c, "idle") /\ SetErrno(c, "ok")
          /\ open' = open \cup {c}
          /\ UNCHANGED fault
       \/ /\ "connect" \in MayFail \/ <<c, "send">> \notin sockets
          /\ ConnectFails(c) /\ UNCHANGED open
       \/ /\ <<c, "send">> \in sockets
          /\ Reconnects(c) /\ UNCHANGED open
    /\ UNCHANGED <<parent, zctx, sockets, unsent, cur, reqs, values>>

\* Faulty variants: the error path forgets the send socket, or the block.
OpenErrorKeepsSocket(c) ==
    /\ At(c, "open_error") /\ Goto(c, "idle")
    /\ parent' = F!Prune(parent, ConnOf(c))
    /\ sockets' = sockets \ {<<c, "recv">>}
    /\ UNCHANGED <<zctx, unsent, open, cur, errno, reqs, values, fault>>

OpenErrorKeepsBlock(c) ==
    /\ At(c, "open_error") /\ Goto(c, "idle")
    /\ sockets' = sockets \ {<<c, "recv">>, <<c, "send">>}
    /\ UNCHANGED <<parent, zctx, unsent, open, cur, errno, reqs, values, fault>>

OpenError(c) == /\ At(c, "open_error")
                /\ Goto(c, "idle")
                /\ parent' = F!Prune(parent, ConnOf(c))
                /\ sockets' = sockets \ {<<c, "recv">>, <<c, "send">>}
                /\ UNCHANGED <<zctx, unsent, open, cur, errno, reqs, values, fault>>

HeldOn(c) == {r \in DOMAIN reqs : reqs[r].conn = c}

\* m2_connection_close: close the sockets, then free the block.
Close(c) == /\ At(c, "idle") /\ c \in open
            /\ FreeFirst => HeldOn(c) = {}
            /\ Goto(c, "closing")
            /\ sockets' = sockets \ {<<c, "send">>, <<c, "recv">>}
            /\ open' = open \ {c}
            /\ UNCHANGED <<parent, zctx, unsent, cur, errno, reqs, values, fault>>

Closed(c) == /\ At(c, "closing")
             /\ Goto(c, "idle")
             /\ parent' = F!Prune(parent, ConnOf(c))
             /\ UNCHANGED <<zctx, sockets, unsent, open, cur, errno, reqs, values, fault>>

-----------------------------------------------------------------------------
\* m2_recv: the request and its buffer, then zmq_recv waits.
Recv(c) == \E r \in Req :
    /\ At(c, "idle") /\ c \in open
    /\ ~Live(ReqOf(r)) /\ r \notin DOMAIN reqs
    /\ Goto(c, "receiving")
    /\ cur' = [cur EXCEPT ![c] = r]
    /\ SetErrno(c, "ok")
    /\ parent' = NewUnder(NewUnder(parent, ReqOf(r), ConnOf(c)), Raw(r), ReqOf(r))
    /\ UNCHANGED <<zctx, sockets, unsent, open, reqs, values, fault>>

\* No memory for the request, or for its buffer: the request is freed.
RecvNoMemory(c) == /\ At(c, "idle") /\ c \in open /\ "malloc" \in MayFail
                   /\ SetErrno(c, "error")
                   /\ UNCHANGED <<parent, zctx, sockets, unsent, open, pc, cur, reqs,
                                  values, fault>>

\* zmq_recv fails: h_free(req), and then h_free(raw), whose block must still
\* carry HH_MAGIC.
RecvFails(c) ==
    LET r == cur[c]
        rest == F!Prune(parent, ReqOf(r))
    IN  /\ At(c, "receiving") /\ "recv" \in MayFail
        /\ Goto(c, "idle") /\ SetErrno(c, "error")
        /\ parent' = rest
        /\ fault' = IF Raw(r) \in DOMAIN rest THEN "none" ELSE "magic"
        /\ UNCHANGED <<zctx, sockets, unsent, open, cur, reqs, values>>

(***************************************************************************)
(* parse_request.  Whatever goes wrong, m2_recv returns the request.  When *)
(* memory is short, parse_request finds a message invalid that is not, or  *)
(* loses a text or a header, or follows NULL.                              *)
(***************************************************************************)
Short(m) == {[m EXCEPT !.framed = FALSE], [m EXCEPT !.method = "nostring"]}
            \cup {[m EXCEPT !.headers = k] : k \in {"invalid", "nostring"}}
            \cup {[m EXCEPT !.body = k] : k \in {"invalid", "nostring"}}
            \cup {[m EXCEPT !.json.names = @ \ {n}, !.json.repeats = TRUE] : n \in m.json.names}
Seen(m)  == {m} \cup (IF "malloc" \in MayFail THEN Short(m) ELSE {})

ParseFails(m) == ~m.framed \/ m.headers = "invalid" \/ m.body = "invalid"

\* m2_parse_tns: free() of a key or of an element, neither of which is from
\* malloc; the assertion of check; darray_expand.
TnsFault(k) == CASE k \in {"dict", "brokenlist"} -> "free"
                 [] k = "truth" -> "assert"
                 [] k = "fulllist" -> "overflow"
                 [] OTHER -> "none"

\* m2_parse_json: json_val_to_variant of what json_parse did not return.
JsonFault(t) == CASE t.kind = "bad" -> "null" [] t.kind = "full" -> "overflow" [] OTHER -> "none"

\* The headers are destroyed again when the body is invalid.
KeepsArray(m) == \/ m.headers = "list"
                 \/ m.headers = "string" /\ m.json.arrays

HeadersFault(m) == CASE m.headers = "nostring" -> "null"
                     [] m.headers = "string" -> JsonFault(m.json)
                     [] OTHER -> TnsFault(m.headers)

BodyFault(m) == CASE m.headers = "invalid" -> "none"
                  [] m.headers # "invalid" /\ m.body = "invalid" ->
                        IF KeepsArray(m) THEN "free" ELSE "none"
                  [] OTHER -> TnsFault(m.body)

ParseFault(m) == CASE ~m.framed -> "none"
                   [] m.framed /\ HeadersFault(m) # "none" -> HeadersFault(m)
                   [] OTHER -> BodyFault(m)

ParseFaults(m) == {ParseFault(m)} \cup (IF "malloc" \in MayFail THEN {"null"} ELSE {})

\* The request as it is returned.  A field that is not set keeps what h_malloc
\* returned; m2_variant_get_string gives NULL for a body that is not a string.
IsDict(m) == m.headers = "emptydict" \/ (m.headers = "string" /\ m.json.kind = "object")
NamesOf(m) == IF m.headers = "string" THEN m.json.names ELSE {}
HasMethod(m) == IsDict(m) /\ "METHOD" \in NamesOf(m)
IsNotice(m)  == HasMethod(m) /\ m.method = "JSON"

Unparsed(c) == [conn |-> c, headers |-> "unset", names |-> {}, method |-> "nostring",
                arrays |-> FALSE, body |-> "unset", text |-> NoText]

Parsed(c, m) ==
    [conn |-> c,
     headers |-> IF IsDict(m) THEN "dict" ELSE "other",
     names   |-> IF IsDict(m) THEN NamesOf(m) ELSE {},
     method  |-> IF HasMethod(m) THEN m.method ELSE "nostring",
     arrays  |-> KeepsArray(m),
     body    |-> CASE m.body = "absent" -> "unset" [] m.body = "string" -> "string"
                   [] OTHER -> "null",
     text    |-> IF IsNotice(m) /\ m.body = "string" THEN m.text ELSE NoText]

Request(c, m) == IF ParseFails(m) THEN Unparsed(c) ELSE Parsed(c, m)

\* What outlives the call outside the hierarchy.  h_free(body) frees a variant,
\* not the hash or the array of a compound one; m2_variant_dict_set drops the
\* item it replaces and the key it does not need.
ParsedValues(m, r) ==
    (IF ParseFails(m) THEN {} ELSE {Headers(r)}) \cup
    (IF m.framed /\ m.headers = "string" /\ m.json.repeats THEN {Repeated} ELSE {}) \cup
    (IF ~ParseFails(m) /\ m.body = "string" THEN {Body(r)} ELSE {}) \cup
    (IF ~ParseFails(m) /\ m.body \in {"emptydict", "emptylist", "list"} THEN {Payload} ELSE {})

\* Where the three words are kept: a block below the request, which the error
\* path frees.  In the faulty variant success runs into the error path.
WordsFreed(m, r) == parent
WordsKept(m, r)  == IF ParseFails(m) THEN parent
                    ELSE NewUnder(parent, Strings(r), ReqOf(r))

\* m2_errno() after the last check: m2_variant_get_string of a body that is
\* not a string fails, and its caller does not look.
ParsedErrno(m) ==
    IF ParseFails(m) \/ m.body \notin {"absent", "string", "nostring"} THEN "error" ELSE "ok"

Received(c) == \E sent \in Message : \E m \in Seen(sent) :
    LET r == cur[c]
    IN  /\ At(c, "receiving")
        /\ Goto(c, "idle")
        /\ SetErrno(c, ParsedErrno(m))
        /\ parent' = WordsKept(m, r)
        /\ reqs' = [x \in DOMAIN reqs \cup {r} |-> IF x # r THEN reqs[x] ELSE Request(c, m)]
        /\ values' = values \cup ParsedValues(m, r)
        /\ fault' \in ParseFaults(m)
        /\ UNCHANGED <<zctx, sockets, unsent, open, cur>>

-----------------------------------------------------------------------------
\* The calls on a request are made by the thread of its connection.
Using(r) == r \in DOMAIN reqs /\ At(reqs[r].conn, "idle")

\* A pointer that was never set happens to be NULL or faults when it is used.
UseOf(field) == IF field = "unset" THEN {"none", "unset"} ELSE {"none"}

\* The values m2_request_free destroys; the faulty variant forgets the body.
HeadersOnly(r) == {Headers(r)}
OwnedValues(r) == {Headers(r), Body(r)}

\* m2_request_free: headers, body, then the block and what hangs below it.  An
\* array gives its elements, which are from h_malloc, to free().
FreeFaults(r) == IF reqs[r].arrays THEN {"free"}
                 ELSE UseOf(reqs[r].headers) \cup UseOf(reqs[r].body)

RequestFree(r) ==
    /\ Using(r)
    /\ \/ /\ ~Live(ReqOf(r)) /\ fault' = "dangling"
          /\ UNCHANGED <<parent, reqs, values>>
       \/ /\ Live(ReqOf(r))
          /\ fault' \in FreeFaults(r)
          /\ parent' = F!Prune(parent, ReqOf(r))
          /\ reqs' = [x \in DOMAIN reqs \ {r} |-> reqs[x]]
          /\ values' = values \ OwnedValues(r)
    /\ UNCHANGED <<zctx, sockets, unsent, open, pc, cur, errno>>

\* m2_request_get_header: hash_lookup(...)->hash_data, of a name that the
\* client chooses.
LookupFaults(r, n) ==
    CASE ~Live(ReqOf(r)) -> {"dangling"}
      [] Live(ReqOf(r)) /\ reqs[r].headers = "dict" ->
            {IF n \in reqs[r].names THEN "none" ELSE "null"}
      [] OTHER -> UseOf(reqs[r].headers)

LookupErrno(r) == IF reqs[r].headers = "dict" THEN "ok" ELSE "error"

GetHeader(r, n) == /\ Using(r)
                   /\ fault' \in LookupFaults(r, n)
                   /\ SetErrno(reqs[r].conn, LookupErrno(r))
                   /\ UNCHANGED <<parent, zctx, sockets, unsent, open, pc, cur, reqs, values>>

\* m2_request_is_disconnected: the body of a request whose METHOD is JSON is
\* read as JSON, asked for its `type', and destroyed again.
TypeFault(t) == CASE JsonFault(t) # "none" -> JsonFault(t)
                  [] t.kind = "object" /\ "type" \notin t.names -> "null"
                  [] OTHER -> IF t.arrays THEN "free" ELSE "none"

NoticeFaults(r) ==
    CASE reqs[r].body = "unset" -> {"null", "unset"}
      [] reqs[r].body = "null"  -> {"null"}
      [] OTHER -> {TypeFault(reqs[r].text)} \cup (IF "malloc" \in MayFail THEN {"null"} ELSE {})

NoticeErrno(r) == IF reqs[r].text.kind = "object" THEN "ok" ELSE "error"

IsDisconnected(r) ==
    /\ Using(r)
    /\ IF Live(ReqOf(r)) /\ reqs[r].method = "JSON"
       THEN /\ fault' \in NoticeFaults(r)
            /\ SetErrno(reqs[r].conn, NoticeErrno(r))
            /\ values' = values \cup (IF reqs[r].text.repeats THEN {Repeated} ELSE {})
       ELSE /\ fault' \in LookupFaults(r, "METHOD")
            /\ SetErrno(reqs[r].conn, LookupErrno(r))
            /\ UNCHANGED values
    /\ UNCHANGED <<parent, zctx, sockets, unsent, open, pc, cur, reqs>>

\* m2_send: after a failed zmq_send the header string is destroyed twice.  A
\* message nobody has subscribed to is dropped; any other waits for its peer.
Sent(c) == /\ SetErrno(c, "ok") /\ fault' = "none"
           /\ unsent' \in {unsent, unsent \cup {c}}
NotSent(c) == /\ "send" \in MayFail
              /\ SetErrno(c, "error") /\ fault' = "bdestroy"
              /\ UNCHANGED unsent

Send(c) == /\ At(c, "idle") /\ c \in open
           /\ Sent(c) \/ NotSent(c)
           /\ UNCHANGED <<parent, zctx, sockets, open, pc, cur, reqs, values>>

\* m2_reply reads the connection, the uuid and the conn_id of the request.
Reply(r) ==
    LET c == reqs[r].conn
    IN  /\ Using(r)
        /\ CASE ~Live(ReqOf(r)) -> fault' = "dangling" /\ UNCHANGED <<errno, unsent>>
             [] Live(ReqOf(r)) /\ ~Live(Strings(r)) ->
                   fault' \in UseOf("unset") /\ SetErrno(c, "error") /\ UNCHANGED unsent
             [] OTHER -> Sent(c) \/ NotSent(c)
        /\ UNCHANGED <<parent, zctx, sockets, open, pc, cur, reqs, values>>

\* The peer takes what was sent to it, or goes away.  It need not do either.
Taken(c) == /\ c \in unsent /\ fault = "none"
            /\ unsent' = unsent \ {c}
            /\ UNCHANGED <<parent, zctx, sockets, open, pc, cur, errno, reqs, values, fault>>

-----------------------------------------------------------------------------
Thread(c) == \/ OpenRefused(c) \/ Open(c) \/ OpenRecvSocket(c) \/ OpenSendSocket(c)
             \/ OpenRecvConnect(c) \/ OpenSendConnect(c) \/ OpenError(c) \/ Close(c) \/ Closed(c)
             \/ Recv(c) \/ RecvNoMemory(c) \/ RecvFails(c) \/ Received(c) \/ Send(c)

Client(r) == \/ RequestFree(r) \/ IsDisconnected(r) \/ Reply(r)
             \/ \E n \in Name : GetHeader(r, n)

Next == \/ CtxNew \/ CtxDestroy \/ CtxDestroyed
        \/ \E c \in Conn : Thread(c) \/ Taken(c)
        \/ \E r \in Req : Client(r)

Spec == Init /\ [][Next]_vars

\* zmq_ctx_destroy returns once it can.  Nothing is assumed of peers.
FairSpec == Spec /\ WF_vars(CtxDestroyed)

-----------------------------------------------------------------------------
(***************************************************************************)
(* Between calls the open sockets are the two of every connection the      *)
(* client holds: no failure in m2_connection_open leaks one.  A leaked     *)
(* socket would keep zmq_ctx_destroy waiting.                              *)
(***************************************************************************)
SocketsAccounted ==
    \A c \in Conn : pc[c] \in {"idle", "receiving"} =>
        {s \in sockets : s[1] = c} = IF c \in open THEN {c} \X {"recv", "send"} ELSE {}

(***************************************************************************)
(* Every block belongs to the context, to a connection the client holds or *)
(* is opening or closing, or to a request it holds or is receiving, and    *)
(* hangs where freeing the owner frees it too.                             *)
(***************************************************************************)
Receiving(c, r) == pc[c] = "receiving" /\ cur[c] = r

HeapAccounted == fault = "none" =>
    /\ Live(Ctx) <=> zctx # "none"
    /\ \A c \in Conn :
          /\ Live(ConnOf(c)) <=> c \in open \/ pc[c] \notin {"idle", "receiving"}
          /\ Live(ConnOf(c)) => parent[ConnOf(c)] = Ctx
    /\ \A r \in Req :
          /\ Live(ReqOf(r)) => \E c \in Conn :
                /\ parent[ReqOf(r)] = ConnOf(c)
                /\ Receiving(c, r) \/ r \in HeldOn(c)
          /\ Live(Raw(r)) <=> Live(ReqOf(r))
          /\ Live(Strings(r)) => r \in DOMAIN reqs
          /\ \A b \in {Raw(r), Strings(r)} : Live(b) => parent[b] = ReqOf(r)

(***************************************************************************)
(* The fields of a parsed request that point into blocks (uuid, conn_id    *)
(* and path into Strings, and those into Raw) point to live ones for as    *)
(* long as the client holds the request.                                   *)
(***************************************************************************)
HeldRequestsUsable == fault = "none" => \A r \in DOMAIN reqs :
    /\ Live(ReqOf(r)) /\ Live(Raw(r))
    /\ reqs[r].conn \in open
    /\ reqs[r].headers # "unset" => Live(Strings(r))

\* Outside the hierarchy nothing survives the request it was made for, but what
\* m2_variant_dict_set drops for a name that is repeated.
NoLeak == fault = "none" => \A v \in values : v[2] \in DOMAIN reqs \/ v[1] = "repeated"

\* A client that keeps to the documented order can use every request it holds,
\* and one that it has freed has left nothing behind but that.
RequestsSound == TypeOK /\ HeldRequestsUsable /\ NoLeak

(***************************************************************************)
(* What a client of a server cannot avoid, though mongrel2.h has no word   *)
(* of it: that it asks for a header that is absent, that it frees a        *)
(* request whose headers hold an array, or looks whether a notice that     *)
(* holds one is of a disconnection.  No other call ends the process.       *)
(***************************************************************************)
CallsSafe ==
    [][fault' = "none" \/ \E r \in DOMAIN reqs :
          \/ \E n \in Name \ reqs[r].names : GetHeader(r, n)
          \/ reqs[r].arrays /\ RequestFree(r)
          \/ reqs[r].text.arrays /\ IsDisconnected(r)]_vars

\* A client can tell a complete request: if m2_errno() is 0 when m2_recv
\* returns one, then its headers were parsed.
CleanErrnoMeansParsed ==
    [][\A r \in DOMAIN reqs' \ DOMAIN reqs :
          errno'[reqs'[r].conn] = "ok" => reqs'[r].headers # "unset"]_vars

(***************************************************************************)
(* What ends the process, beside a call of ZeroMQ that fails: the parsing  *)
(* of a message; the use of a request that is incomplete, or that was      *)
(* freed with its connection; a header that is absent; an array that is    *)
(* destroyed with the headers or with a notice; a notice that is no JSON   *)
(* object with a type.  A request is freed under the client only when its  *)
(* own connection is closed.                                               *)
(***************************************************************************)
Incomplete(r) == reqs[r].headers = "unset" \/ reqs[r].body = "unset"
Illegible(r)  == \/ "METHOD" \notin reqs[r].names \/ "malloc" \in MayFail
                 \/ reqs[r].body # "string" \/ reqs[r].text.kind # "object"
                 \/ "type" \notin reqs[r].text.names

Receives == ~(DOMAIN reqs' \subseteq DOMAIN reqs)

Ends(f) ==
    CASE f = "none"     -> TRUE
      [] f = "unset"    -> \E r \in DOMAIN reqs : Incomplete(r)
      [] f = "dangling" -> \E r \in DOMAIN reqs : ~Live(ReqOf(r))
      [] f = "null"     -> Receives \/ \E r \in DOMAIN reqs :
                              \/ \E n \in Name \ reqs[r].names : GetHeader(r, n)
                              \/ Illegible(r) /\ IsDisconnected(r)
      [] f = "free"     -> Receives \/ \E r \in DOMAIN reqs :
                              \/ reqs[r].arrays /\ RequestFree(r)
                              \/ reqs[r].text.arrays /\ IsDisconnected(r)
      [] f = "overflow" -> Receives \/ \E r \in DOMAIN reqs :
                              reqs[r].text.kind = "full" /\ IsDisconnected(r)
      [] f = "assert"   -> Receives \/ \E c \in Conn : errno'[c] = "error"
      [] OTHER          -> \E c \in Conn : errno'[c] = "error"

EndsKnown == [][/\ Ends(fault')
                /\ \A r \in DOMAIN reqs \cap DOMAIN reqs' :
                      Live(ReqOf(r)) /\ ReqOf(r) \notin DOMAIN parent' => pc[reqs[r].conn] = "closing"]_vars

\* Whatever arrives and fails, the client can know: from m2_errno which request
\* is complete, and from what it does with the others which call ends the process.
FailuresKnown == CleanErrnoMeansParsed /\ EndsKnown

\* m2_ctx_destroy returns when the connections were closed first and everything
\* that was sent has been taken: no socket was left open.
DestroyReturns == zctx = "terminating" /\ unsent = {} ~> zctx = "none"
=============================================================================
