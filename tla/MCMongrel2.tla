----------------------------- MODULE MCMongrel2 -----------------------------
(***************************************************************************)
(* Mongrel2 for TLC: the messages of the runs.                             *)
(***************************************************************************)
EXTENDS Mongrel2, TLC

Object(names, arrays, repeats) ==
    [kind |-> "object", names |-> names, arrays |-> arrays, repeats |-> repeats]

Framed(h, json, method, b, text) ==
    [framed |-> TRUE, headers |-> h, json |-> json, method |-> method, body |-> b, text |-> text]

\* Headers in a JSON object and a body that is a string.
Http(json, text)   == Framed("string", json, "http", "string", text)
Notice(json, text) == Framed("string", json, "JSON", "string", text)

(***************************************************************************)
(* What a Mongrel2 server sends: headers in a JSON object that has a       *)
(* METHOD, with repeated headers as arrays or repeated names, a body, and  *)
(* notices with the method JSON whose bodies are objects with a type, and  *)
(* an array or a repeated name.                                            *)
(***************************************************************************)
ServerMessages ==
    {Http(Object({"METHOD"}, a, d), NoText) : a, d \in BOOLEAN}
    \cup {Notice(Object({"METHOD", "type"}, FALSE, FALSE), Object({"type"}, a, ~a)) :
             a \in BOOLEAN}

(***************************************************************************)
(* Texts of every kind, and messages of every kind: not framed; any        *)
(* headers with a body that is absent or invalid; any body with headers    *)
(* that say it is a notice, or headers that hold an array.                 *)
(***************************************************************************)
Texts == {NoText, [NoText EXCEPT !.kind = "full"],
          [NoText EXCEPT !.kind = "other"], [NoText EXCEPT !.kind = "other", !.arrays = TRUE]}
         \cup {Object({n}, FALSE, FALSE) : n \in Name}
         \cup {Object(Name, TRUE, FALSE), Object(Name, FALSE, TRUE)}

NoticeHeaders == Object({"METHOD"}, FALSE, FALSE)

Methods(json) == IF json = NoticeHeaders THEN MethodType
                 ELSE IF "METHOD" \in json.names THEN {"http"} ELSE {"nostring"}

AnyMessages ==
    {[Http(NoText, NoText) EXCEPT !.framed = FALSE]}
    \cup {Framed(h, NoText, "nostring", b, NoText) : h \in TnsType, b \in {"absent", "invalid"}}
    \cup UNION {{Framed("string", json, method, b, NoText) :
                    method \in Methods(json), b \in {"absent", "invalid"}} : json \in Texts}
    \cup {Framed(h, NoticeHeaders, "JSON", b, NoText) : h \in {"string", "list"}, b \in TnsType}
    \cup {Notice(NoticeHeaders, text) : text \in Texts}

\* Connections are alike, and so are requests.
Alike == Permutations(Conn) \cup Permutations(Req)
=============================================================================
