------------------------------- MODULE Words -------------------------------
(***************************************************************************)
(* The first part of parse_request: m2_recv has put a message into its     *)
(* buffer, and the words uuid, conn_id and path, each of which ends with a *)
(* space, are found and terminated in place.  What follows them is given   *)
(* to m2_parse_tns (see Tns).                                              *)
(*                                                                         *)
(* Places count from the beginning of the buffer; behind it lies other     *)
(* memory, of which some bytes are modelled.  zmq_recv fills the buffer    *)
(* with what fits and returns the length of the whole message.  A byte is  *)
(* chosen when the scan first reads it: what lies behind the message is    *)
(* anything.  A step is one iteration of a loop, or a check.               *)
(***************************************************************************)
EXTENDS Integers

CONSTANTS BUFFER_SIZE,  \* bytes of the buffer
          Behind,       \* bytes modelled behind it
          Length        \* lengths of the messages

ASSUME WordsAssumption == /\ BUFFER_SIZE \in Nat \ {0} /\ Behind \in Nat
                          /\ Length \subseteq 0 .. BUFFER_SIZE + Behind

VARIABLES length,      \* msglen; pe is length bytes behind the beginning
          memory,      \* the bytes as they were before parse_request
          ended,       \* the places that have been overwritten by a NUL
          data, slen,  \* strings: of each word, where it begins and its length
          word,        \* the word that is scanned: uuid, conn_id or path
          p, pc

vars == <<length, memory, ended, data, slen, word, p, pc>>

Place  == 0 .. BUFFER_SIZE + Behind - 1
Unread == "unread"
Space  == "space"
Byte   == {Space, "x"}

\* The strings lie in a block that h_malloc has just returned; those that are
\* not begun are not read.
Unset == [w \in 1 .. 3 |-> 0]

Init == /\ length = 0 /\ memory = [i \in Place |-> Unread] /\ ended = {}
        /\ data = Unset /\ slen = Unset /\ word = 1 /\ p = 0 /\ pc = "idle"

\* The next message; each has a buffer of its own.
Receive == /\ pc \in {"idle", "headers", "error"}
           /\ length' \in Length
           /\ memory' = [i \in Place |-> Unread] /\ ended' = {}
           /\ data' = Unset /\ slen' = Unset /\ word' = 1 /\ p' = 0 /\ pc' = "scan"

\* One iteration: read a byte, step over it, and compare with pe only then.
Scan == /\ pc = "scan" /\ p \in Place
        /\ \E b \in Byte :
              /\ memory' = [memory EXCEPT ![p] = b]
              /\ IF b # Space /\ p + 1 # length
                 THEN slen' = [slen EXCEPT ![word] = @ + 1] /\ UNCHANGED pc
                 ELSE pc' = "check" /\ UNCHANGED slen
        /\ p' = p + 1
        /\ UNCHANGED <<length, ended, data, word>>

\* The scan has left the memory that is modelled.
ScanLost == /\ pc = "scan" /\ p \notin Place
            /\ pc' = "lost"
            /\ UNCHANGED <<length, memory, ended, data, slen, word, p>>

\* Faulty variant of the next: the last word may end the message.
PassesAtEnd(w) == /\ w = 1 => p # 0 /\ p # length
                  /\ w = 2 => p < length
                  /\ w = 3 => p <= length

\* The check after each word.
Passes(w) == /\ w = 1 => p # 0 /\ p # length
             /\ w = 2 => p < length
             /\ w = 3 => p # length

\* Faulty variant of the next: the NUL goes where p points.
AfterNext(w) == data[w] + slen[w] + 1

\* Where the NUL of a word goes.
After(w) == data[w] + slen[w]

CheckPasses ==
    /\ pc = "check" /\ Passes(word)
    /\ ended' = ended \cup {After(word)}
    /\ IF word = 3 THEN pc' = "headers" /\ UNCHANGED <<data, word>>
       ELSE /\ pc' = "scan" /\ word' = word + 1
            /\ data' = [data EXCEPT ![word + 1] = p]
    /\ UNCHANGED <<length, memory, slen, p>>

CheckFails ==
    /\ pc = "check" /\ ~Passes(word)
    /\ pc' = "error"
    /\ UNCHANGED <<length, memory, ended, data, slen, word, p>>

Next == Receive \/ Scan \/ ScanLost \/ CheckPasses \/ CheckFails

Spec == Init /\ [][Next]_vars

-----------------------------------------------------------------------------
TypeOK == /\ length \in Length \cup {0} /\ p \in Nat
          /\ memory \in [Place -> Byte \cup {Unread}] /\ ended \subseteq Place
          /\ data \in [1 .. 3 -> Nat] /\ slen \in [1 .. 3 -> Nat] /\ word \in 1 .. 3
          /\ pc \in {"idle", "scan", "check", "headers", "error", "lost"}

\* No space lies from i to before j.
Solid(i, j) == \A k \in i .. j - 1 : memory[k] = "x"

\* The headers begin behind the third space of the message, and uuid, conn_id
\* and path are what lies before and between the three, terminated.
Split == /\ data[1] = 0 /\ p = After(3) + 1 /\ p < length
         /\ \A w \in {1, 2} : data[w + 1] = After(w) + 1
         /\ \A w \in 1 .. 3 : /\ Solid(data[w], After(w))
                              /\ memory[After(w)] = Space /\ After(w) \in ended

\* The message has three spaces and a byte behind them.
Framed == \E i, j, k \in Place :
             /\ i < j /\ j < k /\ k < length - 1
             /\ memory[i] = Space /\ memory[j] = Space /\ memory[k] = Space

(***************************************************************************)
(* parse_request goes on to the headers exactly with the messages that     *)
(* have three spaces and a byte behind them, and splits them there.  An    *)
(* empty message never gets so far, though the first check lets it pass.   *)
(***************************************************************************)
WordsExact == /\ pc = "headers" => Split
              /\ pc = "error" /\ length > 0 => ~Framed

(***************************************************************************)
(* Every byte that is looked at is one of the message (mongrel2.c:176      *)
(* reads before it compares), and only spaces become a NUL, behind the     *)
(* place that is read.  The scan leaves the buffer only when the message   *)
(* is empty or is longer than the buffer.                                  *)
(***************************************************************************)
ScanStays ==
    /\ TypeOK
    /\ length > 0 => p <= length
    /\ \A i \in ended : i < p /\ memory[i] = Space
    /\ pc = "lost" \/ p > BUFFER_SIZE => length = 0 \/ length > BUFFER_SIZE
=============================================================================
