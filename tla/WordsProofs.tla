---------------------------- MODULE WordsProofs ----------------------------
(***************************************************************************)
(* Proofs about Words, for any size of the buffer and any lengths: what    *)
(* the scan accepts and how it splits it, and where it looks.              *)
(***************************************************************************)
EXTENDS Words, TLAPS

Begun == pc # "idle"

\* The words before the one that is scanned are complete and stand in a row;
\* that one has no space in it, and those behind it are empty.
Row == Begun =>
    /\ data[1] = 0
    /\ \A w \in {1, 2} : w < word => /\ data[w + 1] = After(w) + 1
                                     /\ memory[After(w)] = Space
                                     /\ After(w) \in ended
    /\ \A w \in 1 .. 3 : w <= word => Solid(data[w], After(w))
    /\ \A w \in 1 .. 3 : w > word => slen[w] = 0

\* Where p stands: at the end of the word, or behind the byte that ended it.
Stands ==
    /\ pc \in {"scan", "lost"} => p = After(word)
    /\ pc = "scan" /\ length > 0 => p < length
    /\ pc \in {"check", "headers", "error"} => p = After(word) + 1 /\ p - 1 \in Place
    /\ pc \in {"check", "headers"} => memory[After(word)] = Space \/ p = length
    /\ pc = "headers" => word = 3 /\ After(3) \in ended /\ memory[After(3)] = Space /\ p < length
    /\ pc = "error" /\ length > 0 => p = length
    /\ word = 3 => length > 0
    /\ pc = "lost" => p \notin Place /\ (length = 0 \/ length > BUFFER_SIZE)

\* The inductive invariant.
Scanned == /\ TypeOK /\ Row /\ Stands
           /\ length > 0 => p <= length
           /\ \A i \in ended : i < p /\ memory[i] = Space

-----------------------------------------------------------------------------
LEMMA InitScanned == Init => Scanned
<1> SUFFICES ASSUME Init PROVE Scanned
  OBVIOUS
<1> USE WordsAssumption DEF After, Space, Byte, Unread, Place
<1>1. TypeOK
  BY WordsAssumption DEF Init, TypeOK, Unset, Place
<1>2. Row /\ Stands
  BY DEF Init, Row, Begun, Stands
<1> QED
  BY <1>1, <1>2 DEF Init, Scanned

LEMMA ReceiveScanned == Scanned /\ Receive => Scanned'
<1> SUFFICES ASSUME Scanned, Receive PROVE Scanned'
  OBVIOUS
<1> USE WordsAssumption DEF After, Space, Byte, Unread, Place
<1>1. length' \in Length /\ length' \in Nat
  BY WordsAssumption DEF Receive
<1>2. TypeOK'
  BY <1>1 DEF Receive, TypeOK, Unset, Place
<1>3. Row'
  BY DEF Receive, Row, After, Solid, Unset
<1>4. Stands'
  BY <1>1 DEF Receive, Stands, After, Unset
<1> QED
  BY <1>1, <1>2, <1>3, <1>4 DEF Receive, Scanned

\* A byte is looked at.
LEMMA ScanScanned == Scanned /\ Scan => Scanned'
<1> SUFFICES ASSUME Scanned, Scan PROVE Scanned'
  OBVIOUS
<1> USE WordsAssumption DEF After, Space, Byte, Unread, Place
<1>1. /\ TypeOK /\ Row /\ Stands /\ pc = "scan" /\ p \in Place /\ p = After(word)
      /\ length > 0 => p < length
      /\ \A i \in ended : i < p /\ memory[i] = Space
  BY DEF Scanned, Scan, Stands
<1>2. length \in Nat /\ p \in Nat /\ word \in 1 .. 3 /\ ended \subseteq Place
      /\ data \in [1 .. 3 -> Nat] /\ slen \in [1 .. 3 -> Nat]
      /\ memory \in [Place -> Byte \cup {Unread}]
  BY <1>1, WordsAssumption DEF TypeOK
<1>3. PICK b \in Byte :
        /\ memory' = [memory EXCEPT ![p] = b]
        /\ IF b # Space /\ p + 1 # length
           THEN slen' = [slen EXCEPT ![word] = @ + 1] /\ UNCHANGED pc
           ELSE pc' = "check" /\ UNCHANGED slen
  BY DEF Scan
<1>4. p' = p + 1 /\ UNCHANGED <<length, ended, data, word>>
  BY DEF Scan
<1>5. \A i \in Place : memory'[i] = IF i = p THEN b ELSE memory[i]
  BY <1>2, <1>3
<1>6. \A i \in ended : i < p' /\ memory'[i] = Space
  BY <1>1, <1>2, <1>4, <1>5 DEF Place
<1>7. \A w \in {1, 2} : w < word => After(w) \in ended /\ After(w) < p
  BY <1>1, <1>2 DEF Row, Begun
<1>8. \A w \in 1 .. 3 : w <= word => Solid(data[w], After(w)) /\ After(w) <= p
  BY <1>1, <1>2, <1>7 DEF Row, Begun
<1>9. \A w \in 1 .. 3 : w <= word => \A k \in data[w] .. After(w) - 1 : memory'[k] = "x"
  <2> SUFFICES ASSUME NEW w \in 1 .. 3, w <= word, NEW k \in data[w] .. After(w) - 1
               PROVE  memory'[k] = "x"
    OBVIOUS
  <2>1. data[w] \in Nat /\ slen[w] \in Nat
    BY <1>2
  <2>2. Solid(data[w], After(w)) /\ data[w] + slen[w] <= p
    BY <1>8
  <2>3. memory[k] = "x" /\ k < p /\ k \in Place
    BY <1>1, <1>2, <2>1, <2>2 DEF Solid
  <2> QED
    BY <1>5, <1>2, <2>3
<1>10. memory' \in [Place -> Byte \cup {Unread}] /\ p' \in Nat
  <2> HIDE DEF Place, Byte, Unread
  <2>1. p' \in Nat
    BY <1>2, <1>4
  <2> QED
    BY <1>2, <1>3, <2>1
<1>11. CASE b # Space /\ p + 1 # length
  <2>1. b = "x" /\ pc' = "scan" /\ slen' = [slen EXCEPT ![word] = @ + 1]
    BY <1>1, <1>3, <1>11
  <2>2. \A w \in 1 .. 3 : After(w)' = IF w = word THEN p + 1 ELSE After(w)
    BY <1>1, <1>2, <1>4, <2>1 DEF After
  <2>3. \A w \in 1 .. 3 : w <= word' => Solid(data[w], After(w))'
    <3>1. SUFFICES ASSUME NEW w \in 1 .. 3, w <= word PROVE Solid(data[w], After(w))'
      BY <1>4
    <3>2. CASE w = word
      <4> SUFFICES ASSUME NEW k \in data[w] .. p PROVE memory'[k] = "x"
        BY <3>2, <2>2, <1>2, <1>4 DEF Solid
      <4>1. CASE k = p
        BY <4>1, <2>1, <1>1, <1>5
      <4>2. CASE k # p
        BY <4>2, <3>2, <1>1, <1>2, <1>9
      <4> QED
        BY <4>1, <4>2
    <3>3. CASE w # word
      BY <3>1, <3>3, <2>1, <2>2, <1>2, <1>4, <1>9 DEF Solid
    <3> QED
      BY <3>2, <3>3
  <2>4. TypeOK'
    <3>1. slen' \in [1 .. 3 -> Nat]
      BY <1>2, <2>1
    <3> HIDE DEF Place, Byte, Unread
    <3> QED
      BY <1>1, <1>4, <1>10, <2>1, <3>1 DEF TypeOK
  <2>5. Row'
    <3>1. data'[1] = 0 /\ \A w \in 1 .. 3 : w > word' => slen'[w] = 0
      BY <1>1, <1>2, <1>4, <2>1 DEF Row, Begun
    <3>2. \A w \in {1, 2} : w < word' => /\ data'[w + 1] = After(w)' + 1
                                         /\ memory'[After(w)'] = Space
                                         /\ After(w)' \in ended'
      <4> SUFFICES ASSUME NEW w \in {1, 2}, w < word
                   PROVE  /\ data[w + 1] = After(w) + 1 /\ After(w) \in ended
                          /\ After(w)' = After(w)
        BY <1>4, <1>6
      <4>1. data[w + 1] = After(w) + 1 /\ After(w) \in ended
        BY <1>1 DEF Row, Begun
      <4>2. After(w)' = After(w)
        BY <1>2, <2>2
      <4> QED
        BY <4>1, <4>2
    <3> QED
      BY <3>1, <3>2, <2>3 DEF Row
  <2>6. Stands'
    BY <1>1, <1>2, <1>4, <1>11, <2>1, <2>2 DEF Stands
  <2> QED
    BY <1>1, <1>2, <1>4, <1>6, <1>11, <2>4, <2>5, <2>6 DEF Scanned
<1>12. CASE ~(b # Space /\ p + 1 # length)
  <2>1. pc' = "check" /\ slen' = slen /\ (b = Space \/ p + 1 = length)
    BY <1>3, <1>12
  <2>2. \A w \in 1 .. 3 : After(w)' = After(w)
    BY <1>4, <2>1 DEF After
  <2>3. \A w \in 1 .. 3 : w <= word' => Solid(data[w], After(w))'
    BY <1>2, <1>4, <1>9, <2>2 DEF Solid
  <2>4. TypeOK'
    <3> HIDE DEF Place, Byte, Unread
    <3> QED
      BY <1>1, <1>4, <1>10, <2>1 DEF TypeOK
  <2>5. Row'
    <3>1. data'[1] = 0 /\ \A w \in 1 .. 3 : w > word' => slen'[w] = 0
      BY <1>1, <1>4, <2>1 DEF Row, Begun
    <3>2. \A w \in {1, 2} : w < word' => /\ data'[w + 1] = After(w)' + 1
                                         /\ memory'[After(w)'] = Space
                                         /\ After(w)' \in ended'
      <4> SUFFICES ASSUME NEW w \in {1, 2}, w < word
                   PROVE  data[w + 1] = After(w) + 1 /\ After(w) \in ended
        BY <1>4, <1>6, <2>2
      <4> QED
        BY <1>1 DEF Row, Begun
    <3> QED
      BY <3>1, <3>2, <2>3 DEF Row
  <2>6. Stands'
    BY <1>1, <1>2, <1>4, <1>5, <2>1, <2>2 DEF Stands, Place
  <2> QED
    BY <1>1, <1>2, <1>4, <1>6, <2>4, <2>5, <2>6 DEF Scanned
<1> QED
  BY <1>11, <1>12

LEMMA ScanLostScanned == Scanned /\ ScanLost => Scanned'
<1> SUFFICES ASSUME Scanned, ScanLost PROVE Scanned'
  OBVIOUS
<1> USE WordsAssumption DEF After, Space, Byte, Unread, Place
<1>1. pc' = "lost" /\ UNCHANGED <<length, memory, ended, data, slen, word, p>>
  BY DEF ScanLost
<1>2. TypeOK' /\ Row'
  BY <1>1 DEF Scanned, ScanLost, TypeOK, Row, Begun, After, Solid
<1>3. length \in Nat /\ p \in Nat
  BY WordsAssumption DEF Scanned, TypeOK
<1>4. length = 0 \/ length > BUFFER_SIZE
  BY <1>3, WordsAssumption DEF Scanned, Stands, ScanLost, Place
<1>5. Stands'
  BY <1>1, <1>4 DEF Scanned, Stands, ScanLost, After
<1> QED
  BY <1>1, <1>2, <1>5 DEF Scanned

\* Where a check passes, the word has ended with a space, which becomes a NUL.
LEMMA CheckPassesScanned == Scanned /\ CheckPasses => Scanned'
<1> SUFFICES ASSUME Scanned, CheckPasses PROVE Scanned'
  OBVIOUS
<1> USE WordsAssumption DEF After, Space, Byte, Unread, Place
<1>1. /\ TypeOK /\ Row /\ Stands /\ pc = "check" /\ Passes(word)
      /\ p = After(word) + 1 /\ p - 1 \in Place
      /\ memory[After(word)] = Space \/ p = length
      /\ length > 0 => p <= length
      /\ \A i \in ended : i < p /\ memory[i] = Space
  BY DEF Scanned, CheckPasses, Stands
<1>2. length \in Nat /\ p \in Nat /\ word \in 1 .. 3 /\ ended \subseteq Place
      /\ data \in [1 .. 3 -> Nat] /\ slen \in [1 .. 3 -> Nat]
  <2>1. length \in Length \cup {0} /\ Length \subseteq Nat
    BY <1>1, WordsAssumption DEF TypeOK
  <2> HIDE DEF Place, Byte, Unread
  <2> QED
    BY <1>1, <2>1 DEF TypeOK
<1>3. After(word) = p - 1 /\ p # length
  <2>1. data[word] \in Nat /\ slen[word] \in Nat
    BY <1>2
  <2>2. p # length
    BY <1>1, <1>2 DEF Passes
  <2> QED
    BY <1>1, <1>2, <2>1, <2>2
<1>4. memory[After(word)] = Space /\ (length > 0 => p < length)
  BY <1>1, <1>2, <1>3
<1>5. ended' = ended \cup {After(word)} /\ UNCHANGED <<length, memory, slen, p>>
  BY DEF CheckPasses
<1>6. ended' \subseteq Place /\ \A i \in ended' : i < p' /\ memory'[i] = Space
  <2>1. After(word) \in Place /\ After(word) < p
    BY <1>1, <1>2, <1>3
  <2> QED
    BY <1>1, <1>2, <1>4, <1>5, <2>1
<1>7. CASE word = 3
  <2>1. pc' = "headers" /\ UNCHANGED <<data, word>>
    BY <1>7 DEF CheckPasses
  <2>2. \A w \in 1 .. 3 : /\ After(w)' = After(w)
                           /\ Solid(data[w], After(w))' = Solid(data[w], After(w))
    BY <1>5, <2>1 DEF After, Solid
  <2>3. TypeOK' /\ Row'
    BY <1>1, <1>5, <1>6, <2>1, <2>2 DEF TypeOK, Row, Begun
  <2>4. Stands'
    <3>1. length > 0
      BY <1>1, <1>7 DEF Stands
    <3>2. p < length /\ p' = p /\ length' = length /\ pc' = "headers" /\ word' = 3
      BY <1>4, <1>5, <1>7, <2>1, <3>1
    <3>3. p' = After(3)' + 1 /\ p' - 1 \in Place
      BY <1>1, <1>7, <2>2, <3>2
    <3>4. memory'[After(3)'] = Space /\ After(3)' \in ended'
      BY <1>4, <1>5, <1>7, <2>2
    <3> QED
      BY <3>1, <3>2, <3>3, <3>4 DEF Stands
  <2> QED
    BY <1>1, <1>5, <1>6, <2>3, <2>4 DEF Scanned
<1>8. CASE word # 3
  <2>1. pc' = "scan" /\ word' = word + 1 /\ data' = [data EXCEPT ![word + 1] = p]
    BY <1>8 DEF CheckPasses
  <2>2. word' \in 1 .. 3 /\ \A w \in 1 .. 3 : data'[w] = IF w = word + 1 THEN p ELSE data[w]
    BY <1>2, <1>8, <2>1
  <2>3. slen[word + 1] = 0
    BY <1>1, <1>2, <1>8 DEF Row, Begun
  <2>4. \A w \in 1 .. 3 : After(w)' = IF w = word + 1 THEN p ELSE After(w)
    BY <1>2, <1>5, <2>2, <2>3 DEF After
  <2>5. \A w \in 1 .. 3 : w <= word' => Solid(data[w], After(w))'
    BY <1>1, <1>2, <1>5, <2>1, <2>2, <2>4 DEF Row, Begun, Solid
  <2>6. TypeOK'
    <3>1. data' \in [1 .. 3 -> Nat]
      BY <1>2, <2>1
    <3> QED
      BY <1>1, <1>5, <1>6, <2>1, <2>2, <3>1 DEF TypeOK
  <2>7. Row'
    <3>1. data'[1] = 0
      BY <1>1, <1>2, <2>2 DEF Row, Begun
    <3>2. \A w \in {1, 2} : w < word' => /\ data'[w + 1] = After(w)' + 1
                                         /\ memory'[After(w)'] = Space
                                         /\ After(w)' \in ended'
      BY <1>1, <1>2, <1>3, <1>4, <1>5, <2>1, <2>2, <2>4 DEF Row, Begun
    <3>3. \A w \in 1 .. 3 : w > word' => slen'[w] = 0
      BY <1>1, <1>2, <1>5, <2>1 DEF Row, Begun
    <3> QED
      BY <3>1, <3>2, <3>3, <2>5 DEF Row
  <2>8. Stands'
    <3>1. word' = 3 => length > 0
      BY <1>1, <1>2, <2>1 DEF Passes
    <3>2. p = After(word)'
      BY <1>2, <2>1, <2>2, <2>4
    <3> QED
      BY <1>2, <1>4, <1>5, <2>1, <3>1, <3>2 DEF Stands
  <2> QED
    BY <1>1, <1>5, <1>6, <2>6, <2>7, <2>8 DEF Scanned
<1> QED
  BY <1>7, <1>8

LEMMA CheckFailsScanned == Scanned /\ CheckFails => Scanned'
<1> SUFFICES ASSUME Scanned, CheckFails PROVE Scanned'
  OBVIOUS
<1> USE WordsAssumption DEF After, Space, Byte, Unread, Place
<1>1. pc = "check" /\ ~Passes(word) /\ pc' = "error"
      /\ UNCHANGED <<length, memory, ended, data, slen, word, p>>
  BY DEF CheckFails
<1>2. TypeOK' /\ Row'
  BY <1>1 DEF Scanned, TypeOK, Row, Begun, After, Solid
<1>3. length \in Nat /\ p \in Nat /\ word \in 1 .. 3 /\ p - 1 \in Place
  BY <1>1, WordsAssumption DEF Scanned, TypeOK, Stands
<1>4. length > 0 => p = length
  <2>1. p # 0 /\ (length > 0 => p <= length)
    BY <1>3 DEF Scanned
  <2> QED
    BY <1>1, <1>3, <2>1 DEF Passes
<1>5. Stands'
  BY <1>1, <1>4 DEF Scanned, Stands, After
<1> QED
  BY <1>1, <1>2, <1>5 DEF Scanned

LEMMA ScannedInductive == Scanned /\ [Next]_vars => Scanned'
<1>1. Scanned /\ UNCHANGED vars => Scanned'
  BY DEF vars, Scanned, TypeOK, Row, Begun, Stands, After, Solid
<1> QED
  BY <1>1, ReceiveScanned, ScanScanned, ScanLostScanned, CheckPassesScanned,
     CheckFailsScanned DEF Next

THEOREM WordsScanned == Spec => []Scanned
  BY InitScanned, ScannedInductive, PTL DEF Spec

-----------------------------------------------------------------------------
\* The scan never looks behind a message that has a byte, overwrites nothing but
\* the spaces behind the words, and leaves the buffer only where it must.
THEOREM WordsStay == Spec => []ScanStays
<1>1. Scanned => ScanStays
  <2> SUFFICES ASSUME Scanned PROVE ScanStays
    OBVIOUS
  <2>1. length \in Nat /\ p \in Nat
    BY WordsAssumption DEF Scanned, TypeOK
  <2> QED
    BY <2>1, WordsAssumption DEF Scanned, Stands, ScanStays
<1> QED
  BY <1>1, WordsScanned, PTL

\* parse_request goes on to the headers with framed messages only, split at their
\* first three spaces, and refuses no framed message.
THEOREM WordsAreExact == Spec => []WordsExact
<1>1. Scanned => WordsExact
  <2> SUFFICES ASSUME Scanned PROVE WordsExact
    OBVIOUS
  <2> USE WordsAssumption DEF After, Space, Byte, Unread, Place
  <2>1. length \in Nat /\ p \in Nat /\ word \in 1 .. 3
        /\ data \in [1 .. 3 -> Nat] /\ slen \in [1 .. 3 -> Nat]
    BY WordsAssumption DEF Scanned, TypeOK
  <2>2. ASSUME pc = "headers" PROVE Split
    BY <2>1, <2>2 DEF Scanned, Row, Begun, Stands, Split
  <2>3. ASSUME pc = "error", length > 0 PROVE ~Framed
    <3>1. p = length /\ p = After(word) + 1
      BY <2>3 DEF Scanned, Stands
    <3>2. ASSUME NEW k \in Place, k < length - 1, memory[k] = Space
          PROVE  \/ k = After(1) /\ word > 1
                 \/ k = After(2) /\ word > 2
      <4>1. k \in Nat /\ k < After(word)
        BY <2>1, <3>1, <3>2 DEF Place, After
      <4>2. /\ data[1] = 0 /\ Solid(data[1], After(1))
            /\ word > 1 => data[2] = After(1) + 1 /\ Solid(data[2], After(2))
            /\ word > 2 => data[3] = After(2) + 1 /\ Solid(data[3], After(3))
        BY <2>1, <2>3 DEF Scanned, Row, Begun
      <4> QED
        BY <2>1, <3>2, <4>1, <4>2 DEF Solid, After
    <3> SUFFICES ASSUME NEW i \in Place, NEW j \in Place, NEW k \in Place,
                        i < j, j < k, k < length - 1,
                        memory[i] = Space, memory[j] = Space, memory[k] = Space
                 PROVE  FALSE
      BY DEF Framed
    <3>3. i < length - 1 /\ j < length - 1
      BY <2>1
    <3> HIDE DEF After
    <3>4. i \in {After(1), After(2)} /\ j \in {After(1), After(2)} /\ k \in {After(1), After(2)}
      BY <3>2, <3>3
    <3> QED
      BY <3>4
  <2> QED
    BY <2>2, <2>3 DEF WordsExact
<1> QED
  BY <1>1, WordsScanned, PTL
=============================================================================
