--------------------------- MODULE KeyboardProofs ---------------------------
(***************************************************************************)
(* Proofs about Keyboard for every length of the ring, every set of         *)
(* characters and any number of keys: what is typed reaches the command,    *)
(* whichever access of the main loop the interrupt falls on.                *)
(***************************************************************************)
EXTENDS Keyboard, TLAPS

Typed == Chars \cup {NL}

\* The slots the writer and the reader use, and the slot x places on from slot 0,
\* for an x that is at most once around the ring.
R == BufLen - 1
At(x) == IF x < R THEN x ELSE x - R

\* The characters of the unread input that the head has passed, and those it has
\* not.
Taken ==
    IF pc \in {"test", "step", "final"} THEN Len(line) - 1
    ELSE IF pc \in {"store", "read", "fstore"} THEN Len(line) ELSE 0
Left == Len(unread) - Taken

\* The slot that is read next: the head stands on the last slot for a moment.
Here == IF kb.head = R THEN 0 ELSE kb.head
Stale == IF pc \in {"store", "fstore"} THEN 1 ELSE 0

\* The ring holds what is left of the input, and the count is right up to the
\* decrement under way.
RingInv ==
    /\ unread \in Seq(Typed)
    /\ kb \in [head : 0 .. R, tail : 0 .. R - 1, count : 0 .. R,
               buf : [Index -> Typed \cup {NUL}]]
    /\ kb.head = R => pc \in {"store", "read", "fstore"}
    /\ Taken \in 0 .. Len(unread) /\ Left <= R
    /\ kb.count = Left + Stale
    /\ kb.tail = At(Here + Left)
    /\ \A i \in 0 .. R - 1 : i < Left => kb.buf[At(Here + i)] = unread[Taken + i + 1]

\* The line being taken out is the beginning of the input, and no character but
\* its last is the '\n'.
LineInv ==
    /\ pc \in reading \cup {"poll", "halt", "run"}
    /\ pc \in reading \ {"first"} =>
          /\ line \in Seq(Typed)
          /\ Len(line) \in 1 .. Len(unread)
          /\ \A i \in 1 .. Len(line) : line[i] = unread[i]
          /\ \A i \in 1 .. Len(line) - 1 : line[i] # NL
    /\ pc \in {"step", "store", "read"} => line[Len(line)] # NL
    /\ pc \in {"final", "fstore"} => line[Len(line)] = NL
    /\ pc = "run" => line = want

\* There is a '\n' in the input for the line being read, and one for the flag.
FlagInv ==
    /\ pc \in reading \/ line_ready => \E i \in 1 .. Len(unread) : unread[i] = NL
    /\ pc \in reading /\ line_ready =>
          \E i, j \in 1 .. Len(unread) : i < j /\ unread[i] = NL /\ unread[j] = NL

KeyInv == ~spoiled => RingInv /\ LineInv /\ FlagInv

\* A number below the modulus, and one less than twice it.
LEMMA ModOnce ==
  ASSUME NEW m \in Nat \ {0}, NEW x \in Nat, x < 2 * m
  PROVE  x % m = IF x < m THEN x ELSE x - m
  OBVIOUS

\* The 8-bit arithmetic inside the ring, and off the slot left out.
LEMMA RingArithmetic ==
  /\ R \in Nat /\ R > 1 /\ BufLen = R + 1
  /\ \A n \in 0 .. R - 1 : Inc(n) = n + 1 /\ Wrap(Inc(n)) = At(n + 1)
  /\ \A n \in 1 .. R : Dec(n) = n - 1
  /\ \A n \in 0 .. R : Wrap(n) = IF n = R THEN 0 ELSE n
<1>1. R \in Nat /\ R > 1 /\ BufLen = R + 1 /\ BufLen \in Nat \ {0}
  BY KeyboardAssumption DEF R
<1>2. ASSUME NEW n \in 0 .. R - 1
      PROVE  Inc(n) = n + 1 /\ Wrap(Inc(n)) = At(n + 1)
  <2>1. n + 1 \in Nat /\ n + 1 < 2 * BufLen /\ n + 1 < BufLen
    BY <1>1
  <2>2. (n + 1) % BufLen = n + 1
    BY <1>1, <2>1, ModOnce
  <2> QED BY <1>1, <2>2 DEF Inc, Wrap, At, R
<1>3. ASSUME NEW n \in 1 .. R
      PROVE  Dec(n) = n - 1
  <2> DEFINE x == n + BufLen - 1
  <2>1. x \in Nat /\ x < 2 * BufLen /\ ~(x < BufLen) /\ x - BufLen = n - 1
    BY <1>1
  <2> HIDE DEF x
  <2>2. x % BufLen = n - 1
    BY <1>1, <2>1, ModOnce
  <2> QED BY <2>2 DEF Dec, x
<1>4. \A n \in 0 .. R : Wrap(n) = IF n = R THEN 0 ELSE n
  BY <1>1 DEF Wrap, R
<1> QED BY <1>1, <1>2, <1>3, <1>4

\* Where the reader stands, and the slot behind what is left.
LEMMA RingFacts ==
  ASSUME RingInv
  PROVE  /\ Here \in 0 .. R - 1 /\ Left \in 0 .. R /\ Taken \in Nat
         /\ Len(unread) \in Nat /\ Taken + Left = Len(unread)
         /\ Stale \in 0 .. 1 /\ kb.count = Left + Stale
  BY RingArithmetic DEF RingInv, Here, Left, Stale

\* All but the last.
LEMMA FrontFacts ==
  ASSUME NEW S, NEW q \in Seq(S), Len(q) > 0
  PROVE  /\ Front(q) \in Seq(S) /\ Len(Front(q)) = Len(q) - 1
         /\ \A i \in 1 .. Len(q) - 1 : Front(q)[i] = q[i]
<1>1. Len(q) - 1 \in Nat /\ Len(q) - 1 <= Len(q)
  OBVIOUS
<1>2. \A m \in Nat : m <= Len(q) =>
         /\ SubSeq(q, 1, m) \in Seq(S) /\ Len(SubSeq(q, 1, m)) = m
         /\ \A i \in 1 .. m : SubSeq(q, 1, m)[i] = q[i]
  OBVIOUS
<1> QED BY <1>1, <1>2 DEF Front

\* put_buffer of a character that is stored.
LEMMA PutKeeps ==
  ASSUME RingInv, Stored, NEW c \in Typed, PutBuffer(c), unread' = Append(unread, c),
         Taken' = Taken, Stale' = Stale, kb.head = R => pc' \in {"store", "read", "fstore"}
  PROVE  RingInv'
<1>1. /\ R \in Nat /\ R > 1 /\ Here \in 0 .. R - 1 /\ Left \in 0 .. R /\ Taken \in Nat
      /\ Len(unread) \in Nat /\ Taken + Left = Len(unread)
      /\ Stale \in 0 .. 1 /\ kb.count = Left + Stale
  BY RingArithmetic, RingFacts
<1>t. /\ unread \in Seq(Typed) /\ kb.head \in 0 .. R /\ kb.tail \in 0 .. R - 1
      /\ kb.count \in 0 .. R /\ kb.buf \in [Index -> Typed \cup {NUL}]
      /\ kb.tail = At(Here + Left)
      /\ kb.head = R => pc \in {"store", "read", "fstore"}
      /\ \A i \in 0 .. R - 1 : i < Left => kb.buf[At(Here + i)] = unread[Taken + i + 1]
  BY DEF RingInv
<1>2. kb.count < R
  BY DEF Stored, R
<1>3. /\ kb' = [head |-> kb.head, tail |-> Wrap(Inc(kb.tail)), count |-> Inc(kb.count),
                buf |-> [kb.buf EXCEPT ![kb.tail] = c]]
  BY <1>2 DEF PutBuffer, RingInv, R
<1>4. /\ kb'.head = kb.head /\ kb'.tail = At(kb.tail + 1) /\ kb'.count = kb.count + 1
      /\ kb'.buf = [kb.buf EXCEPT ![kb.tail] = c]
  <2>1. kb.tail \in 0 .. R - 1 /\ kb.count \in 0 .. R - 1
    BY <1>1, <1>t, <1>2
  <2>2. Wrap(Inc(kb.tail)) = At(kb.tail + 1)
    BY <2>1, RingArithmetic
  <2>3. Inc(kb.count) = kb.count + 1
    BY <2>1, RingArithmetic
  <2> QED BY <1>3, <2>2, <2>3
<1>5. unread' \in Seq(Typed) /\ Len(unread') = Len(unread) + 1
  BY <1>t
<1>6. Left' = Left + 1 /\ Left + 1 <= R /\ Here' = Here
  BY <1>1, <1>2, <1>4, <1>5 DEF Left, Here
<1>7. kb'.tail = At(Here + Left + 1) /\ kb'.tail \in 0 .. R - 1
  <2>1. Here + Left \in 0 .. R + R - 2
    BY <1>1, <1>6
  <2>2. kb.tail = At(Here + Left) /\ kb'.tail = At(kb.tail + 1)
    BY <1>t, <1>4
  <2>3. \A x \in 0 .. R + R - 2 : At(At(x) + 1) = At(x + 1) /\ At(x + 1) \in 0 .. R - 1
    BY <1>1 DEF At
  <2> QED BY <2>1, <2>2, <2>3
<1>8. 0 .. R - 1 \subseteq Index
  BY <1>1, KeyboardAssumption DEF Index, R
<1>9. kb' \in [head : 0 .. R, tail : 0 .. R - 1, count : 0 .. R,
               buf : [Index -> Typed \cup {NUL}]]
  <2>1. kb.count + 1 \in 0 .. R
    <3>1. kb.count \in 0 .. R /\ R \in Nat
      BY <1>1, <1>t
    <3> QED BY <1>2, <3>1
  <2>2. [kb.buf EXCEPT ![kb.tail] = c] \in [Index -> Typed \cup {NUL}]
    BY <1>t
  <2> QED BY <1>t, <1>3, <1>4, <1>7, <2>1, <2>2
<1>10. ASSUME NEW i \in 0 .. R - 1, i < Left + 1
       PROVE  kb'.buf[At(Here + i)] = unread'[Taken + i + 1]
  <2>1. At(Here + i) \in 0 .. R - 1
    BY <1>1 DEF At
  <2>2. CASE i = Left
    <3>1. At(Here + i) = kb.tail
      BY <1>t, <2>2
    <3>2. kb'.buf[kb.tail] = c
      BY <1>3, <1>t, <1>8
    <3>3. unread'[Taken + i + 1] = c
      BY <1>1, <1>t, <2>2
    <3> QED BY <3>1, <3>2, <3>3
  <2>3. CASE i < Left
    <3>1. At(Here + i) # kb.tail
      BY <1>1, <1>t, <1>6, <2>3 DEF At
    <3>2. kb'.buf[At(Here + i)] = kb.buf[At(Here + i)]
      BY <1>3, <1>t, <1>8, <2>1, <3>1
    <3>3. Taken + i + 1 \in 1 .. Len(unread)
      BY <1>1, <2>3
    <3>4. unread'[Taken + i + 1] = unread[Taken + i + 1]
      BY <1>t, <3>3
    <3> QED BY <1>t, <2>3, <3>2, <3>4
  <2>4. i = Left \/ i < Left
    BY <1>1, <1>10
  <2> QED BY <2>2, <2>3, <2>4
<1>11. kb'.count = Left' + Stale'
  BY <1>1, <1>4, <1>6
<1>12. Taken' \in 0 .. Len(unread')
  BY <1>1, <1>5
<1>13. kb'.tail = At(Here' + Left')
  BY <1>1, <1>6, <1>7
<1> QED BY <1>4, <1>5, <1>6, <1>9, <1>10, <1>11, <1>12, <1>13 DEF RingInv

\* put_buffer('\b') of a character that is still in the ring.
LEMMA EraseKeeps ==
  ASSUME RingInv, EraseLast, kb.tail # 0, Left > 0, unread' = Front(unread),
         Taken' = Taken, Stale' = Stale, kb.head = R => pc' \in {"store", "read", "fstore"}
  PROVE  RingInv'
<1>1. /\ R \in Nat /\ R > 1 /\ Here \in 0 .. R - 1 /\ Left \in 0 .. R /\ Taken \in Nat
      /\ Len(unread) \in Nat /\ Taken + Left = Len(unread)
      /\ Stale \in 0 .. 1 /\ kb.count = Left + Stale
  BY RingArithmetic, RingFacts
<1>t. /\ unread \in Seq(Typed) /\ kb.head \in 0 .. R /\ kb.tail \in 0 .. R - 1
      /\ kb.count \in 0 .. R /\ kb.buf \in [Index -> Typed \cup {NUL}]
      /\ kb.tail = At(Here + Left)
      /\ kb.head = R => pc \in {"store", "read", "fstore"}
      /\ \A i \in 0 .. R - 1 : i < Left => kb.buf[At(Here + i)] = unread[Taken + i + 1]
  BY DEF RingInv
<1>2. kb' = [head |-> kb.head, tail |-> Dec(kb.tail), count |-> Dec(kb.count), buf |-> kb.buf]
  BY DEF EraseLast, RingInv
<1>3. /\ kb'.head = kb.head /\ kb'.tail = kb.tail - 1 /\ kb'.count = kb.count - 1
      /\ kb'.buf = kb.buf
  BY <1>1, <1>t, <1>2, RingArithmetic
<1>4. /\ unread' \in Seq(Typed) /\ Len(unread') = Len(unread) - 1
      /\ \A i \in 1 .. Len(unread) - 1 : unread'[i] = unread[i]
  BY <1>1, <1>t, FrontFacts
<1>5. Left' = Left - 1 /\ Here' = Here
  BY <1>1, <1>3, <1>4 DEF Left, Here
<1>6. kb'.tail = At(Here' + Left') /\ kb'.tail \in 0 .. R - 1
  BY <1>1, <1>t, <1>3, <1>5 DEF At
<1>7. kb' \in [head : 0 .. R, tail : 0 .. R - 1, count : 0 .. R,
               buf : [Index -> Typed \cup {NUL}]]
  BY <1>1, <1>t, <1>2, <1>3, <1>6
<1>8. ASSUME NEW i \in 0 .. R - 1, i < Left - 1
      PROVE  kb'.buf[At(Here + i)] = unread'[Taken + i + 1]
  <2>1. Taken + i + 1 \in 1 .. Len(unread) - 1 /\ i < Left
    BY <1>1, <1>8
  <2> QED BY <1>t, <1>3, <1>4, <2>1
<1>9. kb'.count = Left' + Stale'
  BY <1>1, <1>3, <1>5
<1>10. Taken' \in 0 .. Len(unread') /\ Left' <= R
  BY <1>1, <1>4, <1>5
<1> QED BY <1>3, <1>4, <1>5, <1>6, <1>7, <1>8, <1>9, <1>10 DEF RingInv

Places == reading \cup {"poll", "halt", "run"}

\* An interrupt wakes the main loop and moves it no further.
LEMMA WakeMoves ==
  ASSUME Wake, UNCHANGED line, pc \in Places
  PROVE  /\ Taken' = Taken /\ Stale' = Stale /\ pc' \in Places
         /\ pc # "halt" => pc' = pc
         /\ pc = "halt" => pc' = "poll"
  BY DEF Wake, Taken, Stale, Places, reading

\* A key leaves the line alone when what has been read of it stays in the input.
LEMMA KeyLine ==
  ASSUME LineInv, Wake, UNCHANGED <<line, want>>, unread' \in Seq(Typed),
         pc \in reading \ {"first"} =>
             Len(line) <= Len(unread') /\ \A i \in 1 .. Len(line) : unread'[i] = unread[i]
  PROVE  LineInv'
<1>1. CASE pc = "halt"
  <2>1. pc' = "poll"
    BY <1>1 DEF Wake
  <2> QED BY <2>1 DEF LineInv, reading
<1>2. CASE pc # "halt"
  <2>1. pc' = pc /\ line' = line /\ want' = want
    BY <1>2 DEF Wake
  <2>2. ASSUME pc \in reading \ {"first"}
        PROVE  /\ line \in Seq(Typed)
               /\ Len(line) \in 1 .. Len(unread')
               /\ \A i \in 1 .. Len(line) : line[i] = unread'[i]
               /\ \A i \in 1 .. Len(line) - 1 : line[i] # NL
    BY <2>2 DEF LineInv
  <2> QED BY <2>1, <2>2 DEF LineInv
<1> QED BY <1>1, <1>2

\* A key leaves every '\n' where it is.
LEMMA KeyFlag ==
  ASSUME FlagInv, Wake, line_ready' = line_ready, unread \in Seq(Typed), unread' \in Seq(Typed),
         \A i \in 1 .. Len(unread) : unread[i] = NL => i <= Len(unread') /\ unread'[i] = NL
  PROVE  FlagInv'
<1>1. Len(unread) \in Nat /\ Len(unread') \in Nat
  OBVIOUS
<1>2. pc' \in reading => pc \in reading
  BY DEF Wake, reading
<1>3. \A i \in 1 .. Len(unread) : unread[i] = NL => i \in 1 .. Len(unread') /\ unread'[i] = NL
  BY <1>1
<1>4. ASSUME pc' \in reading \/ line_ready'
      PROVE  \E i \in 1 .. Len(unread') : unread'[i] = NL
  <2>1. PICK i \in 1 .. Len(unread) : unread[i] = NL
    BY <1>2, <1>4 DEF FlagInv
  <2> QED BY <1>3, <2>1
<1>5. ASSUME pc' \in reading /\ line_ready'
      PROVE  \E i, j \in 1 .. Len(unread') : i < j /\ unread'[i] = NL /\ unread'[j] = NL
  <2>1. PICK i, j \in 1 .. Len(unread) : i < j /\ unread[i] = NL /\ unread[j] = NL
    BY <1>2, <1>5 DEF FlagInv
  <2> QED BY <1>3, <2>1
<1> QED BY <1>4, <1>5 DEF FlagInv

\* A character typed, or dropped.
LEMMA CharKeeps ==
  ASSUME RingInv, LineInv, FlagInv, NEW c \in Chars, KeyChar(c)
  PROVE  RingInv' /\ LineInv' /\ FlagInv'
<1>1. Wake /\ PutBuffer(c) /\ UNCHANGED <<line_ready, line, want>> /\ c \in Typed
  BY DEF KeyChar, Typed
<1>2. unread \in Seq(Typed) /\ pc \in Places
  BY DEF RingInv, LineInv, Places
<1>3. /\ Taken' = Taken /\ Stale' = Stale /\ (pc # "halt" => pc' = pc)
      /\ kb.head = R => pc' \in {"store", "read", "fstore"}
  BY <1>1, <1>2, WakeMoves DEF RingInv
<1>4. CASE Stored
  <2>1. unread' = Append(unread, c)
    BY <1>4 DEF KeyChar
  <2>2. /\ unread' \in Seq(Typed) /\ Len(unread') = Len(unread) + 1 /\ Len(unread) \in Nat
        /\ \A i \in 1 .. Len(unread) : unread'[i] = unread[i]
    BY <1>1, <1>2, <2>1
  <2>3. RingInv'
    BY <1>1, <1>3, <1>4, <2>1, PutKeeps
  <2>4. ASSUME pc \in reading \ {"first"}
        PROVE  Len(line) <= Len(unread') /\ \A i \in 1 .. Len(line) : unread'[i] = unread[i]
    <3>1. Len(line) \in 1 .. Len(unread)
      BY <2>4 DEF LineInv
    <3> QED BY <2>2, <3>1
  <2>5. LineInv'
    BY <1>1, <2>2, <2>4, KeyLine
  <2>6. \A i \in 1 .. Len(unread) : unread[i] = NL => i <= Len(unread') /\ unread'[i] = NL
    BY <2>2
  <2>7. FlagInv'
    BY <1>1, <1>2, <2>2, <2>6, KeyFlag
  <2> QED BY <2>3, <2>5, <2>7
<1>5. CASE ~Stored
  <2>1. kb' = kb /\ unread' = unread
    BY <1>5 DEF KeyChar, PutBuffer, Stored
  <2>2. RingInv'
    BY <1>3, <2>1 DEF RingInv, Left, Here
  <2>3. pc \in reading \ {"first"} => Len(line) <= Len(unread)
    BY <1>2 DEF LineInv
  <2>4. LineInv'
    BY <1>1, <1>2, <2>1, <2>3, KeyLine
  <2>5. \A i \in 1 .. Len(unread) : unread[i] = NL => i <= Len(unread') /\ unread'[i] = NL
    BY <1>2, <2>1
  <2>6. FlagInv'
    BY <1>1, <1>2, <2>1, <2>5, KeyFlag
  <2> QED BY <2>2, <2>4, <2>6
<1> QED BY <1>4, <1>5

\* Enter, with room for it.
LEMMA EnterKeeps ==
  ASSUME RingInv, LineInv, FlagInv, KeyEnter, ~spoiled'
  PROVE  RingInv' /\ LineInv' /\ FlagInv'
<1>1. Wake /\ PutBuffer(NL) /\ UNCHANGED <<line, want>> /\ NL \in Typed /\ Stored
  BY DEF KeyEnter, Typed, Spoil
<1>2. unread \in Seq(Typed) /\ pc \in Places
  BY DEF RingInv, LineInv, Places
<1>3. /\ Taken' = Taken /\ Stale' = Stale /\ (pc # "halt" => pc' = pc)
      /\ kb.head = R => pc' \in {"store", "read", "fstore"}
  BY <1>1, <1>2, WakeMoves DEF RingInv
<1>4. unread' = Append(unread, NL)
  BY <1>1 DEF KeyEnter
<1>5. /\ unread' \in Seq(Typed) /\ Len(unread') = Len(unread) + 1 /\ Len(unread) \in Nat
      /\ \A i \in 1 .. Len(unread) : unread'[i] = unread[i]
      /\ unread'[Len(unread) + 1] = NL
  BY <1>1, <1>2, <1>4
<1>6. RingInv'
  BY <1>1, <1>3, <1>4, PutKeeps
<1>7. ASSUME pc \in reading \ {"first"}
      PROVE  Len(line) <= Len(unread') /\ \A i \in 1 .. Len(line) : unread'[i] = unread[i]
  <2>1. Len(line) \in 1 .. Len(unread)
    BY <1>7 DEF LineInv
  <2> QED BY <1>5, <2>1
<1>8. LineInv'
  BY <1>1, <1>5, <1>7, KeyLine
<1>9. Len(unread) + 1 \in 1 .. Len(unread')
  BY <1>5
<1>10. ASSUME pc' \in reading
       PROVE  \E i, j \in 1 .. Len(unread') : i < j /\ unread'[i] = NL /\ unread'[j] = NL
  <2>1. pc \in reading
    BY <1>1, <1>10 DEF Wake, reading
  <2>2. PICK i \in 1 .. Len(unread) : unread[i] = NL
    BY <2>1 DEF FlagInv
  <2>3. i \in 1 .. Len(unread') /\ i < Len(unread) + 1 /\ unread'[i] = NL
    BY <1>5, <2>2
  <2> QED BY <1>5, <1>9, <2>3
<1>11. FlagInv'
  BY <1>5, <1>9, <1>10 DEF FlagInv
<1> QED BY <1>6, <1>8, <1>11

\* Backspace, of a character that is not the '\n' of a line.
LEMMA BackspaceKeeps ==
  ASSUME RingInv, LineInv, FlagInv, KeyBackspace, ~spoiled'
  PROVE  RingInv' /\ LineInv' /\ FlagInv'
<1>1. /\ Wake /\ EraseLast /\ UNCHANGED <<line_ready, line, want>>
      /\ unread # <<>> /\ Last(unread) # NL /\ kb.tail # 0
  BY DEF KeyBackspace, Spoil
<1>2. unread \in Seq(Typed) /\ pc \in Places
  BY DEF RingInv, LineInv, Places
<1>3. /\ Taken' = Taken /\ Stale' = Stale /\ (pc # "halt" => pc' = pc)
      /\ kb.head = R => pc' \in {"store", "read", "fstore"}
  BY <1>1, <1>2, WakeMoves DEF RingInv
<1>4. unread' = Front(unread) /\ Len(unread) \in Nat /\ Len(unread) > 0
  BY <1>1, <1>2 DEF KeyBackspace
<1>5. /\ unread' \in Seq(Typed) /\ Len(unread') = Len(unread) - 1
      /\ \A i \in 1 .. Len(unread) - 1 : unread'[i] = unread[i]
      /\ unread[Len(unread)] # NL
  <2>1. /\ unread' \in Seq(Typed) /\ Len(unread') = Len(unread) - 1
        /\ \A i \in 1 .. Len(unread) - 1 : unread'[i] = unread[i]
    BY <1>2, <1>4, FrontFacts
  <2> QED BY <1>1, <2>1 DEF Last
<1>6. ASSUME pc \in reading \ {"first"}
      PROVE  Len(line) \in Nat /\ Len(line) < Len(unread)
  <2>1. /\ Len(line) \in 1 .. Len(unread)
        /\ \A i \in 1 .. Len(line) : line[i] = unread[i]
        /\ \A i \in 1 .. Len(line) - 1 : line[i] # NL
    BY <1>6 DEF LineInv
  <2>2. PICK i \in 1 .. Len(unread) : unread[i] = NL
    BY <1>6 DEF FlagInv
  <2>3. ASSUME Len(line) = Len(unread) PROVE FALSE
    <3>1. i # Len(unread)
      BY <1>5, <2>2
    <3>2. i \in 1 .. Len(line) - 1 /\ i \in 1 .. Len(line)
      BY <1>4, <2>3, <3>1
    <3> QED BY <2>1, <2>2, <3>2
  <2> QED BY <1>4, <2>1, <2>3
<1>7. Left > 0
  <2>1. CASE pc \in reading \ {"first"}
    <3>1. Len(line) \in Nat /\ Len(line) < Len(unread)
      BY <1>6, <2>1
    <3>2. Taken = Len(line) \/ Taken = Len(line) - 1
      BY <2>1 DEF Taken, reading
    <3> QED BY <1>4, <3>1, <3>2 DEF Left
  <2>2. CASE pc \notin reading \ {"first"}
    <3>1. Taken = 0
      BY <1>2, <2>2 DEF Taken, reading, Places
    <3> QED BY <1>4, <3>1 DEF Left
  <2> QED BY <2>1, <2>2
<1>8. RingInv'
  BY <1>1, <1>3, <1>4, <1>7, EraseKeeps
<1>9. ASSUME pc \in reading \ {"first"}
      PROVE  Len(line) <= Len(unread') /\ \A i \in 1 .. Len(line) : unread'[i] = unread[i]
  <2>1. Len(line) \in Nat /\ Len(line) < Len(unread)
    BY <1>6, <1>9
  <2> QED BY <1>4, <1>5, <2>1
<1>10. LineInv'
  BY <1>1, <1>5, <1>9, KeyLine
<1>11. \A i \in 1 .. Len(unread) : unread[i] = NL => i <= Len(unread') /\ unread'[i] = NL
  <2> SUFFICES ASSUME NEW i \in 1 .. Len(unread), unread[i] = NL
               PROVE  i <= Len(unread') /\ unread'[i] = NL
    OBVIOUS
  <2>1. i # Len(unread)
    BY <1>5
  <2>2. i \in 1 .. Len(unread) - 1 /\ i <= Len(unread) - 1
    BY <1>4, <2>1
  <2> QED BY <1>5, <2>2
<1>12. FlagInv'
  BY <1>1, <1>2, <1>5, <1>11, KeyFlag
<1> QED BY <1>8, <1>10, <1>12

\* The steps of the main loop that leave the ring and the input alone.
LEMMA StandingKeeps ==
  ASSUME RingInv, LineInv, FlagInv, Timer \/ ConsumeLineReady \/ First \/ Test \/ Run
  PROVE  RingInv' /\ LineInv' /\ FlagInv'
<1>1. unread \in Seq(Typed) /\ pc \in Places /\ Len(unread) \in Nat
  BY DEF RingInv, LineInv, Places
<1>2. UNCHANGED <<kb, unread, want>>
  BY DEF Timer, ConsumeLineReady, First, Test, Run
<1>3. ASSUME Taken' = Taken, Stale' = Stale, kb.head # R
      PROVE  RingInv'
  BY <1>2, <1>3 DEF RingInv, Left, Here
<1>4. CASE Timer
  <2>1. pc = "halt" /\ pc' = "poll" /\ line_ready' = line_ready
    BY <1>4 DEF Timer
  <2>2. RingInv'
    BY <1>3, <2>1 DEF Taken, Stale, RingInv
  <2> QED BY <1>2, <2>1, <2>2 DEF LineInv, FlagInv, reading
<1>5. CASE ConsumeLineReady
  <2>1. pc = "poll" /\ pc' = (IF line_ready THEN "first" ELSE "halt") /\ ~line_ready'
    BY <1>5 DEF ConsumeLineReady
  <2>2. RingInv'
    BY <1>3, <2>1 DEF Taken, Stale, RingInv
  <2>3. LineInv'
    BY <2>1 DEF LineInv, reading
  <2>4. FlagInv'
    BY <1>2, <2>1 DEF FlagInv, reading
  <2> QED BY <2>2, <2>3, <2>4
<1>6. CASE First
  <2>1. pc = "first" /\ pc' = "test" /\ line' = <<kb.buf[kb.head]>> /\ line_ready' = line_ready
    BY <1>6 DEF First
  <2>2. Len(unread) > 0
    BY <1>1, <2>1 DEF FlagInv, reading
  <2>3. kb.head # R /\ Taken = 0 /\ Left = Len(unread) /\ Here = kb.head
    BY <1>1, <2>1 DEF RingInv, Taken, Left, Here
  <2>4. kb.buf[kb.head] = unread[1]
    <3>1. Here \in 0 .. R - 1 /\ R \in Nat /\ R > 1
      BY RingFacts, RingArithmetic
    <3>2. 0 \in 0 .. R - 1 /\ 0 < Left /\ At(Here + 0) = Here
      BY <1>1, <2>2, <2>3, <3>1 DEF At
    <3>3. kb.buf[At(Here + 0)] = unread[Taken + 0 + 1]
      BY <3>2 DEF RingInv
    <3> QED BY <2>3, <3>2, <3>3
  <2>5. unread[1] \in Typed
    BY <1>1, <2>2
  <2>6. line' \in Seq(Typed) /\ Len(line') = 1 /\ line'[1] = unread[1]
    BY <2>1, <2>4, <2>5
  <2>7. RingInv'
    BY <1>3, <2>1, <2>3, <2>6 DEF Taken, Stale
  <2>8. LineInv'
    BY <1>1, <1>2, <2>1, <2>2, <2>6 DEF LineInv, reading
  <2>9. FlagInv'
    BY <1>2, <2>1 DEF FlagInv, reading
  <2> QED BY <2>7, <2>8, <2>9
<1>7. CASE Test
  <2>1. /\ pc = "test" /\ line' = line /\ line_ready' = line_ready
        /\ pc' = IF kb.count > 0 /\ Last(line) # NL THEN "step" ELSE "final"
    BY <1>7 DEF Test
  <2>2. Len(line) \in 1 .. Len(unread)
    BY <2>1 DEF LineInv, reading
  <2>3. kb.count > 0
    <3>1. Left = Len(unread) - (Len(line) - 1) /\ kb.count = Left
      BY <2>1 DEF Left, Taken, RingInv, Stale
    <3> QED BY <1>1, <2>2, <3>1
  <2>4. pc' = IF line[Len(line)] # NL THEN "step" ELSE "final"
    BY <2>1, <2>3 DEF Last
  <2>5. RingInv'
    BY <1>3, <2>1, <2>4 DEF Taken, Stale, RingInv
  <2>6. LineInv'
    BY <1>2, <2>1, <2>4 DEF LineInv, reading
  <2>7. FlagInv'
    BY <1>2, <2>1, <2>4 DEF FlagInv, reading
  <2> QED BY <2>5, <2>6, <2>7
<1>8. CASE Run
  <2>1. pc = "run" /\ pc' = "halt" /\ line_ready' = line_ready
    BY <1>8 DEF Run
  <2>2. RingInv'
    BY <1>3, <2>1 DEF Taken, Stale, RingInv
  <2> QED BY <1>2, <2>1, <2>2 DEF LineInv, FlagInv, reading
<1> QED BY <1>4, <1>5, <1>6, <1>7, <1>8

\* The head moves on, and the character it leaves is counted once more.
LEMMA AdvanceKeeps ==
  ASSUME RingInv, LineInv, FlagInv, Step \/ Final
  PROVE  RingInv' /\ LineInv' /\ FlagInv'
<1>1. /\ (pc = "step" /\ pc' = "store") \/ (pc = "final" /\ pc' = "fstore")
      /\ kb' = [kb EXCEPT !.head = Inc(@)]
      /\ UNCHANGED <<line_ready, line, unread, want>>
  BY DEF Step, Final, Advance
<1>2. /\ R \in Nat /\ R > 1 /\ Here \in 0 .. R - 1 /\ Left \in 0 .. R /\ Taken \in Nat
      /\ Len(unread) \in Nat /\ Taken + Left = Len(unread)
  BY RingArithmetic, RingFacts
<1>t. /\ unread \in Seq(Typed) /\ kb.head \in 0 .. R /\ kb.tail \in 0 .. R - 1
      /\ kb.count \in 0 .. R /\ kb.buf \in [Index -> Typed \cup {NUL}]
      /\ kb.tail = At(Here + Left)
      /\ \A i \in 0 .. R - 1 : i < Left => kb.buf[At(Here + i)] = unread[Taken + i + 1]
  BY DEF RingInv
<1>3. kb.head \in 0 .. R - 1 /\ Here = kb.head
  BY <1>1, <1>2, <1>t DEF RingInv, Here
<1>4. kb' = [head |-> kb.head + 1, tail |-> kb.tail, count |-> kb.count, buf |-> kb.buf]
  <2>1. kb' = [head |-> Inc(kb.head), tail |-> kb.tail, count |-> kb.count, buf |-> kb.buf]
    BY <1>1 DEF RingInv
  <2> QED BY <1>3, <2>1, RingArithmetic
<1>5. /\ kb'.head = kb.head + 1 /\ kb'.tail = kb.tail /\ kb'.count = kb.count
      /\ kb'.buf = kb.buf
  BY <1>4
<1>6. Len(line) \in 1 .. Len(unread) /\ Taken = Len(line) - 1 /\ Taken' = Len(line)
  BY <1>1 DEF LineInv, reading, Taken
<1>7. Left' = Left - 1 /\ Left > 0 /\ Taken' = Taken + 1
  BY <1>1, <1>2, <1>6 DEF Left
<1>8. Here' = At(kb.head + 1) /\ Here' \in 0 .. R - 1
  BY <1>2, <1>3, <1>5 DEF Here, At
<1>9. \A i \in 0 .. R - 1 : At(Here' + i) = At(Here + (i + 1))
  <2>1. \A h, i \in 0 .. R - 1 : At(At(h + 1) + i) = At(h + (i + 1))
    BY <1>2 DEF At
  <2> QED BY <1>2, <1>3, <1>8, <2>1
<1>10. kb' \in [head : 0 .. R, tail : 0 .. R - 1, count : 0 .. R,
                buf : [Index -> Typed \cup {NUL}]]
  <2>1. kb.head + 1 \in 0 .. R
    BY <1>2, <1>3
  <2> QED BY <1>t, <1>4, <2>1
<1>11. kb'.count = Left' + Stale'
  <2>1. kb.count = Left + 0
    BY <1>1 DEF RingInv, Stale
  <2>2. Stale' = 1
    BY <1>1 DEF Stale
  <2> QED BY <1>2, <1>5, <1>7, <2>1, <2>2
<1>12. kb'.tail = At(Here' + Left')
  <2>1. Left - 1 \in 0 .. R - 1
    BY <1>2, <1>7
  <2>2. At(Here' + (Left - 1)) = At(Here + (Left - 1 + 1)) /\ Left - 1 + 1 = Left
    BY <1>2, <1>9, <2>1
  <2> QED BY <1>t, <1>5, <1>7, <2>2
<1>13. ASSUME NEW i \in 0 .. R - 1, i < Left - 1
       PROVE  kb'.buf[At(Here' + i)] = unread'[Taken' + i + 1]
  <2>1. i + 1 \in 0 .. R - 1 /\ i + 1 < Left /\ Taken' + i + 1 = Taken + (i + 1) + 1
    BY <1>2, <1>7, <1>13
  <2>2. kb.buf[At(Here + (i + 1))] = unread[Taken + (i + 1) + 1]
    BY <1>t, <2>1
  <2> QED BY <1>1, <1>5, <1>9, <2>1, <2>2
<1>14. Taken' \in 0 .. Len(unread') /\ Left' <= R
  BY <1>1, <1>2, <1>6, <1>7
<1>15. RingInv'
  BY <1>1, <1>t, <1>7, <1>10, <1>11, <1>12, <1>13, <1>14 DEF RingInv
<1>16. LineInv'
  BY <1>1 DEF LineInv, reading
<1>17. FlagInv'
  BY <1>1 DEF FlagInv, reading
<1> QED BY <1>15, <1>16, <1>17

\* The count goes down, with no key since it was loaded.
LEMMA StoreKeeps ==
  ASSUME RingInv, LineInv, FlagInv, Store, ~spoiled'
  PROVE  RingInv' /\ LineInv' /\ FlagInv'
<1>1. /\ pc = "store" /\ pc' = "read" /\ UNCHANGED <<line_ready, line, unread, want>>
      /\ kb' = [kb EXCEPT !.count = Dec(kb.count)]
  BY DEF Store, Spoil
<1>2. /\ R \in Nat /\ R > 1 /\ Left \in 0 .. R /\ kb.count = Left + 1 /\ kb.count \in 0 .. R
  BY <1>1, RingArithmetic, RingFacts DEF RingInv, Stale
<1>3. Dec(kb.count) = Left /\ kb.count \in 1 .. R
  <2>1. kb.count \in 1 .. R
    BY <1>2
  <2>2. Dec(kb.count) = kb.count - 1
    BY <2>1, RingArithmetic
  <2> QED BY <1>2, <2>1, <2>2
<1>4. kb' = [head |-> kb.head, tail |-> kb.tail, count |-> Left, buf |-> kb.buf]
  BY <1>1, <1>3 DEF RingInv
<1>5. /\ kb'.head = kb.head /\ kb'.tail = kb.tail /\ kb'.count = Left /\ kb'.buf = kb.buf
  BY <1>4
<1>6. Taken' = Taken /\ Stale' = 0 /\ Left' = Left /\ Here' = Here
  BY <1>1, <1>5 DEF Taken, Stale, Left, Here
<1>7. kb' \in [head : 0 .. R, tail : 0 .. R - 1, count : 0 .. R,
               buf : [Index -> Typed \cup {NUL}]]
  BY <1>2, <1>4 DEF RingInv
<1>8. RingInv'
  BY <1>1, <1>2, <1>5, <1>6, <1>7 DEF RingInv
<1>9. LineInv'
  BY <1>1 DEF LineInv, reading
<1>10. FlagInv'
  BY <1>1 DEF FlagInv, reading
<1> QED BY <1>8, <1>9, <1>10

\* The next character, from a slot before the last.
LEMMA ReadKeeps ==
  ASSUME RingInv, LineInv, FlagInv, Read, ~spoiled'
  PROVE  RingInv' /\ LineInv' /\ FlagInv'
<1>1. /\ pc = "read" /\ pc' = "test" /\ UNCHANGED <<line_ready, unread, want>>
      /\ line' = Append(line, kb.buf[kb.head])
      /\ kb' = [kb EXCEPT !.head = Wrap(@)] /\ kb.head # R
  BY DEF Read, Spoil, R
<1>2. /\ R \in Nat /\ R > 1 /\ Here \in 0 .. R - 1 /\ Left \in 0 .. R /\ Taken \in Nat
      /\ Len(unread) \in Nat /\ Taken + Left = Len(unread) /\ kb.head \in 0 .. R
  BY RingArithmetic, RingFacts DEF RingInv
<1>3. kb' = kb /\ Here = kb.head
  <2>1. Wrap(kb.head) = kb.head
    BY <1>1, <1>2, RingArithmetic
  <2> QED BY <1>1, <2>1 DEF RingInv, Here
<1>4. /\ line \in Seq(Typed) /\ Len(line) \in 1 .. Len(unread)
      /\ \A i \in 1 .. Len(line) : line[i] = unread[i]
      /\ \A i \in 1 .. Len(line) - 1 : line[i] # NL
      /\ line[Len(line)] # NL
  BY <1>1 DEF LineInv, reading
<1>5. Len(line) < Len(unread)
  <2>1. PICK i \in 1 .. Len(unread) : unread[i] = NL
    BY <1>1 DEF FlagInv, reading
  <2>2. ASSUME Len(line) = Len(unread) PROVE FALSE
    <3>1. line[i] = NL /\ i \in 1 .. Len(line)
      BY <1>4, <2>1, <2>2
    <3>2. i = Len(line) \/ i \in 1 .. Len(line) - 1
      BY <1>2, <1>4, <3>1
    <3> QED BY <1>4, <3>1, <3>2
  <2> QED BY <1>2, <1>4, <2>2
<1>6. Taken = Len(line) /\ Left > 0
  BY <1>1, <1>2, <1>5 DEF Taken
<1>7. kb.buf[kb.head] = unread[Len(line) + 1]
  <2>1. 0 \in 0 .. R - 1 /\ 0 < Left /\ At(Here + 0) = Here
    BY <1>2, <1>6 DEF At
  <2>2. kb.buf[At(Here + 0)] = unread[Taken + 0 + 1]
    BY <2>1 DEF RingInv
  <2>3. Taken + 0 + 1 = Len(line) + 1
    BY <1>2, <1>6
  <2> QED BY <1>3, <2>1, <2>2, <2>3
<1>8. Len(line) + 1 \in 1 .. Len(unread) /\ unread \in Seq(Typed)
  BY <1>2, <1>4, <1>5 DEF RingInv
<1>9. unread[Len(line) + 1] \in Typed
  BY <1>8
<1>10. /\ line' \in Seq(Typed) /\ Len(line') = Len(line) + 1
       /\ line'[Len(line) + 1] = unread[Len(line) + 1]
       /\ \A i \in 1 .. Len(line) : line'[i] = line[i]
  BY <1>1, <1>4, <1>7, <1>9
<1>11. Taken' = Taken /\ Stale' = Stale
  BY <1>1, <1>2, <1>6, <1>10 DEF Taken, Stale
<1>12. RingInv'
  BY <1>1, <1>3, <1>11 DEF RingInv, Left, Here
<1>13. /\ \A i \in 1 .. Len(line') : line'[i] = unread[i]
       /\ \A i \in 1 .. Len(line') - 1 : line'[i] # NL
  <2>1. \A i \in 1 .. Len(line') : i \in 1 .. Len(line) \/ i = Len(line) + 1
    BY <1>4, <1>10
  <2>2. \A i \in 1 .. Len(line') - 1 :
           i \in 1 .. Len(line) /\ (i = Len(line) \/ i \in 1 .. Len(line) - 1)
    BY <1>2, <1>4, <1>10
  <2>3. \A i \in 1 .. Len(line') : line'[i] = unread[i]
    BY <1>4, <1>10, <2>1
  <2>4. \A i \in 1 .. Len(line') - 1 : line'[i] # NL
    BY <1>4, <1>10, <2>2
  <2> QED BY <2>3, <2>4
<1>14. Len(line') \in 1 .. Len(unread')
  BY <1>1, <1>8, <1>10
<1>15. LineInv'
  BY <1>1, <1>10, <1>13, <1>14 DEF LineInv, reading
<1>16. FlagInv'
  BY <1>1 DEF FlagInv, reading
<1> QED BY <1>12, <1>15, <1>16

\* The first '\n' is where the line ends.
LEMMA FirstNewline ==
  ASSUME NEW q \in Seq(Typed), NEW n \in 1 .. Len(q), q[n] = NL,
         \A i \in 1 .. n - 1 : q[i] # NL
  PROVE  SelectInSeq(q, LAMBDA c : c = NL) = n
<1> DEFINE I == {i \in 1 .. Len(q) : q[i] = NL}
<1>1. n \in I /\ n \in Nat /\ Len(q) \in Nat
  OBVIOUS
<1>2. \A y \in I : n <= y
  <2> SUFFICES ASSUME NEW y \in I, ~(n <= y) PROVE FALSE
    OBVIOUS
  <2>1. y \in 1 .. n - 1
    BY <1>1
  <2> QED BY <2>1
<1>3. Min(I) = n
  <2>1. \A x \in I : (\A y \in I : x <= y) => x = n
    BY <1>1, <1>2
  <2> QED BY <1>1, <1>2, <2>1 DEF Min
<1> QED BY <1>1, <1>3 DEF SelectInSeq

\* The line is complete: it is handed to the command, and the input goes on after
\* its '\n'.
LEMMA FinalStoreKeeps ==
  ASSUME RingInv, LineInv, FlagInv, FinalStore, ~spoiled'
  PROVE  RingInv' /\ LineInv' /\ FlagInv'
<1> DEFINE n == Len(line)
           rest == SubSeq(unread, n + 1, Len(unread))
<1>1. /\ pc = "fstore" /\ pc' = "run" /\ line' = Front(line) /\ ReadLine
      /\ kb' = [kb EXCEPT !.count = Dec(kb.count), !.head = Wrap(@)]
      /\ line_ready' = line_ready
  BY DEF FinalStore, Spoil
<1>2. /\ R \in Nat /\ R > 1 /\ Left \in 0 .. R /\ kb.count = Left + 1 /\ kb.count \in 0 .. R
      /\ Taken \in Nat /\ Len(unread) \in Nat /\ Taken + Left = Len(unread)
  BY <1>1, RingArithmetic, RingFacts DEF RingInv, Stale
<1>3. /\ line \in Seq(Typed) /\ n \in 1 .. Len(unread)
      /\ \A i \in 1 .. n : line[i] = unread[i]
      /\ \A i \in 1 .. n - 1 : line[i] # NL
      /\ line[n] = NL
  BY <1>1 DEF LineInv, reading
<1>4. unread \in Seq(Typed) /\ n \in Nat /\ Taken = n
  BY <1>1, <1>2, <1>3 DEF RingInv, Taken
<1>5. SelectInSeq(unread, LAMBDA c : c = NL) = n
  <2>1. unread[n] = NL /\ \A i \in 1 .. n - 1 : unread[i] # NL
    <3>1. n \in 1 .. n /\ \A i \in 1 .. n - 1 : i \in 1 .. n
      BY <1>3, <1>4
    <3> QED BY <1>3, <3>1
  <2> QED BY <1>3, <1>4, <2>1, FirstNewline
<1>6. want' = SubSeq(unread, 1, n - 1) /\ unread' = rest
  BY <1>1, <1>5 DEF ReadLine
<1>7. line' = want'
  <2>1. n - 1 \in 0 .. n /\ n - 1 \in 0 .. Len(unread)
    BY <1>2, <1>3, <1>4
  <2>2. /\ SubSeq(unread, 1, n - 1) = [i \in 1 .. n - 1 |-> unread[i]]
        /\ SubSeq(line, 1, n - 1) = [i \in 1 .. n - 1 |-> line[i]]
    BY <1>3, <1>4, <2>1
  <2>3. \A i \in 1 .. n - 1 : line[i] = unread[i]
    BY <1>3, <1>4
  <2>4. [i \in 1 .. n - 1 |-> unread[i]] = [i \in 1 .. n - 1 |-> line[i]]
    BY <2>3
  <2> QED BY <1>1, <1>6, <2>2, <2>4 DEF Front
<1>8. /\ unread' \in Seq(Typed) /\ Len(unread') = Len(unread) - n
      /\ \A i \in 1 .. Len(unread) - n : unread'[i] = unread[n + i]
  <2>1. n \in 0 .. Len(unread)
    BY <1>2, <1>3
  <2> QED BY <1>4, <1>6, <2>1
<1>9. Dec(kb.count) = Left /\ Wrap(kb.head) = Here
  <2>1. kb.count \in 1 .. R /\ kb.head \in 0 .. R
    BY <1>2 DEF RingInv
  <2>2. Dec(kb.count) = kb.count - 1 /\ Wrap(kb.head) = IF kb.head = R THEN 0 ELSE kb.head
    BY <2>1, RingArithmetic
  <2> QED BY <1>2, <2>2 DEF Here
<1>10. kb' = [head |-> Here, tail |-> kb.tail, count |-> Left, buf |-> kb.buf]
  BY <1>1, <1>9 DEF RingInv
<1>11. /\ kb'.head = Here /\ kb'.tail = kb.tail /\ kb'.count = Left /\ kb'.buf = kb.buf
       /\ Here \in 0 .. R - 1 /\ Here \in 0 .. R
  BY <1>10, RingFacts, RingArithmetic
<1>12. Taken' = 0 /\ Stale' = 0 /\ Left' = Left /\ Here' = Here /\ kb'.head # R
  <2>1. Taken' = 0 /\ Stale' = 0
    BY <1>1 DEF Taken, Stale
  <2>2. Left' = Left
    BY <1>2, <1>4, <1>8, <2>1 DEF Left
  <2>3. kb'.head # R
    BY <1>2, <1>11
  <2> QED BY <1>11, <2>1, <2>2, <2>3 DEF Here
<1>13. kb' \in [head : 0 .. R, tail : 0 .. R - 1, count : 0 .. R,
                buf : [Index -> Typed \cup {NUL}]]
  BY <1>2, <1>10, <1>11 DEF RingInv
<1>14. ASSUME NEW i \in 0 .. R - 1, i < Left
       PROVE  kb.buf[At(Here + i)] = unread'[i + 1]
  <2>1. i + 1 \in 1 .. Len(unread) - n /\ n + (i + 1) = Taken + i + 1
    BY <1>2, <1>4, <1>14
  <2>2. kb.buf[At(Here + i)] = unread[Taken + i + 1]
    BY <1>14 DEF RingInv
  <2> QED BY <1>8, <2>1, <2>2
<1>15. RingInv'
  <2>1. \A i \in 0 .. R - 1 : 0 + i + 1 = i + 1
    BY <1>2
  <2>2. \A i \in 0 .. R - 1 : i < Left' => kb'.buf[At(Here' + i)] = unread'[Taken' + i + 1]
    BY <1>11, <1>12, <1>14, <2>1
  <2>3. kb'.tail = At(Here' + Left') /\ kb'.count = Left' + Stale'
    BY <1>2, <1>11, <1>12 DEF RingInv
  <2>4. Taken' \in 0 .. Len(unread') /\ Left' <= R
    BY <1>2, <1>8, <1>12
  <2> QED BY <1>8, <1>12, <1>13, <2>2, <2>3, <2>4 DEF RingInv
<1>16. LineInv'
  BY <1>1, <1>7 DEF LineInv, reading
<1>17. ASSUME line_ready
       PROVE  \E i \in 1 .. Len(unread') : unread'[i] = NL
  <2>1. PICK i, j \in 1 .. Len(unread) : i < j /\ unread[i] = NL /\ unread[j] = NL
    BY <1>1, <1>17 DEF FlagInv, reading
  <2>2. ~(i < n)
    <3>1. i < n => i \in 1 .. n - 1 /\ i \in 1 .. n
      BY <1>4
    <3> QED BY <1>3, <2>1, <3>1
  <2>3. j - n \in 1 .. Len(unread) - n /\ n + (j - n) = j
    BY <1>2, <1>4, <2>1, <2>2
  <2> QED BY <1>8, <2>1, <2>3
<1>18. FlagInv'
  BY <1>1, <1>17 DEF FlagInv, reading
<1> QED BY <1>15, <1>16, <1>18

\* One step keeps the input in order.
LEMMA StepKeys ==
  ASSUME KeyInv, [Next]_vars
  PROVE  KeyInv'
<1> SUFFICES ASSUME ~spoiled' PROVE RingInv' /\ LineInv' /\ FlagInv'
  BY DEF KeyInv
<1>1. CASE UNCHANGED vars
  BY <1>1 DEF vars, KeyInv, RingInv, LineInv, FlagInv, Taken, Left, Here, Stale
<1>2. CASE Next
  <2>1. ~spoiled
    BY <1>2 DEF Next, Main, KeyChar, KeyEnter, KeyBackspace, Timer, ConsumeLineReady, First,
                Test, Step, Advance, Store, Read, Final, FinalStore, Run, Spoil
  <2>2. RingInv /\ LineInv /\ FlagInv
    BY <2>1 DEF KeyInv
  <2>3. ASSUME NEW c \in Chars, KeyChar(c) PROVE RingInv' /\ LineInv' /\ FlagInv'
    BY <2>2, <2>3, CharKeeps
  <2>4. CASE KeyEnter
    BY <2>2, <2>4, EnterKeeps
  <2>5. CASE KeyBackspace
    BY <2>2, <2>5, BackspaceKeeps
  <2>6. CASE Timer \/ ConsumeLineReady \/ First \/ Test \/ Run
    BY <2>2, <2>6, StandingKeeps
  <2>7. CASE Step \/ Final
    BY <2>2, <2>7, AdvanceKeeps
  <2>8. CASE Store
    BY <2>2, <2>8, StoreKeeps
  <2>9. CASE Read
    BY <2>2, <2>9, ReadKeeps
  <2>10. CASE FinalStore
    BY <2>2, <2>10, FinalStoreKeeps
  <2> QED BY <1>2, <2>3, <2>4, <2>5, <2>6, <2>7, <2>8, <2>9, <2>10 DEF Next, Main
<1> QED BY <1>1, <1>2

\* Nothing has been typed at first.
LEMMA InitKeys == Init => KeyInv
<1> SUFFICES ASSUME Init PROVE RingInv /\ LineInv /\ FlagInv
  BY DEF KeyInv
<1>1. /\ kb = [head |-> 0, tail |-> 0, count |-> 0, buf |-> [i \in Index |-> NUL]]
      /\ pc = "poll" /\ unread = <<>> /\ ~line_ready
  BY DEF Init
<1>2. R \in Nat /\ R > 1
  BY RingArithmetic
<1>3. /\ Taken = 0 /\ Len(unread) = 0 /\ Left = 0 /\ Here = 0 /\ Stale = 0
      /\ unread \in Seq(Typed) /\ At(0) = 0
  BY <1>1, <1>2 DEF Taken, Left, Here, Stale, At
<1>4. RingInv
  BY <1>1, <1>2, <1>3 DEF RingInv
<1>5. LineInv /\ FlagInv
  BY <1>1 DEF LineInv, FlagInv, reading
<1> QED BY <1>4, <1>5

\* Whichever access of the main loop the keyboard interrupt falls on, a command
\* gets the line that was typed for it, and between two lines the ring holds
\* exactly what is still unread, up to the first of the five events that the code
\* does not survive.
THEOREM InputIntactHolds == Spec => []InputIntact
<1>1. KeyInv => InputIntact
  <2> SUFFICES ASSUME KeyInv, ~spoiled
               PROVE  /\ pc = "run" => line = want
                      /\ pc \notin reading => kb.count = Len(unread) /\ Held(kb.count) = unread
    BY DEF InputIntact
  <2>1. RingInv /\ LineInv
    BY DEF KeyInv
  <2>2. ASSUME pc \notin reading
        PROVE  kb.count = Len(unread) /\ Held(kb.count) = unread
    <3>1. /\ Taken = 0 /\ Stale = 0 /\ kb.head # R /\ Here = kb.head
      BY <2>1, <2>2 DEF Taken, Stale, RingInv, Here, reading
    <3>2. /\ Left = Len(unread) /\ kb.count = Len(unread) /\ Here \in 0 .. R - 1
          /\ R \in Nat \ {0} /\ BufLen - 1 = R /\ Left \in 0 .. R /\ unread \in Seq(Typed)
      BY <2>1, <3>1, RingFacts, RingArithmetic DEF Left, RingInv, R
    <3>3. ASSUME NEW i \in 1 .. Len(unread)
          PROVE  kb.buf[(kb.head + i - 1) % (BufLen - 1)] = unread[i]
      <4> DEFINE x == kb.head + i - 1
      <4>1. /\ x \in Nat /\ x < 2 * R /\ x = Here + (i - 1)
            /\ i - 1 \in 0 .. R - 1 /\ i - 1 < Left /\ Taken + (i - 1) + 1 = i
        BY <3>1, <3>2
      <4>2. kb.buf[At(Here + (i - 1))] = unread[Taken + (i - 1) + 1]
        BY <2>1, <4>1 DEF RingInv
      <4> HIDE DEF x
      <4>3. x % R = At(x)
        BY <3>2, <4>1, ModOnce DEF At
      <4>4. kb.buf[x % (BufLen - 1)] = unread[i]
        BY <3>2, <4>1, <4>2, <4>3
      <4> QED BY <4>4 DEF x
    <3>4. unread = [i \in 1 .. Len(unread) |-> unread[i]]
      BY <3>2
    <3>5. Held(kb.count) = [i \in 1 .. Len(unread) |-> unread[i]]
      BY <3>2, <3>3 DEF Held
    <3> QED BY <3>2, <3>4, <3>5
  <2> QED BY <2>1, <2>2 DEF LineInv
<1>2. QED BY <1>1, InitKeys, StepKeys, PTL DEF Spec
=============================================================================
