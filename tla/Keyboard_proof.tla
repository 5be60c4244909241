--------------------------- MODULE Keyboard_proof ---------------------------
(***************************************************************************)
(* Theorems about Keyboard, for any size of the ring, any keys and any     *)
(* number of scancodes.                                                    *)
(***************************************************************************)
EXTENDS Keyboard, TLAPS

USE DEF vars

\* The ring has at least two slots, one of which is always left empty.
LEMMA RingSize == KB_BUFFER_SIZE \in Nat /\ KB_BUFFER_SIZE >= 2
  BY KeyboardAssumption

\* The remainder that the index computations of keyboard.c need.
LEMMA SmallRemainder ==
    ASSUME NEW a \in Int, -KB_BUFFER_SIZE <= a, a < 2 * KB_BUFFER_SIZE
    PROVE  a % KB_BUFFER_SIZE = IF a < 0 THEN a + KB_BUFFER_SIZE
                                ELSE IF a < KB_BUFFER_SIZE THEN a
                                ELSE a - KB_BUFFER_SIZE
  BY RingSize

\* The index after i, without a remainder.
LEMMA SuccInRing ==
    ASSUME NEW i \in Indices
    PROVE  /\ Succ(i) = IF i = KB_BUFFER_SIZE - 1 THEN 0 ELSE i + 1
           /\ Succ(i) \in Indices
<1> DEFINE a == i + 1
<1>1. a \in Int /\ -KB_BUFFER_SIZE <= a /\ a < 2 * KB_BUFFER_SIZE
  BY RingSize DEF Indices
<1>2. Succ(i) = a % KB_BUFFER_SIZE
  BY DEF Succ
<1>3. a % KB_BUFFER_SIZE = IF a < 0 THEN a + KB_BUFFER_SIZE
                           ELSE IF a < KB_BUFFER_SIZE THEN a ELSE a - KB_BUFFER_SIZE
  <2> HIDE DEF a
  <2> QED BY <1>1, SmallRemainder
<1> QED BY <1>2, <1>3, RingSize DEF Indices

\* How many characters lie between two indices.
LEMMA Distance ==
    ASSUME NEW h \in Indices, NEW t \in Indices
    PROVE  (h - t) % KB_BUFFER_SIZE = IF h >= t THEN h - t ELSE h - t + KB_BUFFER_SIZE
<1> DEFINE a == h - t
<1>1. a \in Int /\ -KB_BUFFER_SIZE <= a /\ a < KB_BUFFER_SIZE
  BY RingSize DEF Indices
<1>2. a % KB_BUFFER_SIZE = IF a < 0 THEN a + KB_BUFFER_SIZE ELSE a
  <2> HIDE DEF a
  <2> QED BY <1>1, SmallRemainder, RingSize
<1> QED BY <1>2 DEF Indices

\* Where the i-th of them is.
LEMMA Place ==
    ASSUME NEW t \in Indices, NEW i \in 1 .. KB_BUFFER_SIZE
    PROVE  /\ (t + i - 1) % KB_BUFFER_SIZE =
                  IF t + i - 1 < KB_BUFFER_SIZE THEN t + i - 1 ELSE t + i - 1 - KB_BUFFER_SIZE
           /\ (t + i - 1) % KB_BUFFER_SIZE \in Indices
<1> DEFINE a == t + i - 1
<1>1. a \in Int /\ 0 <= a /\ a < 2 * KB_BUFFER_SIZE
  BY RingSize DEF Indices
<1>2. a % KB_BUFFER_SIZE = IF a < KB_BUFFER_SIZE THEN a ELSE a - KB_BUFFER_SIZE
  <2> HIDE DEF a
  <2> QED BY <1>1, SmallRemainder, RingSize
<1> QED BY <1>1, <1>2, RingSize DEF Indices

\* Two sequences with the same elements are the same.
LEMMA SameSequence ==
    ASSUME NEW S, NEW s \in Seq(S), NEW t \in Seq(S), Len(s) = Len(t),
           \A i \in 1 .. Len(s) : s[i] = t[i]
    PROVE  s = t
  OBVIOUS

\* Both tables map scancodes to ASCII characters.
LEMMA TableType ==
    /\ scancode_normal \in [0 .. 127 -> Chars]
    /\ scancode_shifted \in [0 .. 127 -> Chars]
<1>1. Len(NormalRow) = 84 /\ \A i \in 1 .. 84 : NormalRow[i] \in Chars
  BY DEF NormalRow, Chars
<1>2. Len(ShiftedRow) = 84 /\ \A i \in 1 .. 84 : ShiftedRow[i] \in Chars
  BY DEF ShiftedRow, Chars
<1>3. \A code \in 0 .. 127 : Lookup(NormalRow, code) \in Chars
  BY <1>1 DEF Lookup, Chars
<1>4. \A code \in 0 .. 127 : Lookup(ShiftedRow, code) \in Chars
  BY <1>2 DEF Lookup, Chars
<1> QED BY <1>3, <1>4 DEF scancode_normal, scancode_shifted
-----------------------------------------------------------------------------
(***************************************************************************)
(* What keyboard_getchar relies on between its accesses: nobody else moves *)
(* kb_tail, the buffer does not become empty again, the handler does not   *)
(* overwrite the character being read, also after kb_tail has been stored. *)
(***************************************************************************)
ReaderLocals ==
    /\ reader \in {"load", "store", "early_store"} => tail = kb_tail /\ kb_head # kb_tail
    /\ reader = "store" => c = kb_buffer[tail]
    /\ reader = "late_load" => kb_tail = Succ(tail)

KeyboardInv == TypeOK /\ ReaderLocals /\ ShiftNeverStuck

\* What one call of keyboard_handler may do to the ring.
RingStep ==
    \/ UNCHANGED <<kb_buffer, kb_head>>
    \/ /\ Succ(kb_head) # kb_tail
       /\ \E char \in Chars \ {0} : kb_buffer' = [kb_buffer EXCEPT ![kb_head] = char]
       /\ kb_head' = Succ(kb_head)

\* keyboard_handler keeps the ring or appends a character to it; shift_held
\* goes up with a shift key only, and goes down when one is released.
LEMMA HandlerStep ==
    ASSUME TypeOK, NEW scancode \in 0 .. 255, keyboard_handler(scancode)
    PROVE  /\ RingStep
           /\ shift_held' \in BOOLEAN
           /\ shift_held' => shift_held \/ scancode \in ShiftKeys
           /\ scancode \in {k + Break : k \in ShiftKeys} => ~shift_held'
<1> DEFINE char == IF shift_held THEN scancode_shifted[scancode] ELSE scancode_normal[scancode]
<1> USE DEF ShiftKeys, LeftShift, RightShift, Break
<1>1. CASE scancode \in ShiftKeys
  <2>1. scancode < Break /\ scancode \notin {k + Break : k \in ShiftKeys}
    BY <1>1
  <2>2. shift_held' = TRUE /\ UNCHANGED <<kb_buffer, kb_head>>
    BY <1>1, <2>1 DEF keyboard_handler
  <2> QED BY <1>1, <2>1, <2>2 DEF RingStep
<1>2. CASE scancode >= Break
  <2>1. scancode \notin ShiftKeys
    BY <1>2
  <2>2. CASE scancode \in {k + Break : k \in ShiftKeys}
    <3>1. scancode - Break \in ShiftKeys
      BY <2>2
    <3>2. shift_held' = FALSE /\ UNCHANGED <<kb_buffer, kb_head>>
      BY <1>2, <2>1, <3>1 DEF keyboard_handler
    <3> QED BY <3>2 DEF RingStep
  <2>3. CASE scancode \notin {k + Break : k \in ShiftKeys}
    <3>1. UNCHANGED <<kb_buffer, kb_head, shift_held>>
      BY <1>2, <2>1, <2>3 DEF keyboard_handler
    <3> QED BY <2>3, <3>1 DEF RingStep, TypeOK
  <2> QED BY <2>2, <2>3
<1>3. CASE scancode < Break /\ scancode \notin ShiftKeys
  <2>0. scancode \in 0 .. 127
    BY <1>3
  <2>1. char \in Chars
    BY <2>0, TableType
  <2>2. /\ UNCHANGED shift_held
        /\ \/ char = 0 /\ UNCHANGED <<kb_buffer, kb_head>>
           \/ char # 0 /\ Push(char)
    BY <1>3 DEF keyboard_handler
  <2> HIDE DEF char
  <2>3. RingStep
    BY <2>1, <2>2 DEF RingStep, Push
  <2> QED BY <1>3, <2>2, <2>3 DEF TypeOK
<1> QED BY <1>1, <1>2, <1>3

\* Appending a character does not disturb the reader: it goes to a free slot,
\* which is not the one being read.
LEMMA RingStepKeeps ==
    ASSUME TypeOK, ReaderLocals, RingStep, UNCHANGED <<kb_tail, tail, c>>,
           reader' = reader \/ reader' = "poll"
    PROVE  /\ kb_buffer' \in [Indices -> Chars] /\ kb_head' \in Indices
           /\ ReaderLocals'
<1>1. Succ(kb_head) \in Indices
  BY SuccInRing DEF TypeOK
<1>2. kb_buffer' \in [Indices -> Chars] /\ kb_head' \in Indices
  BY <1>1 DEF TypeOK, RingStep
<1>3. reader \in {"load", "store", "early_store"} => kb_head' # kb_tail' /\ kb_buffer'[tail] = kb_buffer[tail]
  BY DEF TypeOK, RingStep, ReaderLocals
<1> QED BY <1>2, <1>3 DEF ReaderLocals

\* The ring is empty, no key is held and nothing is being read after boot.
LEMMA InitKeyboard == Init => KeyboardInv
<1>1. 0 \in Indices /\ 0 \in Chars
  BY RingSize DEF Indices, Chars
<1> QED BY <1>1 DEF Init, KeyboardInv, TypeOK, ReaderLocals, ShiftNeverStuck

\* An interrupt of the keyboard keeps the invariant.
LEMMA KeyStep ==
    ASSUME KeyboardInv, NEW k \in Keys, KeyDown(k) \/ KeyUp(k)
    PROVE  KeyboardInv'
<1> USE DEF KeyboardInv
<1>0. k \in 0 .. 127
  BY KeyboardAssumption
<1>1. reader' = reader \/ reader' = "poll"
  BY DEF KeyDown, KeyUp, Wake
<1>2. CASE KeyDown(k)
  <2>1. RingStep /\ shift_held' \in BOOLEAN /\ (shift_held' => shift_held \/ k \in ShiftKeys)
    BY <1>0, <1>2, HandlerStep DEF KeyDown
  <2>2. kb_buffer' \in [Indices -> Chars] /\ kb_head' \in Indices /\ ReaderLocals'
    BY <1>1, <1>2, <2>1, RingStepKeeps DEF KeyDown
  <2>3. ShiftNeverStuck'
    BY <1>2, <2>1 DEF KeyDown, ShiftNeverStuck
  <2> QED BY <1>1, <1>2, <2>1, <2>2, <2>3 DEF KeyDown, TypeOK
<1>3. CASE KeyUp(k)
  <2>0. k + Break \in 0 .. 255 /\ k + Break \notin ShiftKeys
    BY <1>0 DEF Break, ShiftKeys, LeftShift, RightShift
  <2>1. /\ RingStep /\ shift_held' \in BOOLEAN
        /\ shift_held' => shift_held /\ k \notin ShiftKeys
    BY <2>0, <1>3, HandlerStep DEF KeyUp
  <2>2. kb_buffer' \in [Indices -> Chars] /\ kb_head' \in Indices /\ ReaderLocals'
    BY <1>1, <1>3, <2>1, RingStepKeeps DEF KeyUp
  <2>3. ShiftNeverStuck'
    BY <1>3, <2>1 DEF KeyUp, ShiftNeverStuck
  <2> QED BY <1>1, <1>3, <2>1, <2>2, <2>3 DEF KeyUp, TypeOK
<1> QED BY <1>2, <1>3

\* A step of the reader, or a tick, keeps the invariant.
LEMMA ReaderKeeps ==
    ASSUME KeyboardInv, Tick \/ ReaderStep
    PROVE  KeyboardInv'
<1> USE DEF KeyboardInv, TypeOK, ReaderLocals, ShiftNeverStuck
<1>0. Succ(tail) \in Indices
  BY SuccInRing
<1>1. CASE Tick
  BY <1>1 DEF Tick, Wake
<1>2. CASE Poll
  BY <1>2 DEF Poll
<1>3. CASE Load
  BY <1>3 DEF Load
<1>4. CASE Store
  BY <1>0, <1>4 DEF Store
<1>5. CASE EarlyStore
  BY <1>0, <1>5 DEF EarlyStore
<1>6. CASE LateLoad
  BY <1>6 DEF LateLoad
<1>7. CASE Halt
  BY <1>7 DEF Halt
<1> QED BY <1>1, <1>2, <1>3, <1>4, <1>5, <1>6, <1>7 DEF ReaderStep

(***************************************************************************)
(* The indices of keyboard.c stay in the ring, what it holds is ASCII, and *)
(* between its accesses keyboard_getchar finds what it found before.       *)
(***************************************************************************)
THEOREM KeyboardCorrect == Spec => []KeyboardInv
<1>1. Init => KeyboardInv
  BY InitKeyboard
<1>2. KeyboardInv /\ [Next]_vars => KeyboardInv'
  <2> SUFFICES ASSUME KeyboardInv, [Next]_vars
               PROVE  KeyboardInv'
    OBVIOUS
  <2>1. CASE UNCHANGED vars
    BY <2>1 DEF KeyboardInv, TypeOK, ReaderLocals, ShiftNeverStuck
  <2> QED BY <2>1, KeyStep, ReaderKeeps DEF Next
<1> QED BY <1>1, <1>2, PTL DEF Spec

\* The type invariant that the runs check.
THEOREM KeyboardTypeOK == Spec => []TypeOK
  BY KeyboardCorrect, PTL DEF KeyboardInv

\* shift_held, one flag for two keys, is never set while no shift key is down.
THEOREM ShiftEnds == Spec => []ShiftNeverStuck
  BY KeyboardCorrect, PTL DEF KeyboardInv
-----------------------------------------------------------------------------
\* The characters from index t up to h: what Pending is now, and what it is
\* after a step.
Between(b, h, t) ==
    [i \in 1 .. ((h - t) % KB_BUFFER_SIZE) |-> b[(t + i - 1) % KB_BUFFER_SIZE]]

\* The ring as a queue: its length, and its characters.
LEMMA BetweenIs ==
    ASSUME NEW b \in [Indices -> Chars], NEW h \in Indices, NEW t \in Indices
    PROVE  /\ Between(b, h, t) \in Seq(Chars)
           /\ Len(Between(b, h, t)) = IF h >= t THEN h - t ELSE h - t + KB_BUFFER_SIZE
           /\ \A i \in 1 .. Len(Between(b, h, t)) :
                  Between(b, h, t)[i] = b[IF t + i - 1 < KB_BUFFER_SIZE THEN t + i - 1
                                          ELSE t + i - 1 - KB_BUFFER_SIZE]
<1> DEFINE n == (h - t) % KB_BUFFER_SIZE
<1>1. n = IF h >= t THEN h - t ELSE h - t + KB_BUFFER_SIZE
  BY Distance
<1>2. n \in Nat /\ n < KB_BUFFER_SIZE
  BY <1>1, RingSize DEF Indices
<1>3. \A i \in 1 .. n :
          /\ (t + i - 1) % KB_BUFFER_SIZE \in Indices
          /\ (t + i - 1) % KB_BUFFER_SIZE =
                 IF t + i - 1 < KB_BUFFER_SIZE THEN t + i - 1 ELSE t + i - 1 - KB_BUFFER_SIZE
  <2> TAKE i \in 1 .. n
  <2>1. i \in 1 .. KB_BUFFER_SIZE
    BY <1>2, RingSize
  <2> QED BY <2>1, Place
<1>4. Between(b, h, t) = [i \in 1 .. n |-> b[(t + i - 1) % KB_BUFFER_SIZE]]
  BY DEF Between
<1> HIDE DEF n
<1>5. Between(b, h, t) \in Seq(Chars) /\ Len(Between(b, h, t)) = n
  BY <1>2, <1>3, <1>4
<1> QED BY <1>1, <1>3, <1>4, <1>5

\* The same of Pending, before a step.
LEMMA PendingIs ==
    ASSUME TypeOK
    PROVE  /\ Pending \in Seq(Chars)
           /\ Len(Pending) = IF kb_head >= kb_tail THEN kb_head - kb_tail
                             ELSE kb_head - kb_tail + KB_BUFFER_SIZE
           /\ \A i \in 1 .. Len(Pending) :
                  Pending[i] = kb_buffer[IF kb_tail + i - 1 < KB_BUFFER_SIZE THEN kb_tail + i - 1
                                         ELSE kb_tail + i - 1 - KB_BUFFER_SIZE]
<1>1. Pending = Between(kb_buffer, kb_head, kb_tail)
  BY DEF Pending, Between
<1> QED BY <1>1, BetweenIs DEF TypeOK

\* And after it.
LEMMA NextPendingIs ==
    ASSUME TypeOK'
    PROVE  /\ Pending' \in Seq(Chars)
           /\ Len(Pending') = IF kb_head' >= kb_tail' THEN kb_head' - kb_tail'
                              ELSE kb_head' - kb_tail' + KB_BUFFER_SIZE
           /\ \A i \in 1 .. Len(Pending') :
                  Pending'[i] = kb_buffer'[IF kb_tail' + i - 1 < KB_BUFFER_SIZE THEN kb_tail' + i - 1
                                           ELSE kb_tail' + i - 1 - KB_BUFFER_SIZE]
<1>1. Pending' = Between(kb_buffer', kb_head', kb_tail')
  BY DEF Pending, Between
<1> QED BY <1>1, BetweenIs DEF TypeOK

\* The handler's accepted character goes to the end of the queue.
LEMMA PushAppends ==
    ASSUME TypeOK, TypeOK', UNCHANGED kb_tail, Succ(kb_head) # kb_tail,
           NEW char \in Chars,
           kb_buffer' = [kb_buffer EXCEPT ![kb_head] = char],
           kb_head' = Succ(kb_head)
    PROVE  Len(Pending) < KB_BUFFER_SIZE - 1 /\ Pending' = Append(Pending, char)
<1>1. Succ(kb_head) = IF kb_head = KB_BUFFER_SIZE - 1 THEN 0 ELSE kb_head + 1
  BY SuccInRing DEF TypeOK
<1>2. Len(Pending) < KB_BUFFER_SIZE - 1 /\ Len(Pending') = Len(Pending) + 1
  <2>1. Len(Pending) = IF kb_head >= kb_tail THEN kb_head - kb_tail
                       ELSE kb_head - kb_tail + KB_BUFFER_SIZE
    BY PendingIs
  <2>2. Len(Pending') = IF kb_head' >= kb_tail THEN kb_head' - kb_tail
                        ELSE kb_head' - kb_tail + KB_BUFFER_SIZE
    BY NextPendingIs
  <2>3. /\ kb_head \in 0 .. (KB_BUFFER_SIZE - 1) /\ kb_tail \in 0 .. (KB_BUFFER_SIZE - 1)
        /\ kb_head' = IF kb_head = KB_BUFFER_SIZE - 1 THEN 0 ELSE kb_head + 1
        /\ kb_head' # kb_tail
    BY <1>1 DEF TypeOK, Indices
  <2>4. CASE kb_head = KB_BUFFER_SIZE - 1
    BY <2>1, <2>2, <2>3, <2>4, RingSize
  <2>5. CASE kb_head # KB_BUFFER_SIZE - 1
    BY <2>1, <2>2, <2>3, <2>5, RingSize
  <2> QED BY <2>4, <2>5
<1>3. Pending' \in Seq(Chars) /\ Append(Pending, char) \in Seq(Chars)
  BY PendingIs, NextPendingIs
<1>4. \A i \in 1 .. Len(Pending) : Pending'[i] = Pending[i]
  <2> TAKE i \in 1 .. Len(Pending)
  <2> DEFINE j == IF kb_tail + i - 1 < KB_BUFFER_SIZE THEN kb_tail + i - 1
                  ELSE kb_tail + i - 1 - KB_BUFFER_SIZE
  <2>1. Pending[i] = kb_buffer[j]
    BY PendingIs
  <2>2. i \in 1 .. Len(Pending')
    BY <1>2, PendingIs
  <2>3. Pending'[i] = kb_buffer'[j]
    BY <2>2, NextPendingIs
  <2>4. j \in Indices /\ j # kb_head
    BY PendingIs, RingSize DEF TypeOK, Indices
  <2> HIDE DEF j
  <2> QED BY <2>1, <2>3, <2>4 DEF TypeOK
<1>5. Pending'[Len(Pending) + 1] = char
  <2>1. Len(Pending) + 1 \in 1 .. Len(Pending')
    BY <1>2, PendingIs
  <2> DEFINE i == Len(Pending) + 1
             j == IF kb_tail + i - 1 < KB_BUFFER_SIZE THEN kb_tail + i - 1
                  ELSE kb_tail + i - 1 - KB_BUFFER_SIZE
  <2>2. Pending'[i] = kb_buffer'[j]
    BY <2>1, NextPendingIs
  <2>3. j = kb_head
    BY PendingIs, RingSize DEF TypeOK, Indices
  <2> HIDE DEF j
  <2> QED BY <2>2, <2>3 DEF TypeOK
<1>6. Len(Append(Pending, char)) = Len(Pending')
  BY <1>2, <1>3, PendingIs
<1>7. \A i \in 1 .. Len(Pending') : Pending'[i] = Append(Pending, char)[i]
  BY <1>2, <1>4, <1>5, PendingIs
<1> QED BY <1>2, <1>3, <1>6, <1>7, SameSequence

\* Storing kb_tail takes the first character off the queue.
LEMMA StoreTakes ==
    ASSUME TypeOK, TypeOK', UNCHANGED <<kb_buffer, kb_head>>, kb_head # kb_tail,
           kb_tail' = Succ(kb_tail)
    PROVE  /\ Pending # <<>>
           /\ Head(Pending) = kb_buffer[kb_tail]
           /\ Pending' = Tail(Pending)
<1>1. Succ(kb_tail) = IF kb_tail = KB_BUFFER_SIZE - 1 THEN 0 ELSE kb_tail + 1
  BY SuccInRing DEF TypeOK
<1>2. Len(Pending) > 0 /\ Len(Pending') = Len(Pending) - 1
  BY <1>1, PendingIs, NextPendingIs, RingSize DEF TypeOK, Indices
<1>3. Pending # <<>> /\ Pending[1] = kb_buffer[kb_tail]
  BY <1>2, PendingIs, RingSize DEF TypeOK, Indices
<1>4. Pending' \in Seq(Chars) /\ Tail(Pending) \in Seq(Chars) /\ Len(Tail(Pending)) = Len(Pending')
  BY <1>2, <1>3, PendingIs, NextPendingIs
<1>5. \A i \in 1 .. Len(Pending') : Pending'[i] = Tail(Pending)[i]
  <2> TAKE i \in 1 .. Len(Pending')
  <2>1. i + 1 \in 1 .. Len(Pending) /\ Tail(Pending)[i] = Pending[i + 1]
    BY <1>2, <1>4, PendingIs
  <2>2. Pending'[i] = kb_buffer[IF kb_tail' + i - 1 < KB_BUFFER_SIZE THEN kb_tail' + i - 1
                                ELSE kb_tail' + i - 1 - KB_BUFFER_SIZE]
    BY NextPendingIs
  <2>3. Pending[i + 1] = kb_buffer[IF kb_tail + (i + 1) - 1 < KB_BUFFER_SIZE
                                   THEN kb_tail + (i + 1) - 1
                                   ELSE kb_tail + (i + 1) - 1 - KB_BUFFER_SIZE]
    BY <2>1, PendingIs
  <2>4. (IF kb_tail' + i - 1 < KB_BUFFER_SIZE THEN kb_tail' + i - 1
         ELSE kb_tail' + i - 1 - KB_BUFFER_SIZE)
        = (IF kb_tail + (i + 1) - 1 < KB_BUFFER_SIZE THEN kb_tail + (i + 1) - 1
           ELSE kb_tail + (i + 1) - 1 - KB_BUFFER_SIZE)
    BY <1>1, <1>2, <2>1, PendingIs, RingSize DEF TypeOK, Indices
  <2> QED BY <2>1, <2>2, <2>3, <2>4
<1> QED BY <1>3, <1>4, <1>5, SameSequence, PendingIs

\* A key of the keyboard is an accepted character or no step of the queue.
LEMMA KeyRefines ==
    ASSUME KeyboardInv, KeyboardInv', NEW k \in Keys, KeyDown(k) \/ KeyUp(k)
    PROVE  Fifo!Put \/ UNCHANGED <<Pending, Taken>>
<1>1. k \in 0 .. 255 /\ k + Break \in 0 .. 255
  BY KeyboardAssumption DEF Break
<1>2. RingStep /\ UNCHANGED <<kb_tail, tail, c, read>> /\ Wake
  BY <1>1, HandlerStep DEF KeyDown, KeyUp, KeyboardInv
<1>3. UNCHANGED Taken
  <2>1. reader = "late_load" <=> reader' = "late_load"
    BY <1>2 DEF Wake
  <2>2. reader = "late_load" => kb_buffer'[tail] = kb_buffer[tail]
    BY <1>2 DEF RingStep, KeyboardInv, TypeOK, ReaderLocals
  <2> QED BY <1>2, <2>1, <2>2 DEF Taken
<1>4. CASE UNCHANGED <<kb_buffer, kb_head>>
  BY <1>2, <1>3, <1>4 DEF Pending
<1>5. ASSUME NEW char \in Chars \ {0}, Succ(kb_head) # kb_tail,
             kb_buffer' = [kb_buffer EXCEPT ![kb_head] = char],
             kb_head' = Succ(kb_head)
      PROVE  Fifo!Put
  <2>1. Len(Pending) < KB_BUFFER_SIZE - 1 /\ Pending' = Append(Pending, char)
    BY <1>2, <1>5, PushAppends DEF KeyboardInv
  <2> QED BY <1>3, <2>1 DEF Fifo!Put
<1> QED BY <1>2, <1>4, <1>5 DEF RingStep

\* A step of the reader takes the first character, or nothing.
LEMMA ReaderRefines ==
    ASSUME KeyboardInv, KeyboardInv', Tick \/ ReaderStep
    PROVE  Fifo!Take \/ UNCHANGED <<Pending, Taken>>
<1> USE DEF KeyboardInv
<1>1. CASE Tick
  BY <1>1 DEF Tick, Wake, Pending, Taken
<1>2. CASE Poll
  BY <1>2 DEF Poll, Pending, Taken
<1>3. CASE Load
  BY <1>3 DEF Load, Pending, Taken
<1>4. CASE Store
  <2>1. Pending # <<>> /\ Head(Pending) = c /\ Pending' = Tail(Pending)
    BY <1>4, StoreTakes DEF Store, ReaderLocals
  <2>2. Taken' = Append(Taken, c)
    BY <1>4 DEF Store, Taken
  <2> QED BY <2>1, <2>2 DEF Fifo!Take
<1>5. CASE EarlyStore
  <2>1. Pending # <<>> /\ Head(Pending) = kb_buffer[tail] /\ Pending' = Tail(Pending)
    BY <1>5, StoreTakes DEF EarlyStore, ReaderLocals
  <2>2. Taken' = Append(Taken, kb_buffer[tail])
    BY <1>5 DEF EarlyStore, Taken
  <2> QED BY <2>1, <2>2 DEF Fifo!Take
<1>6. CASE LateLoad
  BY <1>6 DEF LateLoad, Pending, Taken
<1>7. CASE Halt
  BY <1>7 DEF Halt, Pending, Taken
<1> QED BY <1>1, <1>2, <1>3, <1>4, <1>5, <1>6, <1>7 DEF ReaderStep

(***************************************************************************)
(* The ring buffer that IRQ1 fills and the shell empties, without a lock   *)
(* and with either order of the reader's two accesses, implements a        *)
(* first-in first-out queue of KB_BUFFER_SIZE - 1 characters: none is      *)
(* lost once accepted, none is read twice or torn.                         *)
(***************************************************************************)
THEOREM KeyboardIsFifo == Spec => ImplementsFifo
<1>1. Init => Fifo!Init
  <2> SUFFICES ASSUME Init PROVE Pending = <<>> /\ Taken = <<>>
    BY DEF Fifo!Init
  <2>1. TypeOK
    BY InitKeyboard DEF KeyboardInv
  <2>2. Len(Pending) = 0 /\ Pending \in Seq(Chars)
    BY <2>1, PendingIs, RingSize DEF Init
  <2> QED BY <2>2 DEF Init, Taken
<1>2. KeyboardInv /\ KeyboardInv' /\ [Next]_vars => [Fifo!Next]_<<Pending, Taken>>
  <2> SUFFICES ASSUME KeyboardInv, KeyboardInv', [Next]_vars
               PROVE  Fifo!Next \/ UNCHANGED <<Pending, Taken>>
    OBVIOUS
  <2>1. CASE UNCHANGED vars
    BY <2>1 DEF Pending, Taken
  <2> QED BY <2>1, KeyRefines, ReaderRefines DEF Next, Fifo!Next
<1> QED BY <1>1, <1>2, KeyboardCorrect, PTL DEF Spec, ImplementsFifo, Fifo!Spec
=============================================================================
