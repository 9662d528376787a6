--------------------------- MODULE KeyboardProofs ---------------------------
(***************************************************************************)
(* Proofs about Keyboard.tla, for any number of processes, any buffer size *)
(* that divides the word, and as many keys typed ahead as a word counts.   *)
(***************************************************************************)
EXTENDS Keyboard, SequenceTheorems, LoopTheorems

Slots == 0..(BufferSize - 1)

\* The characters that the modelled keys give
Chars == {49, 65, 97}

\* A ring buffer as the handlers leave it
Ring == [buffer : [Slots -> Chars \cup {0}], head : 0..(Word - 1), tail : 0..(Word - 1)]

\* Pending, Typed and keyboard_push of a buffer k
Waiting(k) == (k.tail - k.head) % Word
Contents(k) == [i \in 1..Waiting(k) |-> k.buffer[(k.head + i - 1) % BufferSize]]
Pushed(k, c) == [k EXCEPT !.buffer[k.tail % BufferSize] = c, !.tail = (@ + 1) % Word]

\* Buffer k holds no more than fits, and its zeros are its free slots
Sound(k) ==
    /\ Waiting(k) =< BufferSize
    /\ \A i \in Slots :
            k.buffer[i] = 0 <=> ~\E j \in 0..(Waiting(k) - 1) : i = (k.head + j) % BufferSize

\* The inductive invariant.  ZeroMarksFreeSlots alone is not inductive: with
\* more characters waiting than slots, taking one would clear the slot of
\* another.
IInv ==
    /\ TypeOK
    /\ \A p \in Procs : keyboard[p] \in Ring
    /\ \A p \in Procs \ overrun : Sound(keyboard[p])

-----------------------------------------------------------------------------
(* Indexes that wrap                                                       *)

LEMMA Sizes == /\ BufferSize \in Nat \ {0} /\ BufferSize \in Int
               /\ Word \in Nat \ {0} /\ Word \in Int
               /\ Word % BufferSize = 0
               /\ TypeAhead \in 0..(Word - 1)
  BY KeyboardAssumption

\* An index names the same slot before and after it wraps.
LEMMA SlotWraps ==
    ASSUME NEW x \in Int
    PROVE  (x + Word) % BufferSize = x % BufferSize
  <1>1. PICK k \in Int, z \in 0..(BufferSize - 1) :
            Word = k * BufferSize + z /\ Word % BufferSize = z
    BY Sizes, DivMod, Zenon
  <1>2. PICK q \in Int, r \in 0..(BufferSize - 1) :
            x = q * BufferSize + r /\ x % BufferSize = r
    BY Sizes, DivMod, Zenon
  <1>3. BufferSize \in Int /\ x + Word = (k + q) * BufferSize + r
    BY <1>1, <1>2, Sizes, Z3
  <1>4. x + Word \in Int /\ k + q \in Int /\ BufferSize \in Nat \ {0}
    BY Sizes
  <1>5. (x + Word) % BufferSize = r
    BY <1>3, <1>4, ModUnique
  <1> QED
    BY <1>2, <1>5

LEMMA SlotIn ==
    ASSUME NEW x \in Int
    PROVE  x % BufferSize \in Slots
  BY Sizes, Z3 DEF Slots

\* The characters that wait, without the remainder
LEMMA WaitingIs ==
    ASSUME NEW k \in Ring
    PROVE  /\ k.tail \in 0..(Word - 1) /\ k.head \in 0..(Word - 1)
           /\ Waiting(k) = IF k.tail >= k.head THEN k.tail - k.head
                                               ELSE k.tail - k.head + Word
           /\ Waiting(k) \in 0..(Word - 1)
  <1>1. k.tail \in 0..(Word - 1) /\ k.head \in 0..(Word - 1)
    BY DEF Ring
  <1> DEFINE x == k.tail - k.head
  <1>2. x \in Int /\ x > -Word /\ x < Word
    BY <1>1, Sizes
  <1>3. Waiting(k) = x % Word
    BY DEF Waiting
  <1>4. CASE x >= 0
    <2>1. x \in 0..(Word - 1) /\ x = 0 * Word + x /\ 0 \in Int
      BY <1>2, <1>4, Sizes
    <2>2. x % Word = x
      BY <1>2, <2>1, Sizes, ModUnique
    <2> QED
      BY <1>1, <1>3, <1>4, <2>1, <2>2
  <1>5. CASE x < 0
    <2>1. x + Word \in 0..(Word - 1) /\ x = -1 * Word + (x + Word) /\ -1 \in Int
      BY <1>2, <1>5, Sizes
    <2>2. x % Word = x + Word
      BY <1>2, <2>1, Sizes, ModUnique
    <2> QED
      BY <1>1, <1>3, <1>5, <2>1, <2>2
  <1> QED
    BY <1>2, <1>4, <1>5

\* An index after the next one
LEMMA Successor ==
    ASSUME NEW x \in 0..(Word - 1)
    PROVE  (x + 1) % Word = IF x = Word - 1 THEN 0 ELSE x + 1
  <1>1. x + 1 \in Int /\ 0 \in Int /\ 1 \in Int /\ 0 \in 0..(Word - 1)
    BY Sizes
  <1>2. CASE x = Word - 1
    <2>1. x + 1 = 1 * Word + 0
      BY <1>2, Sizes
    <2> QED
      BY <1>1, <1>2, <2>1, Sizes, ModUnique
  <1>3. CASE x # Word - 1
    <2>1. x + 1 = 0 * Word + (x + 1) /\ x + 1 \in 0..(Word - 1)
      BY <1>3, Sizes
    <2> QED
      BY <1>1, <1>3, <2>1, Sizes, ModUnique
  <1> QED
    BY <1>2, <1>3

\* The slot at tail comes after the slots in use.
LEMMA TailSlot ==
    ASSUME NEW k \in Ring
    PROVE  k.tail % BufferSize = (k.head + Waiting(k)) % BufferSize
  <1>1. k.tail \in Int /\ (k.head + Waiting(k) = k.tail \/ k.head + Waiting(k) = k.tail + Word)
    BY WaitingIs, Sizes
  <1> QED
    BY <1>1, SlotWraps

\* The slots seen from the next head
LEMMA NextSlot ==
    ASSUME NEW h \in 0..(Word - 1), NEW j \in Int
    PROVE  (((h + 1) % Word) + j) % BufferSize = (h + (j + 1)) % BufferSize
  <1> DEFINE m == (h + 1) % Word
  <1>1. m \in Int /\ (m = h + 1 \/ m = h + 1 - Word)
    BY Successor, Sizes
  <1> HIDE DEF m
  <1>2. m + j \in Int /\ (m + j = h + (j + 1) \/ (m + j) + Word = h + (j + 1))
    BY <1>1, Sizes
  <1>3. (m + j) % BufferSize = (h + (j + 1)) % BufferSize
    BY <1>2, SlotWraps
  <1> QED
    BY <1>3 DEF m

-----------------------------------------------------------------------------
(* What keyboard_push and keyboard_pop do to a buffer                      *)

LEMMA PushedFacts ==
    ASSUME NEW k \in Ring, NEW c \in Chars
    PROVE  /\ Pushed(k, c) \in Ring
           /\ Pushed(k, c).head = k.head
           /\ \A i \in Slots : Pushed(k, c).buffer[i] =
                    IF i = k.tail % BufferSize THEN c ELSE k.buffer[i]
           /\ Pushed(k, c).tail = (k.tail + 1) % Word
  <1>1. k.tail \in 0..(Word - 1) /\ k.buffer \in [Slots -> Chars \cup {0}]
    BY DEF Ring
  <1>2. (k.tail + 1) % Word \in 0..(Word - 1)
    BY <1>1, Successor, Sizes
  <1>3. k.tail % BufferSize \in Slots
    BY <1>1, SlotIn
  <1>4. [k.buffer EXCEPT ![k.tail % BufferSize] = c] \in [Slots -> Chars \cup {0}]
    BY <1>1, <1>3
  <1> QED
    BY <1>1, <1>2, <1>3, <1>4 DEF Pushed, Ring

\* A character pushed while there is room waits behind the others.
LEMMA PushWaits ==
    ASSUME NEW k \in Ring, NEW c \in Chars, Waiting(k) < Word - 1
    PROVE  Waiting(Pushed(k, c)) = Waiting(k) + 1
  <1> DEFINE l == Pushed(k, c)
  <1>1. l \in Ring /\ l.head = k.head /\ l.tail = (k.tail + 1) % Word
    BY PushedFacts
  <1>2. l.tail = IF k.tail = Word - 1 THEN 0 ELSE k.tail + 1
    BY <1>1, WaitingIs, Successor
  <1> HIDE DEF l
  <1>3. Waiting(l) = Waiting(k) + 1
    BY <1>1, <1>2, WaitingIs, Sizes
  <1> QED
    BY <1>3 DEF l

LEMMA PushSound ==
    ASSUME NEW k \in Ring, NEW c \in Chars, Sound(k),
           Waiting(k) < BufferSize, Waiting(k) < Word - 1
    PROVE  Sound(Pushed(k, c))
  <1> DEFINE l == Pushed(k, c)
             n == Waiting(k)
  <1>1. /\ l \in Ring /\ l.head = k.head
        /\ \A i \in Slots : l.buffer[i] = IF i = k.tail % BufferSize THEN c ELSE k.buffer[i]
    BY PushedFacts
  <1>2. Waiting(l) = n + 1 /\ n \in Nat /\ k.head \in Int
    BY PushWaits, WaitingIs, Sizes
  <1>3. k.tail % BufferSize = (k.head + n) % BufferSize
    BY TailSlot
  <1>4. \A i \in Slots : k.buffer[i] = 0 <=> ~\E j \in 0..(n - 1) : i = (k.head + j) % BufferSize
    BY DEF Sound
  <1>5. c # 0
    BY DEF Chars
  <1> HIDE DEF l, n
  <1>6. ASSUME NEW i \in Slots
        PROVE  l.buffer[i] = 0 <=> ~\E j \in 0..(Waiting(l) - 1) : i = (l.head + j) % BufferSize
    <2>1. (\E j \in 0..(Waiting(l) - 1) : i = (l.head + j) % BufferSize)
            <=> (i = k.tail % BufferSize \/ \E j \in 0..(n - 1) : i = (k.head + j) % BufferSize)
      <3>1. Waiting(l) - 1 = n
        BY <1>2
      <3>2. \A j \in 0..n : j = n \/ j \in 0..(n - 1)
        BY <1>2
      <3>3. n \in 0..n /\ \A j \in 0..(n - 1) : j \in 0..n
        BY <1>2
      <3> QED
        BY <1>1, <1>3, <3>1, <3>2, <3>3, Zenon
    <2> QED
      BY <1>1, <1>4, <1>5, <2>1, Zenon
  <1>7. Waiting(l) =< BufferSize
    BY <1>2, Sizes DEF n
  <1> QED
    BY <1>6, <1>7 DEF l, Sound

LEMMA ContentsSeq ==
    ASSUME NEW k \in Ring
    PROVE  /\ Contents(k) \in Seq(Chars \cup {0})
           /\ Len(Contents(k)) = Waiting(k)
           /\ \A i \in 1..Waiting(k) : Contents(k)[i] = k.buffer[(k.head + i - 1) % BufferSize]
  <1>1. Waiting(k) \in Nat /\ k.head \in Int /\ k.buffer \in [Slots -> Chars \cup {0}]
    BY WaitingIs, Sizes DEF Ring
  <1>2. \A i \in 1..Waiting(k) : k.buffer[(k.head + i - 1) % BufferSize] \in Chars \cup {0}
    <2> TAKE i \in 1..Waiting(k)
    <2>1. k.head + i - 1 \in Int
      BY <1>1
    <2> QED
      BY <1>1, <2>1, SlotIn
  <1> QED
    BY <1>1, <1>2 DEF Contents

LEMMA PushContents ==
    ASSUME NEW k \in Ring, NEW c \in Chars, Sound(k),
           Waiting(k) < BufferSize, Waiting(k) < Word - 1
    PROVE  Contents(Pushed(k, c)) = Append(Contents(k), c)
  <1> DEFINE l == Pushed(k, c)
             n == Waiting(k)
             S == Chars \cup {0}
  <1>1. /\ l \in Ring /\ l.head = k.head
        /\ \A i \in Slots : l.buffer[i] = IF i = k.tail % BufferSize THEN c ELSE k.buffer[i]
    BY PushedFacts
  <1>2. Waiting(l) = n + 1 /\ n \in Nat /\ n < BufferSize /\ k.head \in Int
    BY PushWaits, WaitingIs, Sizes
  <1>3. k.tail % BufferSize = (k.head + n) % BufferSize
    BY TailSlot
  <1> HIDE DEF l, n
  <1>4. /\ Contents(k) \in Seq(S) /\ Len(Contents(k)) = n
        /\ \A i \in 1..n : Contents(k)[i] = k.buffer[(k.head + i - 1) % BufferSize]
    BY ContentsSeq DEF n
  <1>5. /\ Contents(l) \in Seq(S) /\ Len(Contents(l)) = n + 1
        /\ \A i \in 1..(n + 1) : Contents(l)[i] = l.buffer[(k.head + i - 1) % BufferSize]
    BY <1>1, <1>2, ContentsSeq
  <1>6. c \in S
    OBVIOUS
  <1> HIDE DEF S
  <1>7. /\ Append(Contents(k), c) \in Seq(S)
        /\ Len(Append(Contents(k), c)) = n + 1
        /\ \A i \in 1..n : Append(Contents(k), c)[i] = Contents(k)[i]
        /\ Append(Contents(k), c)[n + 1] = c
    BY <1>2, <1>4, <1>6, AppendProperties
  <1>8. ASSUME NEW i \in 1..(n + 1)
        PROVE  Contents(l)[i] = Append(Contents(k), c)[i]
    <2>1. k.head + i - 1 \in Int /\ k.head + n \in Int
      BY <1>2
    <2>2. (k.head + i - 1) % BufferSize \in Slots /\ (k.head + n) % BufferSize \in Slots
      BY <2>1, SlotIn
    <2>3. CASE i = n + 1
      <3>1. k.head + i - 1 = k.head + n
        BY <1>2, <2>3
      <3> QED
        BY <1>1, <1>3, <1>5, <1>7, <2>2, <2>3, <3>1
    <2>4. CASE i # n + 1
      <3>1. i \in 1..n /\ k.head + i - 1 # k.head + n
        BY <1>2, <2>4
      <3>2. (k.head + i - 1) - (k.head + n) > -BufferSize /\ (k.head + i - 1) - (k.head + n) < BufferSize
        BY <1>2, <3>1, Sizes
      <3>3. (k.head + i - 1) % BufferSize # (k.head + n) % BufferSize
        BY <2>1, <3>1, <3>2, Sizes, ModInjective
      <3> QED
        BY <1>1, <1>3, <1>4, <1>5, <1>7, <2>2, <3>1, <3>3
    <2> QED
      BY <2>3, <2>4
  <1>9. Contents(l) = Append(Contents(k), c)
    BY <1>5, <1>7, <1>8, SeqEqual
  <1> QED
    BY <1>9 DEF l

LEMMA PoppedFacts ==
    ASSUME NEW k \in Ring
    PROVE  /\ Popped(k) \in Ring
           /\ Popped(k).tail = k.tail
           /\ Popped(k).head = (k.head + 1) % Word
           /\ \A i \in Slots : Popped(k).buffer[i] =
                    IF i = k.head % BufferSize THEN 0 ELSE k.buffer[i]
  <1>1. k.head \in 0..(Word - 1) /\ k.buffer \in [Slots -> Chars \cup {0}]
    BY DEF Ring
  <1>2. (k.head + 1) % Word \in 0..(Word - 1)
    BY <1>1, Successor, Sizes
  <1>3. k.head % BufferSize \in Slots
    BY <1>1, SlotIn
  <1>4. [k.buffer EXCEPT ![k.head % BufferSize] = 0] \in [Slots -> Chars \cup {0}]
    BY <1>1, <1>3
  <1> QED
    BY <1>1, <1>2, <1>3, <1>4 DEF Popped, Ring

\* A character at the head is one that waits.
LEMMA HeadWaits ==
    ASSUME NEW k \in Ring, Sound(k)
    PROVE  /\ k.buffer[k.head % BufferSize] # 0 <=> Waiting(k) # 0
           /\ Waiting(k) # 0 => Waiting(Popped(k)) = Waiting(k) - 1
  <1>1. k.head \in 0..(Word - 1) /\ Waiting(k) \in Nat /\ Waiting(k) =< BufferSize
    BY WaitingIs, Sizes DEF Sound
  <1>2. k.head % BufferSize \in Slots
    BY <1>1, SlotIn
  <1>3. k.buffer[k.head % BufferSize] = 0 <=>
            ~\E j \in 0..(Waiting(k) - 1) : k.head % BufferSize = (k.head + j) % BufferSize
    BY <1>2 DEF Sound
  <1>4. Waiting(k) = 0 => k.buffer[k.head % BufferSize] = 0
    BY <1>3
  <1>5. Waiting(k) # 0 => k.buffer[k.head % BufferSize] # 0
    <2> SUFFICES ASSUME Waiting(k) # 0
                 PROVE  \E j \in 0..(Waiting(k) - 1) : k.head % BufferSize = (k.head + j) % BufferSize
      BY <1>3
    <2>1. 0 \in 0..(Waiting(k) - 1) /\ k.head + 0 = k.head
      BY <1>1
    <2> QED
      BY <2>1
  <1>6. Waiting(k) # 0 => Waiting(Popped(k)) = Waiting(k) - 1
    <2> DEFINE l == Popped(k)
    <2>1. l \in Ring /\ l.tail = k.tail /\ l.head = (k.head + 1) % Word
      BY PoppedFacts
    <2>2. l.head = IF k.head = Word - 1 THEN 0 ELSE k.head + 1
      BY <1>1, <2>1, Successor
    <2> HIDE DEF l
    <2>3. Waiting(k) # 0 => Waiting(l) = Waiting(k) - 1
      BY <2>1, <2>2, WaitingIs, Sizes
    <2> QED
      BY <2>3 DEF l
  <1> QED
    BY <1>4, <1>5, <1>6

LEMMA PopSound ==
    ASSUME NEW k \in Ring, Sound(k), Waiting(k) # 0
    PROVE  Sound(Popped(k))
  <1> DEFINE l == Popped(k)
             n == Waiting(k)
  <1>1. /\ l \in Ring /\ l.head = (k.head + 1) % Word
        /\ \A i \in Slots : l.buffer[i] = IF i = k.head % BufferSize THEN 0 ELSE k.buffer[i]
    BY PoppedFacts
  <1>2. Waiting(l) = n - 1 /\ n \in Nat \ {0} /\ n =< BufferSize /\ k.head \in 0..(Word - 1)
    BY HeadWaits, WaitingIs, Sizes DEF Sound
  <1>3. \A i \in Slots : k.buffer[i] = 0 <=> ~\E j \in 0..(n - 1) : i = (k.head + j) % BufferSize
    BY DEF Sound
  <1> HIDE DEF l, n
  <1>4. \A j \in Int : (l.head + j) % BufferSize = (k.head + (j + 1)) % BufferSize
    BY <1>1, <1>2, NextSlot
  <1>5. ASSUME NEW i \in Slots
        PROVE  l.buffer[i] = 0 <=> ~\E j \in 0..(Waiting(l) - 1) : i = (l.head + j) % BufferSize
    <2>1. CASE i = k.head % BufferSize
      <3> SUFFICES ASSUME NEW j \in 0..(n - 2), i = (k.head + (j + 1)) % BufferSize
                   PROVE  FALSE
        BY <1>1, <1>2, <1>4, <2>1
      <3>1. k.head \in Int /\ k.head + (j + 1) \in Int
        BY <1>2
      <3>2. k.head - (k.head + (j + 1)) > -BufferSize /\ k.head - (k.head + (j + 1)) < BufferSize
        BY <1>2, Sizes
      <3>3. k.head = k.head + (j + 1)
        BY <2>1, <3>1, <3>2, Sizes, ModInjective
      <3> QED
        BY <3>1, <3>3
    <2>2. CASE i # k.head % BufferSize
      <3>1. ASSUME NEW j \in 0..(n - 1), i = (k.head + j) % BufferSize
            PROVE  \E m \in 0..(Waiting(l) - 1) : i = (l.head + m) % BufferSize
        <4>1. j # 0
          <5>1. k.head + 0 = k.head
            BY <1>2
          <5> QED
            BY <2>2, <3>1, <5>1
        <4>2. j - 1 \in 0..(Waiting(l) - 1) /\ (j - 1) + 1 = j /\ j - 1 \in Int
          BY <1>2, <4>1
        <4>3. i = (l.head + (j - 1)) % BufferSize
          BY <1>4, <3>1, <4>2
        <4> QED
          BY <4>2, <4>3
      <3>2. ASSUME NEW j \in 0..(Waiting(l) - 1), i = (l.head + j) % BufferSize
            PROVE  \E m \in 0..(n - 1) : i = (k.head + m) % BufferSize
        <4>1. j + 1 \in 0..(n - 1) /\ j \in Int
          BY <1>2
        <4> QED
          BY <1>4, <3>2, <4>1
      <3>3. l.buffer[i] = k.buffer[i]
        BY <1>1, <2>2
      <3> QED
        BY <1>3, <3>1, <3>2, <3>3, Zenon
    <2> QED
      BY <2>1, <2>2
  <1>6. Waiting(l) =< BufferSize
    BY <1>2, Sizes
  <1> QED
    BY <1>5, <1>6 DEF l, Sound

\* keyboard_pop takes the character that has waited longest.
LEMMA PopContents ==
    ASSUME NEW k \in Ring, Sound(k), Waiting(k) # 0
    PROVE  /\ Contents(k) # <<>>
           /\ Head(Contents(k)) = k.buffer[k.head % BufferSize]
           /\ Contents(Popped(k)) = Tail(Contents(k))
  <1> DEFINE l == Popped(k)
             n == Waiting(k)
             S == Chars \cup {0}
  <1>1. /\ l \in Ring /\ l.head = (k.head + 1) % Word
        /\ \A i \in Slots : l.buffer[i] = IF i = k.head % BufferSize THEN 0 ELSE k.buffer[i]
    BY PoppedFacts
  <1>2. Waiting(l) = n - 1 /\ n \in Nat \ {0} /\ n =< BufferSize /\ k.head \in 0..(Word - 1)
    BY HeadWaits, WaitingIs, Sizes DEF Sound
  <1>3. /\ Contents(k) \in Seq(S) /\ Len(Contents(k)) = n
        /\ \A i \in 1..n : Contents(k)[i] = k.buffer[(k.head + i - 1) % BufferSize]
    BY ContentsSeq
  <1> HIDE DEF l, n
  <1>4. \A j \in Int : (l.head + j) % BufferSize = (k.head + (j + 1)) % BufferSize
    BY <1>1, <1>2, NextSlot
  <1>5. /\ Contents(l) \in Seq(S) /\ Len(Contents(l)) = n - 1
        /\ \A i \in 1..(n - 1) : Contents(l)[i] = l.buffer[(l.head + i - 1) % BufferSize]
    BY <1>1, <1>2, ContentsSeq
  <1>6. Contents(k) # <<>>
    BY <1>2, <1>3
  <1>7. Head(Contents(k)) = k.buffer[k.head % BufferSize]
    <2>1. 1 \in 1..n /\ k.head + 1 - 1 = k.head
      BY <1>2
    <2> QED
      BY <1>3, <1>6, <2>1
  <1> HIDE DEF S
  <1>8. /\ Tail(Contents(k)) \in Seq(S)
        /\ Len(Tail(Contents(k))) = n - 1
        /\ \A i \in 1..(n - 1) : Tail(Contents(k))[i] = Contents(k)[i + 1]
    BY <1>3, <1>6, HeadTailProperties
  <1>9. ASSUME NEW i \in 1..(n - 1)
        PROVE  Contents(l)[i] = Tail(Contents(k))[i]
    <2>1. i - 1 \in Int /\ i \in Int /\ i + 1 \in 1..n /\ l.head \in Int
      BY <1>1, <1>2, WaitingIs, Sizes
    <2>2. l.head + i - 1 = l.head + (i - 1) /\ (i - 1) + 1 = i /\ k.head + (i + 1) - 1 = k.head + i
      BY <1>2, <2>1
    <2>3. (l.head + i - 1) % BufferSize = (k.head + i) % BufferSize
      BY <1>4, <2>1, <2>2
    <2>4. k.head + i \in Int /\ k.head \in Int
      BY <1>2
    <2>5. (k.head + i) - k.head > -BufferSize /\ (k.head + i) - k.head < BufferSize /\ k.head + i # k.head
      BY <1>2, Sizes
    <2>6. (k.head + i) % BufferSize # k.head % BufferSize
      BY <2>4, <2>5, Sizes, ModInjective
    <2>7. (k.head + i) % BufferSize \in Slots
      BY <2>4, SlotIn
    <2>8. l.buffer[(k.head + i) % BufferSize] = k.buffer[(k.head + i) % BufferSize]
      BY <1>1, <2>6, <2>7
    <2> QED
      BY <1>3, <1>5, <1>8, <2>1, <2>2, <2>3, <2>8
  <1>10. Contents(l) = Tail(Contents(k))
    BY <1>5, <1>8, <1>9, SeqEqual
  <1> QED
    BY <1>6, <1>7, <1>10 DEF l

-----------------------------------------------------------------------------
(* The invariant is inductive                                              *)

LEMMA EmptyRing ==
    /\ EmptyBuffer \in Ring
    /\ Sound(EmptyBuffer)
    /\ Contents(EmptyBuffer) = <<>>
  <1>1. 0 \in 0..(Word - 1)
    BY Sizes
  <1>2. EmptyBuffer \in Ring
    BY <1>1 DEF EmptyBuffer, Ring, Slots
  <1>3. EmptyBuffer.head = 0 /\ EmptyBuffer.tail = 0 /\ \A i \in Slots : EmptyBuffer.buffer[i] = 0
    BY DEF EmptyBuffer, Slots
  <1>4. Waiting(EmptyBuffer) = 0
    BY <1>2, <1>3, WaitingIs
  <1>5. Sound(EmptyBuffer)
    <2>1. ~\E j \in 0..(Waiting(EmptyBuffer) - 1) : TRUE
      BY <1>4
    <2>2. Waiting(EmptyBuffer) =< BufferSize
      BY <1>4, Sizes
    <2> QED
      BY <1>3, <2>1, <2>2 DEF Sound
  <1>6. Contents(EmptyBuffer) = <<>>
    BY <1>2, <1>4, ContentsSeq
  <1> QED
    BY <1>2, <1>5, <1>6

\* What a key gives is one of the characters.
LEMMA CharsOfKeys ==
    ASSUME NEW s \in Scancodes, NEW c \in classic_keyboard_scancode_to_char(s, capslock) \ {0}
    PROVE  c \in Chars
  <1>1. PICK d \in keyboard_scan_set_one(s) :
            c = IF ~capslock /\ d >= 65 /\ d =< 90 THEN d + 32 ELSE d
    BY DEF classic_keyboard_scancode_to_char
  <1>2. d \in {0, 49, 65}
    BY DEF keyboard_scan_set_one, ScanSetSize
  <1> QED
    BY <1>1, <1>2 DEF Chars

\* The buffers of an IInv state have the type that TypeOK says.
LEMMA RingType ==
    ASSUME NEW k \in Ring
    PROVE  k \in [buffer : [0..(BufferSize - 1) -> 0..255],
                  head : 0..(Word - 1), tail : 0..(Word - 1)]
  <1>1. Chars \cup {0} \subseteq 0..255
    BY DEF Chars
  <1>2. k.buffer \in [Slots -> 0..255]
    BY <1>1 DEF Ring
  <1> QED
    BY <1>2 DEF Ring, Slots

LEMMA InitInv == Init => IInv
  <1> SUFFICES ASSUME Init PROVE IInv
    OBVIOUS
  <1>1. \A p \in Procs : keyboard[p] = EmptyBuffer
    BY DEF Init
  <1>2. keyboard \in [Procs -> Ring]
    BY EmptyRing DEF Init
  <1>3. keyboard \in [Procs -> [buffer : [0..(BufferSize - 1) -> 0..255],
                                head : 0..(Word - 1), tail : 0..(Word - 1)]]
    BY <1>2, RingType
  <1>4. got \in [process : Procs, char : 0..255] /\ overrun \subseteq Procs
    BY DEF Init
  <1>5. TypeOK
    BY <1>3, <1>4, Zenon DEF Init, TypeOK
  <1> QED
    BY <1>1, <1>2, <1>5, EmptyRing DEF IInv

\* A key goes into the buffer of the process that has the keyboard.
LEMMA KeyPressPushes ==
    ASSUME IInv, NEW s \in Scancodes, KeyPress(s)
    PROVE  \E c \in Chars :
              /\ keyboard' = [keyboard EXCEPT ![current_process] =
                                    Pushed(keyboard[current_process], c)]
              /\ overrun' = overrun \cup
                    {p \in {current_process} : Waiting(keyboard[current_process]) >= BufferSize}
              /\ Waiting(keyboard[current_process]) < Word - 1
              /\ UNCHANGED <<current_process, running, capslock, got>>
  <1>1. PICK c \in classic_keyboard_scancode_to_char(s, capslock) \ {0} : keyboard_push(c)
    BY DEF KeyPress
  <1>2. c \in Chars
    BY CharsOfKeys
  <1>3. Waiting(keyboard[current_process]) < TypeAhead
    BY DEF KeyPress, Pending, Waiting
  <1>4. keyboard[current_process] \in Ring
    BY DEF IInv, TypeOK
  <1>5. Waiting(keyboard[current_process]) < Word - 1
    BY <1>3, <1>4, WaitingIs, Sizes
  <1>6. UNCHANGED <<current_process, running, capslock, got>>
    BY DEF KeyPress
  <1> QED
    BY <1>1, <1>2, <1>5, <1>6, Zenon DEF keyboard_push, PushTarget, Pushed, Waiting

LEMMA KeyPressInv ==
    ASSUME IInv, NEW s \in Scancodes, KeyPress(s)
    PROVE  IInv'
  <1> DEFINE cp == current_process
             k == keyboard[cp]
  <1>1. PICK c \in Chars :
            /\ keyboard' = [keyboard EXCEPT ![cp] = Pushed(k, c)]
            /\ overrun' = overrun \cup {p \in {cp} : Waiting(k) >= BufferSize}
            /\ Waiting(k) < Word - 1
            /\ UNCHANGED <<current_process, running, capslock, got>>
    BY KeyPressPushes
  <1>2. cp \in Procs /\ k \in Ring /\ keyboard \in [Procs -> Ring]
    BY DEF IInv, TypeOK
  <1>3. Pushed(k, c) \in Ring
    BY <1>2, PushedFacts
  <1>4. keyboard' \in [Procs -> Ring]
    BY <1>1, <1>2, <1>3
  <1>5. keyboard' \in [Procs -> [buffer : [0..(BufferSize - 1) -> 0..255],
                                 head : 0..(Word - 1), tail : 0..(Word - 1)]]
    BY <1>4, RingType
  <1>6. TypeOK'
    BY <1>1, <1>2, <1>5 DEF IInv, TypeOK
  <1>7. ASSUME NEW p \in Procs \ overrun'
        PROVE  Sound(keyboard'[p])
    <2>1. p \notin overrun /\ Sound(keyboard[p])
      BY <1>1 DEF IInv
    <2>2. CASE p # cp
      BY <1>1, <1>2, <2>1, <2>2
    <2>3. CASE p = cp
      <3>1. ~(Waiting(k) >= BufferSize)
        BY <1>1, <2>3
      <3>2. Waiting(k) < BufferSize
        BY <1>2, <3>1, WaitingIs, Sizes
      <3>3. Sound(Pushed(k, c))
        BY <1>1, <1>2, <2>1, <2>3, <3>2, PushSound
      <3> QED
        BY <1>1, <1>2, <2>3, <3>3
    <2> QED
      BY <2>2, <2>3
  <1> QED
    BY <1>4, <1>6, <1>7 DEF IInv

LEMMA GetKeyInv ==
    ASSUME IInv, GetKey
    PROVE  IInv'
  <1> DEFINE k == keyboard[running]
             c == k.buffer[k.head % BufferSize]
  <1>1. /\ got' = [process |-> running, char |-> c]
        /\ keyboard' = IF c = 0 THEN keyboard ELSE [keyboard EXCEPT ![running] = Popped(k)]
        /\ UNCHANGED <<current_process, running, capslock, overrun>>
    BY DEF GetKey
  <1>2. running \in Procs /\ k \in Ring /\ keyboard \in [Procs -> Ring]
    BY DEF IInv, TypeOK
  <1>3. c \in 0..255
    <2>1. k.head % BufferSize \in Slots
      BY <1>2, WaitingIs, SlotIn
    <2> QED
      BY <1>2, <2>1, RingType DEF Slots
  <1>4. Popped(k) \in Ring
    BY <1>2, PoppedFacts
  <1>5. keyboard' \in [Procs -> Ring]
    BY <1>1, <1>2, <1>4
  <1>6. keyboard' \in [Procs -> [buffer : [0..(BufferSize - 1) -> 0..255],
                                 head : 0..(Word - 1), tail : 0..(Word - 1)]]
    BY <1>5, RingType
  <1>7. TypeOK'
    <2>1. got' \in [process : Procs, char : 0..255]
      BY <1>1, <1>2, <1>3
    <2> QED
      BY <1>1, <1>6, <2>1 DEF IInv, TypeOK
  <1>8. ASSUME NEW p \in Procs \ overrun'
        PROVE  Sound(keyboard'[p])
    <2>1. p \notin overrun /\ Sound(keyboard[p])
      BY <1>1 DEF IInv
    <2>2. CASE p # running \/ c = 0
      BY <1>1, <1>2, <2>1, <2>2
    <2>3. CASE p = running /\ c # 0
      <3>1. Sound(k) /\ Waiting(k) # 0
        BY <1>2, <2>1, <2>3, HeadWaits
      <3>2. Sound(Popped(k))
        BY <1>2, <3>1, PopSound
      <3> QED
        BY <1>1, <1>2, <2>3, <3>2
    <2> QED
      BY <2>2, <2>3
  <1> QED
    BY <1>5, <1>7, <1>8 DEF IInv

LEMMA LoadInv ==
    ASSUME IInv, NEW p \in Procs, Load(p)
    PROVE  IInv'
  <1>1. /\ keyboard' = [keyboard EXCEPT ![p] = EmptyBuffer]
        /\ overrun' = overrun \ {p}
    BY DEF Load
  <1>2. keyboard \in [Procs -> Ring]
    BY DEF IInv, TypeOK
  <1>3. keyboard' \in [Procs -> Ring]
    BY <1>1, <1>2, EmptyRing
  <1>4. keyboard' \in [Procs -> [buffer : [0..(BufferSize - 1) -> 0..255],
                                 head : 0..(Word - 1), tail : 0..(Word - 1)]]
    BY <1>3, RingType
  <1>5. TypeOK'
    BY <1>4 DEF Load, IInv, TypeOK
  <1>6. ASSUME NEW q \in Procs \ overrun'
        PROVE  Sound(keyboard'[q])
    BY <1>1, <1>2, EmptyRing DEF IInv
  <1> QED
    BY <1>3, <1>5, <1>6 DEF IInv

LEMMA NextInv ==
    ASSUME IInv, [Next]_vars
    PROVE  IInv'
  <1>1. ASSUME UNCHANGED <<keyboard, got, overrun>>, current_process' \in Procs,
               running' \in Procs, capslock' \in BOOLEAN
        PROVE  IInv'
    BY <1>1 DEF IInv, TypeOK
  <1>2. ASSUME NEW s \in Scancodes, KeyPress(s) PROVE IInv'
    BY <1>2, KeyPressInv
  <1>3. CASE CapsLock
    BY <1>1, <1>3, Zenon DEF CapsLock, IInv, TypeOK
  <1>4. ASSUME NEW s \in Scancodes, KeyIgnored(s) PROVE IInv'
    BY <1>1, <1>4, Zenon DEF KeyIgnored, vars, IInv, TypeOK
  <1>5. CASE GetKey
    BY <1>5, GetKeyInv
  <1>6. CASE Switch
    BY <1>1, <1>6, Zenon DEF Switch, IInv, TypeOK
  <1>7. ASSUME NEW p \in Procs, Load(p) PROVE IInv'
    BY <1>7, LoadInv
  <1>8. CASE UNCHANGED vars
    BY <1>1, <1>8, Zenon DEF vars, IInv, TypeOK
  <1> QED
    BY <1>2, <1>3, <1>4, <1>5, <1>6, <1>7, <1>8 DEF Next

-----------------------------------------------------------------------------
(* The buffers as queues                                                   *)

\* What KeyQueue sees of process p
QueueOf(p) == IF p \in overrun THEN <<>> ELSE Typed(p)

LEMMA TypedIsContents ==
    ASSUME NEW p
    PROVE  Typed(p) = Contents(keyboard[p]) /\ Typed(p)' = Contents(keyboard'[p])
  BY DEF Typed, Contents, Pending, Waiting

\* A step that changes one queue
LEMMA OneQueueChanges ==
    ASSUME NEW r \in Procs, \A p \in Procs : p # r => QueueOf(p)' = QueueOf(p)
    PROVE  [p \in Procs |-> IF p \in overrun THEN <<>> ELSE Typed(p)]' =
                [[p \in Procs |-> IF p \in overrun THEN <<>> ELSE Typed(p)]
                    EXCEPT ![r] = QueueOf(r)']
  <1>1. [p \in Procs |-> IF p \in overrun THEN <<>> ELSE Typed(p)] = [p \in Procs |-> QueueOf(p)]
    BY DEF QueueOf
  <1>2. [p \in Procs |-> IF p \in overrun THEN <<>> ELSE Typed(p)]' = [p \in Procs |-> QueueOf(p)']
    BY DEF QueueOf
  <1>3. [p \in Procs |-> QueueOf(p)'] = [[p \in Procs |-> QueueOf(p)] EXCEPT ![r] = QueueOf(r)']
    OBVIOUS
  <1> QED
    BY <1>1, <1>2, <1>3

\* A key is typed into the queue, or is one too many.
LEMMA KeyPressRefines ==
    ASSUME IInv, NEW s \in Scancodes, KeyPress(s)
    PROVE  Expected!Next
  <1>0. PICK cp \in Procs : cp = current_process
    BY DEF IInv, TypeOK
  <1> DEFINE k == keyboard[cp]
             queue == [p \in Procs |-> IF p \in overrun THEN <<>> ELSE Typed(p)]
  <1>1. PICK c \in Chars :
            /\ keyboard' = [keyboard EXCEPT ![cp] = Pushed(k, c)]
            /\ overrun' = overrun \cup {p \in {cp} : Waiting(k) >= BufferSize}
            /\ Waiting(k) < Word - 1
            /\ UNCHANGED <<current_process, running, capslock, got>>
    BY <1>0, KeyPressPushes
  <1>2. cp \in Procs /\ k \in Ring /\ keyboard \in [Procs -> Ring]
    BY DEF IInv, TypeOK
  <1>3. \A p \in Procs : p # cp => keyboard'[p] = keyboard[p] /\ (p \in overrun' <=> p \in overrun)
    BY <1>1, <1>2
  <1>4. \A p \in Procs : p # cp => QueueOf(p)' = QueueOf(p)
    BY <1>3, TypedIsContents DEF QueueOf
  <1>5. CASE cp \in overrun \/ Waiting(k) >= BufferSize
    <2>1. overrun' = overrun \cup {cp}
      BY <1>1, <1>5
    <2>2. cp \in overrun \/ Len(queue[cp]) = BufferSize
      <3> SUFFICES ASSUME cp \notin overrun PROVE Len(Typed(cp)) = BufferSize
        BY <1>2
      <3>1. Waiting(k) = BufferSize
        BY <1>2, <1>5, WaitingIs, Sizes DEF IInv, Sound
      <3> QED
        BY <1>2, <3>1, TypedIsContents, ContentsSeq
    <2>3. queue' = [queue EXCEPT ![cp] = <<>>]
      BY <1>2, <1>4, <2>1 DEF QueueOf
    <2>4. Expected!TypeOver
      BY <1>0, <1>1, <2>1, <2>2, <2>3 DEF Expected!TypeOver
    <2> QED
      BY <2>4 DEF Expected!Next
  <1>6. CASE cp \notin overrun /\ ~(Waiting(k) >= BufferSize)
    <2>1. Waiting(k) < BufferSize /\ Sound(k)
      BY <1>2, <1>6, WaitingIs, Sizes DEF IInv
    <2>2. overrun' = overrun
      BY <1>1, <1>6
    <2>3. Len(queue[cp]) < BufferSize
      BY <1>2, <1>6, <2>1, TypedIsContents, ContentsSeq
    <2>4. Contents(Pushed(k, c)) = Append(Contents(k), c)
      BY <1>1, <1>2, <2>1, PushContents
    <2>5. QueueOf(cp)' = Append(QueueOf(cp), c)
      BY <1>1, <1>2, <1>6, <2>2, <2>4, TypedIsContents DEF QueueOf
    <2>6. queue' = [queue EXCEPT ![cp] = Append(@, c)]
      <3>1. queue' = [queue EXCEPT ![cp] = QueueOf(cp)']
        BY <1>2, <1>4, OneQueueChanges, Zenon
      <3>2. queue[cp] = QueueOf(cp)
        BY <1>2 DEF QueueOf
      <3> HIDE DEF queue
      <3> QED
        BY <2>5, <3>1, <3>2
    <2>7. Expected!Type(c)
      BY <1>0, <1>1, <1>6, <2>2, <2>3, <2>6 DEF Expected!Type
    <2> QED
      BY <2>7 DEF Expected!Next, Chars
  <1> QED
    BY <1>5, <1>6

\* getkey takes the oldest key of the process that calls it.
LEMMA GetKeyRefines ==
    ASSUME IInv, GetKey
    PROVE  Expected!Next
  <1>0. PICK r \in Procs : r = running
    BY DEF IInv, TypeOK
  <1> DEFINE k == keyboard[r]
             c == k.buffer[k.head % BufferSize]
             queue == [p \in Procs |-> IF p \in overrun THEN <<>> ELSE Typed(p)]
  <1>1. /\ got' = [process |-> r, char |-> c]
        /\ keyboard' = IF c = 0 THEN keyboard ELSE [keyboard EXCEPT ![r] = Popped(k)]
        /\ UNCHANGED <<current_process, running, capslock, overrun>>
    BY <1>0 DEF GetKey
  <1>2. r \in Procs /\ k \in Ring /\ keyboard \in [Procs -> Ring]
    BY DEF IInv, TypeOK
  <1>3. \A p \in Procs : p # r => QueueOf(p)' = QueueOf(p)
    BY <1>1, <1>2, TypedIsContents DEF QueueOf
  <1>4. CASE r \in overrun
    <2>1. QueueOf(r)' = QueueOf(r)
      BY <1>1, <1>4 DEF QueueOf
    <2>2. queue' = queue
      <3>1. queue' = [queue EXCEPT ![r] = QueueOf(r)']
        BY <1>2, <1>3, OneQueueChanges, Zenon
      <3>2. queue[r] = QueueOf(r) /\ DOMAIN queue = Procs /\ queue = [p \in Procs |-> queue[p]]
        BY <1>2 DEF QueueOf
      <3> HIDE DEF queue
      <3> QED
        BY <2>1, <3>1, <3>2
    <2>3. c \in Chars \cup {0}
      <3>1. k.head % BufferSize \in Slots
        BY <1>2, WaitingIs, SlotIn
      <3> QED
        BY <1>2, <3>1 DEF Ring
    <2>4. Expected!TakeAny(r)
      BY <1>1, <1>4, <2>2, <2>3 DEF Expected!TakeAny, Chars
    <2> QED
      BY <1>2, <2>4 DEF Expected!Next
  <1>5. CASE r \notin overrun /\ c = 0
    <2>1. Sound(k)
      BY <1>2, <1>5 DEF IInv
    <2>2. Waiting(k) = 0
      BY <1>2, <1>5, <2>1, HeadWaits
    <2>3. queue[r] = <<>>
      BY <1>2, <1>5, <2>2, ContentsSeq, TypedIsContents
    <2>4. queue' = queue
      BY <1>1, <1>5, TypedIsContents
    <2>5. Expected!TakeNothing(r)
      BY <1>1, <1>5, <2>3, <2>4 DEF Expected!TakeNothing
    <2> QED
      BY <1>2, <2>5 DEF Expected!Next
  <1>6. CASE r \notin overrun /\ c # 0
    <2>1. Sound(k) /\ Waiting(k) # 0
      BY <1>2, <1>6, HeadWaits DEF IInv
    <2>2. /\ Contents(k) # <<>>
          /\ Head(Contents(k)) = c
          /\ Contents(Popped(k)) = Tail(Contents(k))
      BY <1>2, <2>1, PopContents
    <2>3. queue[r] = Contents(k) /\ QueueOf(r) = Contents(k)
      BY <1>2, <1>6, TypedIsContents DEF QueueOf
    <2>4. QueueOf(r)' = Tail(QueueOf(r))
      BY <1>1, <1>2, <1>6, <2>2, <2>3, TypedIsContents DEF QueueOf
    <2>5. queue' = [queue EXCEPT ![r] = Tail(@)]
      <3>1. queue' = [queue EXCEPT ![r] = QueueOf(r)']
        BY <1>2, <1>3, OneQueueChanges, Zenon
      <3> HIDE DEF queue
      <3> QED
        BY <2>3, <2>4, <3>1
    <2>6. Expected!Take(r)
      BY <1>1, <2>2, <2>3, <2>5 DEF Expected!Take
    <2> QED
      <3> HIDE DEF queue
      <3>1. \E p \in Procs : Expected!Take(p)
        BY <1>2, <2>6, Zenon
      <3> QED
        BY <3>1, Zenon DEF Expected!Next
  <1> QED
    BY <1>4, <1>5, <1>6

\* A new process starts with an empty queue.
LEMMA LoadRefines ==
    ASSUME IInv, NEW p \in Procs, Load(p)
    PROVE  Expected!Next
  <1> DEFINE queue == [q \in Procs |-> IF q \in overrun THEN <<>> ELSE Typed(q)]
  <1>1. /\ keyboard' = [keyboard EXCEPT ![p] = EmptyBuffer]
        /\ overrun' = overrun \ {p}
        /\ current_process' = p /\ got' = got
    BY DEF Load
  <1>2. keyboard \in [Procs -> Ring]
    BY DEF IInv, TypeOK
  <1>3. QueueOf(p)' = <<>>
    BY <1>1, <1>2, EmptyRing, TypedIsContents DEF QueueOf
  <1>4. \A q \in Procs : q # p => QueueOf(q)' = QueueOf(q)
    BY <1>1, <1>2, TypedIsContents DEF QueueOf
  <1>5. queue' = [queue EXCEPT ![p] = <<>>]
    BY <1>3, <1>4 DEF QueueOf
  <1>6. Expected!Start(p)
    BY <1>1, <1>5 DEF Expected!Start
  <1> QED
    BY <1>6 DEF Expected!Next

LEMMA StepRefines ==
    ASSUME IInv, [Next]_vars
    PROVE  [Expected!Next]_(<<[p \in Procs |-> IF p \in overrun THEN <<>> ELSE Typed(p)],
                              current_process, got, overrun>>)
  <1> DEFINE queue == [p \in Procs |-> IF p \in overrun THEN <<>> ELSE Typed(p)]
  <1>1. ASSUME keyboard' = keyboard, overrun' = overrun
        PROVE  queue' = queue
    BY <1>1, TypedIsContents
  <1>2. ASSUME NEW s \in Scancodes, KeyPress(s) PROVE Expected!Next
    BY <1>2, KeyPressRefines
  <1>3. ASSUME CapsLock \/ (\E s \in Scancodes : KeyIgnored(s)) \/ UNCHANGED vars
        PROVE  UNCHANGED <<queue, current_process, got, overrun>>
    <2>1. keyboard' = keyboard /\ UNCHANGED <<current_process, got, overrun>>
      BY <1>3 DEF CapsLock, KeyIgnored, vars
    <2> QED
      BY <1>1, <2>1
  <1>4. CASE GetKey
    BY <1>4, GetKeyRefines
  <1>5. CASE Switch
    <2>1. keyboard' = keyboard /\ current_process' \in Procs /\ UNCHANGED <<got, overrun>>
      BY <1>5 DEF Switch
    <2>2. queue' = queue
      BY <1>1, <2>1
    <2>3. Expected!GiveKeyboard(current_process')
      BY <2>1, <2>2 DEF Expected!GiveKeyboard
    <2>4. Expected!Next
      BY <2>1, <2>3 DEF Expected!Next
    <2> QED
      BY <2>4
  <1>6. ASSUME NEW p \in Procs, Load(p) PROVE Expected!Next
    BY <1>6, LoadRefines
  <1> QED
    BY <1>2, <1>3, <1>4, <1>5, <1>6 DEF Next

-----------------------------------------------------------------------------
(* Theorems                                                                *)

\* The inductive invariant holds of every behaviour of the keyboard.
THEOREM Invariance == Spec => []IInv
  <1>1. IInv /\ [Next]_vars => IInv'
    BY NextInv
  <1> QED
    BY <1>1, InitInv, PTL DEF Spec

\* The ring buffers keep their types.
THEOREM TypeCorrect == Spec => []TypeOK
  <1>1. IInv => TypeOK
    BY DEF IInv
  <1> QED
    BY <1>1, Invariance, PTL

\* Until a buffer has overrun, its zeros are exactly its free slots: a zero
\* tells keyboard_pop that nothing waits, and head never passes tail.
THEOREM ZeroIsFree == Spec => []ZeroMarksFreeSlots
  <1>1. IInv => ZeroMarksFreeSlots
    <2> SUFFICES ASSUME IInv, NEW p \in Procs \ overrun, NEW i \in Slots
                 PROVE  keyboard[p].buffer[i] = 0
                            <=> ~\E j \in 0..(Pending(p) - 1) :
                                    i = (keyboard[p].head + j) % BufferSize
      BY DEF ZeroMarksFreeSlots, Slots
    <2> QED
      BY Zenon DEF IInv, Sound, Pending, Waiting
  <1> QED
    BY <1>1, Invariance, PTL

\* The ring buffers implement the queues of KeyQueue: every key typed ahead
\* within the buffer's size is delivered once, in order, to the process that
\* had the keyboard, through any wrap-around of head and tail.
THEOREM Refinement == Spec => ImplementsKeyQueue
  <1>1. Init => Expected!Init
    <2> SUFFICES ASSUME Init PROVE Expected!Init
      OBVIOUS
    <2>1. \A p \in Procs : keyboard[p] = EmptyBuffer /\ p \notin overrun
      BY DEF Init
    <2>2. \A p \in Procs : Typed(p) = <<>>
      BY <2>1, EmptyRing, TypedIsContents
    <2> QED
      BY <2>1, <2>2 DEF Init, Expected!Init
  <1>2. IInv /\ [Next]_vars =>
            [Expected!Next]_(<<[p \in Procs |-> IF p \in overrun THEN <<>> ELSE Typed(p)],
                               current_process, got, overrun>>)
    BY StepRefines
  <1> QED
    BY <1>1, <1>2, Invariance, PTL DEF Spec, ImplementsKeyQueue, Expected!Spec
=============================================================================
