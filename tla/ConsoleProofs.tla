---------------------------- MODULE ConsoleProofs ----------------------------
(***************************************************************************)
(* Proofs about Console.tla, for every screen, buffer and set of letters:  *)
(* the terminal, the line editor and strtok's static pointer.              *)
(***************************************************************************)
EXTENDS Console, SequenceTheorems, FiniteSetTheorems, LoopTheorems

Glyphs == Letters \cup {BLANK, ">", "x", "v"}

Term == [row : 0..(Short - 1), col : 0..(Short - 1), video : [Screen -> Glyphs],
         beyond : BOOLEAN]

\* The characters that are ever stored in a buffer
Chars == Keys \cup {NUL}

\* scommand always ends with a terminator: strncpy and strtok write nothing
\* else there.
Commands == {b \in [1..(MaxLine + 1) -> Chars] : b[MaxLine + 1] = NUL}

-----------------------------------------------------------------------------
(* The inductive invariant                                                 *)

\* The line that is being typed, if it began on the screen
Drawn ==
    /\ CellOf(term.row, term.col) = anchor + i
    /\ \A k \in 0..(i - 1) : anchor + k \in Screen => term.video[anchor + k] = buf[k + 1]

TermInv ==
    /\ term \in Term
    /\ term.col \in 0..(VGA_WIDTH - 1) \/ (term.col = Short - 1 /\ ~clean)
    /\ pc \in {"prompt", "read", "newline", "run", "finish"}
    /\ i \in 0..(MaxLine - 1)
    /\ pc = "read" => i < MaxLine - 1
    /\ buf \in Seq(Chars) /\ Len(buf) =< MaxLine /\ i =< Len(buf)
    /\ scommand \in Commands
    /\ sp \in 0..(MaxLine + 1)
    /\ ~trouble => sp = NULL
    /\ anchor \in Nat
    /\ pc = "read" /\ clean /\ anchor < VGA_WIDTH * VGA_HEIGHT => Drawn

\* The buffer holds what the keys typed so far amount to.
LineInv ==
    /\ typed \in Seq(Keys)
    /\ pc \in {"read", "newline", "run"} => Edited(typed) = SubSeq(buf, 1, i)
    /\ CommandIsTyped

IInv == TermInv /\ LineInv

-----------------------------------------------------------------------------
(* The terminal                                                            *)

LEMMA ScreenFacts ==
    /\ VGA_WIDTH \in Nat /\ VGA_WIDTH > 0 /\ VGA_WIDTH < Short
    /\ VGA_HEIGHT \in Nat /\ VGA_HEIGHT > 0
    /\ VGA_WIDTH * VGA_HEIGHT \in Nat
    /\ Screen = 0..(VGA_WIDTH * VGA_HEIGHT - 1)
    /\ Short \in Nat /\ Short > 1
  <1>1. Short \in Nat /\ Short > 1
    BY DEF Short
  <1>2. VGA_WIDTH \in 1..(Short - 1) /\ VGA_HEIGHT \in Nat \ {0}
    BY TerminalAssumption
  <1>3. VGA_WIDTH \in Nat /\ VGA_WIDTH > 0 /\ VGA_WIDTH < Short
    BY <1>1, <1>2
  <1>4. VGA_HEIGHT \in Nat /\ VGA_HEIGHT > 0
    BY <1>2
  <1>5. VGA_WIDTH * VGA_HEIGHT \in Nat
    BY <1>3, <1>4
  <1> QED
    BY <1>1, <1>3, <1>4, <1>5, Zenon DEF Screen

LEMMA CellNat ==
    ASSUME NEW r \in Nat, NEW c \in Nat
    PROVE  CellOf(r, c) \in Nat /\ CellOf(r, c) = r * VGA_WIDTH + c
  <1>1. r * VGA_WIDTH \in Nat
    BY ScreenFacts
  <1> QED
    BY <1>1 DEF CellOf

LEMMA TermFields ==
    ASSUME NEW t \in Term
    PROVE  /\ t.row \in 0..(Short - 1) /\ t.col \in 0..(Short - 1)
           /\ t.video \in [Screen -> Glyphs]
           /\ t.row \in Nat /\ t.col \in Nat
  <1>1. /\ t.row \in 0..(Short - 1) /\ t.col \in 0..(Short - 1)
        /\ t.video \in [Screen -> Glyphs]
    BY DEF Term
  <1>2. 0..(Short - 1) \subseteq Nat
    BY DEF Short
  <1> QED
    BY <1>1, <1>2

\* uint16_t arithmetic, one step up or down
LEMMA ShortMod ==
    /\ \A x \in 0..(Short - 1) : x % Short = x
    /\ Short % Short = 0 /\ (-1) % Short = Short - 1
    /\ \A x \in Int : x % Short \in 0..(Short - 1)
  <1>1. PICK n \in Nat \ {0} : n = Short
    BY DEF Short
  <1>2. ASSUME NEW x \in Int PROVE x % n \in 0..(n - 1)
    BY Z3
  <1>3. ASSUME NEW x \in 0..(n - 1) PROVE x % n = x
    BY Z3
  <1>4. n % n = 0
    BY Z3
  <1>5. (-1) % n = n - 1
    BY Z3
  <1> QED
    BY <1>1, <1>2, <1>3, <1>4, <1>5

\* terminal_putchar writes one cell of the screen, or none.
LEMMA PutcharFacts ==
    ASSUME NEW t \in Term, NEW x \in Nat, NEW y \in Nat, NEW c \in Glyphs,
           NEW m, m = terminal_putchar(t, x, y, c)
    PROVE  /\ m \in Term /\ m.row = t.row /\ m.col = t.col
           /\ CellOf(y, x) \in Screen => m.video = [t.video EXCEPT ![CellOf(y, x)] = c]
           /\ CellOf(y, x) \notin Screen => m.video = t.video
  <1>1. CASE CellOf(y, x) \in Screen
    <2> DEFINE v == [t.video EXCEPT ![CellOf(y, x)] = c]
    <2>1. m = [t EXCEPT !.video = v]
      BY <1>1 DEF terminal_putchar
    <2>2. v \in [Screen -> Glyphs]
      BY TermFields
    <2> HIDE DEF v
    <2>3. m \in Term /\ m.row = t.row /\ m.col = t.col /\ m.video = v
      BY <2>1, <2>2 DEF Term
    <2> QED
      BY <1>1, <2>3 DEF v
  <1>2. CASE CellOf(y, x) \notin Screen
    <2>1. m = [t EXCEPT !.beyond = TRUE]
      BY <1>2 DEF terminal_putchar
    <2>2. m \in Term /\ m.row = t.row /\ m.col = t.col /\ m.video = t.video
      BY <2>1 DEF Term
    <2> QED
      BY <1>2, <2>2
  <1> QED
    BY <1>1, <1>2

\* A character that is shown: its cell, and where the cursor goes.
LEMMA ShownFacts ==
    ASSUME NEW t \in Term, NEW c \in Glyphs, NEW m, m = Shown(t, c)
    PROVE  /\ m \in Term /\ m.col \in 0..(VGA_WIDTH - 1)
           /\ t.col < VGA_WIDTH - 1 => m.col = t.col + 1 /\ m.row = t.row
           /\ t.col >= VGA_WIDTH - 1 /\ t.col < Short - 1
                => m.col = 0 /\ m.row = (t.row + 1) % Short
           /\ CellOf(t.row, t.col) \in Screen
                => m.video = [t.video EXCEPT ![CellOf(t.row, t.col)] = c]
           /\ CellOf(t.row, t.col) \notin Screen => m.video = t.video
  <1>1. PICK p : p = terminal_putchar(t, t.col, t.row, c)
    OBVIOUS
  <1>2. /\ p \in Term /\ p.row = t.row /\ p.col = t.col
        /\ CellOf(t.row, t.col) \in Screen => p.video = [t.video EXCEPT ![CellOf(t.row, t.col)] = c]
        /\ CellOf(t.row, t.col) \notin Screen => p.video = t.video
    BY <1>1, PutcharFacts, TermFields
  <1>3. PICK q : q = [p EXCEPT !.col = (t.col + 1) % Short]
    OBVIOUS
  <1>0. /\ VGA_WIDTH \in Nat /\ VGA_WIDTH > 0 /\ VGA_WIDTH < Short /\ Short \in Nat
        /\ t.col \in 0..(Short - 1) /\ t.row \in 0..(Short - 1) /\ t.col \in Nat
    BY ScreenFacts, TermFields
  <1>4. (t.col + 1) % Short \in 0..(Short - 1) /\ (t.row + 1) % Short \in 0..(Short - 1)
    BY <1>0, ShortMod
  <1>5. /\ q \in Term /\ q.row = t.row /\ q.col = (t.col + 1) % Short /\ q.video = p.video
    BY <1>2, <1>3, <1>4 DEF Term
  <1>6. m = Wrapped(q)
    BY <1>1, <1>2, <1>3 DEF Shown
  <1>7. t.col < Short - 1 => (t.col + 1) % Short = t.col + 1
    <2>1. t.col < Short - 1 => t.col + 1 \in 0..(Short - 1)
      BY <1>0
    <2> QED
      BY <2>1, ShortMod
  <1>8. t.col = Short - 1 => (t.col + 1) % Short = 0
    <2>1. t.col = Short - 1 => t.col + 1 = Short
      BY <1>0
    <2> QED
      BY <2>1, ShortMod
  <1>9. CASE q.col < VGA_WIDTH
    <2>1. m = q
      BY <1>5, <1>6, <1>9, <1>0 DEF Wrapped
    <2> QED
      BY <1>2, <1>5, <1>7, <1>8, <1>9, <2>1, <1>0
  <1>10. CASE ~(q.col < VGA_WIDTH)
    <2>1. m = [q EXCEPT !.col = 0, !.row = (q.row + 1) % Short]
      BY <1>5, <1>6, <1>10, <1>0 DEF Wrapped
    <2>2. m \in Term /\ m.col = 0 /\ m.row = (t.row + 1) % Short /\ m.video = q.video
      <3>1. PICK e : e = [q EXCEPT !.col = 0]
        OBVIOUS
      <3>2. e \in Term /\ e.col = 0 /\ e.video = q.video /\ 0 \in 0..(Short - 1)
        BY <1>0, <1>5, <3>1 DEF Term
      <3>3. PICK x \in 0..(Short - 1) : x = (t.row + 1) % Short
        BY <1>4
      <3>4. m = [e EXCEPT !.row = x]
        BY <1>5, <2>1, <3>1, <3>3
      <3> QED
        BY <3>2, <3>3, <3>4 DEF Term
    <2>3. t.col # Short - 1 /\ t.col + 1 >= VGA_WIDTH
      BY <1>5, <1>7, <1>8, <1>10, <1>0
    <2> QED
      BY <1>2, <1>5, <2>2, <2>3, <1>0
  <1> QED
    BY <1>9, <1>10

LEMMA NewlineFacts ==
    ASSUME NEW t \in Term, NEW m, m = terminal_writechar(t, NEWLINE)
    PROVE  m \in Term /\ m.col = 0
  <1>1. m = [t EXCEPT !.row = (t.row + 1) % Short, !.col = 0]
    BY DEF terminal_writechar, NEWLINE, BACKSPACE
  <1>2. t.row + 1 \in Int /\ 0 \in 0..(Short - 1)
    BY TermFields, ScreenFacts
  <1>3. PICK x \in 0..(Short - 1) : x = (t.row + 1) % Short
    BY <1>2, ShortMod
  <1>4. PICK e : e = [t EXCEPT !.row = x]
    OBVIOUS
  <1>5. e \in Term
    BY <1>4 DEF Term
  <1>6. m = [e EXCEPT !.col = 0]
    BY <1>1, <1>3, <1>4
  <1> QED
    BY <1>2, <1>5, <1>6 DEF Term

\* terminal_backspace: a blank over the cell before the cursor.  In the first
\* column, or left of it, the cursor ends up left of the first column.
LEMMA BackspaceFacts ==
    ASSUME NEW t \in Term, t.col \in 0..(VGA_WIDTH - 1) \/ t.col = Short - 1,
           NEW m, m = terminal_backspace(t)
    PROVE  /\ m \in Term
           /\ m.col \in 0..(VGA_WIDTH - 1) \/ m.col = Short - 1
           /\ t.col \in 1..(VGA_WIDTH - 1) =>
                /\ m.row = t.row /\ m.col = t.col - 1
                /\ CellOf(t.row, t.col - 1) \in Screen
                     => m.video = [t.video EXCEPT ![CellOf(t.row, t.col - 1)] = BLANK]
                /\ CellOf(t.row, t.col - 1) \notin Screen => m.video = t.video
  <1>0. /\ VGA_WIDTH \in Nat /\ VGA_WIDTH > 0 /\ VGA_WIDTH < Short /\ Short \in Nat
        /\ t.col \in 0..(Short - 1) /\ t.row \in 0..(Short - 1) /\ BLANK \in Glyphs
    BY ScreenFacts, TermFields DEF Glyphs
  <1>1. CASE t.row = 0 /\ t.col = 0
    BY <1>0, <1>1 DEF terminal_backspace
  <1>2. CASE ~(t.row = 0 /\ t.col = 0)
    <2>1. PICK back : back = IF t.col = 0
                             THEN [t EXCEPT !.row = t.row - 1, !.col = VGA_WIDTH - 1]
                             ELSE [t EXCEPT !.col = t.col - 1]
      OBVIOUS
    <2>2. PICK s : s = Shown(back, BLANK)
      OBVIOUS
    <2>3. m = [s EXCEPT !.col = (s.col - 1) % Short]
      BY <1>2, <2>1, <2>2 DEF terminal_backspace
    <2>4. CASE t.col = 0
      <3>1. PICK x \in 0..(Short - 1) : x = t.row - 1
        BY <1>0, <1>2, <2>4
      <3>2. PICK y \in 0..(Short - 1) : y = VGA_WIDTH - 1
        BY <1>0
      <3>3. PICK e : e = [t EXCEPT !.row = x]
        OBVIOUS
      <3>4. e \in Term
        BY <3>3 DEF Term
      <3>5. back = [e EXCEPT !.col = y]
        BY <2>1, <2>4, <3>1, <3>2, <3>3
      <3>6. back \in Term /\ back.col = VGA_WIDTH - 1
        BY <3>2, <3>4, <3>5 DEF Term
      <3>7. s \in Term /\ s.col = 0
        <4>1. back.col >= VGA_WIDTH - 1 /\ back.col < Short - 1
          BY <1>0, <3>6
        <4> QED
          BY <1>0, <2>2, <3>6, <4>1, ShownFacts
      <3>8. (s.col - 1) % Short = Short - 1 /\ Short - 1 \in 0..(Short - 1)
        <4>1. s.col - 1 = -1
          BY <3>7
        <4> QED
          BY <1>0, <4>1, ShortMod
      <3>9. m \in Term /\ m.col = Short - 1
        BY <2>3, <3>7, <3>8 DEF Term
      <3> QED
        BY <1>0, <2>4, <3>9
    <2>5. CASE t.col # 0
      <3>1. PICK y \in 0..(Short - 1) : y = t.col - 1
        BY <1>0, <2>5
      <3>2. back = [t EXCEPT !.col = y]
        BY <2>1, <2>5, <3>1
      <3>3. back \in Term /\ back.col = y /\ back.row = t.row /\ back.video = t.video
        BY <3>2 DEF Term
      <3>4. CASE t.col \in 1..(VGA_WIDTH - 1)
        <4>1. y < VGA_WIDTH - 1 /\ y + 1 = t.col
          BY <1>0, <3>1, <3>4
        <4>2. /\ s \in Term /\ s.col = t.col /\ s.row = t.row
              /\ CellOf(t.row, y) \in Screen => s.video = [t.video EXCEPT ![CellOf(t.row, y)] = BLANK]
              /\ CellOf(t.row, y) \notin Screen => s.video = t.video
          BY <1>0, <2>2, <3>3, <4>1, ShownFacts
        <4>3. (s.col - 1) % Short = y
          BY <3>1, <4>2, ShortMod
        <4>4. m \in Term /\ m.col = y /\ m.row = s.row /\ m.video = s.video
          BY <2>3, <4>2, <4>3 DEF Term
        <4> QED
          BY <1>0, <3>1, <3>4, <4>1, <4>2, <4>4
      <3>5. CASE t.col = Short - 1
        <4>0. t.col \notin 1..(VGA_WIDTH - 1)
          BY <1>0, <3>5
        <4>1. back.col >= VGA_WIDTH - 1 /\ back.col < Short - 1
          BY <1>0, <3>1, <3>3, <3>5
        <4>2. s \in Term /\ s.col = 0
          BY <1>0, <2>2, <3>3, <4>1, ShownFacts
        <4>3. (s.col - 1) % Short = Short - 1 /\ Short - 1 \in 0..(Short - 1)
          <5>1. s.col - 1 = -1
            BY <4>2
          <5> QED
            BY <1>0, <5>1, ShortMod
        <4>4. m \in Term /\ m.col = Short - 1
          BY <2>3, <4>2, <4>3 DEF Term
        <4> QED
          BY <4>0, <4>4
      <3> QED
        BY <1>0, <2>5, <3>4, <3>5
    <2> QED
      BY <2>4, <2>5
  <1> QED
    BY <1>1, <1>2

\* The cursor is in its row, or left of the first column.
Placed == {t \in Term : t.col \in 0..(VGA_WIDTH - 1) \/ t.col = Short - 1}

LEMMA GlyphsShown ==
    ASSUME NEW t, NEW c \in Glyphs
    PROVE  terminal_writechar(t, c) = Shown(t, c)
  <1>1. c # NEWLINE /\ c # BACKSPACE
    BY ConsoleAssumption DEF Glyphs, NEWLINE, BACKSPACE, BLANK
  <1> QED
    BY <1>1 DEF terminal_writechar

LEMMA WritecharPlaced ==
    ASSUME NEW t \in Placed, NEW c \in Glyphs \cup {NEWLINE, BACKSPACE}
    PROVE  terminal_writechar(t, c) \in Placed
  <1>0. t \in Term /\ (t.col \in 0..(VGA_WIDTH - 1) \/ t.col = Short - 1)
    BY DEF Placed
  <1>1. CASE c \in Glyphs
    <2>1. PICK m : m = Shown(t, c)
      OBVIOUS
    <2>2. m \in Term /\ m.col \in 0..(VGA_WIDTH - 1)
      BY <1>0, <1>1, <2>1, ShownFacts
    <2> QED
      BY <1>1, <2>1, <2>2, GlyphsShown DEF Placed
  <1>2. CASE c = NEWLINE
    <2>1. PICK m : m = terminal_writechar(t, NEWLINE)
      OBVIOUS
    <2>2. m \in Term /\ m.col = 0
      BY <1>0, <2>1, NewlineFacts
    <2>3. 0 \in 0..(VGA_WIDTH - 1)
      BY ScreenFacts
    <2> QED
      BY <1>2, <2>1, <2>2, <2>3 DEF Placed
  <1>3. CASE c = BACKSPACE
    <2>1. PICK m : m = terminal_backspace(t)
      OBVIOUS
    <2>2. m \in Term /\ (m.col \in 0..(VGA_WIDTH - 1) \/ m.col = Short - 1)
      BY <1>0, <2>1, BackspaceFacts
    <2>3. terminal_writechar(t, c) = m
      BY <1>3, <2>1 DEF terminal_writechar, NEWLINE, BACKSPACE
    <2> QED
      BY <2>2, <2>3 DEF Placed
  <1> QED
    BY <1>1, <1>2, <1>3

\* What print does, character by character.
LEMMA PrintRounds ==
    ASSUME NEW t \in Placed, NEW str, Len(str) \in Nat,
           \A k \in 1..Len(str) : str[k] \in Glyphs \cup {NEWLINE, BACKSPACE}
    PROVE  \E v : /\ print(t, str) = v[Len(str)] /\ v[0] = t
                  /\ \A k \in 1..Len(str) : v[k] = terminal_writechar(v[k - 1], str[k])
  <1> DEFINE n == Len(str)
             E(x, k) == terminal_writechar(x, str[k])
             step == [k \in 1..n |-> [x \in Placed |-> E(x, k)]]
             Loop(f) == f = [k \in 0..n |-> IF k = 0 THEN t ELSE E(f[k - 1], k)]
             v == CHOOSE f : Loop(f)
  <1>1. ASSUME NEW k \in 1..n, NEW x \in Placed PROVE E(x, k) \in Placed
    BY WritecharPlaced
  <1>2. step \in [1..n -> [Placed -> Placed]]
    <2> HIDE DEF E, n
    <2> QED
      BY <1>1
  <1>3. PICK f \in [0..n -> Placed] : IsLoop(f, n, t, step)
    <2>1. n \in Nat
      OBVIOUS
    <2> HIDE DEF step, n
    <2> QED
      BY <1>2, <2>1, LoopDefined, Zenon
  <1>4. n \in Nat
    OBVIOUS
  <1> HIDE DEF E, n
  <1>5. Loop(f)
    <2>1. ASSUME NEW k \in 0..n
          PROVE  f[k] = IF k = 0 THEN t ELSE E(f[k - 1], k)
      <3>1. f[k] = IF k = 0 THEN t ELSE step[k][f[k - 1]]
        BY <1>3 DEF IsLoop
      <3>2. k # 0 => k \in 1..n /\ f[k - 1] \in Placed
        BY <1>3, <1>4
      <3> QED
        BY <3>1, <3>2
    <2> QED
      BY <1>3, <2>1
  <1>6. Loop(v)
    <2> HIDE DEF Loop
    <2> QED
      BY <1>5, Zenon
  <1>7. print(t, str) = v[n]
    BY Zenon DEF print, E, n
  <1> HIDE DEF v
  <1>8. v[0] = t /\ \A k \in 1..n : v[k] = E(v[k - 1], k)
    BY <1>4, <1>6
  <1> QED
    BY <1>7, <1>8 DEF E, n

LEMMA PrintTwo ==
    ASSUME NEW t \in Placed, NEW a \in Glyphs \cup {NEWLINE, BACKSPACE},
           NEW b \in Glyphs \cup {NEWLINE, BACKSPACE}
    PROVE  print(t, << a, b >>) = terminal_writechar(terminal_writechar(t, a), b)
  <1> DEFINE str == << a, b >>
  <1>1. Len(str) = 2 /\ str[1] = a /\ str[2] = b
    OBVIOUS
  <1>2. \A k \in 1..Len(str) : str[k] \in Glyphs \cup {NEWLINE, BACKSPACE}
    OBVIOUS
  <1> HIDE DEF str
  <1>3. PICK v : /\ print(t, str) = v[Len(str)] /\ v[0] = t
                 /\ \A k \in 1..Len(str) : v[k] = terminal_writechar(v[k - 1], str[k])
    BY <1>1, <1>2, PrintRounds
  <1>4. v[1] = terminal_writechar(v[1 - 1], a) /\ v[2] = terminal_writechar(v[2 - 1], b)
    BY <1>1, <1>3
  <1> QED
    BY <1>1, <1>3, <1>4 DEF str

LEMMA PrintOne ==
    ASSUME NEW t \in Placed, NEW a \in Glyphs \cup {NEWLINE, BACKSPACE}
    PROVE  print(t, << a >>) = terminal_writechar(t, a)
  <1> DEFINE str == << a >>
  <1>1. Len(str) = 1 /\ str[1] = a
    OBVIOUS
  <1>2. \A k \in 1..Len(str) : str[k] \in Glyphs \cup {NEWLINE, BACKSPACE}
    OBVIOUS
  <1> HIDE DEF str
  <1>3. PICK v : /\ print(t, str) = v[Len(str)] /\ v[0] = t
                 /\ \A k \in 1..Len(str) : v[k] = terminal_writechar(v[k - 1], str[k])
    BY <1>1, <1>2, PrintRounds
  <1>4. v[1] = terminal_writechar(v[1 - 1], a)
    BY <1>1, <1>3
  <1> QED
    BY <1>1, <1>3, <1>4 DEF str
-----------------------------------------------------------------------------
(* The strings                                                             *)

LEMMA CharFacts ==
    /\ NUL \in Chars /\ NUL # BLANK
    /\ MaxLine \in Nat /\ MaxLine >= 2
    /\ MaxLine + 1 \in 1..(MaxLine + 1)
    /\ ArgumentSize \in Nat /\ ArgumentSize >= 1
  BY ConsoleAssumption DEF Chars, NUL, BLANK

LEMMA CommandFacts ==
    ASSUME NEW b \in Commands
    PROVE  /\ b \in Seq(Chars) /\ Len(b) = MaxLine + 1 /\ DOMAIN b = 1..(MaxLine + 1)
           /\ \A j \in 1..(MaxLine + 1) : b[j] \in Chars
           /\ b[MaxLine + 1] = NUL
  <1>1. b \in [1..(MaxLine + 1) -> Chars] /\ b[MaxLine + 1] = NUL
    BY DEF Commands
  <1> QED
    BY <1>1, CharFacts

LEMMA MinOfTwo ==
    ASSUME NEW x \in Nat, NEW y \in Nat
    PROVE  Min({x, y}) \in {x, y} /\ Min({x, y}) =< x /\ Min({x, y}) =< y
  <1>1. {x, y} \subseteq Nat /\ {x, y} # {}
    OBVIOUS
  <1> QED
    BY <1>1, MinIsLeast

\* The string at an index of a buffer that ends with a terminator
LEMMA StringFacts ==
    ASSUME NEW n \in Nat, NEW b \in Seq(Chars), Len(b) = n + 1, b[n + 1] = NUL,
           NEW from \in 1..(n + 1)
    PROVE  /\ StringAt(b, from) \in Seq(Chars)
           /\ Len(StringAt(b, from)) =< n
  <1> DEFINE ends == {j \in DOMAIN b : j >= from /\ b[j] = NUL}
  <1>1. ends \subseteq Nat /\ n + 1 \in ends
    OBVIOUS
  <1>2. PICK m \in ends : m = Min(ends)
    BY <1>1, MinIsLeast
  <1>3. StringAt(b, from) = SubSeq(b, from, m - 1)
    BY <1>2 DEF StringAt
  <1>4. m \in 1..(n + 1)
    <2>1. m \in DOMAIN b /\ DOMAIN b = 1..Len(b)
      OBVIOUS
    <2> QED
      BY <2>1
  <1>5. \A j \in from..(m - 1) : b[j] \in Chars
    BY <1>4
  <1> QED
    BY <1>3, <1>4, <1>5, SubSeqProperties

LEMMA StrncpyFacts ==
    ASSUME NEW dest \in Commands, NEW src \in Seq(Chars),
           NEW copy, copy = strncpy(dest, src, MaxLine + 1)
    PROVE  /\ copy \in Commands
           /\ Len(src) =< MaxLine =>
                copy[Len(src) + 1] = NUL /\ \A j \in 1..Len(src) : copy[j] = src[j]
  <1>0. /\ dest \in Seq(Chars) /\ Len(dest) = MaxLine + 1 /\ dest[MaxLine + 1] = NUL
        /\ \A j \in 1..(MaxLine + 1) : dest[j] \in Chars
    BY CommandFacts
  <1>1. PICK n \in Nat : n = Min({Len(src), (MaxLine + 1) - 1}) /\ n =< Len(src) /\ n =< MaxLine
    <2>1. Len(src) \in Nat /\ (MaxLine + 1) - 1 = MaxLine /\ MaxLine \in Nat
      BY CharFacts
    <2> QED
      BY <2>1, MinOfTwo
  <1>1a. Len(src) =< MaxLine => n = Len(src)
    <2>1. n \in {Len(src), MaxLine}
      <3>1. Len(src) \in Nat /\ (MaxLine + 1) - 1 = MaxLine /\ MaxLine \in Nat
        BY CharFacts
      <3> QED
        BY <1>1, <3>1, MinOfTwo
    <2> QED
      BY <1>1, <2>1, CharFacts
  <1>2. PICK head : head = SubSeq(src, 1, n)
    OBVIOUS
  <1>3. head \in Seq(Chars) /\ Len(head) = n
    <2>1. \A j \in 1..n : src[j] \in Chars
      BY <1>1
    <2>2. head \in Seq(Chars) /\ Len(head) = IF 1 =< n THEN n - 1 + 1 ELSE 0
      BY <1>2, <2>1, SubSeqProperties
    <2> QED
      BY <2>2
  <1>4. PICK copied : copied = Append(head, NUL)
    OBVIOUS
  <1>5. copied \in Seq(Chars) /\ Len(copied) = n + 1 /\ copied[n + 1] = NUL
    BY <1>3, <1>4, CharFacts, AppendProperties
  <1>6. PICK tail : tail = SubSeq(dest, Len(copied) + 1, Len(dest))
    OBVIOUS
  <1>7. /\ tail \in Seq(Chars)
        /\ Len(tail) = MaxLine - n
        /\ \A j \in 1..(MaxLine - n) : tail[j] = dest[(n + 2) + j - 1]
    <2>1. tail = SubSeq(dest, n + 2, MaxLine + 1)
      BY <1>0, <1>5, <1>6
    <2>2. \A j \in (n + 2)..(MaxLine + 1) : dest[j] \in Chars
      BY <1>0, CharFacts
    <2>3. n + 2 \in Int /\ MaxLine + 1 \in Int
      BY CharFacts
    <2>4. /\ tail \in Seq(Chars)
          /\ Len(tail) = IF n + 2 =< MaxLine + 1 THEN (MaxLine + 1) - (n + 2) + 1 ELSE 0
          /\ \A j \in 1..((MaxLine + 1) - (n + 2) + 1) : tail[j] = dest[(n + 2) + j - 1]
      BY <2>1, <2>2, <2>3, SubSeqProperties
    <2>5. CASE n = MaxLine
      BY <2>4, <2>5, CharFacts
    <2>6. CASE n # MaxLine
      <3>1. n + 2 =< MaxLine + 1 /\ (MaxLine + 1) - (n + 2) + 1 = MaxLine - n
        BY <1>1, <2>6, CharFacts
      <3> QED
        BY <2>4, <3>1
    <2> QED
      BY <2>5, <2>6
  <1>8. PICK all : all = copied \o tail
    OBVIOUS
  <1>9. /\ all \in Seq(Chars) /\ Len(all) = MaxLine + 1
        /\ \A j \in 1..(MaxLine + 1) : all[j] = IF j =< n + 1 THEN copied[j] ELSE tail[j - (n + 1)]
    <2>1. /\ all \in Seq(Chars) /\ Len(all) = Len(copied) + Len(tail)
          /\ \A j \in 1..(Len(copied) + Len(tail)) :
                all[j] = IF j =< Len(copied) THEN copied[j] ELSE tail[j - Len(copied)]
      BY <1>5, <1>7, <1>8, ConcatProperties
    <2>2. Len(copied) + Len(tail) = MaxLine + 1
      BY <1>1, <1>5, <1>7, CharFacts
    <2> QED
      BY <1>5, <2>1, <2>2
  <1>10. all[MaxLine + 1] = NUL
    <2>1. CASE n = MaxLine
      BY <1>5, <1>9, <2>1, CharFacts
    <2>2. CASE n < MaxLine
      <3>1. all[MaxLine + 1] = tail[MaxLine - n]
        BY <1>9, <2>2, CharFacts
      <3>2. tail[MaxLine - n] = dest[(n + 2) + (MaxLine - n) - 1]
        BY <1>7, <2>2, CharFacts
      <3> QED
        BY <1>0, <3>1, <3>2, CharFacts
    <2> QED
      BY <1>1, <2>1, <2>2, CharFacts
  <1>11. all \in [1..(MaxLine + 1) -> Chars]
    BY <1>9
  <1>12. copy = all
    BY <1>1, <1>2, <1>4, <1>6, <1>8 DEF strncpy
  <1>13. ASSUME Len(src) =< MaxLine
         PROVE  all[Len(src) + 1] = NUL /\ \A j \in 1..Len(src) : all[j] = src[j]
    <2>1. n = Len(src)
      BY <1>1a, <1>13
    <2>2. all[n + 1] = copied[n + 1] /\ \A j \in 1..n : all[j] = copied[j]
      <3>1. \A j \in 1..(n + 1) : j \in 1..(MaxLine + 1) /\ j =< n + 1
        BY <1>1, CharFacts
      <3>2. \A j \in 1..(n + 1) : all[j] = copied[j]
        BY <1>9, <3>1
      <3> QED
        BY <3>2
    <2>3. \A j \in 1..n : copied[j] = head[j]
      BY <1>3, <1>4
    <2>4. \A j \in 1..n : head[j] = src[j]
      BY <1>2, <1>3, <2>1
    <2> QED
      BY <1>5, <2>1, <2>2, <2>3, <2>4
  <1> QED
    BY <1>10, <1>11, <1>12, <1>13 DEF Commands

\* strtok stays in the buffer, keeps its last terminator, and has reset its
\* pointer when it finds no token.
LEMMA StrtokFacts ==
    ASSUME NEW b \in Commands, NEW s \in 0..(MaxLine + 1), NEW str \in {0, 1},
           NEW r, r = strtok(b, s, str)
    PROVE  /\ r.buf \in Commands
           /\ r.sp \in 0..(MaxLine + 1) /\ r.token \in 0..(MaxLine + 1)
           /\ r.token = NULL => r.sp = NULL
  <1>0. /\ b \in [1..(MaxLine + 1) -> Chars] /\ DOMAIN b = 1..(MaxLine + 1)
        /\ b[MaxLine + 1] = NUL
        /\ MaxLine \in Nat /\ NUL \in Chars /\ NUL # BLANK /\ NULL = 0
    BY CommandFacts, CharFacts DEF Commands, NULL
  <1>1. PICK from \in 0..(MaxLine + 1) : from = TokenStart(str, s)
    BY <1>0 DEF TokenStart
  <1> DEFINE starts == {j \in DOMAIN b : j >= from /\ b[j] # BLANK}
  <1>2. starts \subseteq Nat /\ MaxLine + 1 \in starts
    BY <1>0
  <1>3. PICK start : start = Min(starts)
    OBVIOUS
  <1>4. start \in 1..(MaxLine + 1)
    <2>1. Min(starts) \in starts
      BY <1>2, MinIsLeast
    <2> QED
      BY <1>0, <1>3, <2>1
  <1> DEFINE stops == {j \in DOMAIN b : j >= start /\ b[j] \in {BLANK, NUL}}
  <1>5. stops \subseteq Nat /\ MaxLine + 1 \in stops
    BY <1>0, <1>4
  <1>6. PICK stop : stop = Min(stops)
    OBVIOUS
  <1>7. stop \in 1..(MaxLine + 1) /\ (b[stop] = BLANK => stop # MaxLine + 1)
    <2>1. Min(stops) \in stops
      BY <1>5, MinIsLeast
    <2> QED
      BY <1>0, <1>6, <2>1
  <1>8. r = IF from = NULL
            THEN [buf |-> b, sp |-> NULL, token |-> NULL]
            ELSE IF b[start] = NUL
            THEN [buf |-> b, sp |-> NULL, token |-> NULL]
            ELSE [buf |-> [b EXCEPT ![stop] = NUL], token |-> start,
                  sp |-> IF b[stop] = BLANK THEN stop + 1 ELSE stop]
    BY <1>1, <1>3, <1>6, Zenon DEF strtok, AfterLast
  <1>9. CASE from = NULL \/ b[start] = NUL
    <2>1. r = [buf |-> b, sp |-> NULL, token |-> NULL]
      BY <1>8, <1>9
    <2>2. r.buf = b /\ r.sp = 0 /\ r.token = 0 /\ 0 \in 0..(MaxLine + 1)
      BY <1>0, <2>1
    <2> QED
      BY <1>0, <2>2
  <1>10. CASE from # NULL /\ b[start] # NUL
    <2>1. /\ r.buf = [b EXCEPT ![stop] = NUL] /\ r.token = start
          /\ r.sp = IF b[stop] = BLANK THEN stop + 1 ELSE stop
      BY <1>8, <1>10
    <2>2. r.buf \in Commands
      BY <1>0, <1>7, <2>1 DEF Commands
    <2>3. r.sp \in 0..(MaxLine + 1) /\ r.token \in 1..(MaxLine + 1)
      BY <1>0, <1>4, <1>7, <2>1
    <2> QED
      BY <1>0, <2>2, <2>3
  <1> QED
    BY <1>9, <1>10

\* What peachos_parse_command holds between two tokens
Parsers ==
    {p \in [buf : Commands, sp : 0..(MaxLine + 1), token : 0..(MaxLine + 1),
            args : Seq(Seq(Chars))] : p.token = NULL => p.sp = NULL}

LEMMA AddArgumentFacts ==
    ASSUME NEW p \in Parsers, p.token # NULL
    PROVE  AddArgument(p) \in Parsers
  <1>0. /\ p.buf \in Commands /\ p.sp \in 0..(MaxLine + 1)
        /\ p.token \in 1..(MaxLine + 1) /\ p.args \in Seq(Seq(Chars))
    BY CharFacts DEF Parsers, NULL
  <1>1. PICK next : next = strtok(p.buf, p.sp, NULL)
    OBVIOUS
  <1>2. /\ next.buf \in Commands
        /\ next.sp \in 0..(MaxLine + 1) /\ next.token \in 0..(MaxLine + 1)
        /\ next.token = NULL => next.sp = NULL
    <2>1. PICK b \in Commands : b = p.buf
      BY <1>0
    <2>2. PICK s \in 0..(MaxLine + 1) : s = p.sp
      BY <1>0
    <2>3. NULL \in {0, 1}
      BY DEF NULL
    <2>4. next = strtok(b, s, NULL)
      BY <1>1, <2>1, <2>2
    <2> QED
      BY <2>3, <2>4, StrtokFacts
  <1>3. PICK word : word = StringAt(p.buf, p.token)
    OBVIOUS
  <1>4. word \in Seq(Chars)
    BY <1>0, <1>3, CharFacts, CommandFacts, StringFacts
  <1>5. PICK n \in Nat : n = Min({Len(word), ArgumentSize - 1}) /\ n =< Len(word)
    <2>1. Len(word) \in Nat /\ ArgumentSize - 1 \in Nat
      BY <1>4, CharFacts
    <2> QED
      BY <2>1, MinOfTwo
  <1>6. SubSeq(word, 1, n) \in Seq(Chars)
    <2>1. \A j \in 1..n : word[j] \in Chars
      BY <1>4, <1>5
    <2> QED
      BY <2>1, SubSeqProperties
  <1>7. Append(p.args, SubSeq(word, 1, n)) \in Seq(Seq(Chars))
    BY <1>0, <1>6, AppendProperties
  <1>8. AddArgument(p) = [buf |-> next.buf, sp |-> next.sp, token |-> next.token,
                          args |-> Append(p.args, SubSeq(word, 1, n))]
    BY <1>1, <1>3, <1>5 DEF AddArgument
  <1> QED
    BY <1>2, <1>7, <1>8 DEF Parsers

\* The loop of peachos_parse_command, round by round.
LEMMA ParseRounds ==
    ASSUME NEW line \in Seq(Chars), NEW n \in Nat, scommand \in Commands, sp \in 0..(MaxLine + 1)
    PROVE  \E b, first, v :
              /\ b = strncpy(scommand, line, MaxLine + 1) /\ b \in Commands
              /\ first = strtok(b, sp, 1)
              /\ v[0] = [buf |-> first.buf, sp |-> first.sp, token |-> first.token, args |-> <<>>]
              /\ \A k \in 1..n :
                    v[k] = IF v[k - 1].token = NULL THEN v[k - 1] ELSE AddArgument(v[k - 1])
              /\ \A k \in 0..n : v[k] \in Parsers
              /\ peachos_parse_command(line, n) = v[n]
  <1> DEFINE b == strncpy(scommand, line, MaxLine + 1)
             first == strtok(b, sp, 1)
             base == [buf |-> first.buf, sp |-> first.sp, token |-> first.token, args |-> <<>>]
             E(p) == IF p.token = NULL THEN p ELSE AddArgument(p)
             step == [k \in 1..n |-> [p \in Parsers |-> E(p)]]
             Loop(f) == f = [k \in 0..n |-> IF k = 0 THEN base ELSE E(f[k - 1])]
             after == CHOOSE f : Loop(f)
  <1>0. b \in Commands
    BY StrncpyFacts
  <1>1. base \in Parsers
    <2>1. b \in Commands
      BY <1>0
    <2> HIDE DEF b
    <2>2. /\ first.buf \in Commands
          /\ first.sp \in 0..(MaxLine + 1) /\ first.token \in 0..(MaxLine + 1)
          /\ first.token = NULL => first.sp = NULL
      BY <2>1, StrtokFacts
    <2> HIDE DEF first
    <2>3. <<>> \in Seq(Seq(Chars))
      OBVIOUS
    <2> QED
      BY <2>2, <2>3 DEF Parsers
  <1>2. ASSUME NEW p \in Parsers PROVE E(p) \in Parsers
    BY AddArgumentFacts
  <1>3. peachos_parse_command(line, n) = after[n]
    BY Zenon DEF peachos_parse_command
  <1> HIDE DEF base, E
  <1>4. step \in [1..n -> [Parsers -> Parsers]]
    BY <1>2
  <1>5. PICK f \in [0..n -> Parsers] : IsLoop(f, n, base, step)
    <2> HIDE DEF step
    <2> QED
      BY <1>1, <1>4, LoopDefined, Zenon
  <1>6. Loop(f)
    <2>1. ASSUME NEW k \in 0..n
          PROVE  f[k] = IF k = 0 THEN base ELSE E(f[k - 1])
      <3>1. f[k] = IF k = 0 THEN base ELSE step[k][f[k - 1]]
        BY <1>5 DEF IsLoop
      <3>2. k # 0 => k \in 1..n /\ f[k - 1] \in Parsers
        BY <1>5
      <3> QED
        BY <3>1, <3>2
    <2> QED
      BY <1>5, <2>1
  <1>7. Loop(after)
    <2> HIDE DEF Loop
    <2> QED
      BY <1>6, Zenon
  <1> HIDE DEF after
  <1>8. after[0] = base /\ \A k \in 1..n : after[k] = E(after[k - 1])
    BY <1>7
  <1>9. \A k \in 0..n : after[k] \in Parsers
    BY <1>1, <1>2, <1>8, LoopInvariant
  <1>10. \E bb, ff : bb = b /\ ff = first
    OBVIOUS
  <1>11. PICK bb, ff : bb = b /\ ff = first
    BY <1>10, Zenon
  <1>12. /\ bb = strncpy(scommand, line, MaxLine + 1) /\ bb \in Commands
         /\ ff = strtok(bb, sp, 1)
         /\ after[0] = [buf |-> ff.buf, sp |-> ff.sp, token |-> ff.token, args |-> <<>>]
    BY <1>0, <1>8, <1>11 DEF base
  <1>13. \A k \in 1..n :
            after[k] = IF after[k - 1].token = NULL THEN after[k - 1] ELSE AddArgument(after[k - 1])
    BY <1>8 DEF E
  <1> HIDE DEF b, first
  <1> QED
    BY <1>3, <1>9, <1>12, <1>13, Zenon

LEMMA ParseFacts ==
    ASSUME NEW line \in Seq(Chars), NEW n \in Nat, scommand \in Commands, sp \in 0..(MaxLine + 1)
    PROVE  peachos_parse_command(line, n) \in Parsers
  <1>1. PICK v : (\A k \in 0..n : v[k] \in Parsers) /\ peachos_parse_command(line, n) = v[n]
    BY ParseRounds, Zenon
  <1>2. n \in 0..n
    OBVIOUS
  <1> QED
    BY <1>1, <1>2

-----------------------------------------------------------------------------
(* What was typed, and its words                                           *)

EditStep(x, k) == IF k = BACKSPACE /\ x # <<>> THEN Front(x) ELSE Append(x, k)

LEMMA FrontFacts ==
    ASSUME NEW S, NEW x \in Seq(S), x # <<>>
    PROVE  Front(x) \in Seq(S) /\ Front(x) = SubSeq(x, 1, Len(x) - 1)
  <1>1. \A j \in 1..(Len(x) - 1) : x[j] \in S
    OBVIOUS
  <1>2. SubSeq(x, 1, Len(x) - 1) \in Seq(S)
    BY <1>1, SubSeqProperties
  <1> QED
    BY <1>2 DEF Front

\* Edited, key by key.
LEMMA EditRounds ==
    ASSUME NEW ks \in Seq(Keys)
    PROVE  \E v : /\ Edited(ks) = v[Len(ks)] /\ v[0] = <<>>
                  /\ \A k \in 1..Len(ks) : v[k] = EditStep(v[k - 1], ks[k])
                  /\ \A k \in 0..Len(ks) : v[k] \in Seq(Keys)
  <1> DEFINE n == Len(ks)
             T == Seq(Keys)
             E(x, k) == IF ks[k] = BACKSPACE /\ x # <<>> THEN Front(x) ELSE Append(x, ks[k])
             step == [k \in 1..n |-> [x \in T |-> E(x, k)]]
             Loop(f) == f = [k \in 0..n |-> IF k = 0 THEN <<>> ELSE E(f[k - 1], k)]
             v == CHOOSE f : Loop(f)
  <1>0. n \in Nat /\ <<>> \in T
    OBVIOUS
  <1>1. ASSUME NEW k \in 1..n, NEW x \in T PROVE E(x, k) \in T
    <2>1. ks[k] \in Keys
      OBVIOUS
    <2> QED
      BY <2>1, FrontFacts, AppendProperties
  <1>2. Edited(ks) = v[n]
    BY <1>0, Zenon DEF Edited
  <1>3. \A x, k : E(x, k) = EditStep(x, ks[k])
    BY Zenon DEF EditStep
  <1> HIDE DEF E, n, T
  <1>4. step \in [1..n -> [T -> T]]
    BY <1>1
  <1>5. PICK f \in [0..n -> T] : IsLoop(f, n, <<>>, step)
    <2> HIDE DEF step
    <2> QED
      BY <1>0, <1>4, LoopDefined, Zenon
  <1>6. Loop(f)
    <2>1. ASSUME NEW k \in 0..n
          PROVE  f[k] = IF k = 0 THEN <<>> ELSE E(f[k - 1], k)
      <3>1. f[k] = IF k = 0 THEN <<>> ELSE step[k][f[k - 1]]
        BY <1>5 DEF IsLoop
      <3>2. k # 0 => k \in 1..n /\ f[k - 1] \in T
        BY <1>0, <1>5
      <3> QED
        BY <3>1, <3>2
    <2> QED
      BY <1>5, <2>1
  <1>7. Loop(v)
    <2> HIDE DEF Loop
    <2> QED
      BY <1>6, Zenon
  <1> HIDE DEF v
  <1>8. v[0] = <<>> /\ \A k \in 1..n : v[k] = E(v[k - 1], k)
    BY <1>0, <1>7
  <1>9. \A k \in 0..n : v[k] \in T
    BY <1>0, <1>1, <1>8, LoopInvariant
  <1> QED
    BY <1>2, <1>3, <1>8, <1>9 DEF n, T

LEMMA EditedAppend ==
    ASSUME NEW ks \in Seq(Keys), NEW key \in Keys
    PROVE  Edited(Append(ks, key)) = EditStep(Edited(ks), key)
  <1>1. PICK more \in Seq(Keys) : more = Append(ks, key)
    BY AppendProperties
  <1>2. PICK n \in Nat : n = Len(ks)
    OBVIOUS
  <1>3. Len(more) = n + 1 /\ more[n + 1] = key /\ \A k \in 1..n : more[k] = ks[k]
    BY <1>1, <1>2, AppendProperties
  <1>4. PICK v : /\ Edited(ks) = v[n] /\ v[0] = <<>>
                 /\ \A k \in 1..n : v[k] = EditStep(v[k - 1], ks[k])
    BY <1>2, EditRounds
  <1>5. PICK w : /\ Edited(more) = w[n + 1] /\ w[0] = <<>>
                 /\ \A k \in 1..(n + 1) : w[k] = EditStep(w[k - 1], more[k])
    BY <1>3, EditRounds
  <1> DEFINE S == {k \in 0..n : v[k] = w[k]}
  <1>6. 0 \in S
    BY <1>4, <1>5
  <1>7. ASSUME NEW k \in 0..(n - 1), k \in S PROVE k + 1 \in S
    <2>1. k + 1 \in 1..n /\ k + 1 \in 1..(n + 1) /\ (k + 1) - 1 = k
      OBVIOUS
    <2>2. v[k + 1] = EditStep(v[k], ks[k + 1])
      BY <1>4, <2>1
    <2>3. w[k + 1] = EditStep(w[k], more[k + 1])
      BY <1>5, <2>1
    <2>4. ks[k + 1] = more[k + 1] /\ v[k] = w[k]
      BY <1>3, <1>7, <2>1
    <2> QED
      BY <2>1, <2>2, <2>3, <2>4
  <1>8. 0..n \subseteq S
    <2> HIDE DEF S
    <2> QED
      BY <1>6, <1>7, SetInduction
  <1>9. v[n] = w[n]
    BY <1>8
  <1>10. w[n + 1] = EditStep(w[n], key)
    <2>1. n + 1 \in 1..(n + 1) /\ (n + 1) - 1 = n
      OBVIOUS
    <2> QED
      BY <1>3, <1>5, <2>1
  <1> QED
    BY <1>1, <1>4, <1>5, <1>9, <1>10

LEMMA EditedFacts ==
    /\ Edited(<<>>) = <<>>
    /\ \A ks \in Seq(Keys) : Edited(ks) \in Seq(Keys)
  <1>1. ASSUME NEW ks \in Seq(Keys) PROVE Edited(ks) \in Seq(Keys)
    <2>1. PICK v : Edited(ks) = v[Len(ks)] /\ \A k \in 0..Len(ks) : v[k] \in Seq(Keys)
      BY EditRounds
    <2>2. Len(ks) \in 0..Len(ks)
      OBVIOUS
    <2> QED
      BY <2>1, <2>2
  <1>2. Edited(<<>>) = <<>>
    <2>0. <<>> \in Seq(Keys) /\ Len(<<>>) = 0
      OBVIOUS
    <2>1. PICK e \in Seq(Keys) : e = <<>> /\ Len(e) = 0
      BY <2>0, Zenon
    <2>2. PICK v : Edited(e) = v[Len(e)] /\ v[0] = <<>>
      BY EditRounds
    <2> QED
      BY <2>1, <2>2
  <1> QED
    BY <1>1, <1>2

\* The number of word starts up to one tells which word it is.
LEMMA RankUnique ==
    ASSUME NEW S, S \subseteq Nat, IsFiniteSet(S), NEW t \in S, NEW k,
           k = Cardinality({y \in S : y =< t})
    PROVE  (CHOOSE x \in S : Cardinality({y \in S : y =< x}) = k) = t
  <1> DEFINE U(x) == {y \in S : y =< x}
  <1>1. ASSUME NEW x \in S, NEW z \in S, x < z
        PROVE  Cardinality(U(x)) < Cardinality(U(z))
    <2>0. x \in Nat /\ z \in Nat
      OBVIOUS
    <2>1. U(x) \in SUBSET U(z) /\ z \in U(z) /\ z \notin U(x)
      <3>1. ASSUME NEW y \in U(x) PROVE y \in U(z)
        <4>1. y \in S /\ y \in Nat /\ y =< x
          OBVIOUS
        <4> QED
          BY <1>1, <2>0, <4>1
      <3>2. z =< z /\ ~(z =< x)
        BY <1>1, <2>0
      <3> QED
        BY <3>1, <3>2
    <2>2. IsFiniteSet(U(z))
      <3>1. U(z) \in SUBSET S
        OBVIOUS
      <3> QED
        BY <3>1, FS_Subset
    <2> HIDE DEF U
    <2>3. /\ IsFiniteSet(U(x)) /\ Cardinality(U(x)) =< Cardinality(U(z))
          /\ Cardinality(U(x)) # Cardinality(U(z))
      BY <2>1, <2>2, FS_Subset
    <2>4. Cardinality(U(x)) \in Nat /\ Cardinality(U(z)) \in Nat
      BY <2>2, <2>3, FS_CardinalityType
    <2> QED
      BY <2>3, <2>4
  <1>2. \A x \in S : Cardinality(U(x)) \in Nat
    <2>1. ASSUME NEW x \in S PROVE Cardinality(U(x)) \in Nat
      <3>1. U(x) \in SUBSET S
        OBVIOUS
      <3> HIDE DEF U
      <3> QED
        BY <3>1, FS_Subset, FS_CardinalityType
    <2> QED
      BY <2>1
  <1>3. ASSUME NEW x \in S, Cardinality(U(x)) = k PROVE x = t
    <2>1. x \in Nat /\ t \in Nat
      OBVIOUS
    <2>2. ~(x < t) /\ ~(t < x)
      <3>1. Cardinality(U(t)) = k
        OBVIOUS
      <3> HIDE DEF U
      <3> QED
        BY <1>1, <1>2, <1>3, <3>1
    <2> QED
      BY <2>1, <2>2
  <1>4. Cardinality(U(t)) = k
    OBVIOUS
  <1>5. (CHOOSE x \in S : Cardinality(U(x)) = k) = t
    <2> HIDE DEF U
    <2> QED
      BY <1>3, <1>4, Zenon
  <1> QED
    BY <1>5

\* The buffer b holds what is left of the line s, from q on.
Rest(b, s, q) ==
    /\ q \in 1..(Len(s) + 1)
    /\ \A j \in q..Len(s) : b[j] = s[j]
    /\ b[Len(s) + 1] = NUL
    /\ q = 1 \/ q = Len(s) + 1 \/ s[q - 1] = BLANK

\* A token of s at t has been cut out of the buffer b, with x the pointer
\* behind it.
Cut(b, s, t, x) ==
    /\ t \in WordStarts(s) /\ x \in (t + 1)..(Len(s) + 1)
    /\ Rest(b, s, x)
    /\ \A y \in WordStarts(s) : y =< t \/ y >= x
    /\ WordEnd(s, t) \in (t + 1)..(Len(s) + 1)
    /\ \A j \in t..(WordEnd(s, t) - 1) : b[j] = s[j]
    /\ b[WordEnd(s, t)] = NUL

LEMMA LineFacts ==
    ASSUME NEW s \in Seq(Keys)
    PROVE  /\ Len(s) \in Nat /\ DOMAIN s = 1..Len(s)
           /\ \A j \in 1..Len(s) : s[j] \in Keys /\ s[j] # NUL
           /\ WordStarts(s) \subseteq 1..Len(s) /\ IsFiniteSet(WordStarts(s))
           /\ WordStarts(s) \subseteq Nat
           /\ Cardinality(WordStarts(s)) \in Nat
  <1>1. NUL \notin Keys
    BY ConsoleAssumption DEF Keys, NUL, BLANK, BACKSPACE, CR
  <1>2. Len(s) \in Nat /\ DOMAIN s = 1..Len(s) /\ \A j \in 1..Len(s) : s[j] \in Keys
    OBVIOUS
  <1>3. WordStarts(s) \in SUBSET (1..Len(s)) /\ WordStarts(s) \subseteq Nat
    BY <1>2 DEF WordStarts
  <1>4. IsFiniteSet(1..Len(s))
    BY <1>2, FS_Interval
  <1>5. IsFiniteSet(WordStarts(s))
    BY <1>3, <1>4, FS_Subset
  <1> QED
    BY <1>1, <1>2, <1>3, <1>5, FS_CardinalityType

\* strtok finds the next word of the line, or that there is none.
LEMMA NextToken ==
    ASSUME NEW s \in Seq(Keys), Len(s) =< MaxLine, NEW b \in Commands,
           NEW old \in 0..(MaxLine + 1), NEW str \in {0, 1}, NEW q, q = TokenStart(str, old),
           Rest(b, s, q), NEW r, r = strtok(b, old, str)
    PROVE  \/ r.token = NULL /\ \A y \in WordStarts(s) : y < q
           \/ /\ r.token # NULL /\ Cut(r.buf, s, r.token, r.sp) /\ r.token >= q
              /\ \A y \in WordStarts(s) : y < q \/ y >= r.token
  <1>0. /\ b \in [1..(MaxLine + 1) -> Chars] /\ DOMAIN b = 1..(MaxLine + 1)
        /\ MaxLine \in Nat /\ NUL # BLANK /\ NULL = 0
    BY CommandFacts, CharFacts DEF Commands, NULL
  <1>1. PICK n \in Nat : n = Len(s) /\ n + 1 =< MaxLine + 1
    BY <1>0, LineFacts
  <1>2. /\ q \in 1..(n + 1) /\ (\A j \in q..n : b[j] = s[j]) /\ b[n + 1] = NUL
        /\ q = 1 \/ q = n + 1 \/ s[q - 1] = BLANK
        /\ \A j \in 1..n : s[j] # NUL
        /\ DOMAIN s = 1..n
    BY <1>1, LineFacts DEF Rest
  <1>3. \A y : y \in WordStarts(s) <=> y \in 1..n /\ s[y] # BLANK /\ (y = 1 \/ s[y - 1] = BLANK)
    BY <1>2 DEF WordStarts
  <1> DEFINE starts == {j \in DOMAIN b : j >= q /\ b[j] # BLANK}
  <1>4. starts \subseteq Nat /\ n + 1 \in starts
    BY <1>0, <1>1, <1>2
  <1>5. PICK start : start = Min(starts)
    OBVIOUS
  <1>6. /\ start \in q..(n + 1) /\ b[start] # BLANK
        /\ \A j \in q..(start - 1) : s[j] = BLANK
    <2>1. start \in starts /\ \A j \in starts : start =< j
      BY <1>4, <1>5, MinIsLeast
    <2>2. start \in q..(n + 1) /\ b[start] # BLANK
      BY <1>0, <1>1, <1>2, <1>4, <2>1
    <2>3. ASSUME NEW j \in q..(start - 1) PROVE s[j] = BLANK
      <3>1. j \in DOMAIN b /\ j >= q /\ ~(start =< j) /\ j \in q..n
        BY <1>0, <1>1, <1>2, <2>2
      <3> QED
        BY <1>2, <2>1, <3>1
    <2> QED
      BY <2>2, <2>3
  <1> DEFINE stops == {j \in DOMAIN b : j >= start /\ b[j] \in {BLANK, NUL}}
  <1>7. PICK stop : stop = Min(stops)
    OBVIOUS
  <1>8. r = IF b[start] = NUL
            THEN [buf |-> b, sp |-> NULL, token |-> NULL]
            ELSE [buf |-> [b EXCEPT ![stop] = NUL], token |-> start,
                  sp |-> IF b[stop] = BLANK THEN stop + 1 ELSE stop]
    <2>1. q # NULL
      BY <1>0, <1>2
    <2> QED
      BY <1>5, <1>7, <2>1, Zenon DEF strtok, AfterLast
  <1>9. CASE start = n + 1
    <2>1. r.token = NULL
      BY <1>2, <1>8, <1>9
    <2>2. ASSUME NEW y \in WordStarts(s), ~(y < q) PROVE FALSE
      <3>1. y \in 1..n /\ s[y] # BLANK
        BY <1>3
      <3>2. y \in q..(start - 1)
        BY <1>2, <1>9, <2>2, <3>1
      <3> QED
        BY <1>6, <3>1, <3>2
    <2> QED
      BY <2>1, <2>2
  <1>10. CASE start # n + 1
    <2>1. /\ q \in Nat /\ start \in 1..n /\ start >= q /\ start \in q..n
          /\ b[start] = s[start] /\ s[start] # BLANK /\ b[start] # NUL
      BY <1>2, <1>6, <1>10
    <2>2. start \in WordStarts(s)
      <3>1. start = 1 \/ s[start - 1] = BLANK
        <4>1. CASE start = q
          BY <1>2, <1>10, <4>1
        <4>2. CASE start # q
          <5>1. start - 1 \in q..(start - 1)
            BY <1>2, <1>6, <4>2
          <5> QED
            BY <1>6, <5>1
        <4> QED
          BY <4>1, <4>2
      <3> QED
        BY <1>3, <2>1, <3>1
    <2>3. ASSUME NEW y \in WordStarts(s), ~(y < q), ~(y >= start) PROVE FALSE
      <3>1. y \in 1..n /\ s[y] # BLANK
        BY <1>3
      <3>2. y \in q..(start - 1)
        BY <1>2, <1>6, <2>3, <3>1
      <3> QED
        BY <1>6, <3>1, <3>2
    <2>4. stops \subseteq Nat /\ n + 1 \in stops
      BY <1>0, <1>1, <1>2, <2>1
    <2>5. stop \in stops /\ \A j \in stops : stop =< j
      BY <1>7, <2>4, MinIsLeast
    <2>6. /\ stop \in (start + 1)..(n + 1) /\ b[stop] \in {BLANK, NUL}
          /\ \A j \in start..(stop - 1) : j \in 1..n /\ b[j] = s[j] /\ s[j] # BLANK
      <3>1. stop \in DOMAIN b /\ stop >= start /\ b[stop] \in {BLANK, NUL} /\ stop =< n + 1
        BY <2>4, <2>5
      <3>2. stop \in (start + 1)..(n + 1)
        <4>1. stop # start
          BY <2>1, <3>1
        <4> QED
          BY <1>0, <2>1, <3>1, <4>1
      <3>3. ASSUME NEW j \in start..(stop - 1) PROVE j \in 1..n /\ b[j] = s[j] /\ s[j] # BLANK
        <4>1. j \in 1..n /\ j \in q..n /\ j \in DOMAIN b /\ j >= start /\ ~(stop =< j)
          BY <1>0, <1>1, <2>1, <3>2
        <4> QED
          BY <1>2, <2>5, <4>1
      <3> QED
        BY <3>1, <3>2, <3>3
    <2>7. WordEnd(s, start) = stop
      <3> DEFINE ends == {e \in start..(n + 1) : e = n + 1 \/ s[e] = BLANK}
      <3>1. ends \subseteq Nat /\ n + 1 \in ends
        BY <2>1
      <3>2. PICK e \in ends : e = Min(ends) /\ \A j \in ends : e =< j
        BY <3>1, MinIsLeast
      <3>3. stop \in ends
        <4>1. stop # n + 1 => stop \in q..n
          BY <2>1, <2>6
        <4>2. stop # n + 1 => s[stop] = BLANK
          BY <1>2, <2>6, <4>1
        <4> QED
          BY <2>1, <2>6, <4>2
      <3>4. ~(e < stop)
        <4>1. e < stop => e \in start..(stop - 1) /\ e # n + 1
          BY <2>1, <2>6
        <4> QED
          BY <2>6, <4>1
      <3>5. e = stop
        BY <2>1, <2>6, <3>2, <3>3, <3>4
      <3> QED
        BY <1>1, <3>2, <3>5 DEF WordEnd
    <2>8. /\ r.buf = [b EXCEPT ![stop] = NUL] /\ r.token = start
          /\ r.sp = IF b[stop] = BLANK THEN stop + 1 ELSE stop
      BY <1>8, <2>1
    <2>9. PICK x : x = r.sp
      OBVIOUS
    <2>10. PICK c : c = r.buf
      OBVIOUS
    <2>11. /\ c[stop] = NUL
           /\ \A j \in 1..(n + 1) : j # stop => c[j] = b[j]
      BY <1>0, <1>1, <2>1, <2>6, <2>8, <2>10
    <2>12. /\ x \in 1..(n + 1) /\ x >= stop
           /\ x = n + 1 \/ s[x - 1] = BLANK
           /\ x = n + 1 \/ x > stop
           /\ \A j \in stop..(x - 1) : s[j] = BLANK
      <3>1. CASE b[stop] = BLANK
        <4>1. stop # n + 1 /\ x = stop + 1
          BY <1>0, <1>2, <2>8, <2>9, <3>1
        <4>0. stop # n + 1 => stop \in q..n /\ stop + 1 \in 1..(n + 1)
          BY <2>1, <2>6
        <4>2. stop \in q..n /\ stop + 1 \in 1..(n + 1)
          BY <4>0, <4>1
        <4>3. s[stop] = BLANK
          BY <1>2, <3>1, <4>2
        <4>4. (stop + 1) - 1 = stop /\ stop + 1 > stop /\ stop..((stop + 1) - 1) = {stop}
          BY <2>1, <4>2
        <4> QED
          BY <4>1, <4>2, <4>3, <4>4
      <3>2. CASE b[stop] # BLANK
        <4>1. b[stop] = NUL /\ x = stop
          BY <2>6, <2>8, <2>9, <3>2
        <4>2. stop = n + 1
          <5>1. stop # n + 1 => stop \in q..n /\ stop \in 1..n
            BY <2>1, <2>6
          <5> QED
            BY <1>2, <4>1, <5>1
        <4> QED
          BY <4>1, <4>2
      <3> QED
        BY <3>1, <3>2
    <2>13. Rest(c, s, x)
      <3>1. ASSUME NEW j \in x..n PROVE c[j] = s[j]
        <4>1. j \in q..n /\ j # stop /\ j \in 1..(n + 1)
          BY <2>1, <2>6, <2>12
        <4> QED
          BY <1>2, <2>11, <4>1
      <3>2. c[n + 1] = NUL
        BY <1>2, <2>11
      <3> QED
        BY <1>1, <2>12, <3>1, <3>2 DEF Rest
    <2>14. \A y \in WordStarts(s) : y =< start \/ y >= x
      <3>1. SUFFICES ASSUME NEW y \in WordStarts(s), ~(y =< start), ~(y >= x) PROVE FALSE
        OBVIOUS
      <3>2. y \in 1..n /\ s[y] # BLANK /\ (y = 1 \/ s[y - 1] = BLANK)
        BY <1>3
      <3>3. y - 1 \in start..(stop - 1) \/ y \in stop..(x - 1)
        BY <2>1, <2>6, <2>12, <3>1, <3>2
      <3>4. y # 1
        BY <2>1, <3>1, <3>2
      <3> QED
        BY <2>6, <2>12, <3>2, <3>3, <3>4
    <2>15. Cut(c, s, start, x)
      <3>1. \A j \in start..(stop - 1) : c[j] = s[j]
        <4>1. ASSUME NEW j \in start..(stop - 1) PROVE c[j] = s[j]
          <5>1. j \in 1..(n + 1) /\ j # stop /\ b[j] = s[j]
            BY <2>1, <2>6
          <5> QED
            BY <2>11, <5>1
        <4> QED
          BY <4>1
      <3>2. x \in (start + 1)..(n + 1)
        BY <2>1, <2>6, <2>12
      <3> QED
        BY <1>1, <2>2, <2>6, <2>7, <2>11, <2>13, <2>14, <3>1, <3>2 DEF Cut
    <2>16. r.token # NULL /\ r.token >= q
      BY <1>0, <1>2, <2>1, <2>8
    <2> QED
      BY <2>3, <2>8, <2>9, <2>10, <2>15, <2>16
  <1> QED
    BY <1>9, <1>10

\* The argument made of a token is the word, cut to its room.
LEMMA WordCopied ==
    ASSUME NEW s \in Seq(Keys), Len(s) =< MaxLine, NEW b \in Commands, NEW t, NEW x,
           Cut(b, s, t, x), NEW word, word = StringAt(b, t)
    PROVE  SubSeq(word, 1, Min({Len(word), ArgumentSize - 1}))
              = SubSeq(s, t, Min({WordEnd(s, t), t + ArgumentSize - 1}) - 1)
  <1>0. /\ DOMAIN b = 1..(MaxLine + 1) /\ \A j \in 1..(MaxLine + 1) : b[j] \in Chars
        /\ MaxLine \in Nat
    BY CommandFacts, CharFacts
  <1>1. PICK n \in Nat : n = Len(s) /\ n =< MaxLine
    BY LineFacts
  <1>2. PICK e \in (t + 1)..(n + 1) : e = WordEnd(s, t)
    BY <1>1 DEF Cut
  <1>3. /\ t \in 1..n /\ b[e] = NUL /\ \A j \in t..(e - 1) : b[j] = s[j]
        /\ \A j \in 1..n : s[j] # NUL /\ s[j] \in Keys
    BY <1>1, <1>2, LineFacts DEF Cut
  <1> DEFINE ends == {j \in DOMAIN b : j >= t /\ b[j] = NUL}
  <1>4. ends \subseteq Nat /\ e \in ends
    BY <1>0, <1>1, <1>2, <1>3
  <1>5. PICK m : m = Min(ends)
    OBVIOUS
  <1>6. m = e
    <2>1. m \in ends /\ \A j \in ends : m =< j
      BY <1>4, <1>5, MinIsLeast
    <2>2. m =< e /\ m >= t /\ b[m] = NUL /\ m \in Nat
      BY <1>4, <2>1
    <2>3. m # e => m \in t..(e - 1) /\ m \in 1..n
      BY <1>2, <1>3, <2>2
    <2> QED
      BY <1>3, <2>2, <2>3
  <1>7. word = SubSeq(b, t, e - 1)
    BY <1>5, <1>6 DEF StringAt
  <1>8. /\ word \in Seq(Keys) /\ Len(word) = e - t
        /\ \A j \in 1..(e - t) : word[j] = s[t + j - 1]
    <2>1. \A j \in t..(e - 1) : b[j] \in Keys /\ b[j] = s[j]
      <3>1. \A j \in t..(e - 1) : j \in 1..n
        BY <1>2, <1>3
      <3> QED
        BY <1>3, <3>1
    <2>2. t \in Int /\ e - 1 \in Int /\ t =< e - 1 /\ (e - 1) - t + 1 = e - t
      BY <1>2, <1>3
    <2>3. /\ word \in Seq(Keys)
          /\ Len(word) = IF t =< e - 1 THEN (e - 1) - t + 1 ELSE 0
          /\ \A j \in 1..((e - 1) - t + 1) : word[j] = b[t + j - 1]
      BY <1>7, <2>1, <2>2, SubSeqProperties
    <2>4. \A j \in 1..(e - t) : t + j - 1 \in t..(e - 1)
      BY <1>2, <1>3
    <2> QED
      BY <2>1, <2>2, <2>3, <2>4
  <1>9. PICK k \in Nat : k = Min({Len(word), ArgumentSize - 1}) /\ k =< e - t
                         /\ k =< ArgumentSize - 1 /\ (k = e - t \/ k = ArgumentSize - 1)
    <2>1. Len(word) \in Nat /\ ArgumentSize - 1 \in Nat
      BY <1>8, CharFacts
    <2> QED
      BY <1>8, <2>1, MinOfTwo
  <1>10. PICK l \in Nat : l = Min({e, t + ArgumentSize - 1}) /\ l =< e
                          /\ l =< t + ArgumentSize - 1 /\ (l = e \/ l = t + ArgumentSize - 1)
    <2>1. e \in Nat /\ t + ArgumentSize - 1 \in Nat
      BY <1>2, <1>3, CharFacts
    <2> QED
      BY <2>1, MinOfTwo
  <1>11. l - t = k
    BY <1>2, <1>3, <1>9, <1>10, CharFacts
  <1>12. PICK u : u = SubSeq(word, 1, k)
    OBVIOUS
  <1>13. PICK w : w = SubSeq(s, t, l - 1)
    OBVIOUS
  <1>14. u \in Seq(Keys) /\ Len(u) = k /\ \A j \in 1..k : u[j] = s[t + j - 1]
    <2>1. \A j \in 1..k : word[j] \in Keys /\ word[j] = s[t + j - 1]
      BY <1>8, <1>9
    <2>2. /\ u \in Seq(Keys) /\ Len(u) = IF 1 =< k THEN k - 1 + 1 ELSE 0
          /\ \A j \in 1..(k - 1 + 1) : u[j] = word[1 + j - 1]
      BY <1>12, <2>1, SubSeqProperties
    <2> QED
      BY <2>1, <2>2
  <1>15. w \in Seq(Keys) /\ Len(w) = k /\ \A j \in 1..k : w[j] = s[t + j - 1]
    <2>1. \A j \in t..(l - 1) : s[j] \in Keys
      <3>1. \A j \in t..(l - 1) : j \in 1..n
        BY <1>2, <1>3, <1>10
      <3> QED
        BY <1>3, <3>1
    <2>2. t \in Int /\ l - 1 \in Int /\ (l - 1) - t + 1 = k /\ (t =< l - 1 <=> 1 =< k)
      BY <1>3, <1>11
    <2>3. /\ w \in Seq(Keys) /\ Len(w) = IF t =< l - 1 THEN (l - 1) - t + 1 ELSE 0
          /\ \A j \in 1..((l - 1) - t + 1) : w[j] = s[t + j - 1]
      BY <1>13, <2>1, <2>2, SubSeqProperties
    <2> QED
      BY <2>2, <2>3
  <1>16. u = w
    BY <1>14, <1>15, SeqEqual
  <1> QED
    BY <1>2, <1>9, <1>10, <1>12, <1>13, <1>16

\* The word whose start is the k-th
LEMMA WordAt ==
    ASSUME NEW s \in Seq(Keys), NEW t \in WordStarts(s), NEW k,
           k = Cardinality({y \in WordStarts(s) : y =< t})
    PROVE  /\ k \in 1..Cardinality(WordStarts(s))
           /\ Words(s)[k] = SubSeq(s, t, Min({WordEnd(s, t), t + ArgumentSize - 1}) - 1)
  <1> DEFINE S == WordStarts(s)
  <1>2. S \subseteq Nat /\ IsFiniteSet(S) /\ t \in S
    BY LineFacts
  <1>3. k = Cardinality({y \in S : y =< t})
    OBVIOUS
  <1>4. (CHOOSE x \in S : Cardinality({y \in S : y =< x}) = k) = t
    BY <1>2, <1>3, RankUnique
  <1>5. k \in 1..Cardinality(S)
    <2>1. PICK U : U = {y \in S : y =< t}
      OBVIOUS
    <2>2. U \in SUBSET S /\ t \in U
      BY <1>2, <2>1
    <2>3. IsFiniteSet(U) /\ Cardinality(U) =< Cardinality(S)
      BY <1>2, <2>2, FS_Subset
    <2>4. Cardinality(U) \in Nat /\ Cardinality(S) \in Nat /\ Cardinality(U) # 0
      BY <1>2, <2>2, <2>3, FS_CardinalityType, FS_EmptySet
    <2> QED
      BY <1>3, <2>1, <2>3, <2>4
  <1> DEFINE W(j) == SubSeq(s, j, Min({WordEnd(s, j), j + ArgumentSize - 1}) - 1)
  <1>6. Words(s) = [h \in 1..Cardinality(S) |->
                        W(CHOOSE x \in S : Cardinality({y \in S : y =< x}) = h)]
    BY Zenon DEF Words
  <1> HIDE DEF W
  <1>7. Words(s)[k] = W(CHOOSE x \in S : Cardinality({y \in S : y =< x}) = k)
    BY <1>5, <1>6
  <1>8. Words(s)[k] = W(t)
    BY <1>4, <1>7
  <1> QED
    BY <1>5, <1>8 DEF W

\* What the parser has found of the line s between two rounds
ParsedSoFar(p, s) ==
    /\ p \in Parsers
    /\ \A k \in 1..Len(p.args) : p.args[k] = Words(s)[k]
    /\ p.token = NULL => Len(p.args) = Cardinality(WordStarts(s))
    /\ p.token # NULL =>
         /\ Cut(p.buf, s, p.token, p.sp)
         /\ Cardinality({y \in WordStarts(s) : y =< p.token}) = Len(p.args) + 1

\* The word starts up to the next one
LEMMA RankNext ==
    ASSUME NEW S, S \subseteq Nat, IsFiniteSet(S), NEW t \in S, NEW z \in S, t < z,
           \A y \in S : y =< t \/ y >= z
    PROVE  Cardinality({y \in S : y =< z}) = Cardinality({y \in S : y =< t}) + 1
  <1>1. PICK U : U = {y \in S : y =< t}
    OBVIOUS
  <1>2. PICK V : V = {y \in S : y =< z}
    OBVIOUS
  <1>3. t \in Nat /\ z \in Nat
    OBVIOUS
  <1>4. V = U \cup {z}
    <2>1. ASSUME NEW y \in V PROVE y \in U \cup {z}
      <3>1. y \in S /\ y \in Nat /\ y =< z
        BY <1>2
      <3>2. y =< t \/ y = z
        BY <1>3, <3>1
      <3> QED
        BY <1>1, <3>1, <3>2
    <2>2. ASSUME NEW y \in U PROVE y \in V
      <3>1. y \in S /\ y \in Nat /\ y =< t
        BY <1>1
      <3>2. y =< z
        BY <1>3, <3>1
      <3> QED
        BY <1>2, <3>1, <3>2
    <2>3. z \in V
      BY <1>2, <1>3
    <2> QED
      BY <2>1, <2>2, <2>3
  <1>5. z \notin U
    BY <1>1, <1>3
  <1>6. U \in SUBSET S
    BY <1>1
  <1>7. IsFiniteSet(U)
    BY <1>6, FS_Subset
  <1>8. Cardinality(U \cup {z}) = Cardinality(U) + 1
    BY <1>5, <1>7, FS_AddElement
  <1> QED
    BY <1>1, <1>2, <1>4, <1>8

LEMMA ParseStep ==
    ASSUME NEW s \in Seq(Keys), Len(s) =< MaxLine, NEW p, ParsedSoFar(p, s), p.token # NULL,
           NEW after, after = AddArgument(p)
    PROVE  ParsedSoFar(after, s)
  <1>0. /\ p.buf \in Commands /\ p.sp \in 0..(MaxLine + 1) /\ p.args \in Seq(Seq(Chars))
        /\ p \in Parsers
    BY DEF ParsedSoFar, Parsers
  <1>1. PICK b \in Commands : b = p.buf
    BY <1>0
  <1>2. PICK x \in 0..(MaxLine + 1) : x = p.sp
    BY <1>0
  <1>3. PICK t : t = p.token
    OBVIOUS
  <1>4. PICK args \in Seq(Seq(Chars)) : args = p.args
    BY <1>0
  <1>5. /\ Cut(b, s, t, x) /\ Cardinality({y \in WordStarts(s) : y =< t}) = Len(args) + 1
        /\ \A k \in 1..Len(args) : args[k] = Words(s)[k]
        /\ Len(args) \in Nat
    BY <1>1, <1>2, <1>3, <1>4 DEF ParsedSoFar
  <1>6. after \in Parsers
    BY <1>0, AddArgumentFacts
  <1>7. PICK word : word = StringAt(b, t)
    OBVIOUS
  <1>8. PICK arg : arg = SubSeq(word, 1, Min({Len(word), ArgumentSize - 1}))
    OBVIOUS
  <1>9. PICK next : next = strtok(b, x, NULL)
    OBVIOUS
  <1>10. after = [buf |-> next.buf, sp |-> next.sp, token |-> next.token, args |-> Append(args, arg)]
    BY <1>1, <1>2, <1>3, <1>4, <1>7, <1>8, <1>9, Zenon DEF AddArgument
  <1>11. PICK more : more = Append(args, arg)
    OBVIOUS
  <1>12. more \in Seq(Seq(Chars))
    BY <1>6, <1>10, <1>11 DEF Parsers
  <1>13. /\ Len(more) = Len(args) + 1 /\ more[Len(args) + 1] = arg
         /\ \A k \in 1..Len(args) : more[k] = args[k]
    BY <1>11
  <1>14. t \in WordStarts(s) /\ Rest(b, s, x) /\ x \in 1..(Len(s) + 1)
         /\ \A y \in WordStarts(s) : y =< t \/ y >= x
    BY <1>5 DEF Cut, Rest
  <1>15. arg = Words(s)[Len(args) + 1]
    <2>1. arg = SubSeq(s, t, Min({WordEnd(s, t), t + ArgumentSize - 1}) - 1)
      BY <1>5, <1>7, <1>8, WordCopied
    <2>2. PICK k : k = Cardinality({y \in WordStarts(s) : y =< t})
      OBVIOUS
    <2>3. Words(s)[k] = SubSeq(s, t, Min({WordEnd(s, t), t + ArgumentSize - 1}) - 1)
      BY <1>14, <2>2, WordAt
    <2> QED
      BY <1>5, <2>1, <2>2, <2>3
  <1>16. \A k \in 1..Len(more) : more[k] = Words(s)[k]
    <2>1. ASSUME NEW k \in 1..Len(more) PROVE more[k] = Words(s)[k]
      <3>1. k = Len(args) + 1 \/ k \in 1..Len(args)
        BY <1>5, <1>13
      <3> QED
        BY <1>5, <1>13, <1>15, <3>1
    <2> QED
      BY <2>1
  <1>17. x = TokenStart(NULL, x) /\ NULL \in {0, 1}
    BY <1>14 DEF TokenStart, NULL
  <1>18. \/ next.token = NULL /\ \A y \in WordStarts(s) : y < x
         \/ /\ next.token # NULL /\ Cut(next.buf, s, next.token, next.sp) /\ next.token >= x
            /\ \A y \in WordStarts(s) : y < x \/ y >= next.token
    BY <1>9, <1>14, <1>17, NextToken
  <1>19. /\ after.args = more /\ after.token = next.token
         /\ after.buf = next.buf /\ after.sp = next.sp
    BY <1>10, <1>11
  <1>20. WordStarts(s) \subseteq Nat /\ IsFiniteSet(WordStarts(s)) /\ x \in Nat /\ t \in Nat
    BY <1>14, LineFacts
  <1>21. CASE next.token = NULL
    <2>1. {y \in WordStarts(s) : y =< t} = WordStarts(s)
      <3>1. ASSUME NEW y \in WordStarts(s) PROVE y =< t
        BY <1>14, <1>18, <1>20, <1>21
      <3> QED
        BY <3>1
    <2>2. Cardinality(WordStarts(s)) = Len(more)
      BY <1>5, <1>13, <2>1
    <2> QED
      BY <1>6, <1>16, <1>19, <1>21, <2>2 DEF ParsedSoFar
  <1>22. CASE next.token # NULL
    <2>1. PICK z : z = next.token
      OBVIOUS
    <2>2. /\ Cut(next.buf, s, z, next.sp) /\ z >= x /\ z \in WordStarts(s)
          /\ \A y \in WordStarts(s) : y < x \/ y >= z
      BY <1>18, <1>22, <2>1 DEF Cut
    <2>3. t < x
      BY <1>5, <1>20 DEF Cut
    <2>4. t < z /\ \A y \in WordStarts(s) : y =< t \/ y >= z
      BY <1>14, <1>20, <2>2, <2>3
    <2>5. Cardinality({y \in WordStarts(s) : y =< z}) = Len(more) + 1
      <3>1. PICK S : S = WordStarts(s)
        OBVIOUS
      <3>2. Cardinality({y \in S : y =< z}) = Cardinality({y \in S : y =< t}) + 1
        BY <1>14, <1>20, <2>2, <2>4, <3>1, RankNext
      <3> QED
        BY <1>5, <1>13, <3>1, <3>2
    <2> QED
      BY <1>6, <1>16, <1>19, <1>22, <2>1, <2>2, <2>5 DEF ParsedSoFar
  <1> QED
    BY <1>21, <1>22

\* peachos_parse_command, when it starts without a pointer left over and
\* comes to the end of the line, returns the words of the line.
LEMMA ParseWords ==
    ASSUME NEW s \in Seq(Keys), Len(s) =< MaxLine, NEW n \in Nat,
           scommand \in Commands, sp = NULL,
           NEW r, r = peachos_parse_command(s, n), r.token = NULL
    PROVE  r.args = Words(s)
  <1>0. s \in Seq(Chars) /\ 0 \in 0..(MaxLine + 1)
    <2>1. Keys \subseteq Chars
      BY DEF Chars
    <2> QED
      BY <2>1, CharFacts
  <1>1. PICK b, first, v :
              /\ b = strncpy(scommand, s, MaxLine + 1) /\ b \in Commands
              /\ first = strtok(b, sp, 1)
              /\ v[0] = [buf |-> first.buf, sp |-> first.sp, token |-> first.token, args |-> <<>>]
              /\ \A k \in 1..n :
                    v[k] = IF v[k - 1].token = NULL THEN v[k - 1] ELSE AddArgument(v[k - 1])
              /\ \A k \in 0..n : v[k] \in Parsers
              /\ peachos_parse_command(s, n) = v[n]
    <2>1. sp \in 0..(MaxLine + 1)
      BY <1>0 DEF NULL
    <2> QED
      BY <1>0, <2>1, ParseRounds
  <1>2. Len(s) \in Nat /\ WordStarts(s) \subseteq Nat /\ IsFiniteSet(WordStarts(s))
        /\ WordStarts(s) \subseteq 1..Len(s)
    BY LineFacts
  <1>3. Rest(b, s, 1)
    <2>1. PICK dest \in Commands : dest = scommand
      OBVIOUS
    <2>2. b = strncpy(dest, s, MaxLine + 1)
      BY <1>1, <2>1
    <2>3. b[Len(s) + 1] = NUL /\ \A j \in 1..Len(s) : b[j] = s[j]
      BY <1>0, <2>2, StrncpyFacts
    <2> QED
      BY <1>2, <2>3 DEF Rest
  <1>4. \/ first.token = NULL /\ \A y \in WordStarts(s) : y < 1
        \/ /\ first.token # NULL /\ Cut(first.buf, s, first.token, first.sp)
           /\ \A y \in WordStarts(s) : y < 1 \/ y >= first.token
    <2>1. first = strtok(b, 0, 1) /\ 1 = TokenStart(1, 0) /\ 1 \in {0, 1}
      BY <1>1 DEF NULL, TokenStart
    <2> QED
      BY <1>0, <1>1, <1>3, <2>1, NextToken
  <1>5. ParsedSoFar(v[0], s)
    <2>1. PICK p : p = v[0]
      OBVIOUS
    <2>2. /\ p.buf = first.buf /\ p.sp = first.sp /\ p.token = first.token /\ p.args = <<>>
          /\ p \in Parsers
      BY <1>1, <2>1
    <2>3. Len(p.args) = 0
      BY <2>2
    <2>4. CASE first.token = NULL
      <3>1. WordStarts(s) = {}
        BY <1>2, <1>4, <2>4
      <3>2. Cardinality(WordStarts(s)) = 0
        BY <3>1, FS_EmptySet
      <3> QED
        BY <2>1, <2>2, <2>3, <2>4, <3>2 DEF ParsedSoFar
    <2>5. CASE first.token # NULL
      <3>1. PICK t : t = first.token
        OBVIOUS
      <3>2. Cut(p.buf, s, t, p.sp) /\ t \in WordStarts(s) /\ \A y \in WordStarts(s) : y < 1 \/ y >= t
        BY <1>4, <2>2, <2>5, <3>1 DEF Cut
      <3>3. {y \in WordStarts(s) : y =< t} = {t}
        BY <1>2, <3>2
      <3>4. Cardinality({t}) = 1
        BY FS_Singleton
      <3>5. Cardinality({y \in WordStarts(s) : y =< t}) = Len(p.args) + 1
        <4>1. Cardinality({y \in WordStarts(s) : y =< t}) = 1
          BY <3>3, <3>4, Zenon
        <4>2. Len(p.args) + 1 = 1
          BY <2>3
        <4> QED
          BY <4>1, <4>2
      <3>6. p.token = t /\ p.token # NULL
        BY <2>2, <2>5, <3>1
      <3>7. Cut(p.buf, s, p.token, p.sp)
        BY <3>2, <3>6
      <3>8. Cardinality({y \in WordStarts(s) : y =< p.token}) = Len(p.args) + 1
        BY <3>5, <3>6
      <3>9. \A k \in 1..Len(p.args) : p.args[k] = Words(s)[k]
        BY <2>3
      <3>10. ParsedSoFar(p, s)
        BY <2>2, <3>6, <3>7, <3>8, <3>9, Zenon DEF ParsedSoFar
      <3> QED
        BY <2>1, <3>10
    <2> QED
      BY <2>4, <2>5
  <1> DEFINE T == {p \in Parsers : ParsedSoFar(p, s)}
  <1>6. v[0] \in T
    BY <1>1, <1>5
  <1>7. ASSUME NEW k \in 1..n, v[k - 1] \in T PROVE v[k] \in T
    <2>1. PICK p : p = v[k - 1]
      OBVIOUS
    <2>2. ParsedSoFar(p, s) /\ v[k] = IF p.token = NULL THEN p ELSE AddArgument(p)
      BY <1>1, <1>7, <2>1
    <2>3. ParsedSoFar(v[k], s)
      BY <2>2, ParseStep
    <2> QED
      BY <1>1, <2>3
  <1>8. \A k \in 0..n : v[k] \in T
    <2> HIDE DEF T
    <2> QED
      BY <1>6, <1>7, LoopInvariant
  <1>9. ParsedSoFar(r, s)
    BY <1>1, <1>8
  <1>10. /\ r.args \in Seq(Seq(Chars)) /\ Len(r.args) = Cardinality(WordStarts(s))
         /\ \A k \in 1..Len(r.args) : r.args[k] = Words(s)[k]
    BY <1>9 DEF ParsedSoFar, Parsers
  <1>11. PICK args \in Seq(Seq(Chars)) : args = r.args
    BY <1>10
  <1>12. PICK m \in Nat : m = Len(args) /\ m = Cardinality(WordStarts(s))
    BY <1>10, <1>11
  <1>13. args \in [1..m -> Seq(Chars)]
    BY <1>12, LenProperties
  <1> DEFINE G(k) == LET j == CHOOSE x \in WordStarts(s) :
                                Cardinality({y \in WordStarts(s) : y =< x}) = k
                     IN  SubSeq(s, j, Min({WordEnd(s, j), j + ArgumentSize - 1}) - 1)
  <1>14. Words(s) = [k \in 1..Cardinality(WordStarts(s)) |-> G(k)]
    BY Zenon DEF Words
  <1> HIDE DEF G
  <1>15. Words(s) = [k \in 1..m |-> G(k)]
    BY <1>12, <1>14, Zenon
  <1>16. \A k \in 1..m : args[k] = G(k)
    BY <1>10, <1>11, <1>12, <1>15
  <1> QED
    BY <1>11, <1>13, <1>15, <1>16

-----------------------------------------------------------------------------
(* The invariant holds                                                     *)

LEMMA InitInvariant ==
    Init => TermInv
  <1> SUFFICES ASSUME Init PROVE TermInv
    OBVIOUS
  <1>0. Short \in Nat /\ Short > 1 /\ VGA_WIDTH \in Nat /\ VGA_WIDTH > 0
    BY ScreenFacts
  <1>1. terminal_initialize \in Placed
    <2>1. 0 \in 0..(Short - 1) /\ 0 \in 0..(VGA_WIDTH - 1)
      BY <1>0
    <2>2. [cell \in Screen |-> BLANK] \in [Screen -> Glyphs]
      BY DEF Glyphs
    <2> QED
      BY <2>1, <2>2, Zenon DEF terminal_initialize, Placed, Term
  <1>2. PICK t \in Placed : t = terminal_initialize
    BY <1>1
  <1>3. term = terminal_writechar(terminal_writechar(t, "v"), NEWLINE)
    <2>1. "v" \in Glyphs \cup {NEWLINE, BACKSPACE} /\ NEWLINE \in Glyphs \cup {NEWLINE, BACKSPACE}
      BY DEF Glyphs
    <2>2. print(t, << "v", NEWLINE >>) = terminal_writechar(terminal_writechar(t, "v"), NEWLINE)
      BY <2>1, PrintTwo, Zenon
    <2> QED
      BY <1>2, <2>2 DEF Init
  <1>4. term \in Term /\ term.col = 0
    <2>1. PICK u : u = terminal_writechar(t, "v")
      OBVIOUS
    <2>2. u \in Term
      BY <1>2, <2>1, WritecharPlaced DEF Placed, Glyphs
    <2> QED
      BY <1>3, <2>1, <2>2, NewlineFacts
  <1>5. scommand \in Commands
    BY CharFacts DEF Init, Commands
  <1>6. /\ pc = "prompt" /\ i = 0 /\ buf = <<>> /\ sp = 0 /\ anchor = 0
    BY DEF Init, NULL
  <1> QED
    BY <1>0, <1>4, <1>5, <1>6, CharFacts DEF TermInv, NULL

LEMMA MulBelow ==
    ASSUME NEW x \in Nat, NEW y \in Nat, NEW w \in Nat, x * w < w * y
    PROVE  x < y
  <1> SUFFICES ASSUME x >= y PROVE FALSE
    OBVIOUS
  <1>1. PICK d \in Nat : x = y + d
    BY Z3
  <1>2. x * w = w * y + d * w /\ d * w >= 0
    BY <1>1, Z3
  <1>3. w * y \in Nat /\ d * w \in Nat /\ x * w \in Nat
    OBVIOUS
  <1> QED
    BY <1>2, <1>3

\* A shown character, from a cursor in its row: the next cell of the screen is
\* the next cell of the line, unless the row counter wraps.
LEMMA Forward ==
    ASSUME NEW t \in Term, t.col \in 0..(VGA_WIDTH - 1), NEW c \in Glyphs,
           NEW m, m = Shown(t, c), CellOf(t.row, t.col) + 1 < VGA_WIDTH * Short
    PROVE  /\ CellOf(m.row, m.col) = CellOf(t.row, t.col) + 1
           /\ CellOf(t.row, t.col) \in Screen => m.video[CellOf(t.row, t.col)] = c
           /\ \A cell \in Screen : cell # CellOf(t.row, t.col) => m.video[cell] = t.video[cell]
  <1>0. /\ VGA_WIDTH \in Nat /\ VGA_WIDTH > 0 /\ VGA_WIDTH < Short /\ Short \in Nat
        /\ t.row \in Nat /\ t.col \in Nat /\ t.video \in [Screen -> Glyphs]
    BY ScreenFacts, TermFields
  <1>1. /\ t.col < VGA_WIDTH - 1 => m.col = t.col + 1 /\ m.row = t.row
        /\ t.col >= VGA_WIDTH - 1 /\ t.col < Short - 1
                => m.col = 0 /\ m.row = (t.row + 1) % Short
        /\ CellOf(t.row, t.col) \in Screen
                => m.video = [t.video EXCEPT ![CellOf(t.row, t.col)] = c]
        /\ CellOf(t.row, t.col) \notin Screen => m.video = t.video
    BY ShownFacts
  <1>2. PICK r \in Nat, k \in Nat, w \in Nat :
            r = t.row /\ k = t.col /\ w = VGA_WIDTH /\ k =< w - 1
    BY <1>0
  <1>3. CellOf(m.row, m.col) = CellOf(t.row, t.col) + 1
    <2>0. CellOf(r, k) = r * w + k /\ r * w \in Nat
      BY <1>2 DEF CellOf
    <2>1. CASE k < w - 1
      <3>1. m.col = k + 1 /\ m.row = r
        BY <1>1, <1>2, <2>1
      <3>2. CellOf(r, k + 1) = r * w + (k + 1)
        BY <1>2 DEF CellOf
      <3> QED
        BY <1>2, <2>0, <3>1, <3>2
    <2>2. CASE k = w - 1
      <3>1. r * w + w < w * Short
        BY <1>2, <2>0, <2>2
      <3>2. (r + 1) * w = r * w + w
        BY Z3
      <3>3. r + 1 < Short
        BY <1>0, <3>1, <3>2, MulBelow
      <3>4. (r + 1) % Short = r + 1
        <4>1. r + 1 \in 0..(Short - 1)
          BY <1>0, <3>3
        <4> QED
          BY <4>1, ShortMod
      <3>5. t.col >= VGA_WIDTH - 1 /\ t.col < Short - 1
        BY <1>0, <1>2, <2>2
      <3>6. m.col = 0 /\ m.row = r + 1
        BY <1>1, <1>2, <3>4, <3>5
      <3>7. CellOf(r + 1, 0) = (r + 1) * w + 0
        BY <1>2 DEF CellOf
      <3> QED
        BY <1>2, <2>0, <2>2, <3>2, <3>6, <3>7
    <2> QED
      BY <1>2, <2>1, <2>2
  <1> QED
    BY <1>0, <1>1, <1>3
\* What is common to all actions
LEMMA Basics ==
    ASSUME TermInv
    PROVE  /\ term \in Placed /\ term \in Term
           /\ VGA_WIDTH \in Nat /\ VGA_WIDTH > 0 /\ VGA_WIDTH < Short /\ Short \in Nat
           /\ MaxLine \in Nat /\ MaxLine >= 2
           /\ i \in Nat /\ anchor \in Nat /\ Len(buf) \in Nat
           /\ ">" \in Glyphs /\ "x" \in Glyphs /\ BLANK \in Glyphs
  <1>1. /\ term \in Term /\ (term.col \in 0..(VGA_WIDTH - 1) \/ term.col = Short - 1)
        /\ i \in 0..(MaxLine - 1) /\ anchor \in Nat /\ buf \in Seq(Chars)
    BY DEF TermInv
  <1>2. 0..(MaxLine - 1) \subseteq Nat
    BY CharFacts
  <1> QED
    BY <1>1, <1>2, ScreenFacts, CharFacts DEF Placed, Glyphs

LEMMA StoredFacts ==
    ASSUME NEW b \in Seq(Chars), NEW k \in 0..Len(b), NEW c \in Chars, NEW r, r = Stored(b, k, c)
    PROVE  /\ r \in Seq(Chars) /\ Len(r) = k + 1 /\ r[k + 1] = c
           /\ \A j \in 1..k : r[j] = b[j]
  <1>1. PICK head : head = SubSeq(b, 1, k)
    OBVIOUS
  <1>2. /\ head \in Seq(Chars) /\ Len(head) = IF 1 =< k THEN k - 1 + 1 ELSE 0
        /\ \A j \in 1..(k - 1 + 1) : head[j] = b[1 + j - 1]
    <2>1. \A j \in 1..k : b[j] \in Chars
      OBVIOUS
    <2> QED
      BY <1>1, <2>1, SubSeqProperties
  <1>3. Len(head) = k /\ \A j \in 1..k : head[j] = b[j]
    BY <1>2
  <1>4. r = Append(head, c)
    BY <1>1 DEF Stored
  <1> QED
    BY <1>2, <1>3, <1>4, AppendProperties

LEMMA PromptStep ==
    ASSUME TermInv, Prompt
    PROVE  TermInv'
  <1>0. /\ term \in Placed
        /\ MaxLine \in Nat /\ MaxLine >= 2
        /\ ">" \in Glyphs /\ BLANK \in Glyphs
    BY Basics
  <1>1. PICK t \in Placed : t = term
    BY <1>0
  <1>2. PICK u : u = terminal_writechar(t, ">")
    OBVIOUS
  <1>3. u \in Term
    BY <1>0, <1>2, WritecharPlaced DEF Placed
  <1>4. term' = Shown(u, BLANK)
    <2>1. print(t, << ">", BLANK >>) = terminal_writechar(u, BLANK)
      BY <1>0, <1>2, PrintTwo
    <2> QED
      BY <1>0, <1>1, <2>1, GlyphsShown DEF Prompt
  <1>5. PICK m : m = term' /\ m = Shown(u, BLANK)
    BY <1>4
  <1>6. m \in Term /\ m.col \in 0..(VGA_WIDTH - 1)
    BY <1>0, <1>3, <1>5, ShownFacts
  <1>7. CellOf(m.row, m.col) \in Nat
    BY <1>6, TermFields, CellNat
  <1>8. /\ pc' = "read" /\ buf' = <<>> /\ i' = 0 /\ anchor' = CellOf(m.row, m.col)
        /\ scommand' = scommand /\ sp' = sp /\ trouble' = trouble
    BY <1>5 DEF Prompt
  <1>9. Drawn'
    BY <1>5, <1>7, <1>8 DEF Drawn
  <1> QED
    BY <1>0, <1>5, <1>6, <1>7, <1>8, <1>9 DEF TermInv

LEMMA ReturnStep ==
    ASSUME TermInv, Return
    PROVE  TermInv'
  <1>1. /\ pc' = "newline" /\ term' = term /\ buf' = buf /\ i' = i /\ scommand' = scommand
        /\ sp' = sp /\ anchor' = anchor /\ clean' = clean /\ trouble' = trouble
    BY DEF Return
  <1> QED
    BY <1>1 DEF TermInv

LEMMA NewlineStep ==
    ASSUME TermInv, Newline
    PROVE  TermInv'
  <1>0. term \in Placed /\ VGA_WIDTH \in Nat /\ VGA_WIDTH > 0
    BY Basics
  <1>1. PICK t \in Placed : t = term
    BY <1>0
  <1>2. term' = terminal_writechar(t, NEWLINE)
    BY <1>1, PrintOne DEF Newline
  <1>3. PICK m : m = term' /\ m = terminal_writechar(t, NEWLINE)
    BY <1>2
  <1>4. m \in Term /\ m.col = 0
    BY <1>3, NewlineFacts DEF Placed
  <1>5. /\ pc' \in {"run", "prompt"} /\ buf' = buf /\ i' = i /\ scommand' = scommand
        /\ sp' = sp /\ anchor' = anchor /\ clean' = clean /\ trouble' = trouble
    BY DEF Newline
  <1> QED
    BY <1>0, <1>3, <1>4, <1>5 DEF TermInv

LEMMA OtherPrintsStep ==
    ASSUME TermInv, NEW c \in {"x", NEWLINE}, OtherPrints(c)
    PROVE  TermInv'
  <1>0. term \in Placed /\ "x" \in Glyphs /\ VGA_WIDTH \in Nat /\ VGA_WIDTH > 0
    BY Basics
  <1>1. PICK t \in Placed : t = term
    BY <1>0
  <1>2. PICK m : m = term' /\ m = terminal_writechar(t, c)
    BY <1>1 DEF OtherPrints
  <1>3. m \in Term /\ m.col \in 0..(VGA_WIDTH - 1)
    <2>1. CASE c = "x"
      <3>1. t \in Term /\ m = Shown(t, "x")
        BY <1>0, <1>2, <2>1, GlyphsShown DEF Placed
      <3> QED
        BY <1>0, <3>1, ShownFacts
    <2>2. CASE c = NEWLINE
      <3>1. m \in Term /\ m.col = 0
        BY <1>2, <2>2, NewlineFacts DEF Placed
      <3> QED
        BY <1>0, <3>1
    <2> QED
      BY <2>1, <2>2
  <1>4. /\ pc' = pc /\ buf' = buf /\ i' = i /\ scommand' = scommand
        /\ sp' = sp /\ anchor' = anchor /\ trouble' = trouble
        /\ pc = "read" => ~clean'
    BY DEF OtherPrints
  <1> QED
    BY <1>2, <1>3, <1>4 DEF TermInv

LEMMA RunStep ==
    ASSUME TermInv, NEW n \in 0..MaxLine, Run(n)
    PROVE  TermInv'
  <1>0. /\ buf \in Seq(Chars) /\ i \in 0..Len(buf) /\ i \in Nat
        /\ scommand \in Commands /\ sp \in 0..(MaxLine + 1)
    BY Basics DEF TermInv
  <1>1. Line \in Seq(Chars)
    <2>1. PICK r : r = Stored(buf, i, NUL)
      OBVIOUS
    <2>2. r \in Seq(Chars) /\ Len(r) = i + 1 /\ r[i + 1] = NUL
      BY <1>0, <2>1, CharFacts, StoredFacts
    <2>3. 1 \in 1..(i + 1)
      BY <1>0
    <2> QED
      BY <1>0, <2>1, <2>2, <2>3, StringFacts DEF Line
  <1>2. PICK parsed : parsed = peachos_parse_command(Line, n)
    OBVIOUS
  <1>3. parsed \in Parsers
    BY <1>0, <1>1, <1>2, CharFacts, ParseFacts
  <1>4. /\ parsed.buf \in Commands /\ parsed.sp \in 0..(MaxLine + 1)
        /\ parsed.token = NULL => parsed.sp = NULL
    BY <1>3 DEF Parsers
  <1>5. /\ scommand' = parsed.buf /\ sp' = parsed.sp
        /\ trouble' = (parsed.token # NULL)
        /\ pc' = "finish" /\ term' = term /\ buf' = buf /\ i' = i
        /\ anchor' = anchor /\ clean' = clean
    BY <1>2, Zenon DEF Run
  <1>6. ~trouble' => sp' = NULL
    BY <1>4, <1>5
  <1> QED
    BY <1>4, <1>5, <1>6 DEF TermInv
\* A key that is shown, or a backspace with nothing before it to erase.
LEMMA KeyForward ==
    ASSUME TermInv, NEW key \in Keys, Key(key), ~(key = BACKSPACE /\ i >= 1)
    PROVE  TermInv'
  <1>0. /\ term \in Placed /\ term \in Term
        /\ VGA_WIDTH \in Nat /\ VGA_WIDTH > 0 /\ VGA_WIDTH < Short /\ Short \in Nat
        /\ MaxLine \in Nat /\ MaxLine >= 2 /\ i \in Nat /\ anchor \in Nat
        /\ buf \in Seq(Chars) /\ Len(buf) =< MaxLine /\ i \in 0..Len(buf) /\ i < MaxLine - 1
        /\ term.col \in 0..(VGA_WIDTH - 1) \/ (term.col = Short - 1 /\ ~clean)
        /\ key \in Chars /\ key # CR
    BY Basics DEF TermInv, Key, Chars
  <1>1. /\ term' = terminal_writechar(term, key)
        /\ i' = i + 1 /\ buf' = Stored(buf, i, key)
        /\ pc' = (IF i' < MaxLine - 1 THEN "read" ELSE "newline")
        /\ clean' = (clean /\ ~(key = BACKSPACE /\ (i = 0 \/ term.col = 0)))
        /\ anchor' = anchor /\ sp' = sp /\ scommand' = scommand /\ trouble' = trouble
        /\ pc = "read"
    BY Zenon DEF Key, Echo
  <1>2. PICK t \in Placed : t = term
    BY <1>0
  <1>3. PICK m : m = term' /\ m = terminal_writechar(t, key)
    BY <1>1, <1>2
  <1>4. PICK b : b = buf' /\ b = Stored(buf, i, key)
    BY <1>1
  <1>5. /\ b \in Seq(Chars) /\ Len(b) = i + 1 /\ b[i + 1] = key
        /\ \A j \in 1..i : b[j] = buf[j]
    <2>0. PICK old \in Seq(Chars) : old = buf
      BY <1>0
    <2>1. PICK k \in 0..Len(old) : old = buf /\ k = i
      BY <1>0, <2>0
    <2>2. b = Stored(old, k, key) /\ key \in Chars
      BY <1>0, <1>4, <2>1
    <2>3. /\ b \in Seq(Chars) /\ Len(b) = k + 1 /\ b[k + 1] = key
          /\ \A j \in 1..k : b[j] = old[j]
      BY <2>2, StoredFacts
    <2> QED
      BY <2>1, <2>3
  <1>6. CASE key = BACKSPACE
    <2>1. i = 0 /\ ~clean'
      <3>1. i = 0
        BY <1>0, <1>6
      <3> QED
        BY <1>1, <1>6, <3>1, Zenon
    <2>2. m \in Term /\ (m.col \in 0..(VGA_WIDTH - 1) \/ m.col = Short - 1)
      BY <1>3, <1>6, WritecharPlaced DEF Placed
    <2> QED
      BY <1>0, <1>1, <1>3, <1>4, <1>5, <2>1, <2>2 DEF TermInv
  <1>7. CASE key # BACKSPACE
    <2>1. key \in Glyphs
      BY <1>0, <1>7 DEF Keys, Glyphs
    <2>2. t \in Term /\ m = Shown(t, key)
      BY <1>3, <2>1, GlyphsShown DEF Placed
    <2>3. m \in Term /\ m.col \in 0..(VGA_WIDTH - 1)
      BY <2>1, <2>2, ShownFacts
    <2>4. ASSUME clean', anchor < VGA_WIDTH * VGA_HEIGHT
          PROVE  Drawn'
      <3>1. clean
        BY <1>1, <2>4, Zenon
      <3>2. /\ CellOf(t.row, t.col) = anchor + i /\ t.col \in 0..(VGA_WIDTH - 1)
            /\ \A k \in 0..(i - 1) : anchor + k \in Screen => t.video[anchor + k] = buf[k + 1]
        BY <1>0, <1>1, <1>2, <2>4, <3>1 DEF TermInv, Drawn
      <3>3. CellOf(t.row, t.col) + 1 < VGA_WIDTH * Short
        <4>1. PICK area \in Nat : area = VGA_WIDTH * VGA_HEIGHT
          BY ScreenFacts
        <4>2. VGA_WIDTH * Short \in Nat
          BY <1>0
        <4>3. area + MaxLine =< VGA_WIDTH * Short
          BY <4>1, ConsoleAssumption
        <4> QED
          BY <1>0, <2>4, <3>2, <4>1, <4>2, <4>3
      <3>4. /\ CellOf(m.row, m.col) = CellOf(t.row, t.col) + 1
            /\ CellOf(t.row, t.col) \in Screen => m.video[CellOf(t.row, t.col)] = key
            /\ \A cell \in Screen : cell # CellOf(t.row, t.col) => m.video[cell] = t.video[cell]
        BY <2>1, <2>2, <3>2, <3>3, Forward
      <3>5. CellOf(m.row, m.col) = anchor + (i + 1)
        BY <1>0, <3>2, <3>4
      <3>6. ASSUME NEW k \in 0..((i + 1) - 1), anchor + k \in Screen
            PROVE  m.video[anchor + k] = b[k + 1]
        <4>1. CASE k = i
          BY <1>5, <3>2, <3>4, <3>6, <4>1
        <4>2. CASE k # i
          <5>1. k \in 0..(i - 1) /\ k + 1 \in 1..i /\ anchor + k # anchor + i
            BY <1>0, <4>2
          <5> QED
            BY <1>5, <3>2, <3>4, <3>6, <5>1
        <4> QED
          BY <4>1, <4>2
      <3>7. term' = m /\ buf' = b /\ i' = i + 1 /\ anchor' = anchor
        BY <1>1, <1>3, <1>4
      <3> QED
        BY <3>5, <3>6, <3>7 DEF Drawn
    <2> QED
      BY <1>0, <1>1, <1>3, <1>4, <1>5, <2>3, <2>4 DEF TermInv
  <1> QED
    BY <1>6, <1>7

\* A backspace that erases.
LEMMA KeyErase ==
    ASSUME TermInv, Key(BACKSPACE), i >= 1
    PROVE  TermInv'
  <1>0. /\ term \in Placed /\ term \in Term
        /\ VGA_WIDTH \in Nat /\ VGA_WIDTH > 0 /\ VGA_WIDTH < Short /\ Short \in Nat
        /\ MaxLine \in Nat /\ MaxLine >= 2 /\ i \in Nat /\ anchor \in Nat
        /\ buf \in Seq(Chars) /\ Len(buf) =< MaxLine /\ i \in 0..Len(buf) /\ i < MaxLine - 1
        /\ term.col \in 0..(VGA_WIDTH - 1) \/ (term.col = Short - 1 /\ ~clean)
    BY Basics DEF TermInv, Key
  <1>1. /\ term' = terminal_writechar(term, BACKSPACE)
        /\ i' = i - 2 + 1 /\ buf' = Stored(buf, i - 1, NUL)
        /\ pc' = (IF i' < MaxLine - 1 THEN "read" ELSE "newline")
        /\ clean' = (clean /\ ~(i = 0 \/ term.col = 0))
        /\ anchor' = anchor /\ sp' = sp /\ scommand' = scommand /\ trouble' = trouble
        /\ pc = "read"
    BY Zenon DEF Key, Echo, IndexAfterBackspace
  <1>2. i' = i - 1 /\ i - 1 \in 0..Len(buf)
    BY <1>0, <1>1
  <1>3. PICK t \in Placed : t = term
    BY <1>0
  <1>4. PICK m : m = term' /\ m = terminal_backspace(t)
    BY <1>1, <1>3 DEF terminal_writechar, NEWLINE, BACKSPACE
  <1>5. PICK b : b = buf' /\ b = Stored(buf, i - 1, NUL)
    BY <1>1
  <1>6. /\ b \in Seq(Chars) /\ Len(b) = i
        /\ \A j \in 1..(i - 1) : b[j] = buf[j]
    <2>0. PICK old \in Seq(Chars) : old = buf
      BY <1>0
    <2>1. PICK k \in 0..Len(old) : old = buf /\ k = i - 1
      BY <1>2, <2>0
    <2>2. b = Stored(old, k, NUL)
      BY <1>5, <2>1
    <2>3. b \in Seq(Chars) /\ Len(b) = k + 1 /\ \A j \in 1..k : b[j] = old[j]
      BY <2>2, CharFacts, StoredFacts
    <2> QED
      BY <1>0, <2>1, <2>3
  <1>7. t \in Term /\ (t.col \in 0..(VGA_WIDTH - 1) \/ t.col = Short - 1)
    BY DEF Placed
  <1>8. /\ m \in Term
        /\ m.col \in 0..(VGA_WIDTH - 1) \/ m.col = Short - 1
        /\ t.col \in 1..(VGA_WIDTH - 1) =>
             /\ m.row = t.row /\ m.col = t.col - 1
             /\ CellOf(t.row, t.col - 1) \in Screen
                  => m.video = [t.video EXCEPT ![CellOf(t.row, t.col - 1)] = BLANK]
             /\ CellOf(t.row, t.col - 1) \notin Screen => m.video = t.video
    BY <1>4, <1>7, BackspaceFacts
  <1>9. ASSUME clean'
        PROVE  clean /\ t.col \in 1..(VGA_WIDTH - 1)
    <2>1. clean /\ term.col # 0
      BY <1>1, <1>9, Zenon
    <2> QED
      BY <1>0, <1>3, <2>1
  <1>10. m.col \in 0..(VGA_WIDTH - 1) \/ (m.col = Short - 1 /\ ~clean')
    <2>1. CASE clean'
      <3>1. t.col \in 1..(VGA_WIDTH - 1) /\ m.col = t.col - 1
        BY <1>8, <1>9, <2>1
      <3> QED
        BY <1>0, <3>1
    <2> QED
      BY <1>8, <2>1
  <1>11. ASSUME clean', anchor < VGA_WIDTH * VGA_HEIGHT
         PROVE  Drawn'
    <2>1. clean /\ t.col \in 1..(VGA_WIDTH - 1)
      BY <1>9, <1>11
    <2>2. /\ CellOf(t.row, t.col) = anchor + i
          /\ \A k \in 0..(i - 1) : anchor + k \in Screen => t.video[anchor + k] = buf[k + 1]
      BY <1>1, <1>3, <1>11, <2>1 DEF TermInv, Drawn
    <2>3. PICK r \in Nat, c \in Nat : r = t.row /\ c = t.col - 1 /\ t.col = c + 1
      <3>1. t.row \in Nat /\ t.col \in Nat
        BY <1>7, TermFields
      <3> QED
        BY <1>0, <2>1, <3>1
    <2>4. CellOf(r, c) = anchor + (i - 1)
      <3>1. CellOf(r, c) = r * VGA_WIDTH + c /\ CellOf(r, c + 1) = r * VGA_WIDTH + (c + 1)
        BY DEF CellOf
      <3>2. r * VGA_WIDTH \in Nat
        BY <1>0
      <3>3. CellOf(r, c + 1) = anchor + i
        BY <2>2, <2>3
      <3> QED
        BY <1>0, <3>1, <3>2, <3>3
    <2>5. CellOf(m.row, m.col) = anchor + (i - 1)
      BY <1>8, <2>1, <2>3, <2>4
    <2>6. ASSUME NEW k \in 0..((i - 1) - 1), anchor + k \in Screen
          PROVE  m.video[anchor + k] = b[k + 1]
      <3>1. k \in 0..(i - 1) /\ k + 1 \in 1..(i - 1) /\ anchor + k # anchor + (i - 1)
        BY <1>0
      <3>2. m.video[anchor + k] = t.video[anchor + k]
        BY <1>8, <2>1, <2>3, <2>4, <2>6, <3>1, <1>7, TermFields
      <3> QED
        BY <1>6, <2>2, <2>6, <3>1, <3>2
    <2>7. term' = m /\ buf' = b /\ i' = i - 1 /\ anchor' = anchor
      BY <1>1, <1>2, <1>4, <1>5
    <2> QED
      BY <2>5, <2>6, <2>7 DEF Drawn
  <1> QED
    BY <1>0, <1>1, <1>2, <1>4, <1>5, <1>6, <1>8, <1>10, <1>11 DEF TermInv

-----------------------------------------------------------------------------
(* What was typed reaches the kernel                                       *)

LEMMA LineInit ==
    Init => LineInv
  <1> SUFFICES ASSUME Init PROVE LineInv
    OBVIOUS
  <1>1. typed = <<>> /\ pc = "prompt"
    BY DEF Init
  <1> QED
    BY <1>1 DEF LineInv, CommandIsTyped

LEMMA LinePrompt ==
    ASSUME LineInv, Prompt
    PROVE  LineInv'
  <1>1. typed' = <<>> /\ pc' = "read" /\ buf' = <<>> /\ i' = 0
    BY DEF Prompt
  <1>2. SubSeq(<<>>, 1, 0) = <<>>
    BY SubSeqEmpty
  <1>3. Edited(typed') = SubSeq(buf', 1, i')
    BY <1>1, <1>2, EditedFacts
  <1> QED
    BY <1>1, <1>3 DEF LineInv, CommandIsTyped

\* Storing at index k keeps what is before it.
LEMMA StoredHead ==
    ASSUME NEW b \in Seq(Chars), NEW k \in 0..Len(b), NEW c \in Chars, NEW r, r = Stored(b, k, c)
    PROVE  /\ SubSeq(r, 1, k) = SubSeq(b, 1, k)
           /\ SubSeq(r, 1, k + 1) = Append(SubSeq(b, 1, k), c)
           /\ SubSeq(b, 1, k) \in Seq(Chars) /\ Len(SubSeq(b, 1, k)) = k
           /\ \A j \in 1..k : SubSeq(b, 1, k)[j] = b[j]
  <1>1. PICK u : u = SubSeq(b, 1, k)
    OBVIOUS
  <1>2. u \in Seq(Chars) /\ Len(u) = k /\ \A j \in 1..k : u[j] = b[j]
    <2>1. \A j \in 1..k : b[j] \in Chars
      OBVIOUS
    <2>2. /\ u \in Seq(Chars) /\ Len(u) = IF 1 =< k THEN k - 1 + 1 ELSE 0
          /\ \A j \in 1..(k - 1 + 1) : u[j] = b[1 + j - 1]
      BY <1>1, <2>1, SubSeqProperties
    <2> QED
      BY <2>2
  <1>3. r \in Seq(Chars) /\ Len(r) = k + 1 /\ \A j \in 1..k : r[j] = b[j]
    BY StoredFacts
  <1>4. PICK w : w = SubSeq(r, 1, k)
    OBVIOUS
  <1>5. w \in Seq(Chars) /\ Len(w) = k /\ \A j \in 1..k : w[j] = r[j]
    <2>1. \A j \in 1..k : r[j] \in Chars
      BY <1>3
    <2>2. /\ w \in Seq(Chars) /\ Len(w) = IF 1 =< k THEN k - 1 + 1 ELSE 0
          /\ \A j \in 1..(k - 1 + 1) : w[j] = r[1 + j - 1]
      BY <1>4, <2>1, SubSeqProperties
    <2> QED
      BY <2>2
  <1>6. u = w
    BY <1>2, <1>3, <1>5, SeqEqual
  <1>7. r = Append(u, c)
    BY <1>1 DEF Stored
  <1>8. SubSeq(r, 1, k + 1) = r
    BY <1>3, SubSeqFull
  <1> QED
    BY <1>1, <1>2, <1>4, <1>6, <1>7, <1>8

LEMMA LineKey ==
    ASSUME TermInv, LineInv, NEW key \in Keys, Key(key)
    PROVE  LineInv'
  <1>0. /\ buf \in Seq(Chars) /\ i \in 0..Len(buf) /\ i \in Nat /\ pc = "read"
        /\ typed \in Seq(Keys) /\ key \in Chars /\ NUL \in Chars
    BY Basics, CharFacts DEF TermInv, LineInv, Key, Chars
  <1>1. PICK ks \in Seq(Keys) : ks = typed
    BY <1>0
  <1>2. PICK b \in Seq(Chars) : b = buf
    BY <1>0
  <1>3. PICK e : e = Edited(ks)
    OBVIOUS
  <1>4. e = SubSeq(b, 1, i) /\ e \in Seq(Keys)
    BY <1>0, <1>1, <1>2, <1>3, EditedFacts DEF LineInv
  <1>5. typed' = Append(ks, key) /\ pc' \in {"read", "newline"}
    BY <1>1 DEF Key
  <1>6. Append(ks, key) \in Seq(Keys) /\ Edited(Append(ks, key)) = EditStep(e, key)
    BY <1>3, AppendProperties, EditedAppend
  <1>7. PICK k \in 0..Len(b) : k = i
    BY <1>0, <1>2
  <1>8. Len(e) = k
    <2>1. PICK r : r = Stored(b, k, NUL)
      OBVIOUS
    <2> QED
      BY <1>0, <1>4, <1>7, <2>1, StoredHead
  <1>9. EditStep(e, key) = SubSeq(buf', 1, i')
    <2>1. CASE key = BACKSPACE /\ i >= 1
      <3>1. i' = i - 1 /\ buf' = Stored(b, k - 1, NUL)
        <4>1. i' = i - 2 + 1 /\ buf' = Stored(buf, i - 1, NUL)
          BY <2>1, Zenon DEF Key, IndexAfterBackspace
        <4> QED
          BY <1>0, <1>2, <1>7, <4>1
      <3>2. PICK h \in 0..Len(b) : h = k - 1
        BY <1>7, <2>1
      <3>3. PICK r : r = Stored(b, h, NUL)
        OBVIOUS
      <3>4. SubSeq(r, 1, h) = SubSeq(b, 1, h)
        BY <1>0, <3>3, StoredHead
      <3>5. e # <<>>
        BY <1>7, <1>8, <2>1
      <3>6. Front(e) = SubSeq(e, 1, h)
        BY <1>4, <1>8, <3>2, <3>5, FrontFacts
      <3>7. SubSeq(e, 1, h) = SubSeq(b, 1, h)
        <4>1. PICK q : q = Stored(b, k, NUL)
          OBVIOUS
        <4>2. e \in Seq(Chars) /\ \A j \in 1..k : e[j] = b[j]
          BY <1>0, <1>4, <1>7, <4>1, StoredHead
        <4>3. \A j \in 1..h : e[j] = b[j] /\ b[j] \in Chars
          BY <3>2, <4>2
        <4>4. PICK u, w : u = SubSeq(e, 1, h) /\ w = SubSeq(b, 1, h)
          OBVIOUS
        <4>5. /\ u \in Seq(Chars) /\ Len(u) = (IF 1 =< h THEN h - 1 + 1 ELSE 0)
              /\ \A j \in 1..(h - 1 + 1) : u[j] = e[1 + j - 1]
          BY <4>3, <4>4, SubSeqProperties
        <4>6. /\ w \in Seq(Chars) /\ Len(w) = (IF 1 =< h THEN h - 1 + 1 ELSE 0)
              /\ \A j \in 1..(h - 1 + 1) : w[j] = b[1 + j - 1]
          BY <4>3, <4>4, SubSeqProperties
        <4>7. Len(u) = h /\ Len(w) = h /\ \A j \in 1..h : u[j] = e[j] /\ w[j] = b[j]
          BY <4>5, <4>6
        <4>8. u = w
          BY <4>3, <4>5, <4>6, <4>7, SeqEqual
        <4> QED
          BY <4>4, <4>8
      <3>8. EditStep(e, key) = Front(e)
        BY <2>1, <3>5 DEF EditStep
      <3>9. buf' = r /\ i' = h
        BY <1>7, <3>1, <3>2, <3>3
      <3> QED
        BY <3>4, <3>6, <3>7, <3>8, <3>9
    <2>2. CASE ~(key = BACKSPACE /\ i >= 1)
      <3>1. i' = i + 1 /\ buf' = Stored(buf, i, key)
        BY <2>2, Zenon DEF Key
      <3>2. PICK r : r = Stored(b, k, key)
        OBVIOUS
      <3>3. SubSeq(r, 1, k + 1) = Append(SubSeq(b, 1, k), key)
        BY <1>0, <3>2, StoredHead
      <3>4. key = BACKSPACE => e = <<>>
        <4>1. key = BACKSPACE => k = 0
          BY <1>0, <1>7, <2>2
        <4> QED
          BY <1>4, <1>8, <4>1, EmptySeq
      <3>5. EditStep(e, key) = Append(e, key)
        BY <3>4, Zenon DEF EditStep
      <3>6. buf' = r /\ i' = k + 1
        BY <1>2, <1>7, <3>1, <3>2
      <3> QED
        BY <1>4, <1>7, <3>3, <3>5, <3>6
    <2> QED
      BY <2>1, <2>2
  <1> QED
    BY <1>5, <1>6, <1>9 DEF LineInv, CommandIsTyped

\* The string that peachos_terminal_readline leaves is what was typed.
LEMMA LineIsEdited ==
    ASSUME TermInv, LineInv, pc = "run"
    PROVE  /\ Line = Edited(typed) /\ Edited(typed) \in Seq(Keys)
           /\ Len(Edited(typed)) =< MaxLine
  <1>0. /\ buf \in Seq(Chars) /\ i \in 0..Len(buf) /\ i \in Nat /\ i =< MaxLine - 1
        /\ typed \in Seq(Keys) /\ NUL \in Chars /\ MaxLine \in Nat
    BY Basics, CharFacts DEF TermInv, LineInv
  <1>1. PICK b \in Seq(Chars) : b = buf
    BY <1>0
  <1>2. PICK k \in 0..Len(b) : k = i
    BY <1>0, <1>1
  <1>3. PICK e : e = Edited(typed)
    OBVIOUS
  <1>4. e = SubSeq(b, 1, k) /\ e \in Seq(Keys)
    BY <1>0, <1>1, <1>2, <1>3, EditedFacts DEF LineInv
  <1>5. PICK r : r = Stored(b, k, NUL)
    OBVIOUS
  <1>6. r \in Seq(Chars) /\ Len(r) = k + 1 /\ r[k + 1] = NUL /\ \A j \in 1..k : r[j] = b[j]
    <2>1. NUL \in Chars
      BY <1>0
    <2> QED
      BY <1>5, <2>1, StoredFacts
  <1>7. Len(e) = k /\ \A j \in 1..k : e[j] = b[j]
    BY <1>0, <1>4, <1>5, StoredHead
  <1>8. \A j \in 1..k : r[j] # NUL
    BY <1>4, <1>6, <1>7, LineFacts
  <1> DEFINE ends == {j \in DOMAIN r : j >= 1 /\ r[j] = NUL}
  <1>9. ends = {k + 1}
    <2>1. DOMAIN r = 1..(k + 1)
      BY <1>6
    <2>2. ASSUME NEW j \in ends PROVE j = k + 1
      <3>1. j \in 1..(k + 1) /\ r[j] = NUL
        BY <2>1
      <3>2. j # k + 1 => j \in 1..k
        BY <3>1
      <3> QED
        BY <1>8, <3>1, <3>2
    <2>3. k + 1 \in ends
      BY <1>6, <2>1
    <2> QED
      BY <2>2, <2>3
  <1>10. Min(ends) = k + 1
    <2>1. ends \subseteq Nat /\ ends # {}
      BY <1>9
    <2> QED
      BY <1>9, <2>1, MinIsLeast
  <1>11. StringAt(r, 1) = SubSeq(r, 1, (k + 1) - 1)
    BY <1>10 DEF StringAt
  <1>12. (k + 1) - 1 = k
    OBVIOUS
  <1>13. SubSeq(r, 1, k) = SubSeq(b, 1, k)
    BY <1>0, <1>5, StoredHead
  <1>14. Line = StringAt(r, 1)
    BY <1>1, <1>2, <1>5 DEF Line
  <1> QED
    BY <1>0, <1>2, <1>3, <1>4, <1>7, <1>11, <1>12, <1>13, <1>14

LEMMA LineRun ==
    ASSUME TermInv, LineInv, NEW n \in 0..MaxLine, Run(n)
    PROVE  LineInv'
  <1>0. pc = "run" /\ n \in Nat /\ scommand \in Commands /\ typed \in Seq(Keys)
    BY CharFacts DEF TermInv, LineInv, Run
  <1>1. PICK s : s = Edited(typed)
    OBVIOUS
  <1>2. Line = s /\ s \in Seq(Keys) /\ Len(s) =< MaxLine
    BY <1>0, <1>1, LineIsEdited
  <1>3. PICK r : r = peachos_parse_command(s, n)
    OBVIOUS
  <1>4. /\ passed' = r.args /\ trouble' = (r.token # NULL) /\ stale' = (sp # NULL)
        /\ pc' = "finish" /\ typed' = typed
    BY <1>2, <1>3, Zenon DEF Run
  <1>5. ASSUME ~trouble', ~stale' PROVE passed' = Words(s)
    <2>1. r.token = NULL /\ sp = NULL
      BY <1>4, <1>5
    <2> QED
      BY <1>0, <1>2, <1>3, <1>4, <2>1, ParseWords
  <1> QED
    BY <1>0, <1>1, <1>4, <1>5 DEF LineInv, CommandIsTyped

\* The actions that touch neither the line nor the command
LEMMA LineKept ==
    ASSUME LineInv, UNCHANGED <<typed, buf, i, passed, trouble, stale>>,
           \/ pc' = pc
           \/ pc = "read" /\ pc' = "newline"
           \/ pc = "newline" /\ pc' = "run"
           \/ pc' = "prompt"
    PROVE  LineInv'
  <1>1. /\ typed' = typed /\ buf' = buf /\ i' = i /\ passed' = passed
        /\ trouble' = trouble /\ stale' = stale
    OBVIOUS
  <1>2. typed' \in Seq(Keys)
    BY <1>1 DEF LineInv
  <1>3. pc' \in {"read", "newline", "run"} => Edited(typed') = SubSeq(buf', 1, i')
    BY <1>1 DEF LineInv
  <1>4. CommandIsTyped'
    BY <1>1 DEF LineInv, CommandIsTyped
  <1> QED
    BY <1>2, <1>3, <1>4 DEF LineInv

\* The inductive invariant holds throughout.
THEOREM Invariance ==
    Spec => []IInv
  <1>1. Init => IInv
    BY InitInvariant, LineInit DEF IInv
  <1>2. IInv /\ [Next]_vars => IInv'
    <2> SUFFICES ASSUME IInv, [Next]_vars PROVE IInv'
      OBVIOUS
    <2>0. TermInv /\ LineInv
      BY DEF IInv
    <2>1. CASE Prompt
      BY <2>0, <2>1, PromptStep, LinePrompt DEF IInv
    <2>2. ASSUME NEW key \in Keys, Key(key) PROVE IInv'
      <3>1. CASE key = BACKSPACE /\ i >= 1
        BY <2>0, <2>2, <3>1, KeyErase, LineKey DEF IInv
      <3>2. CASE ~(key = BACKSPACE /\ i >= 1)
        BY <2>0, <2>2, <3>2, KeyForward, LineKey DEF IInv
      <3> QED
        BY <3>1, <3>2
    <2>3. CASE Return
      <3>1. LineInv'
        BY <2>0, <2>3, LineKept DEF Return
      <3> QED
        BY <2>0, <2>3, <3>1, ReturnStep DEF IInv
    <2>4. CASE Newline
      <3>1. LineInv'
        BY <2>0, <2>4, LineKept DEF Newline
      <3> QED
        BY <2>0, <2>4, <3>1, NewlineStep DEF IInv
    <2>5. ASSUME NEW n \in 0..MaxLine, Run(n) PROVE IInv'
      BY <2>0, <2>5, RunStep, LineRun DEF IInv
    <2>6. ASSUME NEW c \in {"x", NEWLINE}, OtherPrints(c) PROVE IInv'
      <3>1. LineInv'
        BY <2>0, <2>6, LineKept DEF OtherPrints
      <3> QED
        BY <2>0, <2>6, <3>1, OtherPrintsStep DEF IInv
    <2>7. CASE UNCHANGED vars
      <3>1. LineInv'
        BY <2>0, <2>7, LineKept DEF vars
      <3>2. TermInv'
        BY <2>0, <2>7 DEF vars, TermInv, Drawn
      <3> QED
        BY <3>1, <3>2 DEF IInv
    <2> QED
      BY <2>1, <2>2, <2>3, <2>4, <2>5, <2>6, <2>7 DEF Next
  <1> QED
    BY <1>1, <1>2, PTL DEF Spec

\* The cursor, the screen, the line editor's index and buffer and strtok's
\* pointer keep their types; the cursor leaves its row only by the backspace
\* in the first column (terminal_backspace), which makes the line unclean.
THEOREM TypeCorrect ==
    Spec => []TypeOK
  <1>1. IInv => TypeOK
    <2> SUFFICES ASSUME IInv PROVE TypeOK
      OBVIOUS
    <2>1. term.row \in 0..(Short - 1) /\ term.video \in [Screen -> Glyphs]
      BY TermFields DEF IInv, TermInv
    <2>2. \A cell \in Screen : term.video[cell] \in Letters \cup {BLANK, ">", "x", "v"}
      BY <2>1 DEF Glyphs
    <2>3. Len(scommand) = MaxLine + 1
      BY CommandFacts DEF IInv, TermInv
    <2> QED
      BY <2>1, <2>2, <2>3 DEF IInv, TermInv, TypeOK
  <1> QED
    BY <1>1, Invariance, PTL

\* The screen shows the line that peachos_terminal_readline has in its buffer,
\* for every screen size and length of line.
THEOREM LineShown ==
    Spec => []LineOnScreen
  <1>1. IInv => LineOnScreen
    <2> SUFFICES ASSUME IInv, pc = "read", clean, anchor + i < VGA_WIDTH * VGA_HEIGHT
                 PROVE  /\ CellOf(term.row, term.col) = anchor + i
                        /\ \A k \in 0..(i - 1) : term.video[anchor + k] = buf[k + 1]
      BY DEF LineOnScreen
    <2>1. i \in Nat /\ anchor \in Nat
      BY Basics DEF IInv
    <2>2. PICK area \in Nat : area = VGA_WIDTH * VGA_HEIGHT /\ Screen = 0..(area - 1)
      BY ScreenFacts
    <2>3. anchor < area /\ \A k \in 0..(i - 1) : anchor + k \in Screen
      BY <2>1, <2>2
    <2>4. Drawn
      BY <2>2, <2>3 DEF IInv, TermInv
    <2> QED
      BY <2>3, <2>4 DEF Drawn
  <1> QED
    BY <1>1, Invariance, PTL

\* strtok leaves a pointer behind only when malloc failed during the command.
THEOREM StaleNeedsTrouble ==
    Spec => []StaleOnlyAfterTrouble
  <1>1. IInv => StaleOnlyAfterTrouble
    BY DEF IInv, TermInv, StaleOnlyAfterTrouble
  <1> QED
    BY <1>1, Invariance, PTL
\* The arguments handed to the kernel are the words of what was typed, for
\* every length of line, of argument and of the corrections in between.
THEOREM CommandCorrect ==
    Spec => []CommandIsTyped
  <1>1. IInv => CommandIsTyped
    BY DEF IInv, LineInv
  <1> QED
    BY <1>1, Invariance, PTL
=============================================================================
