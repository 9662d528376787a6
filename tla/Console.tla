------------------------------- MODULE Console -------------------------------
(***************************************************************************)
(* The shell (programs/shell/src/shell.c) on the terminal, with the parts  *)
(* of the user library it is made of: peachos_terminal_readline,           *)
(* peachos_parse_command and strtok (programs/stdlib/src).                 *)
(*                                                                         *)
(* Each print and putchar is a system call, atomic in the kernel; between  *)
(* two of them the clock may let another program print.  The keyboard's    *)
(* queue is in Keyboard.tla: here a key arrives whenever one is awaited.   *)
(***************************************************************************)
EXTENDS Terminal, SequencesExt

CONSTANTS
    Letters,        \* the characters typed, besides blank and backspace
    MaxLine,        \* the size of the shell's buffer
    ArgumentSize,   \* sizeof(((struct command_argument *)0)->argument)
    MaxKeys,        \* bound: the keys typed
    MaxOutput       \* bound: the characters other programs print

NUL == "NUL"
CR == "CR"
NULL == 0

\* A line that begins on the screen ends before the row counter wraps.
ASSUME ConsoleAssumption ==
    /\ MaxLine \in Nat /\ MaxLine >= 2
    /\ VGA_WIDTH * VGA_HEIGHT + MaxLine =< VGA_WIDTH * Short
    /\ Letters \cap {NEWLINE, BACKSPACE, CR, NUL} = {}
    /\ ArgumentSize \in Nat \ {0}
    /\ MaxKeys \in Nat /\ MaxOutput \in Nat

VARIABLES
    term,       \* the terminal
    pc,         \* where the shell is in its loop
    buf,        \* the shell's buffer, as far as it has been written
    i,          \* the index of peachos_terminal_readline
    scommand,   \* the stack buffer of peachos_parse_command
    sp,         \* strtok's static pointer into scommand
    passed,     \* the arguments handed to peachos_system, none if it returned
    typed,      \* the keys of this line
    anchor,     \* the cell after the prompt
    clean,      \* nothing has disturbed the line on the screen
    trouble,    \* malloc failed while the last command was parsed
    stale,      \* strtok began the last command with a pointer left over
    keys, output

vars == <<term, pc, buf, i, scommand, sp, passed, typed, anchor, clean,
          trouble, stale, keys, output>>

Keys == Letters \cup {BLANK, BACKSPACE, CR}

\* The characters of a buffer up to its terminator, from index from on
StringAt(b, from) ==
    LET ends == {j \in DOMAIN b : j >= from /\ b[j] = NUL}
    IN  SubSeq(b, from, Min(ends) - 1)

-----------------------------------------------------------------------------
(* string.c and peachos.c                                                  *)

\* strncpy(dest, src, n) with a string src: what dest holds behind the
\* terminator stays
strncpy(dest, src, n) ==
    LET copied == Append(SubSeq(src, 1, Min({Len(src), n - 1})), NUL)
    IN  copied \o SubSeq(dest, Len(copied) + 1, Len(dest))

\* Where strtok starts: the string it is given counts only if sp is null
TokenStart(str, s) == IF s = NULL THEN str ELSE s

\* Mutant: the pointer stays at the terminator.
AtEnd(start) == start

\* What strtok leaves in sp when it meets the terminator
AfterLast(start) == NULL

\* strtok(str, " ") on the buffer b with the static pointer s.  Blanks are
\* skipped, the token is ended by a terminator written over the blank, and
\* the pointer is reset only by the call that finds no token.
strtok(b, s, str) ==
    LET from  == TokenStart(str, s)
        start == Min({j \in DOMAIN b : j >= from /\ b[j] # BLANK})
        stop  == Min({j \in DOMAIN b : j >= start /\ b[j] \in {BLANK, NUL}})
    IN  IF from = NULL
        THEN [buf |-> b, sp |-> NULL, token |-> NULL]
        ELSE IF b[start] = NUL
        THEN [buf |-> b, sp |-> AfterLast(start), token |-> NULL]
        ELSE [buf |-> [b EXCEPT ![stop] = NUL], token |-> start,
              sp |-> IF b[stop] = BLANK THEN stop + 1 ELSE stop]

\* One more argument of peachos_parse_command: the token copied into memory
\* from malloc, and the next token fetched.  p is the state of the parser.
AddArgument(p) ==
    LET next == strtok(p.buf, p.sp, NULL)
        word == StringAt(p.buf, p.token)
    IN  [buf |-> next.buf, sp |-> next.sp, token |-> next.token,
         args |-> Append(p.args, SubSeq(word, 1, Min({Len(word), ArgumentSize - 1})))]

\* peachos_parse_command when malloc succeeds n times, up to the first that
\* fails or to the last token
peachos_parse_command(line, n) ==
    LET b     == strncpy(scommand, line, MaxLine + 1)
        first == strtok(b, sp, 1)
        after[k \in 0..n] ==
            IF k = 0 THEN [buf |-> first.buf, sp |-> first.sp, token |-> first.token, args |-> <<>>]
            ELSE LET p == after[k - 1] IN IF p.token = NULL THEN p ELSE AddArgument(p)
    IN  after[n]

-----------------------------------------------------------------------------

\* The shell has printed its version
Init ==
    /\ term = print(terminal_initialize, << "v", NEWLINE >>)
    /\ pc = "prompt"
    /\ buf = <<>> /\ i = 0
    /\ scommand = [j \in 1..(MaxLine + 1) |-> NUL]
    /\ sp = NULL
    /\ passed = <<>> /\ typed = <<>>
    /\ anchor = 0
    /\ clean = TRUE /\ trouble = FALSE /\ stale = FALSE
    /\ keys = 0 /\ output = 0

\* print("> "), and peachos_terminal_readline begins
Prompt ==
    /\ pc = "prompt"
    /\ term' = print(term, << ">", BLANK >>)
    /\ pc' = "read"
    /\ buf' = <<>> /\ i' = 0
    /\ typed' = <<>>
    /\ anchor' = CellOf(term'.row, term'.col)
    /\ clean' = (term'.col < VGA_WIDTH)
    /\ UNCHANGED <<scommand, sp, passed, trouble, stale, keys, output>>

\* Mutant: the index goes back by one and the loop adds it again.
IndexAfterBackspaceOne(k) == k

\* Mutant: the loop does not add one after continue.
IndexAfterBackspaceTwo(k) == k - 2

\* i -= 2, and i++ of the for loop
IndexAfterBackspace(k) == k - 2 + 1

\* The buffer with c at index k, and anything behind it no longer of interest
Stored(b, k, c) == Append(SubSeq(b, 1, k), c)

\* peachos_putchar(key), before the key is looked at
Echo(t, key) == terminal_writechar(t, key)

\* One round of the loop of peachos_terminal_readline, for a key other than
\* return; the loop ends when the buffer is full
Key(key) ==
    LET erase == key = BACKSPACE /\ i >= 1
    IN  /\ pc = "read"
        /\ key # CR
        /\ keys < MaxKeys
        /\ keys' = keys + 1
        /\ typed' = Append(typed, key)
        /\ term' = Echo(term, key)
        /\ i' = IF erase THEN IndexAfterBackspace(i) ELSE i + 1
        /\ buf' = IF erase THEN Stored(buf, i - 1, NUL) ELSE Stored(buf, i, key)
        /\ pc' = IF i' < MaxLine - 1 THEN "read" ELSE "newline"
        /\ clean' = (clean /\ ~(key = BACKSPACE /\ (i = 0 \/ term.col = 0)))
        /\ UNCHANGED <<scommand, sp, passed, anchor, trouble, stale, output>>

\* Return ends the line
Return ==
    /\ pc = "read"
    /\ keys < MaxKeys
    /\ keys' = keys + 1
    /\ pc' = "newline"
    /\ UNCHANGED <<term, buf, i, scommand, sp, passed, typed, anchor, clean,
                   trouble, stale, output>>

\* print("\n") after the line, and after the command
Newline ==
    /\ pc \in {"newline", "finish"}
    /\ term' = print(term, << NEWLINE >>)
    /\ pc' = IF pc = "newline" THEN "run" ELSE "prompt"
    /\ UNCHANGED <<buf, i, scommand, sp, passed, typed, anchor, clean, trouble,
                   stale, keys, output>>

\* The string that peachos_terminal_readline has left in the buffer
Line == StringAt(Stored(buf, i, NUL), 1)

\* peachos_system_run(buf), with n successful calls of malloc
Run(n) ==
    LET parsed == peachos_parse_command(Line, n)
    IN  /\ pc = "run"
        /\ scommand' = parsed.buf
        /\ sp' = parsed.sp
        /\ passed' = parsed.args
        /\ trouble' = (parsed.token # NULL)
        /\ stale' = (sp # NULL)
        /\ pc' = "finish"
        /\ UNCHANGED <<term, buf, i, typed, anchor, clean, keys, output>>

\* Another program prints a character
OtherPrints(c) ==
    /\ output < MaxOutput
    /\ output' = output + 1
    /\ term' = terminal_writechar(term, c)
    /\ clean' = (clean /\ pc # "read")
    /\ UNCHANGED <<pc, buf, i, scommand, sp, passed, typed, anchor, trouble, stale, keys>>

Next ==
    \/ Prompt
    \/ \E key \in Keys : Key(key)
    \/ Return
    \/ Newline
    \/ \E n \in 0..MaxLine : Run(n)
    \/ \E c \in {"x", NEWLINE} : OtherPrints(c)

Spec == Init /\ [][Next]_vars

-----------------------------------------------------------------------------

\* Type invariant of the terminal and of the shell.  The cursor is in its
\* row, unless a backspace was typed in the first column: then it is one
\* before the row, and the next character is written far outside of the
\* screen.
TypeOK ==
    /\ term.row \in 0..(Short - 1)
    /\ term.col \in 0..(VGA_WIDTH - 1) \/ (term.col = Short - 1 /\ ~clean)
    /\ \A cell \in Screen : term.video[cell] \in Letters \cup {BLANK, ">", "x", "v"}
    /\ pc \in {"prompt", "read", "newline", "run", "finish"}
    /\ i \in 0..(MaxLine - 1)
    /\ Len(buf) =< MaxLine
    /\ sp \in 0..(MaxLine + 1)
    /\ Len(scommand) = MaxLine + 1

\* While a line is typed, the screen shows it: the cells from the prompt on
\* hold the characters of the buffer, also when the line goes on in the next
\* row and after any number of corrections, and the cursor stands behind
\* them.  The code does not ensure it once another program has printed, a
\* backspace was typed into an empty line or in the first column of a row,
\* or the line leaves the screen, which never scrolls.
LineOnScreen ==
    pc = "read" /\ clean /\ anchor + i < VGA_WIDTH * VGA_HEIGHT =>
        /\ CellOf(term.row, term.col) = anchor + i
        /\ \A k \in 0..(i - 1) : term.video[anchor + k] = buf[k + 1]

\* The characters a user expects of the keys typed: a backspace takes back
\* the one before it; typed into an empty line it is a character, as in the
\* code.
Edited(ks) ==
    LET after[k \in 0..Len(ks)] ==
            IF k = 0 THEN <<>>
            ELSE IF ks[k] = BACKSPACE /\ after[k - 1] # <<>> THEN Front(after[k - 1])
            ELSE Append(after[k - 1], ks[k])
    IN  after[Len(ks)]

\* The words of a line are what stands between blanks: where they start, and
\* the first place behind one
WordStarts(s) == {j \in DOMAIN s : s[j] # BLANK /\ (j = 1 \/ s[j - 1] = BLANK)}

WordEnd(s, j) == Min({e \in j..(Len(s) + 1) : e = Len(s) + 1 \/ s[e] = BLANK})

\* The words in their order, each cut to ArgumentSize - 1 characters
Words(s) ==
    [k \in 1..Cardinality(WordStarts(s)) |->
        LET j == CHOOSE x \in WordStarts(s) :
                    Cardinality({y \in WordStarts(s) : y =< x}) = k
        IN  SubSeq(s, j, Min({WordEnd(s, j), j + ArgumentSize - 1}) - 1)]

\* The arguments handed to the kernel are the words of what was typed, each
\* cut to the room struct command_argument has, however the line was
\* corrected and whatever was parsed before, unless malloc failed now or
\* during the previous command.
CommandIsTyped ==
    pc = "finish" /\ ~trouble /\ ~stale => passed = Words(Edited(typed))

\* strtok keeps a pointer between commands only after a failed malloc: a
\* command that is parsed to its end, be it garbled by such a pointer, leaves
\* none for the next one.
StaleOnlyAfterTrouble ==
    pc \in {"finish", "prompt", "read"} /\ ~trouble => sp = NULL
=============================================================================
