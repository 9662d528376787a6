------------------------------ MODULE Terminal ------------------------------
(***************************************************************************)
(* The terminal of src/terminal.c, as operators on its state t: the cursor *)
(* (terminal_row and terminal_col, both uint16_t), the characters on the   *)
(* screen, and whether anything was written outside of it.  Colours are    *)
(* left out.                                                               *)
(***************************************************************************)
EXTENDS Integers, Sequences

CONSTANTS
    VGA_WIDTH,
    VGA_HEIGHT

\* 2^16, the range of uint16_t
Short == 65536

ASSUME TerminalAssumption ==
    /\ VGA_WIDTH \in 1..(Short - 1)
    /\ VGA_HEIGHT \in Nat \ {0}

Screen == 0..(VGA_WIDTH * VGA_HEIGHT - 1)

NEWLINE == "LF"
BACKSPACE == "BS"
BLANK == " "

\* The index into video_mem of a cell
CellOf(row, col) == row * VGA_WIDTH + col

terminal_putchar(t, x, y, c) ==
    LET cell == CellOf(y, x)
    IN  IF cell \in Screen THEN [t EXCEPT !.video[cell] = c]
                           ELSE [t EXCEPT !.beyond = TRUE]

terminal_initialize ==
    [row |-> 0, col |-> 0, video |-> [cell \in Screen |-> BLANK], beyond |-> FALSE]

\* The end of terminal_writechar: on to the next line after the last column
Wrapped(t) ==
    IF t.col >= VGA_WIDTH
    THEN [t EXCEPT !.col = 0, !.row = (@ + 1) % Short]
    ELSE t

\* terminal_writechar of a character that is shown
Shown(t, c) ==
    Wrapped([terminal_putchar(t, t.col, t.row, c) EXCEPT !.col = (@ + 1) % Short])

\* Mutant: the cursor is not moved back over the blank.
terminal_backspace_stay(t) ==
    IF t.row = 0 /\ t.col = 0 THEN t
    ELSE Shown([t EXCEPT !.col = (@ - 1) % Short], BLANK)

\* terminal_backspace.  From the first column it goes to the last one of the
\* line above; writing the blank there wraps the cursor back to the first
\* column, and the last decrement takes it below zero.
terminal_backspace(t) ==
    LET back == IF t.col = 0
                THEN [t EXCEPT !.row = @ - 1, !.col = VGA_WIDTH - 1]
                ELSE [t EXCEPT !.col = @ - 1]
    IN  IF t.row = 0 /\ t.col = 0
        THEN t
        ELSE [Shown(back, BLANK) EXCEPT !.col = (@ - 1) % Short]

terminal_writechar(t, c) ==
    CASE c = NEWLINE   -> [t EXCEPT !.row = (@ + 1) % Short, !.col = 0]
      [] c = BACKSPACE -> terminal_backspace(t)
      [] OTHER         -> Shown(t, c)

\* print, of a string without its terminator
print(t, str) ==
    LET after[i \in 0..Len(str)] ==
            IF i = 0 THEN t ELSE terminal_writechar(after[i - 1], str[i])
    IN  after[Len(str)]
=============================================================================
