------------------------------ MODULE Keyboard ------------------------------
(***************************************************************************)
(* The keyboard: the interrupt handler of keyboard/classic.c and the ring  *)
(* buffer that keyboard.c keeps in every struct process.  Keys go to the   *)
(* process last loaded, getkey reads for the process of the running task;  *)
(* which these are is decided in Tasks.tla and left open here.             *)
(***************************************************************************)
EXTENDS Integers, Sequences

CONSTANTS
    Procs,          \* the processes
    BufferSize,     \* PEACHOS_KEYBOARD_BUFFER_SIZE
    Word,           \* 2^32: head and tail are ints, the index is unsigned
    TypeAhead       \* bound: the keys a user types ahead of the program

ASSUME KeyboardAssumption ==
    /\ BufferSize \in Nat \ {0}
    /\ Word \in Nat \ {0}
    /\ Word % BufferSize = 0
    /\ TypeAhead \in 0..(Word - 1)

\* One scancode of each kind: a digit, a key without a character, a letter,
\* caps lock, the first code past the table, one further on, a key release
Scancodes == {2, 29, 30, 58, 82, 83, 158}

\* sizeof(keyboard_scan_set_one)
ScanSetSize == 82

CLASSIC_KEYBOARD_CAPSLOCK == 58
CLASSIC_KEYBOARD_KEY_RELEASED == 128

\* keyboard_scan_set_one; the byte past its end is whatever follows it in
\* memory, here no character or one
keyboard_scan_set_one(scancode) ==
    CASE scancode = 2  -> {49}
      [] scancode = 30 -> {65}
      [] scancode = ScanSetSize -> {0, 49}
      [] OTHER -> {0}

VARIABLES
    keyboard,           \* struct keyboard_buffer of each process
    current_process,    \* the process that gets the keys
    running,            \* task_current()->process
    capslock,           \* classic_keyboard.capslock_state
    got,                \* the answer of the last getkey
    overrun             \* the processes for which more was typed than fits

vars == <<keyboard, current_process, running, capslock, got, overrun>>

EmptyBuffer == [buffer |-> [i \in 0..(BufferSize - 1) |-> 0], head |-> 0, tail |-> 0]

\* The keys typed and not yet read
Pending(p) == (keyboard[p].tail - keyboard[p].head) % Word

\* classic_keyboard_scancode_to_char: the bound check lets the index equal
\* the table's size
classic_keyboard_scancode_to_char(scancode, caps) ==
    IF scancode > ScanSetSize
    THEN {0}
    ELSE {IF ~caps /\ c >= 65 /\ c =< 90 THEN c + 32 ELSE c :
            c \in keyboard_scan_set_one(scancode)}

\* Mutant: keys go to the running process.
PushTargetRunning == running

\* process_current(), the process keyboard_push chooses
PushTarget == current_process

\* keyboard_push: the buffer is written whether or not it is full
keyboard_push(c) ==
    LET k == keyboard[PushTarget]
    IN  /\ keyboard' = [keyboard EXCEPT ![PushTarget] =
                            [k EXCEPT !.buffer[k.tail % BufferSize] = c,
                                      !.tail = (@ + 1) % Word]]
        /\ overrun' = overrun \cup
                {p \in {PushTarget} : (k.tail - k.head) % Word >= BufferSize}

\* Mutant: head moves the wrong way.
PoppedBackwards(k) == [k EXCEPT !.buffer[k.head % BufferSize] = 0, !.head = @ - 1]

\* Mutant: the slot is not cleared.
PoppedUncleared(k) == [k EXCEPT !.head = (@ + 1) % Word]

\* Buffer k after keyboard_pop has taken a character
Popped(k) == [k EXCEPT !.buffer[k.head % BufferSize] = 0, !.head = (@ + 1) % Word]

Init ==
    /\ keyboard = [p \in Procs |-> EmptyBuffer]
    /\ current_process \in Procs
    /\ running \in Procs
    /\ capslock = FALSE
    /\ got \in [process : Procs, char : {0}]
    /\ overrun = {}

\* classic_keyboard_handle_interrupt for a key that gives a character.  The
\* second conjunct is the bound on type-ahead.
KeyPress(scancode) ==
    /\ scancode < CLASSIC_KEYBOARD_KEY_RELEASED
    /\ Pending(current_process) < TypeAhead
    /\ \E c \in classic_keyboard_scancode_to_char(scancode, capslock) \ {0} :
            keyboard_push(c)
    /\ UNCHANGED <<current_process, running, capslock, got>>

\* The same handler for caps lock, which has no character of its own
CapsLock ==
    /\ capslock' = ~capslock
    /\ UNCHANGED <<keyboard, current_process, running, got, overrun>>

\* The same handler for a key release and for a key without a character
KeyIgnored(scancode) ==
    /\ scancode # CLASSIC_KEYBOARD_CAPSLOCK
    /\ \/ scancode >= CLASSIC_KEYBOARD_KEY_RELEASED
       \/ 0 \in classic_keyboard_scancode_to_char(scancode, capslock)
    /\ UNCHANGED vars

\* isr80h_command2_getkey: keyboard_pop for the running process
GetKey ==
    LET k == keyboard[running]
        c == k.buffer[k.head % BufferSize]
    IN  /\ got' = [process |-> running, char |-> c]
        /\ keyboard' = IF c = 0 THEN keyboard
                                ELSE [keyboard EXCEPT ![running] = Popped(k)]
        /\ UNCHANGED <<current_process, running, capslock, overrun>>

\* The clock runs another process; a process that ends may pass the keyboard
\* on to any other (process_switch_to_any).
Switch ==
    /\ running' \in Procs
    /\ current_process' \in Procs
    /\ UNCHANGED <<keyboard, capslock, got, overrun>>

\* process_load_switch: the new struct process is zeroed, gets the keyboard
\* and the CPU.  It takes the name of a process that has ended.
Load(p) ==
    /\ p \notin {running, current_process}
    /\ keyboard' = [keyboard EXCEPT ![p] = EmptyBuffer]
    /\ current_process' = p
    /\ running' = p
    /\ overrun' = overrun \ {p}
    /\ UNCHANGED <<capslock, got>>

Next ==
    \/ \E s \in Scancodes : KeyPress(s)
    \/ CapsLock
    \/ \E s \in Scancodes : KeyIgnored(s)
    \/ GetKey
    \/ Switch
    \/ \E p \in Procs : Load(p)

Spec == Init /\ [][Next]_vars

-----------------------------------------------------------------------------

\* Type invariant of the buffers.
TypeOK ==
    /\ keyboard \in [Procs -> [buffer : [0..(BufferSize - 1) -> 0..255],
                               head : 0..(Word - 1), tail : 0..(Word - 1)]]
    /\ current_process \in Procs
    /\ running \in Procs
    /\ capslock \in BOOLEAN
    /\ got \in [process : Procs, char : 0..255]
    /\ overrun \subseteq Procs

\* The ring buffer read as a queue, from head to tail
Typed(p) ==
    [i \in 1..Pending(p) |-> keyboard[p].buffer[(keyboard[p].head + i - 1) % BufferSize]]

Expected == INSTANCE KeyQueue
              WITH queue <- [p \in Procs |-> IF p \in overrun THEN <<>> ELSE Typed(p)],
                   focus <- current_process, Chars <- {49, 65, 97},
                   Capacity <- BufferSize

\* The ring buffers implement the queues of KeyQueue: every key is delivered
\* once, in order, to the process that had the keyboard when it was typed,
\* through any wrap-around of the indexes.  keyboard_push does not check for
\* a full buffer, so a process for which more is typed ahead than fits gets
\* unrelated answers from then on; no other process notices, and a new one
\* in its place starts afresh.
ImplementsKeyQueue == Expected!Spec

\* A slot is zero exactly if it holds no typed character, until a buffer has
\* overrun: keyboard_pop relies on the zero to tell an empty buffer, and
\* head never passes tail.
ZeroMarksFreeSlots ==
    \A p \in Procs \ overrun : \A i \in 0..(BufferSize - 1) :
        keyboard[p].buffer[i] = 0
            <=> ~\E j \in 0..(Pending(p) - 1) : i = (keyboard[p].head + j) % BufferSize
=============================================================================
