------------------------------ MODULE Keyboard ------------------------------
(***************************************************************************)
(* The PS/2 keyboard driver, src/keyboard.c, between the keyboard and the  *)
(* shell.  keyboard_handler runs in IRQ1 with interrupts disabled, in one  *)
(* step.  keyboard_getchar, called from shell_run with interrupts enabled, *)
(* is interrupted anywhere.  Characters are ASCII codes; 0 is "none".      *)
(***************************************************************************)
EXTENDS Integers, Sequences

CONSTANTS
    KB_BUFFER_SIZE,
    Keys,      \* the keys that are pressed and released, as scancodes
    MaxKeys    \* bound on the number of scancodes sent

ASSUME KeyboardAssumption ==
    /\ KB_BUFFER_SIZE \in Nat \ {0, 1}
    /\ Keys \subseteq 0 .. 127
    /\ MaxKeys \in Nat

VARIABLES
    kb_buffer, kb_head, kb_tail,
    shift_held,
    down,    \* the keys that are held down
    sent,    \* how many scancodes the keyboard has sent
    reader,  \* where shell_run is in keyboard_getchar, or in "hlt"
    tail, c, \* keyboard_getchar's copy of kb_tail, and its result
    read     \* the characters that keyboard_getchar has returned (history)

vars == <<kb_buffer, kb_head, kb_tail, shift_held, down, sent, reader, tail, c, read>>

Indices == 0 .. (KB_BUFFER_SIZE - 1)
Chars   == 0 .. 127

\* The two tables, 0x00 up to the last key they map, 0x53.
NormalRow == <<
        0,   0,  49,  50,  51,  52,  53,  54,  55,  56,  57,  48,  45,  61,
        8,   9, 113, 119, 101, 114, 116, 121, 117, 105, 111, 112,  91,  93,
       10,   0,  97, 115, 100, 102, 103, 104, 106, 107, 108,  59,  39,  96,
        0,  92, 122, 120,  99, 118,  98, 110, 109,  44,  46,  47,   0,  42,
        0,  32,   0,   0,   0,   0,   0,   0,   0,   0,   0,   0,   0,   0,
        0,  55,  56,  57,  45,  52,  53,  54,  43,  49,  50,  51,  48,  46 >>

ShiftedRow == <<
        0,   0,  33,  64,  35,  36,  37,  94,  38,  42,  40,  41,  95,  43,
        8,   9,  81,  87,  69,  82,  84,  89,  85,  73,  79,  80, 123, 125,
       10,   0,  65,  83,  68,  70,  71,  72,  74,  75,  76,  58,  34, 126,
        0, 124,  90,  88,  67,  86,  66,  78,  77,  60,  62,  63,   0,  42,
        0,  32,   0,   0,   0,   0,   0,   0,   0,   0,   0,   0,   0,   0,
        0,  55,  56,  57,  45,  52,  53,  54,  43,  49,  50,  51,  48,  46 >>

Lookup(row, code) == IF code < Len(row) THEN row[code + 1] ELSE 0

scancode_normal == [code \in 0 .. 127 |-> Lookup(NormalRow, code)]

scancode_shifted == [code \in 0 .. 127 |-> Lookup(ShiftedRow, code)]

LeftShift  == 42   \* 0x2A
RightShift == 54   \* 0x36
ShiftKeys  == {LeftShift, RightShift}
Break      == 128  \* bit 7 of a scancode: the key goes up

\* Mutant: the index does not wrap around.
SuccUnwrapped(i) == i + 1

Succ(i) == (i + 1) % KB_BUFFER_SIZE
-----------------------------------------------------------------------------
\* keyboard_init
Init ==
    /\ kb_buffer = [i \in Indices |-> 0]
    /\ kb_head = 0
    /\ kb_tail = 0
    /\ shift_held = FALSE
    /\ down = {}
    /\ sent = 0
    /\ reader = "poll"
    /\ tail = 0
    /\ c = 0
    /\ read = <<>>

\* Mutant: the buffer is filled up to the last slot.
PushIntoLastSlot(char) ==
    /\ kb_buffer' = [kb_buffer EXCEPT ![kb_head] = char]
    /\ kb_head' = Succ(kb_head)

\* keyboard_handler: "Push to circular buffer if not full".
Push(char) ==
    \/ /\ Succ(kb_head) # kb_tail
       /\ kb_buffer' = [kb_buffer EXCEPT ![kb_head] = char]
       /\ kb_head' = Succ(kb_head)
    \/ /\ Succ(kb_head) = kb_tail
       /\ UNCHANGED <<kb_buffer, kb_head>>

\* Mutant: the release of the right shift key is not noticed.
keyboard_handler_left_shift(scancode) ==
    LET char == IF shift_held THEN scancode_shifted[scancode] ELSE scancode_normal[scancode]
    IN  \/ /\ scancode \in ShiftKeys \cup {LeftShift + Break}
           /\ shift_held' = (scancode < Break)
           /\ UNCHANGED <<kb_buffer, kb_head>>
        \/ /\ scancode >= Break /\ scancode # LeftShift + Break
           /\ UNCHANGED <<kb_buffer, kb_head, shift_held>>
        \/ /\ scancode < Break /\ scancode \notin ShiftKeys
           /\ IF char = 0 THEN UNCHANGED <<kb_buffer, kb_head>> ELSE Push(char)
           /\ UNCHANGED shift_held

keyboard_handler(scancode) ==
    LET char == IF shift_held THEN scancode_shifted[scancode] ELSE scancode_normal[scancode]
    IN  \/ /\ scancode \in ShiftKeys
           /\ shift_held' = TRUE
           /\ UNCHANGED <<kb_buffer, kb_head>>
        \/ /\ scancode \in {k + Break : k \in ShiftKeys}
           /\ shift_held' = FALSE
           /\ UNCHANGED <<kb_buffer, kb_head>>
        \/ /\ scancode >= Break
           /\ scancode - Break \notin ShiftKeys
           /\ UNCHANGED <<kb_buffer, kb_head, shift_held>>
        \/ /\ scancode < Break /\ scancode \notin ShiftKeys
           /\ IF char = 0 THEN UNCHANGED <<kb_buffer, kb_head>> ELSE Push(char)
           /\ UNCHANGED shift_held

\* Mutant: "hlt" with interrupts disabled (no "sti" before it).
WakeNever == reader' = reader

\* An interrupt ends the "hlt" of shell_run.
Wake == reader' = IF reader = "hlt" THEN "poll" ELSE reader

\* IRQ1: a key goes down, or repeats while it is held; or it goes up.
KeyDown(k) ==
    /\ sent < MaxKeys /\ sent' = sent + 1
    /\ down' = down \cup {k}
    /\ keyboard_handler(k)
    /\ Wake
    /\ UNCHANGED <<kb_tail, tail, c, read>>

KeyUp(k) ==
    /\ k \in down
    /\ sent < MaxKeys /\ sent' = sent + 1
    /\ down' = down \ {k}
    /\ keyboard_handler(k + Break)
    /\ Wake
    /\ UNCHANGED <<kb_tail, tail, c, read>>

\* IRQ0, as far as the keyboard is concerned.
Tick ==
    /\ Wake
    /\ UNCHANGED <<kb_buffer, kb_head, kb_tail, shift_held, down, sent, tail, c, read>>
-----------------------------------------------------------------------------
\* keyboard_getchar: the test for an empty buffer.  The compiler may load
\* the character before or after it stores kb_tail (the build stores first).
Poll ==
    /\ reader = "poll"
    /\ tail' = kb_tail
    /\ IF kb_head = kb_tail THEN reader' = "empty" ELSE reader' \in {"load", "early_store"}
    /\ UNCHANGED <<kb_buffer, kb_head, kb_tail, shift_held, down, sent, c, read>>

Load ==
    /\ reader = "load"
    /\ c' = kb_buffer[tail]
    /\ reader' = "store"
    /\ UNCHANGED <<kb_buffer, kb_head, kb_tail, shift_held, down, sent, tail, read>>

Store ==
    /\ reader = "store"
    /\ kb_tail' = Succ(tail)
    /\ read' = Append(read, c)
    /\ reader' = "poll"
    /\ UNCHANGED <<kb_buffer, kb_head, shift_held, down, sent, tail, c>>

EarlyStore ==
    /\ reader = "early_store"
    /\ kb_tail' = Succ(tail)
    /\ reader' = "late_load"
    /\ UNCHANGED <<kb_buffer, kb_head, shift_held, down, sent, tail, c, read>>

LateLoad ==
    /\ reader = "late_load"
    /\ c' = kb_buffer[tail]
    /\ read' = Append(read, kb_buffer[tail])
    /\ reader' = "poll"
    /\ UNCHANGED <<kb_buffer, kb_head, kb_tail, shift_held, down, sent, tail>>

\* shell_run: keyboard_getchar has returned 0.  A key that comes now has no
\* "hlt" to end: only the next interrupt after "sti; hlt" will.
Halt ==
    /\ reader = "empty"
    /\ reader' = "hlt"
    /\ UNCHANGED <<kb_buffer, kb_head, kb_tail, shift_held, down, sent, tail, c, read>>

ReaderStep == Poll \/ Load \/ Store \/ EarlyStore \/ LateLoad \/ Halt

Next ==
    \/ \E k \in Keys : KeyDown(k) \/ KeyUp(k)
    \/ Tick
    \/ ReaderStep

Spec == Init /\ [][Next]_vars

\* The timer ticks on, and the shell goes on; nobody has to press a key.
FairSpec == Spec /\ WF_vars(Tick) /\ WF_vars(ReaderStep)
-----------------------------------------------------------------------------
\* The indices of the ring stay in it, and what it holds is ASCII.
TypeOK ==
    /\ kb_buffer \in [Indices -> Chars]
    /\ kb_head \in Indices
    /\ kb_tail \in Indices
    /\ shift_held \in BOOLEAN
    /\ down \subseteq Keys
    /\ sent \in Nat
    /\ reader \in {"poll", "load", "store", "early_store", "late_load", "empty", "hlt"}
    /\ tail \in Indices
    /\ c \in Chars
    /\ read \in Seq(Chars)

\* One flag stands for two keys, and any release clears it: shift may end too
\* early, while the other key is still held, but it is never stuck.
ShiftNeverStuck == shift_held => down \cap ShiftKeys # {}

\* What the buffer holds: kb_tail up to kb_head.
Pending ==
    [i \in 1 .. ((kb_head - kb_tail) % KB_BUFFER_SIZE) |->
        kb_buffer[(kb_tail + i - 1) % KB_BUFFER_SIZE]]

\* What the reader has taken: the character between an early store of
\* kb_tail and the late load of the character counts.
Taken == IF reader = "late_load" THEN Append(read, kb_buffer[tail]) ELSE read

(***************************************************************************)
(* The buffer is a queue of KB_BUFFER_SIZE - 1 characters that drops what  *)
(* comes when it is full: whatever the interleaving, and in whichever      *)
(* order the character and kb_tail are accessed, keyboard_getchar returns  *)
(* the accepted characters, in order, each once.  A character leaves the   *)
(* queue when kb_tail is stored.                                           *)
(***************************************************************************)
Fifo == INSTANCE BoundedFifo WITH
    Values   <- Chars \ {0},
    Capacity <- KB_BUFFER_SIZE - 1,
    queue    <- Pending,
    taken    <- Taken

ImplementsFifo == Fifo!Spec

\* Every character that was accepted is read in the end: a key that comes
\* between the test for an empty buffer and "hlt" waits for the next tick.
BufferDrains == <>[](kb_head = kb_tail)
=============================================================================
