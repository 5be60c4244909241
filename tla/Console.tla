------------------------------ MODULE Console ------------------------------
(***************************************************************************)
(* The text console, src/vga.c, and the line editor and parser of the      *)
(* shell, src/shell.c, that write to it.  Only the shell prints once the   *)
(* kernel has booted, so an operation is one step.  Cells hold characters; *)
(* colours, the hardware cursor and the wording of the commands are left   *)
(* out.                                                                    *)
(***************************************************************************)
EXTENDS Numbers, FiniteSets

CONSTANTS
    VGA_WIDTH, VGA_HEIGHT,
    MAX_LINE, MAX_ARGS,
    Typed,      \* the printable characters that are typed
    Prompt,     \* "user@vamos-os > "
    Boot,       \* what kernel_main, and the banner, print
    Echo,       \* the name of the command echo
    Clear,      \* the name of the command clear
    Outputs     \* what the other commands, or "Unknown command", print

Newline   == "newline"
Backspace == "backspace"
Blank     == " "
Nul       == "nul"
Unset     == "unset"   \* what is in line[] before the shell writes it
Bar       == "bar"     \* a cell of the status bar

Rows    == 0 .. (VGA_HEIGHT - 1)
Cols    == 0 .. (VGA_WIDTH - 1)
Indices == 0 .. (MAX_LINE - 1)
Special == {Newline, Backspace, Nul, Unset, Bar}
Glyphs  == (UNION {Range(t) : t \in {Prompt, Boot} \cup Outputs}) \cup Typed \cup {Blank, Unset}

\* A line of input, its prompt and the row below fit on the screen.  What is
\* printed is text; '\b' comes from the keyboard only.
ASSUME ConsoleAssumption ==
    /\ VGA_WIDTH \in Nat \ {0} /\ VGA_HEIGHT \in Nat \ {0, 1, 2}
    /\ MAX_LINE \in Nat \ {0} /\ MAX_ARGS \in Nat \ {0}
    /\ Len(Prompt) + MAX_LINE <= VGA_WIDTH * (VGA_HEIGHT - 2)
    /\ Typed \cap Special = {}
    /\ \A text \in {Prompt, Boot} \cup Outputs :
          text \in Seq(Range(text)) /\ Range(text) \cap (Special \ {Newline}) = {}
    /\ Newline \notin Range(Prompt)

VARIABLES
    vga,     \* VGA_BUFFER, vga_row and vga_col
    line, pos,
    argv,    \* what shell_parse passes on to shell_dispatch
    entered, \* the line that is dispatched, as it was typed (history)
    shell    \* "boot", "edit", "dispatch"

vars == <<vga, line, pos, argv, entered, shell>>
-----------------------------------------------------------------------------
\* Mutant: the status bar scrolls too.
vga_scroll_whole(con) ==
    [cells |-> [r \in Rows |-> IF r < VGA_HEIGHT - 1 THEN con.cells[r + 1]
                               ELSE [k \in Cols |-> Blank]],
     row |-> VGA_HEIGHT - 1, col |-> 0]

vga_scroll(con) ==
    [cells |-> [r \in Rows |-> IF r = 0 THEN con.cells[0]
                               ELSE IF r < VGA_HEIGHT - 1 THEN con.cells[r + 1]
                               ELSE [k \in Cols |-> Blank]],
     row |-> VGA_HEIGHT - 1, col |-> 0]

\* A character that is neither '\n', '\r' nor '\b'.
PutGlyph(con, ch) ==
    [cells |-> [con.cells EXCEPT ![con.row][con.col] = ch],
     row   |-> IF con.col + 1 >= VGA_WIDTH THEN con.row + 1 ELSE con.row,
     col   |-> IF con.col + 1 >= VGA_WIDTH THEN 0 ELSE con.col + 1]

\* Mutant: '\b' stays in its row.
PutBackspaceInRow(con) ==
    LET k == IF con.col > 0 THEN con.col - 1 ELSE 0
    IN  [con EXCEPT !.col = k, !.cells[con.row][k] = Blank]

\* '\b' goes back one cell, to the end of the row above from the first
\* column, and blanks it.
PutBackspace(con) ==
    LET back == CASE con.col > 0                 -> <<con.row, con.col - 1>>
                  [] con.col = 0 /\ con.row > 1  -> <<con.row - 1, VGA_WIDTH - 1>>
                  [] OTHER                       -> <<con.row, con.col>>
    IN  [cells |-> [con.cells EXCEPT ![back[1]][back[2]] = Blank],
         row |-> back[1], col |-> back[2]]

\* Mutant: a full screen is noticed one row late.
vga_putchar_late_scroll(con, ch) ==
    LET start == [con EXCEPT !.row = IF @ = 0 THEN 1 ELSE @]
        done  == CASE ch = Newline   -> [start EXCEPT !.col = 0, !.row = @ + 1]
                   [] ch = Backspace -> PutBackspace(start)
                   [] OTHER          -> PutGlyph(start, ch)
    IN  IF done.row > VGA_HEIGHT THEN vga_scroll(done) ELSE done

vga_putchar(con, ch) ==
    LET start == [con EXCEPT !.row = IF @ = 0 THEN 1 ELSE @]
        done  == CASE ch = Newline   -> [start EXCEPT !.col = 0, !.row = @ + 1]
                   [] ch = Backspace -> PutBackspace(start)
                   [] OTHER          -> PutGlyph(start, ch)
    IN  IF done.row >= VGA_HEIGHT THEN vga_scroll(done) ELSE done

vga_print(con, text) ==
    LET shown[n \in 0 .. Len(text)] ==
            IF n = 0 THEN con ELSE vga_putchar(shown[n - 1], text[n])
    IN  shown[Len(text)]

vga_set_cursor(con, r, k) == [con EXCEPT !.row = r, !.col = k]

vga_clear(con) ==
    [cells |-> [r \in Rows |-> IF r = 0 THEN con.cells[0] ELSE [k \in Cols |-> Blank]],
     row |-> 1, col |-> 0]

vga_draw_statusbar(con) == [con EXCEPT !.cells[0] = [k \in Cols |-> Bar]]
-----------------------------------------------------------------------------
\* vga_init.  line[] is on the stack of shell_run, and holds anything.
Init ==
    /\ vga = [cells |-> [r \in Rows |-> [k \in Cols |-> Blank]], row |-> 0, col |-> 0]
    /\ line = [i \in Indices |-> Unset]
    /\ pos = 0
    /\ argv = <<>>
    /\ entered = <<>>
    /\ shell = "boot"

\* kernel_main after vga_init: boot_screen blanks the screen and puts its
\* lines anywhere below row 0; then a clear screen with its status bar, the
\* banner and the prompt of shell_run.
kernel_main ==
    /\ shell = "boot"
    /\ \E r \in Rows \ {0}, k \in Cols :
          LET splash == vga_print(vga_set_cursor(vga, r, k), Boot)
              ready  == vga_draw_statusbar(vga_clear(splash))
          IN  vga' = vga_print(ready, Boot \o Prompt)
    /\ shell' = "edit"
    /\ UNCHANGED <<line, pos, argv, entered>>

\* The status bar is drawn again every 50 keystrokes and every 200 wakeups.
Refresh ==
    /\ shell = "edit"
    /\ vga' = vga_draw_statusbar(vga)
    /\ UNCHANGED <<line, pos, argv, entered, shell>>

TypeChar(ch) ==
    /\ shell = "edit"
    /\ IF pos < MAX_LINE - 1
       THEN /\ line' = [line EXCEPT ![pos] = ch]
            /\ pos' = pos + 1
            /\ vga' = vga_putchar(vga, ch)
       ELSE UNCHANGED <<line, pos, vga>>
    /\ UNCHANGED <<argv, entered, shell>>

TypeBackspace ==
    /\ shell = "edit"
    /\ IF pos > 0
       THEN /\ pos' = pos - 1
            /\ vga' = vga_putchar(vga, Backspace)
       ELSE UNCHANGED <<pos, vga>>
    /\ UNCHANGED <<line, argv, entered, shell>>

\* Where the two inner loops of shell_parse stop.
SkipBlanks(buf, p) == Min({q \in p .. (MAX_LINE - 1) : buf[q] # Blank})
SkipWord(buf, p)   == Min({q \in p .. (MAX_LINE - 1) : buf[q] \in {Blank, Nul}})

\* p in front of each round of the loop of shell_parse: behind the '\0' that
\* ends a word, or at the end of the line.
Rounds(buf) ==
    LET p[n \in 0 .. MAX_ARGS] ==
            IF n = 0 THEN 0
            ELSE LET end == SkipWord(buf, SkipBlanks(buf, p[n - 1]))
                 IN  IF buf[end] = Nul THEN end ELSE end + 1
    IN  p

\* The first and the end of each word that shell_parse finds in buf: what
\* follows the MAX_ARGS-th is ignored.
Spans(buf) ==
    LET first == [n \in 0 .. MAX_ARGS |-> SkipBlanks(buf, Rounds(buf)[n])]
        argc  == Min({n \in 0 .. MAX_ARGS : n = MAX_ARGS \/ buf[first[n]] = Nul})
    IN  [j \in 1 .. argc |-> <<first[j - 1], SkipWord(buf, first[j - 1])>>]

\* shell_parse: argv points at the words in line[], ended there by '\0'.
shell_parse(buf) ==
    LET spans == Spans(buf)
    IN  /\ argv' = [j \in DOMAIN spans |->
                      SubSeq([i \in 1 .. MAX_LINE |-> buf[i - 1]], spans[j][1] + 1, spans[j][2])]
        /\ line' = [i \in Indices |-> IF \E j \in DOMAIN spans : spans[j][2] = i THEN Nul
                                      ELSE buf[i]]

\* Mutant: the line is ended where the buffer ends.
TerminateBuffer == [line EXCEPT ![MAX_LINE - 1] = Nul]

\* shell_run on '\n': line[pos] = '\0'.
Terminate == [line EXCEPT ![pos] = Nul]

\* '\n' ends the line and has it parsed, unless it is empty: shell_dispatch
\* is called if there is a word in it.  Otherwise the prompt is next.
TypeNewline ==
    /\ shell = "edit"
    /\ IF pos > 0 THEN shell_parse(Terminate) ELSE line' = Terminate /\ argv' = <<>>
    /\ IF argv' = <<>>
       THEN /\ vga' = vga_print(vga, <<Newline>> \o Prompt)
            /\ UNCHANGED <<entered, shell>>
       ELSE /\ vga' = vga_putchar(vga, Newline)
            /\ entered' = [i \in 1 .. pos |-> line[i - 1]]
            /\ shell' = "dispatch"
    /\ pos' = 0

\* cmd_echo prints its arguments, one blank between two of them.
cmd_echo ==
    /\ argv[1] = Echo
    /\ LET text[n \in 1 .. Len(argv)] ==
               IF n = 1 THEN <<>>
               ELSE IF n = 2 THEN argv[2] ELSE text[n - 1] \o <<Blank>> \o argv[n]
       IN  vga' = vga_print(vga, text[Len(argv)] \o <<Newline>> \o Prompt)

cmd_clear ==
    /\ argv[1] = Clear
    /\ vga' = vga_print(vga_draw_statusbar(vga_clear(vga)), Prompt)

\* The other commands print, and so does shell_dispatch for an unknown one.
cmd_other ==
    /\ argv[1] \notin {Echo, Clear}
    /\ \E text \in Outputs : vga' = vga_print(vga, text \o Prompt)

\* shell_dispatch, and the prompt for the next line.
shell_dispatch ==
    /\ shell = "dispatch"
    /\ cmd_echo \/ cmd_clear \/ cmd_other
    /\ shell' = "edit"
    /\ argv' = <<>> /\ entered' = <<>>
    /\ UNCHANGED <<line, pos>>

Next ==
    \/ kernel_main
    \/ Refresh
    \/ \E ch \in Typed : TypeChar(ch)
    \/ TypeBackspace
    \/ TypeNewline
    \/ shell_dispatch

Spec == Init /\ [][Next]_vars
-----------------------------------------------------------------------------
\* The cursor stays on the screen and the index inside line[], whatever is
\* printed and typed: vga_putchar and shell_run write where they point.
TypeOK ==
    /\ vga \in [cells : [Rows -> [Cols -> Glyphs \cup {Bar}]], row : Rows, col : Cols]
    /\ line \in [Indices -> Typed \cup {Nul, Unset}]
    /\ pos \in Indices
    /\ argv \in Seq(Seq(Typed \cup {Unset}))
    /\ entered \in Seq(Typed)
    /\ shell \in {"boot", "edit", "dispatch"}

\* vga_putchar, "Never write on row 0 (status bar)", vga_scroll, "rows 1-24
\* only", and vga_clear: row 0 is all status bar, and no other row has any.
StatusBarKept ==
    \A r \in Rows : \A k \in Cols : (vga.cells[r][k] = Bar) <=> (r = 0 /\ shell # "boot")

\* The character of the cell n places before the cursor.
CellBefore(n) ==
    LET at == vga.row * VGA_WIDTH + vga.col - n
    IN  vga.cells[at \div VGA_WIDTH][at % VGA_WIDTH]

\* shell_run echoes by vga_putchar alone, and never draws the line again.
\* Even so, what stands before the cursor is the prompt and then the line
\* that would be parsed, and what is behind it is blank, over the ends of
\* rows, backspaces and scrolling.
ScreenShowsLine ==
    shell = "edit" =>
        /\ \A n \in 1 .. pos : CellBefore(n) = line[pos - n]
        /\ \A n \in 1 .. Len(Prompt) : CellBefore(pos + n) = Prompt[Len(Prompt) + 1 - n]
        /\ \A r \in Rows \ {0} : \A k \in Cols :
              (r > vga.row \/ (r = vga.row /\ k >= vga.col)) => vga.cells[r][k] = Blank

\* Where the words of what was typed begin.
WordStarts ==
    {i \in DOMAIN entered : entered[i] # Blank /\ (i = 1 \/ entered[i - 1] = Blank)}

\* shell_parse gives a command the first MAX_ARGS words of the line, whole
\* and in order, and nothing of the longer lines typed before it.
ArgsAreWords ==
    shell = "dispatch" =>
        /\ Len(argv) = Min({MAX_ARGS, Cardinality(WordStarts)})
        /\ \A j \in DOMAIN argv :
              \E i \in WordStarts :
                  LET end == i + Len(argv[j])
                  IN  /\ Cardinality({h \in WordStarts : h < i}) = j - 1
                      /\ end <= Len(entered) + 1
                      /\ argv[j] = SubSeq(entered, i, end - 1)
                      /\ Blank \notin Range(argv[j])
                      /\ end = Len(entered) + 1 \/ entered[end] = Blank

\* Values around the powers of ten, of 2^8 (which stands for 2^32 below) and
\* the longest uptime, 2^32 / 100 seconds.
Samples == (0 .. 300) \cup {999, 1000, 9999, 10000, 99999, 100000, 999999, 1000000, 42949672}

(***************************************************************************)
(* newprocess prints a pid for the user to type after killprocess: it is   *)
(* read back as the same number (modulo 2^32), with or without other       *)
(* characters behind it.  The uptime fits tmp[8] in vga_draw_statusbar and *)
(* the status bar shows all digits of it up to 999999 seconds (then it     *)
(* loses the last ones); time splits it without losing a second.           *)
(***************************************************************************)
NumbersReadBack ==
    shell = "boot" => \A n \in Samples :
        LET text == sh_itoa(n)
            time == cmd_time(50 * n)
        IN  /\ ParseTarget(text, 256) = n % 256
            /\ ParseTarget(text \o <<-1, 7>>, 256) = n % 256
            /\ Len(text) \in 1 .. 8
            /\ n <= 999999 => UptimeDigits(100 * n) = text
            /\ time[1] * 3600 + time[2] * 60 + time[3] = n \div 2
            /\ time[2] < 60 /\ time[3] < 60
=============================================================================
