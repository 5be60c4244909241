------------------------------ MODULE Numbers ------------------------------
(***************************************************************************)
(* Numbers as the console shows and reads them: sh_itoa, the argument of   *)
(* killprocess and the output of time (src/shell.c), and the uptime in the *)
(* status bar (src/vga.c).  A text is a sequence of digits.                *)
(***************************************************************************)
EXTENDS Integers, Sequences, FiniteSetsExt, SequencesExt

\* tmp[]: the digits of n, the lowest first, "while (n)".
LowDigits(n) ==
    LET digits[k \in 0 .. n] == IF k = 0 THEN <<>> ELSE <<k % 10>> \o digits[k \div 10]
    IN  digits[n]

\* Mutant: the digits are copied in the order they were computed.
sh_itoa_low_first(n) == IF n = 0 THEN <<0>> ELSE LowDigits(n)

sh_itoa(n) == IF n = 0 THEN <<0>> ELSE Reverse(LowDigits(n))

\* cmd_killprocess: target * 10 + digit in a uint32_t (wrap is 2^32), over
\* the digits that the argument begins with.
ParseTarget(text, wrap) ==
    LET target[i \in 0 .. Len(text)] ==
            IF i = 0 THEN 0 ELSE (target[i - 1] * 10 + text[i]) % wrap
        others == {i \in DOMAIN text : text[i] \notin 0 .. 9}
    IN  target[IF others = {} THEN Len(text) ELSE Min(others) - 1]

\* cmd_time: hours, minutes and seconds of ticks at 100 Hz.
cmd_time(ticks) ==
    LET secs == ticks \div 100
        mins == secs \div 60
    IN  <<mins \div 60, mins % 60, secs % 60>>

\* vga_draw_statusbar prints "UP: ", the seconds and "s" from column 70 on;
\* vga_print_at drops what is beyond the 80 columns.
UptimeDigits(ticks) ==
    LET text == sh_itoa(ticks \div 100)
    IN  SubSeq(text, 1, Min({Len(text), 80 - 70 - 4}))
=============================================================================
