---------------------------- MODULE Console_proof ----------------------------
(***************************************************************************)
(* The console and the line editor, for every size of the screen, of the   *)
(* line and of argv: where vga_putchar writes, what stands before the      *)
(* cursor, and which words shell_parse finds.                              *)
(***************************************************************************)
EXTENDS Console, FiniteSetTheorems, SequenceTheorems, WellFoundedInduction, TLAPS

USE DEF vars
-----------------------------------------------------------------------------
\* Every set of naturals has a least element.
LEMMA LeastNatural ==
    ASSUME NEW S \in SUBSET Nat, S # {}
    PROVE  \E x \in S : \A y \in S : x <= y
<1> DEFINE R == OpToRel(<, Nat)
<1>1. IsWellFoundedOn(R, Nat)
  BY NatLessThanWellFounded, Zenon
<1>2. PICK x \in S : \A y \in S : ~(<<y, x>> \in R)
  <2> HIDE DEF R
  <2> QED BY <1>1, WFMin
<1>3. \A y \in S : x <= y
  <2> TAKE y \in S
  <2>1. ~(<<y, x>> \in R)
    BY <1>2
  <2>2. ~(y < x)
    BY <2>1, Zenon DEF OpToRel
  <2> QED BY <2>2
<1> QED BY <1>3

\* The values that a loop of N rounds goes through.
History(f, N, start, step) ==
    f = [n \in 0 .. N |-> IF n = 0 THEN start ELSE step[n][f[n - 1]]]

\* A loop of N rounds that turns one value into the next has a history.
LEMMA LoopExists ==
    ASSUME NEW N \in Nat, NEW start, NEW step
    PROVE  \E f : History(f, N, start, step)
<1> DEFINE Bad == {k \in Nat : ~ \E f : History(f, k, start, step)}
<1> SUFFICES ASSUME N \in Bad PROVE FALSE
  OBVIOUS
<1>1. PICK k \in Bad : \A j \in Bad : k <= j
  <2>1. Bad \in SUBSET Nat /\ Bad # {}
    OBVIOUS
  <2> HIDE DEF Bad
  <2> QED BY <2>1, LeastNatural
<1>2. CASE k = 0
  <2> DEFINE w == [n \in 0 .. 0 |-> start]
  <2>1. History(w, 0, start, step)
    BY DEF History
  <2> QED BY <1>2, <2>1
<1>3. CASE k # 0
  <2>1. k - 1 \in Nat /\ k - 1 \notin Bad
    BY <1>1, <1>3
  <2>2. PICK w : History(w, k - 1, start, step)
    BY <2>1
  <2> DEFINE v == [n \in 0 .. k |-> IF n = k THEN step[k][w[k - 1]] ELSE w[n]]
  <2>3. \A n \in 0 .. (k - 1) : v[n] = w[n]
    BY <2>1
  <2>4. \A n \in 0 .. k : v[n] = IF n = 0 THEN start ELSE step[n][v[n - 1]]
    <3> TAKE n \in 0 .. k
    <3>1. CASE n = k
      BY <1>3, <2>1, <2>3, <3>1
    <3>2. CASE n # k
      <4>1. n \in 0 .. (k - 1) /\ (n # 0 => n - 1 \in 0 .. (k - 1))
        BY <3>2
      <4>2. w[n] = IF n = 0 THEN start ELSE step[n][w[n - 1]]
        BY <2>2, <4>1 DEF History
      <4> QED BY <2>3, <4>1, <4>2
    <3> QED BY <3>1, <3>2
  <2>5. History(v, k, start, step)
    BY <2>4 DEF History
  <2> QED BY <2>5
<1> QED BY <1>2, <1>3

\* What a loop says of g, as long as the values stay in S.
Solves(g, N, S, start, step) ==
    /\ g = [n \in 0 .. N |-> g[n]]
    /\ g[0] = start
    /\ \A n \in 1 .. N : g[n - 1] \in S => g[n] = step[n][g[n - 1]]

\* If the values stay in S, the history is the only function that satisfies
\* the equations of the loop.
LEMMA LoopIs ==
    ASSUME NEW N \in Nat, NEW S, NEW start \in S, NEW step,
           \A n \in 1 .. N : \A x \in S : step[n][x] \in S
    PROVE  \E f \in [0 .. N -> S] :
               /\ f[0] = start
               /\ \A n \in 1 .. N : f[n] = step[n][f[n - 1]]
               /\ \A g : Solves(g, N, S, start, step) => g = f
<1>1. PICK f : History(f, N, start, step)
  BY LoopExists
<1>2. /\ f = [n \in 0 .. N |-> f[n]] /\ f[0] = start
      /\ \A n \in 1 .. N : f[n] = step[n][f[n - 1]]
  <2>1. DOMAIN f = 0 .. N /\ \A n \in 0 .. N : f[n] = IF n = 0 THEN start ELSE step[n][f[n - 1]]
    BY <1>1 DEF History
  <2>2. f = [n \in 0 .. N |-> f[n]]
    BY <1>1, <2>1 DEF History
  <2>3. 0 \in 0 .. N /\ \A n \in 1 .. N : n \in 0 .. N /\ n # 0
    OBVIOUS
  <2> QED BY <2>1, <2>2, <2>3
<1>3. ASSUME NEW T \in SUBSET (0 .. N), T # {}
      PROVE  \E k \in T : k = 0 \/ (k \in 1 .. N /\ k - 1 \in 0 .. N /\ k - 1 \notin T)
  <2>1. PICK k \in T : \A j \in T : k <= j
    <3>1. T \in SUBSET Nat
      BY <1>3
    <3> QED BY <1>3, <3>1, LeastNatural
  <2>2. k \in 0 .. N /\ (k - 1 \in T => k <= k - 1)
    BY <1>3, <2>1
  <2>3. k = 0 \/ (k \in 1 .. N /\ k - 1 \in 0 .. N /\ k - 1 \notin T)
    BY <2>2
  <2> QED BY <2>3
<1>4. \A n \in 0 .. N : f[n] \in S
  <2> DEFINE Bad == {n \in 0 .. N : f[n] \notin S}
  <2> SUFFICES ASSUME Bad # {} PROVE FALSE
    OBVIOUS
  <2>1. PICK k \in Bad : k = 0 \/ (k \in 1 .. N /\ k - 1 \in 0 .. N /\ k - 1 \notin Bad)
    BY <1>3
  <2> QED BY <1>2, <2>1
<1>5. f \in [0 .. N -> S]
  BY <1>2, <1>4
<1>6. ASSUME NEW g, Solves(g, N, S, start, step) PROVE g = f
  <2> DEFINE Bad == {n \in 0 .. N : g[n] # f[n]}
  <2>1. Bad = {}
    <3> SUFFICES ASSUME Bad # {} PROVE FALSE
      OBVIOUS
    <3>1. PICK k \in Bad : k = 0 \/ (k \in 1 .. N /\ k - 1 \in 0 .. N /\ k - 1 \notin Bad)
      BY <1>3
    <3> QED BY <1>2, <1>4, <1>6, <3>1 DEF Solves
  <2> QED BY <1>2, <1>6, <2>1 DEF Solves
<1> QED BY <1>2, <1>5, <1>6

\* The least element that Min chooses.
LEMMA MinIs ==
    ASSUME NEW S \in SUBSET Nat, S # {}
    PROVE  Min(S) \in S /\ \A y \in S : Min(S) <= y
<1>1. \E x \in S : \A y \in S : x <= y
  BY LeastNatural
<1> QED BY <1>1 DEF Min
-----------------------------------------------------------------------------
(***************************************************************************)
(* The screen.                                                             *)
(***************************************************************************)
Screens    == [cells : [Rows -> [Cols -> Glyphs \cup {Bar}]], row : Rows, col : Cols]
Characters == Glyphs \cup {Newline, Backspace}

\* The sizes of the screen, of the line and of argv.
LEMMA Sizes ==
    /\ VGA_WIDTH \in Nat /\ VGA_WIDTH >= 1
    /\ VGA_HEIGHT \in Nat /\ VGA_HEIGHT >= 3
    /\ MAX_LINE \in Nat /\ MAX_LINE >= 1
    /\ MAX_ARGS \in Nat /\ MAX_ARGS >= 1
  BY ConsoleAssumption

\* Nothing that is printed is a cell of the status bar.
LEMMA NoBarPrinted == Bar \notin Characters /\ Blank \in Glyphs /\ Unset \in Glyphs
<1> DEFINE Texts == UNION {Range(t) : t \in {Prompt, Boot} \cup Outputs}
<1>0. Glyphs = Texts \cup Typed \cup {Blank, Unset}
  BY DEF Glyphs
<1>1. Bar \notin Glyphs
  <2>1. \A text \in {Prompt, Boot} \cup Outputs : Bar \notin Range(text)
    <3>1. Bar \in Special \ {Newline}
      BY DEF Special, Bar, Newline
    <3> QED BY <3>1, ConsoleAssumption
  <2>2. Bar \notin Typed
    BY ConsoleAssumption DEF Special
  <2>3. Bar \notin Texts
    BY <2>1
  <2> HIDE DEF Texts
  <2> QED BY <1>0, <2>2, <2>3 DEF Bar, Blank, Unset
<1>2. Blank \in Glyphs /\ Unset \in Glyphs
  <2> HIDE DEF Texts
  <2> QED BY <1>0
<1> QED BY <1>1, <1>2 DEF Characters, Bar, Newline, Backspace

\* Row 0 is all status bar if it has been drawn, and no other row has any.
BarAt(con, drawn) ==
    \A r \in Rows : \A k \in Cols : (con.cells[r][k] = Bar) <=> (r = 0 /\ drawn)

\* The cells after one of them is written.
Put(cells, row, col, ch) == [cells EXCEPT ![row][col] = ch]

\* A glyph goes into the cell at the cursor, which may leave the screen below.
LEMMA GlyphStep ==
    ASSUME NEW con \in Screens, con.row # 0, NEW ch \in Glyphs
    PROVE  /\ PutGlyph(con, ch).row \in 1 .. VGA_HEIGHT
           /\ PutGlyph(con, ch).col \in Cols
           /\ PutGlyph(con, ch).cells = Put(con.cells, con.row, con.col, ch)
           /\ PutGlyph(con, ch).row = VGA_HEIGHT => PutGlyph(con, ch).col = 0
  BY Sizes DEF Put, PutGlyph, Screens, Rows, Cols

\* Where '\b' leaves the cursor: never on row 0.
LEMMA BackStep ==
    ASSUME NEW con \in Screens, con.row # 0
    PROVE  /\ PutBackspace(con).row \in Rows \ {0}
           /\ PutBackspace(con).col \in Cols
           /\ PutBackspace(con).cells =
                 Put(con.cells, PutBackspace(con).row, PutBackspace(con).col, Blank)
  BY Sizes DEF Put, PutBackspace, Screens, Rows, Cols

\* A cell below row 0 is written: the screen is one, and the bar is kept.
LEMMA WriteCell ==
    ASSUME NEW con \in Screens, NEW row \in Rows \ {0}, NEW col \in Cols, NEW ch \in Glyphs,
           NEW cells, cells = Put(con.cells, row, col, ch)
    PROVE  /\ cells \in [Rows -> [Cols -> Glyphs \cup {Bar}]]
           /\ \A r \in Rows : \A k \in Cols :
                 cells[r][k] = IF r = row /\ k = col THEN ch ELSE con.cells[r][k]
<1>1. con.cells \in [Rows -> [Cols -> Glyphs \cup {Bar}]]
  BY DEF Screens
<1>2. con.cells[row] \in [Cols -> Glyphs \cup {Bar}]
  BY <1>1
<1>3. [con.cells[row] EXCEPT ![col] = ch] \in [Cols -> Glyphs \cup {Bar}]
  BY <1>2
<1>4. cells = [con.cells EXCEPT ![row] = [con.cells[row] EXCEPT ![col] = ch]]
  BY DEF Put
<1>5. cells \in [Rows -> [Cols -> Glyphs \cup {Bar}]]
  BY <1>1, <1>3, <1>4
<1>6. ASSUME NEW r \in Rows, NEW k \in Cols
      PROVE  cells[r][k] = IF r = row /\ k = col THEN ch ELSE con.cells[r][k]
  BY <1>1, <1>2, <1>4
<1> QED BY <1>5, <1>6

\* What vga_putchar does before it looks for the end of the screen.
Started(con) == [con EXCEPT !.row = IF @ = 0 THEN 1 ELSE @]
NextRow(con) == [con EXCEPT !.col = 0, !.row = @ + 1]

Written(con, ch) ==
    CASE ch = Newline   -> NextRow(Started(con))
      [] ch = Backspace -> PutBackspace(Started(con))
      [] OTHER          -> PutGlyph(Started(con), ch)

TallScreens ==
    [cells : [Rows -> [Cols -> Glyphs \cup {Bar}]], row : 1 .. VGA_HEIGHT, col : Cols]

\* A character is written, on a screen with one row more: the status bar is
\* kept, and the cursor is in the first column if it left the screen.
LEMMA WrittenIs ==
    ASSUME NEW con \in Screens, NEW ch \in Characters
    PROVE  /\ Written(con, ch) \in TallScreens
           /\ Written(con, ch).row = VGA_HEIGHT => Written(con, ch).col = 0
           /\ \A drawn \in BOOLEAN : BarAt(con, drawn) => BarAt(Written(con, ch), drawn)
<1> DEFINE start == Started(con)
<1>1. /\ start \in Screens /\ start.row # 0
      /\ start.cells = con.cells /\ start.col = con.col
  BY Sizes DEF Screens, Rows, Started
<1>2. CASE ch = Newline
  <2>1. Written(con, ch) = NextRow(start)
    BY <1>2 DEF Written, Newline, Backspace
  <2> HIDE DEF start
  <2>2. /\ Written(con, ch).cells = con.cells /\ Written(con, ch).row = start.row + 1
        /\ Written(con, ch).col = 0
    BY <1>1, <2>1 DEF Screens, NextRow
  <2>3. Written(con, ch) \in TallScreens
    <3>1. start \in TallScreens
      BY <1>1, Sizes DEF Screens, TallScreens, Rows
    <3>2. start.row + 1 \in 1 .. VGA_HEIGHT /\ 0 \in Cols
      BY <1>1, Sizes DEF Screens, Rows, Cols
    <3>3. [start EXCEPT !.col = 0] \in TallScreens /\ [start EXCEPT !.col = 0].row = start.row
      BY <3>1, <3>2 DEF TallScreens
    <3> DEFINE left == [start EXCEPT !.col = 0]
    <3>4. NextRow(start) = [left EXCEPT !.row = left.row + 1]
      BY <3>3, Zenon DEF NextRow
    <3> HIDE DEF left
    <3>5. [left EXCEPT !.row = left.row + 1] \in TallScreens
      BY <3>2, <3>3 DEF TallScreens, left
    <3> QED BY <2>1, <3>4, <3>5
  <2> QED BY <1>1, <2>2, <2>3, Sizes DEF BarAt
<1>3. CASE ch = Backspace
  <2>1. Written(con, ch) = PutBackspace(start)
    BY <1>3 DEF Written, Newline, Backspace
  <2> HIDE DEF start
  <2> DEFINE back == PutBackspace(start)
  <2>2. /\ back.row \in Rows \ {0} /\ back.col \in Cols
        /\ back.cells = Put(start.cells, back.row, back.col, Blank)
    BY <1>1, BackStep
  <2> HIDE DEF back
  <2>3. /\ back.cells \in [Rows -> [Cols -> Glyphs \cup {Bar}]]
        /\ \A r \in Rows : \A k \in Cols :
              back.cells[r][k] = IF r = back.row /\ k = back.col THEN Blank ELSE start.cells[r][k]
    BY <1>1, <2>2, WriteCell, NoBarPrinted
  <2>4. \A drawn \in BOOLEAN : BarAt(con, drawn) => BarAt(back, drawn)
    <3>1. Blank # Bar
      BY DEF Blank, Bar
    <3> QED BY <1>1, <2>2, <2>3, <3>1 DEF BarAt
  <2>5. Written(con, ch) = back
    BY <2>1 DEF back
  <2>6. back = [cells |-> back.cells, row |-> back.row, col |-> back.col]
    BY DEF back, PutBackspace
  <2>7. back \in TallScreens /\ back.row # VGA_HEIGHT
    BY <2>2, <2>3, <2>6, Sizes DEF Rows, TallScreens
  <2> QED BY <2>4, <2>5, <2>7
<1>4. CASE ch \notin {Newline, Backspace}
  <2>1. Written(con, ch) = PutGlyph(start, ch) /\ ch \in Glyphs /\ ch # Bar
    BY <1>4, NoBarPrinted DEF Written, Characters
  <2> HIDE DEF start
  <2> DEFINE put == PutGlyph(start, ch)
  <2>2. /\ put.row \in 1 .. VGA_HEIGHT /\ put.col \in Cols
        /\ put.cells = Put(start.cells, start.row, start.col, ch)
        /\ put.row = VGA_HEIGHT => put.col = 0
    BY <1>1, <2>1, GlyphStep
  <2>3. Written(con, ch) = put
    BY <2>1
  <2> HIDE DEF put
  <2>4. start.row \in Rows \ {0} /\ start.col \in Cols
    BY <1>1 DEF Screens
  <2>5. /\ put.cells \in [Rows -> [Cols -> Glyphs \cup {Bar}]]
        /\ \A r \in Rows : \A k \in Cols :
              put.cells[r][k] = IF r = start.row /\ k = start.col THEN ch ELSE start.cells[r][k]
    BY <1>1, <2>1, <2>2, <2>4, WriteCell
  <2>6. \A drawn \in BOOLEAN : BarAt(con, drawn) => BarAt(put, drawn)
    BY <1>1, <2>1, <2>4, <2>5 DEF BarAt
  <2>7. put = [cells |-> put.cells, row |-> put.row, col |-> put.col]
    BY DEF put, PutGlyph
  <2>8. put \in TallScreens
    BY <2>2, <2>5, <2>7 DEF TallScreens
  <2> QED BY <2>2, <2>3, <2>6, <2>8
<1> QED BY <1>2, <1>3, <1>4

\* vga_putchar writes, and scrolls when the cursor has left the screen.
LEMMA PutcharIs ==
    ASSUME NEW con, NEW ch
    PROVE  vga_putchar(con, ch) = IF Written(con, ch).row >= VGA_HEIGHT
                                  THEN vga_scroll(Written(con, ch)) ELSE Written(con, ch)
  BY Zenon DEF vga_putchar, Written, Started, NextRow

\* vga_putchar keeps the cursor on the screen, below row 0, and the bar.
LEMMA PutcharKeeps ==
    ASSUME NEW con \in Screens, NEW ch \in Characters
    PROVE  /\ vga_putchar(con, ch) \in Screens
           /\ vga_putchar(con, ch).row # 0
           /\ \A drawn \in BOOLEAN : BarAt(con, drawn) => BarAt(vga_putchar(con, ch), drawn)
<1> DEFINE w == Written(con, ch)
<1>1. w \in TallScreens /\ \A drawn \in BOOLEAN : BarAt(con, drawn) => BarAt(w, drawn)
  BY WrittenIs
<1>2. vga_putchar(con, ch) = IF w.row >= VGA_HEIGHT THEN vga_scroll(w) ELSE w
  BY PutcharIs
<1> HIDE DEF w
<1>3. CASE w.row >= VGA_HEIGHT
  <2> DEFINE s == vga_scroll(w)
  <2>1. /\ s = [cells |-> s.cells, row |-> VGA_HEIGHT - 1, col |-> 0]
        /\ s.cells = [r \in Rows |-> IF r = 0 THEN w.cells[0]
                                     ELSE IF r < VGA_HEIGHT - 1 THEN w.cells[r + 1]
                                     ELSE [k \in Cols |-> Blank]]
    BY DEF vga_scroll
  <2> HIDE DEF s
  <2>2. s.cells \in [Rows -> [Cols -> Glyphs \cup {Bar}]]
    <3>1. [k \in Cols |-> Blank] \in [Cols -> Glyphs \cup {Bar}]
      BY NoBarPrinted
    <3>2. \A r \in Rows : w.cells[r] \in [Cols -> Glyphs \cup {Bar}]
      BY <1>1 DEF TallScreens
    <3>3. 0 \in Rows /\ \A r \in Rows : r < VGA_HEIGHT - 1 => r + 1 \in Rows
      BY Sizes DEF Rows
    <3> QED BY <2>1, <3>1, <3>2, <3>3
  <2>3. s \in Screens /\ s.row # 0
    <3>1. VGA_HEIGHT - 1 \in Rows /\ VGA_HEIGHT - 1 # 0 /\ 0 \in Cols
      BY Sizes DEF Rows, Cols
    <3>2. s.row = VGA_HEIGHT - 1
      BY <2>1
    <3> QED BY <2>1, <2>2, <3>1, <3>2 DEF Screens
  <2>4. ASSUME NEW drawn \in BOOLEAN, BarAt(w, drawn) PROVE BarAt(s, drawn)
    <3> SUFFICES ASSUME NEW r \in Rows, NEW k \in Cols
                 PROVE  (s.cells[r][k] = Bar) <=> (r = 0 /\ drawn)
      BY DEF BarAt
    <3>1. CASE r = 0
      BY <2>1, <2>4, <3>1 DEF BarAt
    <3>2. CASE r # 0 /\ r < VGA_HEIGHT - 1
      <4>1. r + 1 \in Rows /\ r + 1 # 0 /\ s.cells[r][k] = w.cells[r + 1][k]
        BY <2>1, <3>2, Sizes DEF Rows
      <4> QED BY <2>4, <3>2, <4>1 DEF BarAt
    <3>3. CASE r # 0 /\ ~(r < VGA_HEIGHT - 1)
      <4>1. s.cells[r][k] = Blank
        BY <2>1, <3>3
      <4> QED BY <3>3, <4>1 DEF Blank, Bar
    <3> QED BY <3>1, <3>2, <3>3
  <2>5. vga_putchar(con, ch) = s
    BY <1>2, <1>3 DEF s
  <2> QED BY <1>1, <2>3, <2>4, <2>5
<1>4. CASE ~(w.row >= VGA_HEIGHT)
  <2>1. w \in Screens /\ w.row # 0
    BY <1>1, <1>4, Sizes DEF Screens, TallScreens, Rows
  <2> QED BY <1>1, <1>2, <1>4, <2>1
<1> QED BY <1>3, <1>4

\* The screens that vga_print goes through, one for each character.
LEMMA PrintIs ==
    ASSUME NEW con \in Screens, NEW text \in Seq(Characters)
    PROVE  \E shown \in [0 .. Len(text) -> Screens] :
               /\ shown[0] = con
               /\ \A n \in 1 .. Len(text) : shown[n] = vga_putchar(shown[n - 1], text[n])
               /\ vga_print(con, text) = shown[Len(text)]
<1> DEFINE N == Len(text)
           step == [n \in 1 .. N |-> [c \in Screens |-> vga_putchar(c, text[n])]]
           Shown(f) == f = [n \in 0 .. N |-> IF n = 0 THEN con ELSE vga_putchar(f[n - 1], text[n])]
<1>0. N \in Nat /\ \A n \in 1 .. N : text[n] \in Characters
  OBVIOUS
<1>1. \A n \in 1 .. N : \A c \in Screens :
          step[n][c] = vga_putchar(c, text[n]) /\ step[n][c] \in Screens
  BY <1>0, PutcharKeeps
<1> HIDE DEF step
<1>2. PICK f \in [0 .. N -> Screens] :
          /\ f[0] = con
          /\ \A n \in 1 .. N : f[n] = step[n][f[n - 1]]
          /\ \A g : Solves(g, N, Screens, con, step) => g = f
  <2> HIDE DEF N
  <2> QED BY <1>0, <1>1, LoopIs
<1>3. \A n \in 1 .. N : f[n] = vga_putchar(f[n - 1], text[n])
  <2> TAKE n \in 1 .. N
  <2>1. n - 1 \in 0 .. N
    BY <1>0
  <2> QED BY <1>1, <1>2, <2>1
<1>4. Shown(f)
  <2>1. \A n \in 0 .. N : f[n] = IF n = 0 THEN con ELSE vga_putchar(f[n - 1], text[n])
    <3> TAKE n \in 0 .. N
    <3>1. n # 0 => n \in 1 .. N
      BY <1>0
    <3> QED BY <1>2, <1>3, <3>1
  <2> QED BY <1>2, <2>1
<1>5. \A g : Shown(g) => g = f
  <2> SUFFICES ASSUME NEW g, Shown(g) PROVE g = f
    OBVIOUS
  <2>1. /\ g = [n \in 0 .. N |-> g[n]] /\ g[0] = con
        /\ \A n \in 1 .. N : g[n] = vga_putchar(g[n - 1], text[n])
    BY <1>0
  <2>2. Solves(g, N, Screens, con, step)
    BY <1>1, <2>1 DEF Solves
  <2> QED BY <1>2, <2>2
<1>6. vga_print(con, text) = (CHOOSE g : Shown(g))[N]
  BY DEF vga_print
<1>7. vga_print(con, text) = f[N]
  <2> HIDE DEF Shown
  <2> QED BY <1>4, <1>5, <1>6
<1> QED BY <1>2, <1>3, <1>7

\* Whatever is printed, the cursor stays on the screen and the bar is kept.
LEMMA PrintKeeps ==
    ASSUME NEW con \in Screens, NEW text \in Seq(Characters)
    PROVE  /\ vga_print(con, text) \in Screens
           /\ con.row # 0 => vga_print(con, text).row # 0
           /\ \A drawn \in BOOLEAN : BarAt(con, drawn) => BarAt(vga_print(con, text), drawn)
<1> DEFINE N == Len(text)
           Kept(c) == /\ con.row # 0 => c.row # 0
                      /\ \A drawn \in BOOLEAN : BarAt(con, drawn) => BarAt(c, drawn)
<1>1. N \in Nat /\ \A n \in 1 .. N : text[n] \in Characters
  OBVIOUS
<1>2. PICK f \in [0 .. N -> Screens] :
          /\ f[0] = con
          /\ \A n \in 1 .. N : f[n] = vga_putchar(f[n - 1], text[n])
          /\ vga_print(con, text) = f[N]
  BY PrintIs
<1> DEFINE Bad == {n \in 0 .. N : ~Kept(f[n])}
<1>3. Bad = {}
  <2> SUFFICES ASSUME Bad # {} PROVE FALSE
    OBVIOUS
  <2>1. PICK k \in Bad : \A j \in Bad : k <= j
    <3>1. Bad \in SUBSET Nat
      BY <1>1
    <3> HIDE DEF Bad
    <3> QED BY <3>1, LeastNatural
  <2>2. k # 0
    BY <1>2
  <2>3. k \in 1 .. N /\ k - 1 \in 0 .. N /\ k - 1 \notin Bad
    BY <1>1, <2>1, <2>2
  <2>4. Kept(f[k - 1]) /\ f[k - 1] \in Screens
    BY <1>2, <2>3
  <2>5. /\ vga_putchar(f[k - 1], text[k]).row # 0
        /\ \A drawn \in BOOLEAN :
              BarAt(f[k - 1], drawn) => BarAt(vga_putchar(f[k - 1], text[k]), drawn)
    BY <1>1, <2>3, <2>4, PutcharKeeps
  <2>6. f[k] = vga_putchar(f[k - 1], text[k])
    BY <1>2, <2>3
  <2>7. Kept(f[k])
    BY <2>4, <2>5, <2>6
  <2> QED BY <2>1, <2>7
<1>4. N \in 0 .. N /\ N \notin Bad
  BY <1>1, <1>3
<1>5. Kept(f[N]) /\ f[N] \in Screens
  BY <1>2, <1>4
<1> QED BY <1>2, <1>5

-----------------------------------------------------------------------------
(***************************************************************************)
(* The parser.  A line is what was typed, up to the '\0' at end.           *)
(***************************************************************************)
IsLine(buf, end) ==
    /\ buf \in [Indices -> Typed \cup {Nul, Unset}]
    /\ end \in Indices /\ buf[end] = Nul
    /\ \A i \in 0 .. (end - 1) : buf[i] \in Typed

\* The inner loops of shell_parse stop at the end of the line at the latest.
LEMMA SkipFacts ==
    ASSUME NEW buf, NEW end, IsLine(buf, end), NEW p \in 0 .. end
    PROVE  /\ SkipBlanks(buf, p) \in p .. end /\ buf[SkipBlanks(buf, p)] # Blank
           /\ \A q \in p .. (SkipBlanks(buf, p) - 1) : buf[q] = Blank
           /\ SkipWord(buf, p) \in p .. end /\ buf[SkipWord(buf, p)] \in {Blank, Nul}
           /\ \A q \in p .. (SkipWord(buf, p) - 1) : buf[q] \notin {Blank, Nul}
<1>1. end \in Nat /\ end <= MAX_LINE - 1 /\ buf[end] = Nul /\ Nul # Blank
  BY Sizes DEF IsLine, Indices, Nul, Blank
<1>2. ASSUME NEW S, S \in SUBSET (p .. (MAX_LINE - 1)), end \in S
      PROVE  /\ Min(S) \in S /\ Min(S) \in p .. end
             /\ \A q \in p .. (Min(S) - 1) : q \notin S /\ q \in p .. (MAX_LINE - 1)
  <2>1. S \in SUBSET Nat /\ S # {}
    BY <1>1, <1>2, Sizes
  <2>2. Min(S) \in S /\ \A y \in S : Min(S) <= y
    BY <2>1, MinIs
  <2>3. PICK m : m = Min(S)
    OBVIOUS
  <2>4. m \in S /\ m \in p .. (MAX_LINE - 1) /\ m <= end /\ \A y \in S : m <= y
    BY <1>2, <2>2, <2>3
  <2> QED BY <1>1, <2>3, <2>4, Sizes
<1> DEFINE A == {q \in p .. (MAX_LINE - 1) : buf[q] # Blank}
           B == {q \in p .. (MAX_LINE - 1) : buf[q] \in {Blank, Nul}}
<1>3. A \in SUBSET (p .. (MAX_LINE - 1)) /\ end \in A /\ B \in SUBSET (p .. (MAX_LINE - 1)) /\ end \in B
  BY <1>1, Sizes
<1>4. SkipBlanks(buf, p) = Min(A) /\ SkipWord(buf, p) = Min(B)
  BY DEF SkipBlanks, SkipWord
<1>5. \A q \in p .. (MAX_LINE - 1) : /\ q \in A <=> buf[q] # Blank
                                     /\ q \in B <=> buf[q] \in {Blank, Nul}
  OBVIOUS
<1> HIDE DEF A, B
<1>6. /\ Min(A) \in A /\ Min(A) \in p .. end
      /\ \A q \in p .. (Min(A) - 1) : q \notin A /\ q \in p .. (MAX_LINE - 1)
  BY <1>2, <1>3
<1>7. /\ Min(B) \in B /\ Min(B) \in p .. end
      /\ \A q \in p .. (Min(B) - 1) : q \notin B /\ q \in p .. (MAX_LINE - 1)
  BY <1>2, <1>3
<1> QED BY <1>1, <1>3, <1>4, <1>5, <1>6, <1>7

\* p after one round of the loop.
Onward(buf, p) ==
    LET end == SkipWord(buf, SkipBlanks(buf, p))
    IN  IF buf[end] = Nul THEN end ELSE end + 1

\* A round of the loop stays in the line, and goes behind the word it finds.
LEMMA OnwardIs ==
    ASSUME NEW buf, NEW end, IsLine(buf, end), NEW p \in 0 .. end
    PROVE  LET first == SkipBlanks(buf, p)
               last  == SkipWord(buf, first)
           IN  /\ first \in p .. end /\ last \in first .. end
               /\ Onward(buf, p) \in last .. end
               /\ Onward(buf, p) # last => Onward(buf, p) = last + 1 /\ buf[last] = Blank
               /\ Onward(buf, p) = last => last = end
<1> DEFINE first == SkipBlanks(buf, p)
           last  == SkipWord(buf, first)
<1>1. end \in Nat /\ buf[end] = Nul /\ \A i \in 0 .. (end - 1) : buf[i] # Nul
  <2>1. Nul \notin Typed
    BY ConsoleAssumption DEF Special
  <2> QED BY <2>1 DEF IsLine, Indices
<1>2. first \in p .. end /\ first \in 0 .. end
  BY SkipFacts
<1> HIDE DEF first
<1>3. last \in first .. end /\ buf[last] \in {Blank, Nul}
  BY <1>2, SkipFacts
<1>4. Onward(buf, p) = IF buf[last] = Nul THEN last ELSE last + 1
  BY DEF Onward, first, last
<1> HIDE DEF last
<1>5. buf[last] = Nul => last = end
  BY <1>1, <1>2, <1>3
<1>6. buf[last] # Nul => last # end
  BY <1>1
<1>7. /\ Onward(buf, p) \in last .. end
      /\ Onward(buf, p) # last => Onward(buf, p) = last + 1 /\ buf[last] = Blank
      /\ Onward(buf, p) = last => last = end
  BY <1>1, <1>2, <1>3, <1>4, <1>5, <1>6
<1> QED BY <1>2, <1>3, <1>7 DEF first, last

\* p in front of the rounds: it stays in the line.
LEMMA RoundsAre ==
    ASSUME NEW buf, NEW end, IsLine(buf, end)
    PROVE  /\ Rounds(buf) \in [0 .. MAX_ARGS -> 0 .. end]
           /\ Rounds(buf)[0] = 0
           /\ \A n \in 1 .. MAX_ARGS : Rounds(buf)[n] = Onward(buf, Rounds(buf)[n - 1])
<1> DEFINE N == MAX_ARGS
           step == [n \in 1 .. N |-> [p \in 0 .. end |-> Onward(buf, p)]]
           Loop(f) == f = [n \in 0 .. N |->
                              IF n = 0 THEN 0
                              ELSE LET e == SkipWord(buf, SkipBlanks(buf, f[n - 1]))
                                   IN  IF buf[e] = Nul THEN e ELSE e + 1]
<1>0. N \in Nat /\ end \in Nat
  BY Sizes DEF IsLine, Indices
<1>1. \A p \in 0 .. end : Onward(buf, p) \in 0 .. end
  <2> TAKE p \in 0 .. end
  <2> DEFINE first == SkipBlanks(buf, p)
             last  == SkipWord(buf, first)
  <2>1. first \in p .. end /\ last \in first .. end /\ Onward(buf, p) \in last .. end
    BY OnwardIs
  <2> HIDE DEF first, last
  <2> QED BY <1>0, <2>1
<1>2. \A n \in 1 .. N : \A p \in 0 .. end :
          step[n][p] = Onward(buf, p) /\ step[n][p] \in 0 .. end
  BY <1>1
<1> HIDE DEF step
<1>3. PICK f \in [0 .. N -> 0 .. end] :
          /\ f[0] = 0
          /\ \A n \in 1 .. N : f[n] = step[n][f[n - 1]]
          /\ \A g : Solves(g, N, 0 .. end, 0, step) => g = f
  <2>1. 0 \in 0 .. end
    BY <1>0
  <2> HIDE DEF N
  <2> QED BY <1>0, <1>2, <2>1, LoopIs
<1>4. \A n \in 1 .. N : f[n] = Onward(buf, f[n - 1])
  <2> TAKE n \in 1 .. N
  <2>1. n - 1 \in 0 .. N
    BY <1>0
  <2> QED BY <1>2, <1>3, <2>1
<1>5. Loop(f)
  <2>1. \A n \in 0 .. N : f[n] = IF n = 0 THEN 0 ELSE Onward(buf, f[n - 1])
    <3> TAKE n \in 0 .. N
    <3>1. n # 0 => n \in 1 .. N
      BY <1>0
    <3> QED BY <1>3, <1>4, <3>1
  <2>2. f = [n \in 0 .. N |-> IF n = 0 THEN 0 ELSE Onward(buf, f[n - 1])]
    BY <1>3, <2>1
  <2> QED BY <2>2 DEF Onward
<1>6. \A g : Loop(g) => g = f
  <2> SUFFICES ASSUME NEW g, Loop(g) PROVE g = f
    OBVIOUS
  <2>1. g = [n \in 0 .. N |-> IF n = 0 THEN 0 ELSE Onward(buf, g[n - 1])]
    BY DEF Onward
  <2>2. /\ DOMAIN g = 0 .. N
        /\ \A n \in 0 .. N : g[n] = IF n = 0 THEN 0 ELSE Onward(buf, g[n - 1])
    BY <2>1
  <2> HIDE DEF Loop
  <2>3. g = [n \in 0 .. N |-> g[n]]
    BY <2>1, <2>2
  <2>4. 0 \in 0 .. N /\ \A n \in 1 .. N : n \in 0 .. N /\ n # 0
    BY <1>0
  <2>5. Solves(g, N, 0 .. end, 0, step)
    BY <1>2, <2>2, <2>3, <2>4 DEF Solves
  <2> QED BY <1>3, <2>5
<1>7. Rounds(buf) = CHOOSE g : Loop(g)
  BY DEF Rounds
<1>8. Rounds(buf) = f
  <2> HIDE DEF Loop
  <2> QED BY <1>5, <1>6, <1>7
<1> QED BY <1>3, <1>4, <1>8

\* The word that round n finds, if any, begins and ends at these places.
WordStart(buf, n) == SkipBlanks(buf, Rounds(buf)[n])
WordEnd(buf, n)  == SkipWord(buf, WordStart(buf, n))

\* The loop of shell_parse ends at the first round that finds no word, or
\* when argv is full.
LEMMA SpansAre ==
    ASSUME NEW buf
    PROVE  \E argc \in 0 .. MAX_ARGS :
               /\ Spans(buf) = [j \in 1 .. argc |-> <<WordStart(buf, j - 1), WordEnd(buf, j - 1)>>]
               /\ \A n \in 0 .. (argc - 1) : buf[WordStart(buf, n)] # Nul
               /\ argc # MAX_ARGS => buf[WordStart(buf, argc)] = Nul
<1> DEFINE first == [n \in 0 .. MAX_ARGS |-> SkipBlanks(buf, Rounds(buf)[n])]
           Ends  == {n \in 0 .. MAX_ARGS : n = MAX_ARGS \/ buf[first[n]] = Nul}
           argc  == Min(Ends)
<1>1. MAX_ARGS \in Nat /\ \A n \in 0 .. MAX_ARGS : first[n] = WordStart(buf, n)
  BY Sizes DEF WordStart
<1>2. Spans(buf) = [j \in 1 .. argc |-> <<first[j - 1], SkipWord(buf, first[j - 1])>>]
  BY DEF Spans
<1> HIDE DEF first
<1>3. \A n \in 0 .. MAX_ARGS : n \in Ends <=> n = MAX_ARGS \/ buf[WordStart(buf, n)] = Nul
  BY <1>1
<1>4. Ends \in SUBSET Nat /\ Ends \in SUBSET (0 .. MAX_ARGS) /\ MAX_ARGS \in Ends
  BY <1>1
<1> HIDE DEF Ends
<1>5. argc \in Ends /\ \A y \in Ends : argc <= y
  BY <1>4, MinIs
<1>6. PICK a : a = argc
  OBVIOUS
<1> HIDE DEF argc
<1>7. a \in 0 .. MAX_ARGS /\ a \in Nat /\ a <= MAX_ARGS
  BY <1>1, <1>4, <1>5, <1>6
<1>8. ASSUME NEW n \in 0 .. (a - 1) PROVE buf[WordStart(buf, n)] # Nul
  <2>1. n \in 0 .. MAX_ARGS /\ n \notin Ends
    BY <1>1, <1>5, <1>6, <1>7
  <2> QED BY <1>3, <2>1
<1>9. a # MAX_ARGS => buf[WordStart(buf, a)] = Nul
  BY <1>3, <1>5, <1>6, <1>7
<1>10. \A j \in 1 .. a : <<first[j - 1], SkipWord(buf, first[j - 1])>> = <<WordStart(buf, j - 1), WordEnd(buf, j - 1)>>
  <2> TAKE j \in 1 .. a
  <2>1. j - 1 \in 0 .. MAX_ARGS
    BY <1>1, <1>7
  <2> QED BY <1>1, <2>1 DEF WordEnd
<1>11. Spans(buf) = [j \in 1 .. a |-> <<WordStart(buf, j - 1), WordEnd(buf, j - 1)>>]
  BY <1>2, <1>6, <1>10
<1> QED BY <1>7, <1>8, <1>9, <1>11

\* A round stays in the line; the word it finds is not empty and has neither
\* blanks nor '\0' in it; the next round begins behind it.
LEMMA RoundIs ==
    ASSUME NEW buf, NEW end, IsLine(buf, end), NEW n \in 0 .. (MAX_ARGS - 1)
    PROVE  /\ WordStart(buf, n) \in Rounds(buf)[n] .. end /\ WordStart(buf, n) \in 0 .. end
           /\ WordEnd(buf, n) \in WordStart(buf, n) .. end
           /\ buf[WordStart(buf, n)] # Blank
           /\ \A q \in Rounds(buf)[n] .. (WordStart(buf, n) - 1) : buf[q] = Blank
           /\ \A q \in WordStart(buf, n) .. (WordEnd(buf, n) - 1) : buf[q] \in Typed \ {Blank}
           /\ buf[WordStart(buf, n)] # Nul => WordEnd(buf, n) # WordStart(buf, n)
           /\ \/ Rounds(buf)[n + 1] = WordEnd(buf, n) + 1 /\ buf[WordEnd(buf, n)] = Blank
              \/ Rounds(buf)[n + 1] = WordEnd(buf, n) /\ WordEnd(buf, n) = end
<1> DEFINE p == Rounds(buf)[n]
           a == WordStart(buf, n)
           b == WordEnd(buf, n)
<1>1. end \in Nat /\ \A i \in 0 .. (end - 1) : buf[i] \in Typed
  BY DEF IsLine, Indices
<1>2. n \in 0 .. MAX_ARGS /\ n + 1 \in 1 .. MAX_ARGS /\ (n + 1) - 1 = n
  BY Sizes
<1>3. p \in 0 .. end /\ Rounds(buf)[n + 1] = Onward(buf, p)
  BY <1>2, RoundsAre
<1>4. a = SkipBlanks(buf, p) /\ b = SkipWord(buf, a)
  BY DEF WordStart, WordEnd
<1> HIDE DEF p, a, b
<1>5. a \in p .. end /\ buf[a] # Blank /\ (\A q \in p .. (a - 1) : buf[q] = Blank)
  BY <1>3, <1>4, SkipFacts
<1>6. a \in 0 .. end
  BY <1>1, <1>3, <1>5
<1>7. /\ b \in a .. end /\ buf[b] \in {Blank, Nul}
      /\ \A q \in a .. (b - 1) : buf[q] \notin {Blank, Nul}
  BY <1>4, <1>6, SkipFacts
<1>8. /\ Onward(buf, p) # b => Onward(buf, p) = b + 1 /\ buf[b] = Blank
      /\ Onward(buf, p) = b => b = end
  BY <1>3, <1>4, OnwardIs
<1>9. \A q \in a .. (b - 1) : buf[q] \in Typed \ {Blank}
  BY <1>1, <1>6, <1>7
<1>10. buf[a] # Nul => b # a
  BY <1>5, <1>7
<1> QED BY <1>3, <1>5, <1>6, <1>7, <1>8, <1>9, <1>10 DEF p, a, b

\* The line without its '\0', as a sequence, and where its words begin.
TextOf(buf, end) == [i \in 1 .. end |-> buf[i - 1]]
Starts(text) == {i \in DOMAIN text : text[i] # Blank /\ (i = 1 \/ text[i - 1] = Blank)}

\* A place of the line is a beginning.
LEMMA StartsAre ==
    ASSUME NEW buf, NEW end \in Nat
    PROVE  \A h : h \in Starts(TextOf(buf, end)) <=>
                  /\ h \in 1 .. end /\ buf[h - 1] # Blank
                  /\ h = 1 \/ buf[h - 2] = Blank
<1> DEFINE t == TextOf(buf, end)
<1>1. DOMAIN t = 1 .. end /\ \A i \in 1 .. end : t[i] = buf[i - 1]
  BY DEF TextOf
<1> HIDE DEF t
<1>2. ASSUME NEW h \in 1 .. end
      PROVE  h \in Starts(t) <=> buf[h - 1] # Blank /\ (h = 1 \/ buf[h - 2] = Blank)
  <2>1. h # 1 => h - 1 \in 1 .. end /\ (h - 1) - 1 = h - 2
    OBVIOUS
  <2>2. h # 1 => t[h - 1] = buf[h - 2]
    <3>1. h # 1 => t[h - 1] = buf[(h - 1) - 1]
      BY <1>1, <2>1
    <3> QED BY <2>1, <3>1
  <2> QED BY <1>1, <2>2 DEF Starts
<1>3. \A h \in Starts(t) : h \in 1 .. end
  BY <1>1 DEF Starts
<1> QED BY <1>2, <1>3 DEF t

\* A round that finds a word goes past one beginning, that of the word.
LEMMA RoundCounts ==
    ASSUME NEW buf, NEW end, IsLine(buf, end), NEW n \in 0 .. (MAX_ARGS - 1),
           buf[WordStart(buf, n)] # Nul
    PROVE  /\ WordStart(buf, n) + 1 \in Starts(TextOf(buf, end))
           /\ WordStart(buf, n) >= Rounds(buf)[n] /\ WordStart(buf, n) < Rounds(buf)[n + 1]
           /\ \A h \in Starts(TextOf(buf, end)) :
                 /\ h <= Rounds(buf)[n + 1] <=> h <= Rounds(buf)[n] \/ h = WordStart(buf, n) + 1
                 /\ h < WordStart(buf, n) + 1 <=> h <= Rounds(buf)[n]
<1> DEFINE p == Rounds(buf)[n]
           o == Rounds(buf)[n + 1]
           a == WordStart(buf, n)
           b == WordEnd(buf, n)
           W == Starts(TextOf(buf, end))
<1>1. end \in Nat /\ buf[end] = Nul
  BY DEF IsLine, Indices
<1>2. p \in 0 .. end
  <2>1. n \in 0 .. MAX_ARGS
    BY Sizes
  <2> QED BY <2>1, RoundsAre
<1>3. /\ a \in p .. end /\ a \in 0 .. end /\ b \in a .. end /\ buf[a] # Blank /\ buf[a] # Nul /\ b # a
      /\ \A q \in p .. (a - 1) : buf[q] = Blank
      /\ \A q \in a .. (b - 1) : buf[q] # Blank
      /\ (o = b + 1 /\ buf[b] = Blank) \/ (o = b /\ b = end)
  BY RoundIs
<1>4. p = 0 \/ p = end \/ buf[p - 1] = Blank
  <2>1. CASE n = 0
    BY <2>1, RoundsAre
  <2>2. CASE n # 0
    <3>1. n - 1 \in 0 .. (MAX_ARGS - 1) /\ (n - 1) + 1 = n
      BY <2>2, Sizes
    <3>2. PICK c : c = WordEnd(buf, n - 1)
      OBVIOUS
    <3>3. c \in WordStart(buf, n - 1) .. end /\ WordStart(buf, n - 1) \in 0 .. end
      BY <3>1, <3>2, RoundIs
    <3>4. (p = c + 1 /\ buf[c] = Blank) \/ (p = c /\ c = end)
      BY <3>1, <3>2, RoundIs
    <3>5. c \in Nat
      BY <1>1, <3>3
    <3> QED BY <3>4, <3>5
  <2> QED BY <2>1, <2>2
<1>5. \A h : h \in W <=> h \in 1 .. end /\ buf[h - 1] # Blank /\ (h = 1 \/ buf[h - 2] = Blank)
  BY <1>1, StartsAre
<1> HIDE DEF p, o, a, b, W
<1>6. a # end
  BY <1>1, <1>3
<1>7. a + 1 \in W
  <2>1. a + 1 \in 1 .. end /\ (a + 1) - 1 = a /\ (a + 1) - 2 = a - 1
    BY <1>1, <1>3, <1>6
  <2>2. a = 0 \/ buf[a - 1] = Blank
    BY <1>2, <1>3, <1>4, <1>6
  <2> QED BY <1>3, <1>5, <2>1, <2>2
<1>8. ASSUME NEW h \in W PROVE h \notin (p + 1) .. a /\ (h \in (a + 2) .. (b + 1) => FALSE)
  <2>1. h \in 1 .. end /\ buf[h - 1] # Blank /\ (h = 1 \/ buf[h - 2] = Blank)
    BY <1>5
  <2>2. h \in (p + 1) .. a => h - 1 \in p .. (a - 1)
    BY <1>2, <1>3, <2>1
  <2>3. h \in (a + 2) .. (b + 1) => h - 2 \in a .. (b - 1) /\ h # 1
    BY <1>2, <1>3, <2>1
  <2> QED BY <1>3, <2>1, <2>2, <2>3
<1>9. a >= p /\ a < o
  BY <1>1, <1>2, <1>3
<1>10. ASSUME NEW h \in W
       PROVE  /\ h <= o <=> h <= p \/ h = a + 1
              /\ h < a + 1 <=> h <= p
  <2>1. h \in 1 .. end
    BY <1>5
  <2> QED BY <1>1, <1>2, <1>3, <1>8, <2>1
<1> QED BY <1>7, <1>9, <1>10 DEF p, o, a, W

\* In front of round n there are the beginnings of n words.
LEMMA WordsCounted ==
    ASSUME NEW buf, NEW end, IsLine(buf, end), NEW argc \in 0 .. MAX_ARGS,
           \A n \in 0 .. (argc - 1) : buf[WordStart(buf, n)] # Nul
    PROVE  /\ IsFiniteSet(Starts(TextOf(buf, end)))
           /\ \A n \in 0 .. argc :
                 Cardinality({h \in Starts(TextOf(buf, end)) : h <= Rounds(buf)[n]}) = n
<1> DEFINE W == Starts(TextOf(buf, end))
           Before(n) == {h \in W : h <= Rounds(buf)[n]}
           Bad == {n \in 0 .. argc : Cardinality(Before(n)) # n}
<1>1. end \in Nat /\ argc \in Nat
  BY Sizes DEF IsLine, Indices
<1>2. W \in SUBSET (1 .. end)
  BY <1>1, StartsAre
<1>3. IsFiniteSet(W)
  <2>1. IsFiniteSet(1 .. end)
    BY <1>1, FS_Interval
  <2> QED BY <1>2, <2>1, FS_Subset
<1>4. Bad = {}
  <2> SUFFICES ASSUME Bad # {} PROVE FALSE
    OBVIOUS
  <2>1. PICK k \in Bad : \A j \in Bad : k <= j
    <3>1. Bad \in SUBSET Nat
      BY <1>1
    <3> HIDE DEF Bad
    <3> QED BY <3>1, LeastNatural
  <2>2. CASE k = 0
    <3>1. Rounds(buf)[0] = 0
      BY RoundsAre
    <3>2. Before(0) = {}
      BY <1>1, <1>2, <3>1
    <3> QED BY <2>1, <2>2, <3>2, FS_EmptySet
  <2>3. CASE k # 0
    <3> DEFINE n == k - 1
    <3>1. n \in 0 .. (argc - 1) /\ n \in 0 .. (MAX_ARGS - 1) /\ n + 1 = k /\ n \in 0 .. argc /\ n \notin Bad
      BY <1>1, <2>1, <2>3, Sizes
    <3> HIDE DEF n
    <3>2. Cardinality(Before(n)) = n
      BY <3>1
    <3>3. /\ WordStart(buf, n) + 1 \in W
          /\ \A h \in W : /\ h <= Rounds(buf)[n + 1] <=> h <= Rounds(buf)[n] \/ h = WordStart(buf, n) + 1
                          /\ h < WordStart(buf, n) + 1 <=> h <= Rounds(buf)[n]
      BY <3>1, RoundCounts
    <3>4. PICK i : i = WordStart(buf, n) + 1
      OBVIOUS
    <3>5. i \in W /\ i \in Int /\ \A h \in W : /\ h <= Rounds(buf)[k] <=> h <= Rounds(buf)[n] \/ h = i
                                               /\ h < i <=> h <= Rounds(buf)[n]
      BY <1>1, <1>2, <3>1, <3>3, <3>4
    <3>6. ~(i <= Rounds(buf)[n])
      BY <3>5
    <3>7. Before(k) = Before(n) \cup {i} /\ i \notin Before(n)
      BY <3>5, <3>6
    <3>8. IsFiniteSet(Before(n))
      <4>1. Before(n) \in SUBSET W
        OBVIOUS
      <4> QED BY <1>3, <4>1, FS_Subset
    <3> HIDE DEF Before
    <3>9. Cardinality(Before(n) \cup {i}) = Cardinality(Before(n)) + 1
      BY <3>7, <3>8, FS_AddElement
    <3> QED BY <2>1, <3>1, <3>2, <3>7, <3>9
  <2> QED BY <2>2, <2>3
<1> QED BY <1>3, <1>4

\* What ArgsAreWords says of argv and of the line that was entered.
AreWords(args, text) ==
    /\ Len(args) = Min({MAX_ARGS, Cardinality(Starts(text))})
    /\ \A j \in DOMAIN args :
          \E i \in Starts(text) :
              LET end == i + Len(args[j])
              IN  /\ Cardinality({h \in Starts(text) : h < i}) = j - 1
                  /\ end <= Len(text) + 1
                  /\ args[j] = SubSeq(text, i, end - 1)
                  /\ Blank \notin Range(args[j])
                  /\ end = Len(text) + 1 \/ text[end] = Blank

\* The argument that shell_parse makes of a span.
Arg(buf, span) == SubSeq([i \in 1 .. MAX_LINE |-> buf[i - 1]], span[1] + 1, span[2])

\* The characters of an argument are those of the line, from first to last.
LEMMA ArgIs ==
    ASSUME NEW buf, NEW end, IsLine(buf, end), NEW a \in 0 .. end, NEW b \in a .. end, a # b,
           \A q \in a .. (b - 1) : buf[q] \in Typed \ {Blank}
    PROVE  /\ Arg(buf, <<a, b>>) \in Seq(Typed \ {Blank})
           /\ Len(Arg(buf, <<a, b>>)) = b - a
           /\ Arg(buf, <<a, b>>) = SubSeq(TextOf(buf, end), a + 1, b)
           /\ Blank \notin Range(Arg(buf, <<a, b>>))
<1> DEFINE whole == [i \in 1 .. MAX_LINE |-> buf[i - 1]]
           text  == TextOf(buf, end)
           word  == [i \in 1 .. (b - a) |-> buf[a + i - 1]]
           C     == Typed \cup {Nul, Unset}
<1>1. end \in Nat /\ end < MAX_LINE /\ MAX_LINE \in Nat /\ \A i \in 0 .. (MAX_LINE - 1) : buf[i] \in C
  BY Sizes DEF IsLine, Indices
<1>2. whole \in Seq(C) /\ Len(whole) = MAX_LINE /\ text \in Seq(C) /\ Len(text) = end
  <2>1. \A i \in 1 .. MAX_LINE : i - 1 \in 0 .. (MAX_LINE - 1)
    BY <1>1
  <2>2. \A i \in 1 .. end : i - 1 \in 0 .. (MAX_LINE - 1)
    BY <1>1
  <2> QED BY <1>1, <2>1, <2>2 DEF TextOf
<1>3. a + 1 \in 1 .. end /\ b \in 1 .. end /\ a + 1 <= b /\ b - (a + 1) + 1 = b - a /\ b - a \in Nat
  BY <1>1
<1>4. /\ \A i \in 1 .. MAX_LINE : whole[i] = buf[i - 1]
      /\ \A i \in 1 .. end : text[i] = buf[i - 1]
  BY DEF TextOf
<1> HIDE DEF whole, text, C
<1>5. ASSUME NEW s \in Seq(C), end <= Len(s), \A i \in 1 .. end : s[i] = buf[i - 1]
      PROVE  SubSeq(s, a + 1, b) = word
  <2>1. a + 1 \in 1 .. (Len(s) + 1) /\ b \in ((a + 1) - 1) .. Len(s)
    BY <1>1, <1>3, <1>5
  <2>2. /\ SubSeq(s, a + 1, b) \in Seq(C) /\ Len(SubSeq(s, a + 1, b)) = b - a
        /\ \A i \in 1 .. (b - a) : SubSeq(s, a + 1, b)[i] = s[(a + 1) + i - 1]
    BY <1>3, <2>1, SubSeqProperties
  <2>3. \A i \in 1 .. (b - a) : SubSeq(s, a + 1, b)[i] = word[i]
    <3> TAKE i \in 1 .. (b - a)
    <3>1. (a + 1) + i - 1 \in 1 .. end /\ ((a + 1) + i - 1) - 1 = a + i - 1
      BY <1>1, <1>3
    <3> QED BY <1>5, <2>2, <3>1
  <2> QED BY <1>3, <2>2, <2>3
<1>6. Arg(buf, <<a, b>>) = word /\ SubSeq(text, a + 1, b) = word
  <2>0. /\ end <= Len(whole) /\ \A i \in 1 .. end : whole[i] = buf[i - 1]
        /\ end <= Len(text) /\ \A i \in 1 .. end : text[i] = buf[i - 1]
    BY <1>1, <1>2, <1>4
  <2> HIDE DEF word
  <2>1. SubSeq(whole, a + 1, b) = word
    BY <1>2, <1>5, <2>0
  <2>3. SubSeq(text, a + 1, b) = word
    BY <1>2, <1>5, <2>0
  <2>2. Arg(buf, <<a, b>>) = SubSeq(whole, a + 1, b)
    BY DEF Arg, whole
  <2> QED BY <2>1, <2>2, <2>3
<1>7. \A i \in 1 .. (b - a) : word[i] \in Typed \ {Blank}
  <2> TAKE i \in 1 .. (b - a)
  <2>1. a + i - 1 \in a .. (b - 1)
    BY <1>1, <1>3
  <2> QED BY <2>1
<1>8. word \in Seq(Typed \ {Blank}) /\ Len(word) = b - a
  BY <1>3, <1>7
<1>9. Blank \notin Range(word)
  BY <1>7 DEF Range
<1> QED BY <1>6, <1>8, <1>9 DEF text

\* shell_parse finds the words of the line, whole and in order, and ends them
\* inside the line.
LEMMA ParseIs ==
    ASSUME NEW buf, NEW end, IsLine(buf, end), NEW args,
           args = [j \in DOMAIN Spans(buf) |-> Arg(buf, Spans(buf)[j])]
    PROVE  args \in Seq(Seq(Typed)) /\ AreWords(args, TextOf(buf, end))
<1> DEFINE text == TextOf(buf, end)
           W    == Starts(text)
           R    == Rounds(buf)
<1>1. PICK argc \in 0 .. MAX_ARGS :
          /\ Spans(buf) = [j \in 1 .. argc |-> <<WordStart(buf, j - 1), WordEnd(buf, j - 1)>>]
          /\ \A n \in 0 .. (argc - 1) : buf[WordStart(buf, n)] # Nul
          /\ argc # MAX_ARGS => buf[WordStart(buf, argc)] = Nul
  BY SpansAre
<1>2. end \in Nat /\ argc \in Nat /\ MAX_ARGS \in Nat /\ argc <= MAX_ARGS
  BY Sizes DEF IsLine, Indices
<1>3. IsFiniteSet(W) /\ \A n \in 0 .. argc : Cardinality({h \in W : h <= R[n]}) = n
  BY <1>1, WordsCounted
<1>4. DOMAIN args = 1 .. argc
      /\ \A j \in 1 .. argc : args[j] = Arg(buf, <<WordStart(buf, j - 1), WordEnd(buf, j - 1)>>)
  BY <1>1
<1>5. ASSUME NEW j \in 1 .. argc
      PROVE  /\ args[j] \in Seq(Typed \ {Blank})
             /\ \E i \in W :
                    LET e == i + Len(args[j])
                    IN  /\ Cardinality({h \in W : h < i}) = j - 1
                        /\ e <= Len(text) + 1
                        /\ args[j] = SubSeq(text, i, e - 1)
                        /\ Blank \notin Range(args[j])
                        /\ e = Len(text) + 1 \/ text[e] = Blank
  <2> DEFINE n == j - 1
             a == WordStart(buf, n)
             b == WordEnd(buf, n)
  <2>1. n \in 0 .. (argc - 1) /\ n \in 0 .. (MAX_ARGS - 1) /\ n \in 0 .. argc
    BY <1>2
  <2> HIDE DEF n
  <2>2. buf[a] # Nul
    BY <1>1, <2>1
  <2>3. /\ a \in 0 .. end /\ b \in a .. end /\ b # a
        /\ \A q \in a .. (b - 1) : buf[q] \in Typed \ {Blank}
        /\ buf[b] = Blank \/ b = end
    BY <2>1, <2>2, RoundIs
  <2>4. a + 1 \in W /\ \A h \in W : h < a + 1 <=> h <= R[n]
    BY <2>1, <2>2, RoundCounts
  <2>5. args[j] = Arg(buf, <<a, b>>)
    BY <1>4 DEF n
  <2> HIDE DEF a, b
  <2>6. /\ args[j] \in Seq(Typed \ {Blank}) /\ Len(args[j]) = b - a
        /\ args[j] = SubSeq(text, a + 1, b) /\ Blank \notin Range(args[j])
    <3>1. a # b
      BY <2>3
    <3>2. /\ Arg(buf, <<a, b>>) \in Seq(Typed \ {Blank}) /\ Len(Arg(buf, <<a, b>>)) = b - a
          /\ Arg(buf, <<a, b>>) = SubSeq(text, a + 1, b)
          /\ Blank \notin Range(Arg(buf, <<a, b>>))
      BY <2>3, <3>1, ArgIs
    <3> HIDE DEF text
    <3> QED BY <2>5, <3>2, Zenon
  <2>7. {h \in W : h < a + 1} = {h \in W : h <= R[n]}
    BY <2>4
  <2>8. Cardinality({h \in W : h < a + 1}) = n
    BY <1>3, <2>1, <2>7
  <2>9. Len(text) = end /\ \A i \in 1 .. end : text[i] = buf[i - 1]
    BY <1>2 DEF TextOf
  <2>10. (a + 1) + (b - a) = b + 1 /\ (b + 1) - 1 = b /\ b + 1 <= end + 1 /\ (b # end => b + 1 \in 1 .. end)
    BY <1>2, <2>3
  <2>11. b + 1 = end + 1 \/ text[b + 1] = Blank
    BY <2>3, <2>9, <2>10
  <2> HIDE DEF text, W, R
  <2>12. PICK i : i = a + 1
    OBVIOUS
  <2>13. /\ i \in W /\ i + Len(args[j]) = b + 1
         /\ Cardinality({h \in W : h < i}) = j - 1
         /\ args[j] = SubSeq(text, i, (b + 1) - 1)
    BY <2>4, <2>6, <2>8, <2>10, <2>12 DEF n
  <2> QED BY <2>6, <2>9, <2>10, <2>11, <2>13
<1>6. args \in Seq(Seq(Typed)) /\ Len(args) = argc
  <2>1. \A j \in 1 .. argc : args[j] \in Seq(Typed)
    <3> TAKE j \in 1 .. argc
    <3>1. args[j] \in Seq(Typed \ {Blank})
      BY <1>5
    <3> QED BY <3>1
  <2>2. args = [j \in 1 .. argc |-> args[j]]
    BY <1>4
  <2> QED BY <1>2, <2>1, <2>2
<1>7. argc = Min({MAX_ARGS, Cardinality(W)})
  <2> DEFINE B == {h \in W : h <= R[argc]}
             c == Cardinality(W)
  <2>1. Cardinality(B) = argc
    <3>1. argc \in 0 .. argc
      BY <1>2
    <3> QED BY <1>3, <3>1
  <2>2. B \in SUBSET W
    OBVIOUS
  <2>3. Cardinality(B) <= Cardinality(W) /\ Cardinality(W) \in Nat
    BY <1>3, <2>2, FS_Subset, FS_CardinalityType
  <2>4. ASSUME argc # MAX_ARGS PROVE c = argc
    <3>1. argc \in 0 .. (MAX_ARGS - 1)
      BY <1>2, <2>4
    <3>2. /\ WordStart(buf, argc) \in 0 .. end
          /\ \A q \in R[argc] .. (WordStart(buf, argc) - 1) : buf[q] = Blank
      BY <3>1, RoundIs
    <3>3. WordStart(buf, argc) = end
      <4>1. Nul \notin Typed
        BY ConsoleAssumption DEF Special
      <4>2. \A i \in 0 .. (end - 1) : buf[i] # Nul
        BY <4>1 DEF IsLine
      <4> QED BY <1>1, <1>2, <2>4, <3>2, <4>2
    <3>4. R[argc] \in 0 .. end
      BY RoundsAre
    <3>5. ASSUME NEW h \in W PROVE h <= R[argc]
      <4>1. h \in 1 .. end /\ buf[h - 1] # Blank
        BY <1>2, StartsAre
      <4> QED BY <1>2, <3>2, <3>3, <3>4, <4>1
    <3>6. B = W
      BY <3>5
    <3> QED BY <2>1, <3>6
  <2> HIDE DEF B, c
  <2>5. c \in Nat /\ argc <= c
    BY <2>1, <2>3 DEF c
  <2>6. \A y \in {MAX_ARGS, c} : argc <= y
    BY <1>2, <2>5
  <2>7. argc \in {MAX_ARGS, c}
    BY <2>4
  <2>8. /\ Min({MAX_ARGS, c}) \in {MAX_ARGS, c}
        /\ \A y \in {MAX_ARGS, c} : Min({MAX_ARGS, c}) <= y
    <3>1. {MAX_ARGS, c} \in SUBSET Nat /\ {MAX_ARGS, c} # {}
      BY <1>2, <2>5
    <3> QED BY <3>1, MinIs
  <2> QED BY <1>2, <2>5, <2>6, <2>7, <2>8 DEF c
<1> QED BY <1>4, <1>5, <1>6, <1>7 DEF AreWords

-----------------------------------------------------------------------------
(***************************************************************************)
(* What stands before the cursor.  Cells are numbered row by row.          *)
(***************************************************************************)
Pos(r, k) == r * VGA_WIDTH + k

\* A greater factor gives no smaller product.
LEMMA Monotone ==
    ASSUME NEW a \in Nat, NEW b \in Nat, NEW w \in Nat, a <= b
    PROVE  a * w <= b * w /\ a * w \in Nat /\ b * w \in Nat
<1>1. b * w = a * w + (b - a) * w
  OBVIOUS
<1>2. b - a \in Nat
  OBVIOUS
<1>3. (b - a) * w >= 0 /\ a * w \in Nat /\ b * w \in Nat
  BY <1>2
<1> QED BY <1>1, <1>3

\* The numbers of the cells: of neighbours, and of cells below each other.
LEMMA PosFacts ==
    /\ \A r \in Nat, k \in Nat : Pos(r, k) \in Nat
    /\ \A r \in Nat, k \in Nat : Pos(r, k + 1) = Pos(r, k) + 1
    /\ \A r \in Nat, k \in Nat : Pos(r + 1, k) = Pos(r, k) + VGA_WIDTH
    /\ \A r \in Nat : Pos(r + 1, 0) = Pos(r, VGA_WIDTH - 1) + 1
    /\ \A r \in Nat, k \in Nat : r # 0 => Pos(r, k) >= VGA_WIDTH
    /\ \A r \in Nat, k \in Cols : r = 0 => Pos(r, k) < VGA_WIDTH
<1>1. VGA_WIDTH \in Nat /\ VGA_WIDTH >= 1
  BY Sizes
<1>2. \A r \in Nat : r * VGA_WIDTH \in Nat /\ (r + 1) * VGA_WIDTH = r * VGA_WIDTH + VGA_WIDTH
  BY <1>1
<1>3. ASSUME NEW r \in Nat, NEW k \in Nat, r # 0 PROVE Pos(r, k) >= VGA_WIDTH
  <2>1. 1 * VGA_WIDTH <= r * VGA_WIDTH /\ r * VGA_WIDTH \in Nat
    <3>1. 1 \in Nat /\ 1 <= r
      BY <1>3
    <3> QED BY <1>1, <3>1, Monotone
  <2> QED BY <1>1, <2>1 DEF Pos
<1>4. ASSUME NEW k \in Cols PROVE Pos(0, k) < VGA_WIDTH
  BY <1>1 DEF Pos, Cols
<1> QED BY <1>1, <1>2, <1>3, <1>4 DEF Pos

\* The number of a cell tells its row and its column.
LEMMA PosInjective ==
    ASSUME NEW r \in Nat, NEW q \in Nat, NEW k \in Cols, NEW j \in Cols
    PROVE  /\ r < q => Pos(r, k) < Pos(q, j)
           /\ Pos(r, k) = Pos(q, j) => r = q /\ k = j
<1>1. VGA_WIDTH \in Nat /\ VGA_WIDTH >= 1 /\ k \in Nat /\ j \in Nat /\ k < VGA_WIDTH /\ j < VGA_WIDTH
  BY Sizes DEF Cols
<1>2. ASSUME NEW a \in Nat, NEW b \in Nat, a < b PROVE a * VGA_WIDTH + VGA_WIDTH <= b * VGA_WIDTH
  <2>1. a + 1 \in Nat /\ a + 1 <= b
    BY <1>2
  <2>2. (a + 1) * VGA_WIDTH <= b * VGA_WIDTH
    BY <1>1, <2>1, Monotone
  <2>3. (a + 1) * VGA_WIDTH = a * VGA_WIDTH + VGA_WIDTH
    BY <1>1
  <2> QED BY <2>2, <2>3
<1>3. r * VGA_WIDTH \in Nat /\ q * VGA_WIDTH \in Nat
  BY <1>1
<1>4. r < q => Pos(r, k) < Pos(q, j)
  BY <1>1, <1>2, <1>3 DEF Pos
<1>5. q < r => Pos(q, j) < Pos(r, k)
  BY <1>1, <1>2, <1>3 DEF Pos
<1>6. r = q => (Pos(r, k) = Pos(q, j) <=> k = j)
  BY <1>1, <1>3 DEF Pos
<1>7. Pos(r, k) \in Nat /\ Pos(q, j) \in Nat
  BY <1>1, PosFacts
<1> QED BY <1>4, <1>5, <1>6, <1>7

\* The quotient and the remainder give the row and the column back.
LEMMA PosOf ==
    ASSUME NEW x \in Nat, x < Pos(VGA_HEIGHT, 0), x >= VGA_WIDTH
    PROVE  /\ x \div VGA_WIDTH \in Rows \ {0} /\ x % VGA_WIDTH \in Cols
           /\ Pos(x \div VGA_WIDTH, x % VGA_WIDTH) = x
<1> DEFINE q == x \div VGA_WIDTH
           m == x % VGA_WIDTH
<1>1. VGA_WIDTH \in Nat /\ VGA_WIDTH >= 1 /\ VGA_HEIGHT \in Nat
  BY Sizes
<1>2. q \in Int /\ m \in 0 .. (VGA_WIDTH - 1) /\ x = VGA_WIDTH * q + m
  BY <1>1
<1> HIDE DEF q, m
<1>3. VGA_WIDTH * q = q * VGA_WIDTH
  BY <1>1, <1>2
<1>4. q >= 1
  <2> SUFFICES ASSUME q <= 0 PROVE FALSE
    BY <1>2
  <2>1. -q \in Nat
    BY <1>2
  <2>2. (-q) * VGA_WIDTH \in Nat /\ (-q) * VGA_WIDTH = -(q * VGA_WIDTH)
    BY <1>1, <1>2, <2>1
  <2> QED BY <1>1, <1>2, <1>3, <2>2
<1>5. q < VGA_HEIGHT
  <2> SUFFICES ASSUME q >= VGA_HEIGHT PROVE FALSE
    BY <1>1, <1>2
  <2>1. q \in Nat
    BY <1>2, <1>4
  <2>2. VGA_HEIGHT * VGA_WIDTH <= q * VGA_WIDTH /\ q * VGA_WIDTH \in Nat /\ VGA_HEIGHT * VGA_WIDTH \in Nat
    BY <1>1, <2>1, Monotone
  <2>3. x < VGA_HEIGHT * VGA_WIDTH
    BY <2>2 DEF Pos
  <2> QED BY <1>2, <1>3, <2>2, <2>3
<1>6. q \in Rows \ {0} /\ m \in Cols
  BY <1>1, <1>2, <1>4, <1>5 DEF Rows, Cols
<1>7. Pos(q, m) = x
  BY <1>2, <1>3 DEF Pos
<1> QED BY <1>6, <1>7 DEF q, m

\* The cell at the cursor has this number.
At(con) == Pos(con.row, con.col)

\* The text s ends at the cursor, on the rows below the status bar.
Shows(con, s) ==
    /\ At(con) - Len(s) >= VGA_WIDTH
    /\ \A r \in Rows \ {0} : \A k \in Cols :
          At(con) - Pos(r, k) \in 1 .. Len(s) =>
              con.cells[r][k] = s[Len(s) + 1 - (At(con) - Pos(r, k))]

\* All that is behind the cursor is blank.
ClearBehind(con) ==
    \A r \in Rows \ {0} : \A k \in Cols :
        (r > con.row \/ (r = con.row /\ k >= con.col)) => con.cells[r][k] = Blank

\* A cursor below row 0 shows the empty text.
LEMMA ShowsNothing ==
    ASSUME NEW con \in Screens, con.row # 0
    PROVE  Shows(con, <<>>)
<1>1. con.row \in Nat /\ con.col \in Nat
  BY Sizes DEF Screens, Rows, Cols
<1>2. At(con) >= VGA_WIDTH /\ At(con) \in Nat
  BY <1>1, PosFacts DEF At
<1>3. Len(<<>>) = 0 /\ At(con) - 0 = At(con)
  BY <1>2
<1> QED BY <1>2, <1>3 DEF Shows

\* A glyph lengthens the text that is shown.
LEMMA GlyphShows ==
    ASSUME NEW con \in Screens, con.row # 0, NEW ch \in Glyphs, ch \notin {Newline, Backspace},
           NEW s \in Seq(Glyphs), Shows(con, s)
    PROVE  Shows(Written(con, ch), Append(s, ch)) /\ At(Written(con, ch)) = At(con) + 1
<1> DEFINE put == Written(con, ch)
           t == Append(s, ch)
<1>1. /\ con.row \in Nat /\ con.row # 0 /\ con.row \in Rows \ {0} /\ con.col \in Nat /\ con.col \in Cols
      /\ con.col < VGA_WIDTH /\ VGA_WIDTH \in Nat
  BY Sizes DEF Screens, Rows, Cols
<1>2. Started(con) = con
  BY DEF Started, Screens
<1>3. put = PutGlyph(con, ch)
  BY <1>2 DEF Written
<1> HIDE DEF put
<1>4. /\ put.cells = Put(con.cells, con.row, con.col, ch)
      /\ put.row = IF con.col + 1 >= VGA_WIDTH THEN con.row + 1 ELSE con.row
      /\ put.col = IF con.col + 1 >= VGA_WIDTH THEN 0 ELSE con.col + 1
  BY <1>3 DEF PutGlyph, Put
<1>5. At(put) = At(con) + 1 /\ At(con) \in Nat
  <2>1. CASE con.col + 1 >= VGA_WIDTH
    <3>1. con.col = VGA_WIDTH - 1 /\ put.row = con.row + 1 /\ put.col = 0
      BY <1>1, <1>4, <2>1
    <3> QED BY <1>1, <3>1, PosFacts DEF At
  <2>2. CASE ~(con.col + 1 >= VGA_WIDTH)
    <3>1. put.row = con.row /\ put.col = con.col + 1
      BY <1>4, <2>2
    <3> QED BY <1>1, <3>1, PosFacts DEF At
  <2> QED BY <2>1, <2>2
<1>6. \A r \in Rows : \A k \in Cols :
          put.cells[r][k] = IF r = con.row /\ k = con.col THEN ch ELSE con.cells[r][k]
  BY <1>1, <1>4, WriteCell
<1>7. Len(t) = Len(s) + 1 /\ Len(s) \in Nat /\ t[Len(s) + 1] = ch /\ \A i \in 1 .. Len(s) : t[i] = s[i]
  OBVIOUS
<1> HIDE DEF t
<1>8. ASSUME NEW r \in Rows \ {0}, NEW k \in Cols, At(put) - Pos(r, k) \in 1 .. Len(t)
      PROVE  put.cells[r][k] = t[Len(t) + 1 - (At(put) - Pos(r, k))]
  <2>1. Pos(r, k) \in Nat /\ r \in Nat /\ k \in Nat
    <3>1. r \in Nat /\ k \in Nat
      BY Sizes DEF Rows, Cols
    <3> QED BY <3>1, PosFacts
  <2>2. PICK n : n = At(put) - Pos(r, k)
    OBVIOUS
  <2>3. n \in 1 .. (Len(s) + 1) /\ n - 1 = At(con) - Pos(r, k)
    BY <1>5, <1>7, <1>8, <2>1, <2>2
  <2>4. CASE n = 1
    <3>1. Pos(r, k) = Pos(con.row, con.col)
      BY <1>5, <2>1, <2>3, <2>4 DEF At
    <3>2. r = con.row /\ k = con.col
      BY <1>1, <2>1, <3>1, PosInjective
    <3>3. Len(t) + 1 - n = Len(s) + 1
      BY <1>7, <2>4
    <3> QED BY <1>6, <1>7, <2>2, <3>2, <3>3
  <2>5. CASE n # 1
    <3>1. Pos(r, k) # Pos(con.row, con.col)
      BY <1>5, <2>1, <2>3, <2>5 DEF At
    <3>2. put.cells[r][k] = con.cells[r][k]
      BY <1>6, <3>1
    <3>3. n - 1 \in 1 .. Len(s)
      BY <1>7, <2>3, <2>5
    <3>4. con.cells[r][k] = s[Len(s) + 1 - (n - 1)]
      BY <2>3, <3>3 DEF Shows
    <3>5. Len(s) + 1 - (n - 1) = Len(t) + 1 - n /\ Len(s) + 1 - (n - 1) \in 1 .. Len(s)
      BY <1>7, <3>3, <2>3
    <3> QED BY <1>7, <2>2, <3>2, <3>4, <3>5
  <2> QED BY <2>4, <2>5
<1>9. At(put) - Len(t) >= VGA_WIDTH
  BY <1>5, <1>7 DEF Shows
<1> QED BY <1>5, <1>8, <1>9 DEF Shows, put, t

\* Scrolling moves the text with the cursor, if it leaves room for one row.
LEMMA ScrollShows ==
    ASSUME NEW con \in TallScreens, con.row = VGA_HEIGHT, con.col = 0,
           NEW s \in Seq(Glyphs), Shows(con, s), Len(s) <= Pos(VGA_HEIGHT - 2, 0)
    PROVE  Shows(vga_scroll(con), s)
<1> DEFINE up == vga_scroll(con)
<1>1. /\ up.row = VGA_HEIGHT - 1 /\ up.col = 0
      /\ up.cells = [r \in Rows |-> IF r = 0 THEN con.cells[0]
                                    ELSE IF r < VGA_HEIGHT - 1 THEN con.cells[r + 1]
                                    ELSE [k \in Cols |-> Blank]]
  BY DEF vga_scroll
<1> HIDE DEF up
<1>2. VGA_HEIGHT \in Nat /\ VGA_HEIGHT >= 3 /\ VGA_WIDTH \in Nat /\ VGA_WIDTH >= 1 /\ Len(s) \in Nat
  BY Sizes
<1>3. /\ At(con) = At(up) + VGA_WIDTH /\ At(up) = Pos(VGA_HEIGHT - 2, 0) + VGA_WIDTH
      /\ Pos(VGA_HEIGHT - 2, 0) \in Nat /\ At(up) \in Nat
  <2>1. VGA_HEIGHT - 1 \in Nat /\ VGA_HEIGHT - 2 \in Nat /\ (VGA_HEIGHT - 1) + 1 = VGA_HEIGHT
        /\ (VGA_HEIGHT - 2) + 1 = VGA_HEIGHT - 1 /\ 0 \in Nat
    BY <1>2
  <2>2. Pos(VGA_HEIGHT, 0) = Pos(VGA_HEIGHT - 1, 0) + VGA_WIDTH
    <3>1. Pos((VGA_HEIGHT - 1) + 1, 0) = Pos(VGA_HEIGHT - 1, 0) + VGA_WIDTH
      BY <2>1, PosFacts
    <3> QED BY <2>1, <3>1
  <2>3. Pos(VGA_HEIGHT - 1, 0) = Pos(VGA_HEIGHT - 2, 0) + VGA_WIDTH
    <3>1. Pos((VGA_HEIGHT - 2) + 1, 0) = Pos(VGA_HEIGHT - 2, 0) + VGA_WIDTH
      BY <2>1, PosFacts
    <3> QED BY <2>1, <3>1
  <2>4. Pos(VGA_HEIGHT - 2, 0) \in Nat /\ Pos(VGA_HEIGHT - 1, 0) \in Nat
    BY <2>1, PosFacts
  <2> QED BY <1>1, <2>2, <2>3, <2>4 DEF At
<1>4. At(up) - Len(s) >= VGA_WIDTH
  BY <1>2, <1>3
<1>5. ASSUME NEW r \in Rows \ {0}, NEW k \in Cols, At(up) - Pos(r, k) \in 1 .. Len(s)
      PROVE  up.cells[r][k] = s[Len(s) + 1 - (At(up) - Pos(r, k))]
  <2>1. r \in Nat /\ k \in Nat /\ r <= VGA_HEIGHT - 1
    BY <1>2 DEF Rows, Cols
  <2>2. Pos(r, k) \in Nat /\ Pos(r + 1, k) = Pos(r, k) + VGA_WIDTH
    BY <2>1, PosFacts
  <2>3. r # VGA_HEIGHT - 1
    <3> SUFFICES ASSUME r = VGA_HEIGHT - 1 PROVE FALSE
      OBVIOUS
    <3>1. Pos(r, k) < At(up)
      BY <1>2, <1>3, <1>5, <2>2
    <3>2. Pos(r, k) >= Pos(r, 0)
      BY <1>2, <2>1 DEF Pos
    <3> QED BY <1>1, <1>3, <2>2, <3>1, <3>2 DEF At
  <2>4. r + 1 \in Rows \ {0} /\ up.cells[r] = con.cells[r + 1]
    BY <1>1, <1>2, <2>1, <2>3 DEF Rows
  <2>5. At(con) - Pos(r + 1, k) = At(up) - Pos(r, k)
    BY <1>2, <1>3, <2>2
  <2>6. con.cells[r + 1][k] = s[Len(s) + 1 - (At(con) - Pos(r + 1, k))]
    BY <1>5, <2>4, <2>5 DEF Shows
  <2> QED BY <2>4, <2>5, <2>6
<1> QED BY <1>4, <1>5 DEF Shows, up

\* vga_putchar of a glyph, with the scroll at the end of the screen.
LEMMA PutcharShows ==
    ASSUME NEW con \in Screens, con.row # 0, NEW ch \in Glyphs, ch \notin {Newline, Backspace},
           NEW s \in Seq(Glyphs), Shows(con, s), Len(s) + 1 <= Pos(VGA_HEIGHT - 2, 0)
    PROVE  Shows(vga_putchar(con, ch), Append(s, ch))
<1> DEFINE w == Written(con, ch)
           t == Append(s, ch)
<1>1. Shows(w, t)
  BY GlyphShows
<1>2. w \in TallScreens /\ (w.row = VGA_HEIGHT => w.col = 0)
  <2>1. ch \in Characters
    BY DEF Characters
  <2> QED BY <2>1, WrittenIs
<1>3. t \in Seq(Glyphs) /\ Len(t) <= Pos(VGA_HEIGHT - 2, 0)
  OBVIOUS
<1>4. vga_putchar(con, ch) = IF w.row >= VGA_HEIGHT THEN vga_scroll(w) ELSE w
  BY PutcharIs
<1> HIDE DEF w, t
<1>5. CASE w.row >= VGA_HEIGHT
  <2>1. w.row = VGA_HEIGHT
    BY <1>2, <1>5, Sizes DEF TallScreens
  <2>2. Shows(vga_scroll(w), t)
    BY <1>1, <1>2, <1>3, <2>1, ScrollShows
  <2> QED BY <1>4, <1>5, <2>2 DEF t
<1>6. CASE ~(w.row >= VGA_HEIGHT)
  BY <1>1, <1>4, <1>6 DEF t
<1> QED BY <1>5, <1>6

\* '\b' takes the last character of the text that is shown, over the end of a
\* row too.
LEMMA BackspaceShows ==
    ASSUME NEW con \in Screens, con.row # 0, NEW s \in Seq(Glyphs), NEW ch \in Glyphs,
           Shows(con, Append(s, ch))
    PROVE  Shows(vga_putchar(con, Backspace), s)
<1> DEFINE back == vga_putchar(con, Backspace)
           t == Append(s, ch)
<1>1. /\ con.row \in Nat /\ con.row # 0 /\ con.row \in Rows \ {0} /\ con.col \in Nat /\ con.col \in Cols
      /\ con.row < VGA_HEIGHT /\ con.col < VGA_WIDTH /\ VGA_WIDTH \in Nat /\ VGA_HEIGHT \in Nat
  BY Sizes DEF Screens, Rows, Cols
<1>2. back = PutBackspace(con)
  <2>1. Started(con) = con
    BY DEF Started, Screens
  <2>2. Written(con, Backspace) = PutBackspace(con)
    BY <2>1 DEF Written, Newline, Backspace
  <2>3. PutBackspace(con).row \in Rows
    BY <1>1, BackStep
  <2>4. ~(PutBackspace(con).row >= VGA_HEIGHT)
    BY <2>3, Sizes DEF Rows
  <2> QED BY <2>2, <2>4, PutcharIs
<1> HIDE DEF back
<1>3. Len(t) = Len(s) + 1 /\ Len(s) \in Nat /\ \A i \in 1 .. Len(s) : t[i] = s[i]
  OBVIOUS
<1> HIDE DEF t
<1>4. At(con) \in Nat /\ At(con) - (Len(s) + 1) >= VGA_WIDTH
  <2>1. At(con) \in Nat
    BY <1>1, PosFacts DEF At
  <2> QED BY <1>3, <2>1 DEF Shows, t
<1>5. At(back) = At(con) - 1 /\ back.row \in Rows \ {0} /\ back.col \in Cols
      /\ back.cells = Put(con.cells, back.row, back.col, Blank)
  <2>1. /\ back.row \in Rows \ {0} /\ back.col \in Cols
        /\ back.cells = Put(con.cells, back.row, back.col, Blank)
    BY <1>1, <1>2, BackStep
  <2>2. CASE con.col > 0
    <3>1. back.row = con.row /\ back.col = con.col - 1
      BY <1>2, <2>2 DEF PutBackspace
    <3>2. con.col - 1 \in Nat /\ (con.col - 1) + 1 = con.col
      BY <1>1, <2>2
    <3>3. Pos(con.row, (con.col - 1) + 1) = Pos(con.row, con.col - 1) + 1 /\ Pos(con.row, con.col - 1) \in Nat
      BY <1>1, <3>2, PosFacts
    <3>4. Pos(con.row, con.col) = Pos(con.row, con.col - 1) + 1
      BY <3>2, <3>3
    <3> QED BY <1>4, <2>1, <3>1, <3>3, <3>4 DEF At
  <2>3. CASE con.col = 0
    <3>1. con.row > 1
      <4> SUFFICES ASSUME con.row = 1 PROVE FALSE
        BY <1>1
      <4>1. At(con) = VGA_WIDTH
        BY <1>1, <2>3 DEF At, Pos
      <4> QED BY <1>1, <1>3, <1>4, <4>1
    <3>2. back.row = con.row - 1 /\ back.col = VGA_WIDTH - 1
      BY <1>2, <2>3, <3>1 DEF PutBackspace
    <3>3. con.row - 1 \in Nat /\ (con.row - 1) + 1 = con.row /\ VGA_WIDTH - 1 \in Nat
      BY <1>1
    <3>4. Pos((con.row - 1) + 1, 0) = Pos(con.row - 1, VGA_WIDTH - 1) + 1
          /\ Pos(con.row - 1, VGA_WIDTH - 1) \in Nat
      BY <3>3, PosFacts
    <3>5. Pos(con.row, 0) = Pos(con.row - 1, VGA_WIDTH - 1) + 1
      BY <3>3, <3>4
    <3> QED BY <1>4, <2>1, <2>3, <3>2, <3>4, <3>5 DEF At
  <2> QED BY <1>1, <2>2, <2>3
<1>6. \A r \in Rows : \A k \in Cols :
          back.cells[r][k] = IF r = back.row /\ k = back.col THEN Blank ELSE con.cells[r][k]
  BY <1>5, WriteCell, NoBarPrinted
<1>7. ASSUME NEW r \in Rows \ {0}, NEW k \in Cols, At(back) - Pos(r, k) \in 1 .. Len(s)
      PROVE  back.cells[r][k] = s[Len(s) + 1 - (At(back) - Pos(r, k))]
  <2>1. Pos(r, k) \in Nat
    <3>1. r \in Nat /\ k \in Nat
      BY Sizes DEF Rows, Cols
    <3> QED BY <3>1, PosFacts
  <2>2. PICK n : n = At(back) - Pos(r, k)
    OBVIOUS
  <2>3. n \in 1 .. Len(s) /\ At(con) - Pos(r, k) = n + 1 /\ n + 1 \in 1 .. Len(t)
    BY <1>3, <1>4, <1>5, <1>7, <2>1, <2>2
  <2>4. Pos(r, k) # Pos(back.row, back.col)
    BY <1>3, <1>4, <1>5, <2>1, <2>2, <2>3 DEF At
  <2>5. back.cells[r][k] = con.cells[r][k]
    BY <1>6, <2>4
  <2>6. con.cells[r][k] = t[Len(t) + 1 - (n + 1)]
    BY <2>3 DEF Shows, t
  <2>7. Len(t) + 1 - (n + 1) = Len(s) + 1 - n /\ Len(s) + 1 - n \in 1 .. Len(s)
    BY <1>3, <2>3
  <2> QED BY <1>3, <2>2, <2>5, <2>6, <2>7
<1>8. At(back) - Len(s) >= VGA_WIDTH
  BY <1>1, <1>3, <1>4, <1>5
<1> QED BY <1>7, <1>8 DEF Shows, back

\* Whatever is printed, what is behind the cursor stays blank.
LEMMA PutcharClears ==
    ASSUME NEW con \in Screens, NEW ch \in Characters, ClearBehind(con)
    PROVE  ClearBehind(vga_putchar(con, ch))
<1> DEFINE w == Written(con, ch)
           start == Started(con)
<1>1. /\ start \in Screens /\ start.row # 0 /\ start.cells = con.cells /\ start.col = con.col
      /\ start.row = IF con.row = 0 THEN 1 ELSE con.row
  BY Sizes DEF Screens, Rows, Started
<1>2. VGA_WIDTH \in Nat /\ VGA_HEIGHT \in Nat /\ VGA_HEIGHT >= 3 /\ VGA_WIDTH >= 1
  BY Sizes
<1>3. con.row \in Nat /\ con.col \in 0 .. (VGA_WIDTH - 1)
  BY <1>2 DEF Screens, Rows, Cols
<1>4. ASSUME NEW r \in Rows \ {0}, NEW k \in Cols, r > start.row \/ (r = start.row /\ k >= start.col)
      PROVE  start.cells[r][k] = Blank
  <2>1. r \in Nat /\ k \in Nat
    BY <1>2 DEF Rows, Cols
  <2>2. r > con.row \/ (r = con.row /\ k >= con.col)
    BY <1>1, <1>3, <1>4, <2>1
  <2> QED BY <1>1, <2>2 DEF ClearBehind
<1>5. start.row \in Nat /\ start.col \in 0 .. (VGA_WIDTH - 1) /\ start.row \in Rows \ {0} /\ start.col \in Cols
  BY <1>1, <1>2 DEF Screens, Rows, Cols
<1>6. ClearBehind(w)
  <2>1. CASE ch = Newline
    <3>1. w = NextRow(start)
      BY <2>1 DEF Written, Newline, Backspace
    <3> HIDE DEF w, start
    <3>2. w.cells = start.cells /\ w.row = start.row + 1 /\ w.col = 0
      BY <1>1, <3>1 DEF Screens, NextRow
    <3> SUFFICES ASSUME NEW r \in Rows \ {0}, NEW k \in Cols, r > w.row \/ (r = w.row /\ k >= w.col)
                 PROVE  w.cells[r][k] = Blank
      BY DEF ClearBehind
    <3>3. r \in Nat
      BY <1>2 DEF Rows
    <3>4. r > start.row
      BY <1>5, <3>2, <3>3
    <3> QED BY <1>4, <3>2, <3>4
  <2>2. CASE ch = Backspace
    <3>1. w = PutBackspace(start)
      BY <2>2 DEF Written, Newline, Backspace
    <3> HIDE DEF w, start
    <3>2. w.row \in Rows \ {0} /\ w.col \in Cols /\ w.cells = Put(start.cells, w.row, w.col, Blank)
      BY <1>1, <3>1, BackStep
    <3>3. \A r \in Rows : \A k \in Cols :
              w.cells[r][k] = IF r = w.row /\ k = w.col THEN Blank ELSE start.cells[r][k]
      BY <1>1, <3>2, WriteCell, NoBarPrinted
    <3>4. \/ w.row = start.row /\ w.col = start.col - 1
          \/ w.row = start.row - 1 /\ w.col = VGA_WIDTH - 1 /\ start.col = 0
          \/ w.row = start.row /\ w.col = start.col
      BY <1>5, <3>1 DEF PutBackspace
    <3> SUFFICES ASSUME NEW r \in Rows \ {0}, NEW k \in Cols, r > w.row \/ (r = w.row /\ k >= w.col),
                        ~(r = w.row /\ k = w.col)
                 PROVE  start.cells[r][k] = Blank
      BY <3>3 DEF ClearBehind
    <3>5. r \in Nat /\ k \in 0 .. (VGA_WIDTH - 1)
      BY <1>2 DEF Rows, Cols
    <3>6. r > start.row \/ (r = start.row /\ k >= start.col)
      BY <1>2, <1>5, <3>4, <3>5
    <3> QED BY <1>4, <3>6
  <2>3. CASE ch \notin {Newline, Backspace}
    <3>1. w = PutGlyph(start, ch) /\ ch \in Glyphs
      BY <2>3 DEF Written, Characters
    <3> HIDE DEF w, start
    <3>2. /\ w.cells = Put(start.cells, start.row, start.col, ch)
          /\ w.row = IF start.col + 1 >= VGA_WIDTH THEN start.row + 1 ELSE start.row
          /\ w.col = IF start.col + 1 >= VGA_WIDTH THEN 0 ELSE start.col + 1
      BY <3>1 DEF PutGlyph, Put
    <3>3. \A r \in Rows : \A k \in Cols :
              w.cells[r][k] = IF r = start.row /\ k = start.col THEN ch ELSE start.cells[r][k]
      BY <1>1, <1>5, <3>1, <3>2, WriteCell
    <3> SUFFICES ASSUME NEW r \in Rows \ {0}, NEW k \in Cols, r > w.row \/ (r = w.row /\ k >= w.col)
                 PROVE  w.cells[r][k] = Blank
      BY DEF ClearBehind
    <3>4. r \in Nat /\ k \in 0 .. (VGA_WIDTH - 1)
      BY <1>2 DEF Rows, Cols
    <3>5. ~(r = start.row /\ k = start.col) /\ (r > start.row \/ (r = start.row /\ k >= start.col))
      BY <1>2, <1>5, <3>2, <3>4
    <3> QED BY <1>4, <3>3, <3>5
  <2> QED BY <2>1, <2>2, <2>3
<1>7. vga_putchar(con, ch) = IF w.row >= VGA_HEIGHT THEN vga_scroll(w) ELSE w
  BY PutcharIs
<1> HIDE DEF w
<1>8. CASE w.row >= VGA_HEIGHT
  <2> DEFINE up == vga_scroll(w)
  <2>1. /\ up.row = VGA_HEIGHT - 1
        /\ up.cells = [r \in Rows |-> IF r = 0 THEN w.cells[0]
                                      ELSE IF r < VGA_HEIGHT - 1 THEN w.cells[r + 1]
                                      ELSE [k \in Cols |-> Blank]]
    BY DEF vga_scroll
  <2> HIDE DEF up
  <2>2. ASSUME NEW r \in Rows \ {0}, NEW k \in Cols, r > up.row \/ (r = up.row /\ k >= up.col)
        PROVE  up.cells[r][k] = Blank
    <3>1. r = VGA_HEIGHT - 1 /\ r # 0
      BY <1>2, <2>1, <2>2 DEF Rows
    <3>2. up.cells[r] = [j \in Cols |-> Blank]
      BY <1>2, <2>1, <3>1
    <3> QED BY <3>2
  <2>3. ClearBehind(up)
    BY <2>2 DEF ClearBehind
  <2> QED BY <1>7, <1>8, <2>3 DEF up
<1>9. CASE ~(w.row >= VGA_HEIGHT)
  BY <1>6, <1>7, <1>9
<1> QED BY <1>8, <1>9

\* The prompt, and what commands and the boot print, are texts.
LEMMA TextFacts ==
    /\ \A text \in {Prompt, Boot} \cup Outputs : text \in Seq(Characters)
    /\ Prompt \in Seq(Glyphs)
    /\ \A i \in 1 .. Len(Prompt) : Prompt[i] \in Glyphs /\ Prompt[i] \notin {Newline, Backspace}
    /\ Len(Prompt) + MAX_LINE <= Pos(VGA_HEIGHT - 2, 0)
    /\ Typed \subseteq Glyphs \ {Newline, Backspace, Nul, Unset}
<1> DEFINE Texts == UNION {Range(t) : t \in {Prompt, Boot} \cup Outputs}
<1>1. Glyphs = Texts \cup Typed \cup {Blank, Unset}
  BY DEF Glyphs
<1>2. \A t \in {Prompt, Boot} \cup Outputs : t \in Seq(Range(t)) /\ Range(t) \subseteq Texts
  BY ConsoleAssumption
<1> HIDE DEF Texts
<1>3. ASSUME NEW t, t \in Seq(Range(t)), Range(t) \subseteq Texts PROVE t \in Seq(Glyphs)
  <2>1. Range(t) \subseteq Glyphs
    BY <1>1, <1>3
  <2> HIDE DEF Range
  <2> QED BY <1>3, <2>1
<1>4. \A t \in {Prompt, Boot} \cup Outputs : t \in Seq(Glyphs)
  BY <1>2, <1>3
<1>5. \A t \in Seq(Glyphs) : t \in Seq(Characters)
  BY DEF Characters
<1>6. ASSUME NEW i \in 1 .. Len(Prompt)
      PROVE  Prompt[i] \in Glyphs /\ Prompt[i] \notin {Newline, Backspace}
  <2>1. Prompt[i] \in Range(Prompt) /\ Prompt[i] \in Glyphs
    BY <1>4 DEF Range
  <2>2. Newline \notin Range(Prompt) /\ Range(Prompt) \cap (Special \ {Newline}) = {}
    BY ConsoleAssumption
  <2>3. Backspace \in Special \ {Newline}
    BY DEF Special, Backspace, Newline
  <2> QED BY <2>1, <2>2, <2>3
<1>7. Len(Prompt) + MAX_LINE <= Pos(VGA_HEIGHT - 2, 0)
  <2>1. VGA_WIDTH * (VGA_HEIGHT - 2) = (VGA_HEIGHT - 2) * VGA_WIDTH /\ (VGA_HEIGHT - 2) * VGA_WIDTH \in Int
    BY Sizes
  <2> QED BY <2>1, ConsoleAssumption DEF Pos
<1>8. Typed \subseteq Glyphs /\ Typed \cap {Newline, Backspace, Nul, Unset} = {}
  BY <1>1, ConsoleAssumption DEF Special
<1> QED BY <1>4, <1>5, <1>6, <1>7, <1>8

\* After any text and the prompt, the prompt stands before the cursor, and
\* nothing behind it.
LEMMA PromptShown ==
    ASSUME NEW con \in Screens, con.row # 0, ClearBehind(con), NEW text \in Seq(Characters)
    PROVE  /\ Shows(vga_print(con, text \o Prompt), Prompt)
           /\ ClearBehind(vga_print(con, text \o Prompt))
<1> DEFINE whole == text \o Prompt
           L == Len(text)
           M == Len(Prompt)
           N == L + M
<1>1. /\ whole \in Seq(Characters) /\ Len(whole) = N /\ L \in Nat /\ M \in Nat /\ N \in Nat
      /\ \A i \in 1 .. M : whole[L + i] = Prompt[i]
      /\ \A i \in 1 .. N : whole[i] \in Characters
  BY TextFacts
<1> HIDE DEF whole
<1>2. PICK f \in [0 .. N -> Screens] :
          /\ f[0] = con
          /\ \A n \in 1 .. N : f[n] = vga_putchar(f[n - 1], whole[n])
          /\ vga_print(con, whole) = f[N]
  <2> HIDE DEF N
  <2>1. \E g \in [0 .. Len(whole) -> Screens] :
               /\ g[0] = con
               /\ \A n \in 1 .. Len(whole) : g[n] = vga_putchar(g[n - 1], whole[n])
               /\ vga_print(con, whole) = g[Len(whole)]
    BY <1>1, PrintIs
  <2> QED BY <1>1, <2>1
<1> HIDE DEF L, M
<1>3. \A n \in 0 .. N : f[n].row # 0 /\ ClearBehind(f[n])
  <2> DEFINE Bad == {n \in 0 .. N : ~(f[n].row # 0 /\ ClearBehind(f[n]))}
  <2> SUFFICES ASSUME Bad # {} PROVE FALSE
    OBVIOUS
  <2>1. PICK k \in Bad : \A j \in Bad : k <= j
    <3>1. Bad \in SUBSET Nat
      BY <1>1
    <3> HIDE DEF Bad
    <3> QED BY <3>1, LeastNatural
  <2>2. k # 0
    BY <1>2
  <2>3. k \in 1 .. N /\ k - 1 \in 0 .. N /\ k - 1 \notin Bad
    BY <1>1, <2>1, <2>2
  <2>4. ClearBehind(f[k - 1]) /\ f[k - 1] \in Screens /\ f[k] = vga_putchar(f[k - 1], whole[k])
        /\ whole[k] \in Characters
    BY <1>1, <1>2, <2>3
  <2> QED BY <2>1, <2>4, PutcharKeeps, PutcharClears
<1> DEFINE part(n) == SubSeq(Prompt, 1, n)
<1>4. \A n \in 0 .. M : part(n) \in Seq(Glyphs) /\ Len(part(n)) = n
  BY TextFacts DEF M
<1>5. \A n \in 0 .. M : n # M => Append(part(n), Prompt[n + 1]) = part(n + 1)
  BY TextFacts DEF M
<1>6. part(0) = <<>> /\ part(M) = Prompt
  BY TextFacts DEF M
<1> HIDE DEF part
<1>7. \A n \in 0 .. M : Shows(f[L + n], part(n))
  <2> DEFINE Bad == {n \in 0 .. M : ~Shows(f[L + n], part(n))}
  <2> SUFFICES ASSUME Bad # {} PROVE FALSE
    OBVIOUS
  <2>1. PICK k \in Bad : \A j \in Bad : k <= j
    <3>1. Bad \in SUBSET Nat
      BY <1>1
    <3> HIDE DEF Bad
    <3> QED BY <3>1, LeastNatural
  <2>2. CASE k = 0
    <3>1. L + k \in 0 .. N
      BY <1>1, <2>2
    <3>2. f[L + k] \in Screens /\ f[L + k].row # 0
      BY <1>2, <1>3, <3>1
    <3>3. Shows(f[L + k], <<>>)
      BY <3>2, ShowsNothing
    <3> QED BY <1>6, <2>1, <2>2, <3>3
  <2>3. CASE k # 0
    <3> DEFINE n == k - 1
    <3>1. /\ n \in 0 .. M /\ n # M /\ n \notin Bad /\ n + 1 = k /\ n + 1 \in 1 .. M
          /\ L + n \in 0 .. N /\ L + k \in 1 .. N /\ (L + k) - 1 = L + n
      BY <1>1, <2>1, <2>3
    <3> HIDE DEF n
    <3>2. Shows(f[L + n], part(n)) /\ f[L + n] \in Screens /\ f[L + n].row # 0
      BY <1>2, <1>3, <3>1
    <3>3. f[L + k] = vga_putchar(f[L + n], Prompt[k])
      <4>1. f[L + k] = vga_putchar(f[(L + k) - 1], whole[L + k])
        BY <1>2, <3>1
      <4>2. whole[L + k] = Prompt[k]
        BY <1>1, <3>1
      <4> QED BY <3>1, <4>1, <4>2
    <3>4. Prompt[k] \in Glyphs /\ Prompt[k] \notin {Newline, Backspace}
      BY <3>1, TextFacts DEF M
    <3>5. Len(part(n)) + 1 <= Pos(VGA_HEIGHT - 2, 0)
      <4>1. Pos(VGA_HEIGHT - 2, 0) \in Nat
        <5>1. VGA_HEIGHT - 2 \in Nat
          BY Sizes
        <5> QED BY <5>1, PosFacts
      <4> QED BY <1>1, <1>4, <3>1, <4>1, TextFacts, Sizes DEF M
    <3>6. part(n) \in Seq(Glyphs) /\ Append(part(n), Prompt[k]) = part(k)
      BY <1>4, <1>5, <3>1
    <3>7. Shows(vga_putchar(f[L + n], Prompt[k]), Append(part(n), Prompt[k]))
      BY <3>2, <3>4, <3>5, <3>6, PutcharShows
    <3> QED BY <2>1, <3>3, <3>6, <3>7
  <2> QED BY <2>2, <2>3
<1>8. N \in 0 .. N /\ M \in 0 .. M
  BY <1>1
<1> QED BY <1>2, <1>3, <1>6, <1>7, <1>8 DEF whole

\* vga_draw_statusbar writes row 0 only.
LEMMA StatusbarIs ==
    ASSUME NEW con \in Screens, NEW drawn \in BOOLEAN, BarAt(con, drawn)
    PROVE  /\ vga_draw_statusbar(con) \in Screens
           /\ BarAt(vga_draw_statusbar(con), TRUE)
           /\ vga_draw_statusbar(con).row = con.row
           /\ ClearBehind(con) => ClearBehind(vga_draw_statusbar(con))
           /\ \A s : Shows(con, s) => Shows(vga_draw_statusbar(con), s)
<1> DEFINE new == vga_draw_statusbar(con)
           bar == [k \in Cols |-> Bar]
<1>1. bar \in [Cols -> Glyphs \cup {Bar}]
  OBVIOUS
<1>2. con.cells \in [Rows -> [Cols -> Glyphs \cup {Bar}]] /\ con.row \in Rows /\ con.col \in Cols /\ 0 \in Rows
  BY Sizes DEF Screens, Rows
<1> DEFINE cells == [con.cells EXCEPT ![0] = bar]
<1>3. new.cells = cells /\ new.row = con.row /\ new.col = con.col
  BY DEF vga_draw_statusbar, Screens
<1>4. new = [con EXCEPT !.cells = cells]
  BY DEF vga_draw_statusbar, Screens
<1> HIDE DEF new
<1>5. cells \in [Rows -> [Cols -> Glyphs \cup {Bar}]]
  BY <1>1, <1>2
<1>6. new \in Screens
  <2> HIDE DEF cells
  <2> QED BY <1>2, <1>4, <1>5 DEF Screens
<1>7. new.cells[0] = bar /\ \A r \in Rows \ {0} : new.cells[r] = con.cells[r]
  BY <1>2, <1>3
<1>8. BarAt(new, TRUE)
  BY <1>2, <1>7 DEF BarAt
<1>9. ClearBehind(con) => ClearBehind(new)
  BY <1>3, <1>7 DEF ClearBehind
<1>10. \A s : Shows(con, s) => Shows(new, s)
  BY <1>3, <1>7 DEF Shows, At
<1> QED BY <1>3, <1>6, <1>8, <1>9, <1>10 DEF new

\* vga_clear keeps row 0 and blanks the rest.
LEMMA ClearIs ==
    ASSUME NEW con \in Screens, NEW drawn \in BOOLEAN, BarAt(con, drawn)
    PROVE  /\ vga_clear(con) \in Screens
           /\ BarAt(vga_clear(con), drawn)
           /\ vga_clear(con).row # 0
           /\ ClearBehind(vga_clear(con))
<1> DEFINE new == vga_clear(con)
<1>1. con.cells \in [Rows -> [Cols -> Glyphs \cup {Bar}]] /\ 0 \in Rows /\ 1 \in Rows /\ 0 \in Cols
  BY Sizes DEF Screens, Rows, Cols
<1>2. /\ new = [cells |-> new.cells, row |-> 1, col |-> 0]
      /\ new.cells = [r \in Rows |-> IF r = 0 THEN con.cells[0] ELSE [k \in Cols |-> Blank]]
  BY DEF vga_clear
<1> HIDE DEF new
<1>3. /\ new.cells[0] = con.cells[0]
      /\ \A r \in Rows \ {0} : \A k \in Cols : new.cells[r][k] = Blank
  BY <1>1, <1>2
<1>4. new.cells \in [Rows -> [Cols -> Glyphs \cup {Bar}]]
  <2>1. Blank \in Glyphs
    BY NoBarPrinted
  <2> QED BY <1>1, <1>2, <2>1
<1>5. new \in Screens /\ new.row = 1
  BY <1>1, <1>2, <1>4 DEF Screens
<1>6. Blank # Bar
  BY DEF Blank, Bar
<1>7. BarAt(new, drawn)
  BY <1>1, <1>3, <1>6 DEF BarAt
<1>8. ClearBehind(new)
  BY <1>3 DEF ClearBehind
<1> QED BY <1>5, <1>7, <1>8 DEF new

\* What the screen is like when the shell waits for the first key of a line.
Prompted(con) ==
    /\ con \in Screens /\ con.row # 0
    /\ BarAt(con, TRUE)
    /\ ClearBehind(con)
    /\ Shows(con, Prompt)

\* Whatever is printed, with the prompt behind it.
LEMMA PromptedIs ==
    ASSUME NEW con \in Screens, con.row # 0, BarAt(con, TRUE), ClearBehind(con),
           NEW text \in Seq(Characters)
    PROVE  Prompted(vga_print(con, text \o Prompt))
<1>1. text \o Prompt \in Seq(Characters)
  BY TextFacts
<1>2. /\ vga_print(con, text \o Prompt) \in Screens
      /\ vga_print(con, text \o Prompt).row # 0
      /\ BarAt(vga_print(con, text \o Prompt), TRUE)
  BY <1>1, PrintKeeps
<1>3. Shows(vga_print(con, text \o Prompt), Prompt) /\ ClearBehind(vga_print(con, text \o Prompt))
  BY PromptShown
<1> QED BY <1>2, <1>3 DEF Prompted

\* The loop of cmd_echo, and the text that it prints.
EchoLoop(text, args) ==
    text = [n \in 1 .. Len(args) |->
               IF n = 1 THEN <<>>
               ELSE IF n = 2 THEN args[2] ELSE text[n - 1] \o <<Blank>> \o args[n]]
EchoText(args) == (CHOOSE text : EchoLoop(text, args))[Len(args)]

\* cmd_echo prints a text.
LEMMA EchoIs ==
    ASSUME NEW args \in Seq(Seq(Typed \cup {Unset})), args # <<>>
    PROVE  EchoText(args) \in Seq(Characters)
<1> DEFINE S == Seq(Characters)
           N == Len(args) - 1
           step == [n \in 1 .. N |-> [x \in S |->
                       IF n = 1 THEN args[2] ELSE x \o <<Blank>> \o args[n + 1]]]
<1>1. N \in Nat /\ Len(args) \in Nat /\ Len(args) = N + 1
  BY EmptySeq
<1>2. <<Blank>> \in S /\ <<>> \in S
  <2>1. Blank \in Characters
    BY NoBarPrinted DEF Characters
  <2> QED BY <2>1
<1>3. \A n \in 1 .. Len(args) : args[n] \in S
  <2>1. Typed \cup {Unset} \subseteq Characters
    BY NoBarPrinted, TextFacts DEF Characters
  <2>2. \A w \in Seq(Typed \cup {Unset}) : w \in S
    BY <2>1
  <2>3. \A n \in 1 .. Len(args) : args[n] \in Seq(Typed \cup {Unset})
    OBVIOUS
  <2> QED BY <2>2, <2>3
<1>4. ASSUME NEW x \in S, NEW n \in 1 .. Len(args) PROVE x \o <<Blank>> \o args[n] \in S
  BY <1>2, <1>3
<1>5. \A n \in 1 .. N : \A x \in S :
          /\ step[n][x] = IF n = 1 THEN args[2] ELSE x \o <<Blank>> \o args[n + 1]
          /\ step[n][x] \in S
  <2> TAKE n \in 1 .. N
  <2> TAKE x \in S
  <2>1. n + 1 \in 1 .. Len(args) /\ 2 \in 1 .. Len(args)
    BY <1>1
  <2>2. step[n][x] = IF n = 1 THEN args[2] ELSE x \o <<Blank>> \o args[n + 1]
    OBVIOUS
  <2> HIDE DEF step, S
  <2> QED BY <1>3, <1>4, <2>1, <2>2
<1> HIDE DEF step, S
<1>6. PICK f \in [0 .. N -> S] : f[0] = <<>> /\ \A n \in 1 .. N : f[n] = step[n][f[n - 1]]
  <2>1. PICK e \in S : e = <<>>
    BY <1>2
  <2>2. \A n \in 1 .. N : \A x \in S : step[n][x] \in S
    BY <1>5
  <2> HIDE DEF N
  <2>3. \E f \in [0 .. N -> S] :
            /\ f[0] = e
            /\ \A n \in 1 .. N : f[n] = step[n][f[n - 1]]
            /\ \A g : Solves(g, N, S, e, step) => g = f
    BY <1>1, <2>2, LoopIs
  <2> QED BY <2>1, <2>3
<1> DEFINE t == [n \in 1 .. Len(args) |-> f[n - 1]]
<1>7. EchoLoop(t, args)
  <2> DEFINE body(n) == IF n = 1 THEN <<>>
                        ELSE IF n = 2 THEN args[2] ELSE t[n - 1] \o <<Blank>> \o args[n]
  <2>1. ASSUME NEW n \in 1 .. Len(args) PROVE t[n] = body(n)
    <3>1. CASE n = 1
      BY <1>6, <3>1
    <3>2. CASE n # 1
      <4>1. n - 1 \in 1 .. N /\ (n - 1) - 1 \in 0 .. N /\ n - 1 \in 1 .. Len(args) /\ (n - 1) + 1 = n
        BY <1>1, <3>2
      <4>2. f[n - 1] = step[n - 1][f[(n - 1) - 1]] /\ f[(n - 1) - 1] \in S
        BY <1>6, <4>1
      <4>3. f[n - 1] = IF n - 1 = 1 THEN args[2] ELSE f[(n - 1) - 1] \o <<Blank>> \o args[(n - 1) + 1]
        BY <1>5, <4>1, <4>2
      <4>4. t[n] = f[n - 1] /\ t[n - 1] = f[(n - 1) - 1]
        BY <4>1
      <4>5. n - 1 = 1 <=> n = 2
        BY <1>1
      <4> HIDE DEF t
      <4> QED BY <3>2, <4>1, <4>3, <4>4, <4>5
    <3> QED BY <3>1, <3>2
  <2>2. t = [n \in 1 .. Len(args) |-> t[n]]
    OBVIOUS
  <2>3. [n \in 1 .. Len(args) |-> t[n]] = [n \in 1 .. Len(args) |-> body(n)]
    <3> HIDE DEF t, body
    <3> QED BY <2>1
  <2>4. t = [n \in 1 .. Len(args) |-> body(n)]
    <3> HIDE DEF t, body
    <3> QED BY <2>2, <2>3
  <2> HIDE DEF t
  <2> QED BY <2>4 DEF EchoLoop
<1> DEFINE u == CHOOSE text : EchoLoop(text, args)
<1>8. EchoLoop(u, args)
  <2> HIDE DEF t
  <2> QED BY <1>7
<1>9. EchoText(args) = u[Len(args)]
  BY DEF EchoText
<1> HIDE DEF u
<1>10. \A n \in 1 .. Len(args) :
           u[n] = IF n = 1 THEN <<>>
                  ELSE IF n = 2 THEN args[2] ELSE u[n - 1] \o <<Blank>> \o args[n]
  BY <1>8 DEF EchoLoop
<1> DEFINE Bad == {n \in 1 .. Len(args) : u[n] \notin S}
<1>11. Bad = {}
  <2> SUFFICES ASSUME Bad # {} PROVE FALSE
    OBVIOUS
  <2>1. PICK k \in Bad : \A j \in Bad : k <= j
    <3>1. Bad \in SUBSET Nat
      BY <1>1
    <3> HIDE DEF Bad
    <3> QED BY <3>1, LeastNatural
  <2>2. k \in 1 .. Len(args) /\ u[k] \notin S
    BY <2>1
  <2>3. k # 1 => k - 1 \in 1 .. Len(args) /\ k - 1 \notin Bad
    BY <1>1, <2>1, <2>2
  <2>4. k # 1 => u[k - 1] \in S /\ args[k] \in S
    BY <1>3, <2>2, <2>3
  <2>5. k # 1 => u[k - 1] \o <<Blank>> \o args[k] \in S
    BY <1>4, <2>2, <2>4
  <2> QED BY <1>2, <1>3, <1>10, <2>2, <2>4, <2>5
<1>12. Len(args) \in 1 .. Len(args)
  BY <1>1
<1> QED BY <1>9, <1>11, <1>12 DEF S

-----------------------------------------------------------------------------
(***************************************************************************)
(* The inductive invariant: what the screen shows while a line is edited   *)
(* follows from what it showed at the prompt, and the words of a command   *)
(* from a line that has only typed characters up to pos.                   *)
(***************************************************************************)
ScreenInv ==
    /\ BarAt(vga, shell # "boot")
    /\ shell # "boot" => vga.row # 0 /\ ClearBehind(vga)
    /\ shell = "edit" => Shows(vga, Prompt \o TextOf(line, pos))

LineInv ==
    /\ \A i \in 0 .. (pos - 1) : line[i] \in Typed
    /\ shell # "edit" => pos = 0
    /\ shell = "dispatch" => argv # <<>> /\ AreWords(argv, entered)

ConsoleInv == TypeOK /\ ScreenInv /\ LineInv

\* An empty line shows the prompt only.
LEMMA NothingTyped ==
    ASSUME NEW buf
    PROVE  Prompt \o TextOf(buf, 0) = Prompt
<1>1. TextOf(buf, 0) = <<>>
  <2>1. 1 .. 0 = {}
    OBVIOUS
  <2> QED BY <2>1 DEF TextOf
<1>2. Prompt \in Seq(Glyphs)
  BY TextFacts
<1> QED BY <1>1, <1>2

\* The characters typed so far are a text that fits behind the prompt.
LEMMA TypedText ==
    ASSUME NEW buf, NEW n \in Nat, \A i \in 0 .. (n - 1) : buf[i] \in Typed
    PROVE  /\ TextOf(buf, n) \in Seq(Typed) /\ Len(TextOf(buf, n)) = n
           /\ Prompt \o TextOf(buf, n) \in Seq(Glyphs)
           /\ Len(Prompt \o TextOf(buf, n)) = Len(Prompt) + n
           /\ \A i \in 1 .. Len(Prompt) : (Prompt \o TextOf(buf, n))[i] = Prompt[i]
           /\ \A i \in 1 .. n : (Prompt \o TextOf(buf, n))[Len(Prompt) + i] = buf[i - 1]
<1> DEFINE t == TextOf(buf, n)
<1>1. \A i \in 1 .. n : i - 1 \in 0 .. (n - 1)
  OBVIOUS
<1>2. t \in Seq(Typed) /\ Len(t) = n /\ \A i \in 1 .. n : t[i] = buf[i - 1]
  BY <1>1 DEF TextOf
<1> HIDE DEF t
<1>3. Prompt \in Seq(Glyphs) /\ Typed \subseteq Glyphs
  BY TextFacts
<1>4. t \in Seq(Glyphs)
  BY <1>2, <1>3
<1> QED BY <1>2, <1>3, <1>4 DEF t

\* One more character.
LEMMA OneMore ==
    ASSUME NEW buf, NEW new, NEW n \in Nat,
           \A i \in 0 .. (n - 1) : buf[i] \in Typed /\ new[i] = buf[i],
           new[n] \in Typed
    PROVE  Prompt \o TextOf(new, n + 1) = Append(Prompt \o TextOf(buf, n), new[n])
<1> DEFINE s == Prompt \o TextOf(buf, n)
           t == Prompt \o TextOf(new, n + 1)
           L == Len(Prompt)
<1>1. \A i \in 0 .. ((n + 1) - 1) : new[i] \in Typed
  <2> TAKE i \in 0 .. ((n + 1) - 1)
  <2>1. i \in 0 .. (n - 1) \/ i = n
    OBVIOUS
  <2> QED BY <2>1
<1>2. L \in Nat
  BY TextFacts
<1>3. /\ s \in Seq(Glyphs) /\ Len(s) = L + n
      /\ \A i \in 1 .. L : s[i] = Prompt[i]
      /\ \A i \in 1 .. n : s[L + i] = buf[i - 1]
  BY TypedText
<1>4. /\ t \in Seq(Glyphs) /\ Len(t) = L + (n + 1)
      /\ \A i \in 1 .. L : t[i] = Prompt[i]
      /\ \A i \in 1 .. (n + 1) : t[L + i] = new[i - 1]
  <2>1. n + 1 \in Nat
    OBVIOUS
  <2> QED BY <1>1, <2>1, TypedText
<1> HIDE DEF s, t, L
<1>5. Append(s, new[n]) \in Seq(Glyphs)
  <2>1. new[n] \in Glyphs
    BY TextFacts
  <2> QED BY <1>3, <2>1
<1>6. /\ Len(Append(s, new[n])) = L + (n + 1)
      /\ \A i \in 1 .. (L + n) : Append(s, new[n])[i] = s[i]
      /\ Append(s, new[n])[L + n + 1] = new[n]
  BY <1>2, <1>3
<1>7. ASSUME NEW i \in 1 .. (L + (n + 1)) PROVE t[i] = Append(s, new[n])[i]
  <2>1. CASE i \in 1 .. L
    <3>1. i \in 1 .. (L + n)
      BY <1>2, <2>1
    <3> QED BY <1>3, <1>4, <1>6, <2>1, <3>1
  <2>2. CASE i \in (L + 1) .. (L + n)
    <3>1. /\ i - L \in 1 .. n /\ i - L \in 1 .. (n + 1) /\ L + (i - L) = i
          /\ i - L - 1 \in 0 .. (n - 1) /\ i \in 1 .. (L + n)
      BY <1>2, <2>2
    <3>2. t[i] = new[i - L - 1]
      BY <1>4, <3>1
    <3>3. s[i] = buf[i - L - 1]
      BY <1>3, <3>1
    <3> QED BY <1>6, <3>1, <3>2, <3>3
  <2>3. CASE i = L + (n + 1)
    <3>1. i = L + n + 1 /\ n + 1 \in 1 .. (n + 1) /\ (n + 1) - 1 = n
      BY <1>2, <2>3
    <3>2. t[i] = new[n]
      BY <1>4, <2>3, <3>1
    <3> QED BY <1>6, <3>1, <3>2
  <2>4. i \in 1 .. L \/ i \in (L + 1) .. (L + n) \/ i = L + (n + 1)
    BY <1>2
  <2> QED BY <2>1, <2>2, <2>3, <2>4
<1>8. t = Append(s, new[n])
  <2> DEFINE u == Append(s, new[n])
  <2> HIDE DEF u
  <2> QED BY <1>2, <1>4, <1>5, <1>6, <1>7, SeqEqual DEF u
<1> QED BY <1>8 DEF s, t

\* The shell is back at the prompt, with an empty line.
LEMMA AtPrompt ==
    ASSUME Prompted(vga'), shell' = "edit", pos' = 0
    PROVE  ScreenInv' /\ vga' \in Screens
<1>1. Prompt \o TextOf(line', 0) = Prompt
  BY NothingTyped
<1>2. Shows(vga', Prompt \o TextOf(line', pos'))
  BY <1>1 DEF Prompted
<1>3. (shell' # "boot") = TRUE
  OBVIOUS
<1>4. BarAt(vga', shell' # "boot")
  BY <1>3 DEF Prompted
<1> QED BY <1>2, <1>4 DEF Prompted, ScreenInv

\* vga_init leaves a blank screen.
LEMMA InitConsole == Init => ConsoleInv
<1> SUFFICES ASSUME Init PROVE ConsoleInv
  OBVIOUS
<1>1. 0 \in Rows /\ 0 \in Cols /\ 0 \in Indices /\ Blank \in Glyphs
  BY Sizes, NoBarPrinted DEF Rows, Cols, Indices
<1>2. vga \in [cells : [Rows -> [Cols -> Glyphs \cup {Bar}]], row : Rows, col : Cols]
  BY <1>1 DEF Init
<1>3. TypeOK
  BY <1>1, <1>2 DEF Init, TypeOK
<1>4. (shell # "boot") = FALSE
  BY DEF Init
<1>5. BarAt(vga, shell # "boot")
  <2>1. \A r \in Rows : \A k \in Cols : vga.cells[r][k] = Blank
    BY DEF Init
  <2> QED BY <2>1, <1>4 DEF BarAt, Blank, Bar
<1>6. ScreenInv
  BY <1>5 DEF Init, ScreenInv
<1>7. LineInv
  BY DEF Init, LineInv
<1> QED BY <1>3, <1>6, <1>7 DEF ConsoleInv

\* kernel_main: whatever the boot prints and wherever, it ends at the prompt.
LEMMA BootStep ==
    ASSUME ConsoleInv, kernel_main
    PROVE  ConsoleInv'
<1>1. vga \in Screens /\ BarAt(vga, FALSE)
  <2>1. (shell # "boot") = FALSE
    BY DEF kernel_main
  <2> QED BY <2>1 DEF ConsoleInv, TypeOK, ScreenInv, Screens
<1>2. Boot \in Seq(Characters)
  BY TextFacts
<1>3. Prompted(vga')
  <2>1. PICK r \in Rows \ {0}, k \in Cols :
            vga' = vga_print(vga_draw_statusbar(vga_clear(vga_print(vga_set_cursor(vga, r, k), Boot))),
                             Boot \o Prompt)
    BY DEF kernel_main
  <2> DEFINE a == vga_set_cursor(vga, r, k)
             b == vga_print(a, Boot)
             c == vga_clear(b)
             d == vga_draw_statusbar(c)
  <2>2. a \in Screens /\ BarAt(a, FALSE)
    <3>1. a = [vga EXCEPT !.row = r, !.col = k]
      BY DEF vga_set_cursor
    <3> HIDE DEF a
    <3>2. a \in Screens /\ a.cells = vga.cells
      BY <1>1, <3>1 DEF Screens
    <3> QED BY <1>1, <3>2 DEF BarAt
  <2> HIDE DEF a
  <2>3. b \in Screens /\ BarAt(b, FALSE)
    BY <1>2, <2>2, PrintKeeps
  <2> HIDE DEF b
  <2>4. c \in Screens /\ BarAt(c, FALSE) /\ c.row # 0 /\ ClearBehind(c)
    BY <2>3, ClearIs
  <2> HIDE DEF c
  <2>5. d \in Screens /\ BarAt(d, TRUE) /\ d.row # 0 /\ ClearBehind(d)
    BY <2>4, StatusbarIs
  <2> HIDE DEF d
  <2>6. vga' = vga_print(d, Boot \o Prompt)
    BY <2>1 DEF a, b, c, d
  <2> QED BY <1>2, <2>5, <2>6, PromptedIs
<1>4. pos' = 0 /\ pos = 0 /\ shell' = "edit" /\ UNCHANGED <<line, pos, argv, entered>>
  BY DEF kernel_main, ConsoleInv, LineInv
<1>5. ScreenInv' /\ vga' \in Screens
  BY <1>3, <1>4, AtPrompt
<1>6. TypeOK'
  BY <1>4, <1>5 DEF ConsoleInv, TypeOK, Screens
<1>7. LineInv'
  BY <1>4 DEF ConsoleInv, LineInv
<1> QED BY <1>5, <1>6, <1>7 DEF ConsoleInv

\* The refreshed status bar does not disturb the line.
LEMMA RefreshStep ==
    ASSUME ConsoleInv, Refresh
    PROVE  ConsoleInv'
<1>1. (shell # "boot") = TRUE /\ (shell' # "boot") = TRUE
  BY DEF Refresh
<1>2. vga \in Screens /\ BarAt(vga, TRUE) /\ vga.row # 0 /\ ClearBehind(vga)
      /\ Shows(vga, Prompt \o TextOf(line, pos)) /\ shell = "edit"
  BY <1>1 DEF ConsoleInv, TypeOK, ScreenInv, Screens, Refresh
<1>3. vga' = vga_draw_statusbar(vga) /\ UNCHANGED <<line, pos, argv, entered, shell>>
  BY DEF Refresh
<1>4. vga' \in Screens /\ BarAt(vga', TRUE) /\ vga'.row # 0 /\ ClearBehind(vga')
      /\ Shows(vga', Prompt \o TextOf(line, pos))
  BY <1>2, <1>3, StatusbarIs
<1>5. TypeOK' /\ LineInv'
  BY <1>3, <1>4 DEF ConsoleInv, TypeOK, LineInv, Screens
<1>6. ScreenInv'
  BY <1>1, <1>3, <1>4 DEF ScreenInv
<1> QED BY <1>5, <1>6 DEF ConsoleInv

\* A character that is typed is in line[] and on the screen.
LEMMA TypeCharStep ==
    ASSUME ConsoleInv, NEW ch \in Typed, TypeChar(ch)
    PROVE  ConsoleInv'
<1>1. (shell # "boot") = TRUE /\ (shell' # "boot") = TRUE /\ shell = "edit"
      /\ UNCHANGED <<argv, entered, shell>>
  BY DEF TypeChar
<1>2. vga \in Screens /\ BarAt(vga, TRUE) /\ vga.row # 0 /\ ClearBehind(vga)
      /\ Shows(vga, Prompt \o TextOf(line, pos))
  BY <1>1 DEF ConsoleInv, TypeOK, ScreenInv, Screens
<1>3. pos \in Indices /\ pos \in Nat /\ line \in [Indices -> Typed \cup {Nul, Unset}]
      /\ \A i \in 0 .. (pos - 1) : line[i] \in Typed
  BY Sizes DEF ConsoleInv, TypeOK, LineInv, Indices
<1>4. CASE pos < MAX_LINE - 1
  <2>1. line' = [line EXCEPT ![pos] = ch] /\ pos' = pos + 1 /\ vga' = vga_putchar(vga, ch)
    BY <1>4 DEF TypeChar
  <2>2. ch \in Glyphs /\ ch \in Characters /\ ch \notin {Newline, Backspace}
    BY TextFacts DEF Characters
  <2>3. vga' \in Screens /\ BarAt(vga', TRUE) /\ vga'.row # 0 /\ ClearBehind(vga')
    BY <1>2, <2>1, <2>2, PutcharKeeps, PutcharClears
  <2>4. pos' \in Indices /\ line' \in [Indices -> Typed \cup {Nul, Unset}]
        /\ line'[pos] = ch /\ \A i \in 0 .. (pos - 1) : line'[i] = line[i]
    BY <1>3, <1>4, <2>1, Sizes DEF Indices
  <2>5. \A i \in 0 .. (pos' - 1) : line'[i] \in Typed
    <3> TAKE i \in 0 .. (pos' - 1)
    <3>1. i \in 0 .. (pos - 1) \/ i = pos
      BY <1>3, <2>1
    <3> QED BY <1>3, <2>4, <3>1
  <2> DEFINE s == Prompt \o TextOf(line, pos)
  <2>6. s \in Seq(Glyphs) /\ Len(s) = Len(Prompt) + pos
    BY <1>3, TypedText
  <2>7. Prompt \o TextOf(line', pos + 1) = Append(s, ch)
    BY <1>3, <2>4, OneMore
  <2> HIDE DEF s
  <2>8. Len(s) + 1 <= Pos(VGA_HEIGHT - 2, 0)
    <3>1. Pos(VGA_HEIGHT - 2, 0) \in Nat /\ Len(Prompt) \in Nat
      <4>1. VGA_HEIGHT - 2 \in Nat
        BY Sizes
      <4>2. Pos(VGA_HEIGHT - 2, 0) \in Nat
        BY <4>1, PosFacts
      <4>3. Len(Prompt) \in Nat
        BY TextFacts
      <4> QED BY <4>2, <4>3
    <3> QED BY <1>3, <1>4, <2>6, <3>1, TextFacts, Sizes
  <2>9. Shows(vga', Append(s, ch))
    <3>1. Shows(vga, s)
      BY <1>2 DEF s
    <3> QED BY <1>2, <2>1, <2>2, <2>6, <2>8, <3>1, PutcharShows
  <2>10. Shows(vga', Prompt \o TextOf(line', pos'))
    BY <2>1, <2>7, <2>9
  <2>11. ScreenInv'
    BY <1>1, <2>3, <2>10 DEF ScreenInv
  <2>12. TypeOK' /\ LineInv'
    BY <1>1, <2>3, <2>4, <2>5 DEF ConsoleInv, TypeOK, LineInv, Screens
  <2> QED BY <2>11, <2>12 DEF ConsoleInv
<1>5. CASE ~(pos < MAX_LINE - 1)
  <2>1. UNCHANGED vars
    BY <1>1, <1>5 DEF TypeChar
  <2> QED BY <2>1 DEF ConsoleInv, TypeOK, ScreenInv, LineInv
<1> QED BY <1>4, <1>5

\* '\b' takes the last character of the line off the screen.
LEMMA TypeBackspaceStep ==
    ASSUME ConsoleInv, TypeBackspace
    PROVE  ConsoleInv'
<1>1. (shell # "boot") = TRUE /\ (shell' # "boot") = TRUE /\ shell = "edit"
      /\ UNCHANGED <<line, argv, entered, shell>>
  BY DEF TypeBackspace
<1>2. vga \in Screens /\ BarAt(vga, TRUE) /\ vga.row # 0 /\ ClearBehind(vga)
      /\ Shows(vga, Prompt \o TextOf(line, pos))
  BY <1>1 DEF ConsoleInv, TypeOK, ScreenInv, Screens
<1>3. pos \in Indices /\ pos \in Nat /\ \A i \in 0 .. (pos - 1) : line[i] \in Typed
  BY Sizes DEF ConsoleInv, TypeOK, LineInv, Indices
<1>4. CASE pos > 0
  <2> DEFINE n == pos - 1
             s == Prompt \o TextOf(line, n)
  <2>1. pos' = n /\ vga' = vga_putchar(vga, Backspace)
    BY <1>4 DEF TypeBackspace
  <2>2. n \in Nat /\ n + 1 = pos /\ n \in Indices /\ n \in 0 .. (pos - 1)
        /\ \A i \in 0 .. (n - 1) : i \in 0 .. (pos - 1)
    BY <1>3, <1>4, Sizes DEF Indices
  <2> HIDE DEF n
  <2>3. Backspace \in Characters
    BY DEF Characters
  <2>4. vga' \in Screens /\ BarAt(vga', TRUE) /\ vga'.row # 0 /\ ClearBehind(vga')
    BY <1>2, <2>1, <2>3, PutcharKeeps, PutcharClears
  <2>5. \A i \in 0 .. (n - 1) : line[i] \in Typed
    BY <1>3, <2>2
  <2>6. s \in Seq(Glyphs)
    BY <2>2, <2>5, TypedText
  <2>7. Prompt \o TextOf(line, n + 1) = Append(s, line[n])
    <3>1. line[n] \in Typed
      BY <1>3, <2>2
    <3> QED BY <2>2, <2>5, <3>1, OneMore
  <2>8. line[n] \in Glyphs
    BY <1>3, <2>2, TextFacts
  <2> HIDE DEF s
  <2>9. Shows(vga', s)
    <3>1. Shows(vga, Append(s, line[n]))
      BY <1>2, <2>2, <2>7
    <3> QED BY <1>2, <2>1, <2>6, <2>8, <3>1, BackspaceShows
  <2>10. Shows(vga', Prompt \o TextOf(line', pos'))
    BY <1>1, <2>1, <2>9 DEF s
  <2>11. ScreenInv'
    BY <1>1, <2>4, <2>10 DEF ScreenInv
  <2>12. TypeOK' /\ LineInv'
    BY <1>1, <2>1, <2>2, <2>4, <2>5 DEF ConsoleInv, TypeOK, LineInv, Screens
  <2> QED BY <2>11, <2>12 DEF ConsoleInv
<1>5. CASE ~(pos > 0)
  <2>1. UNCHANGED vars
    BY <1>1, <1>5 DEF TypeBackspace
  <2> QED BY <2>1 DEF ConsoleInv, TypeOK, ScreenInv, LineInv
<1> QED BY <1>4, <1>5

\* '\n': the line is parsed, and dispatched if there is a word in it.
LEMMA TypeNewlineStep ==
    ASSUME ConsoleInv, TypeNewline
    PROVE  ConsoleInv'
<1>1. (shell # "boot") = TRUE /\ shell = "edit" /\ pos' = 0
  BY DEF TypeNewline
<1>2. vga \in Screens /\ BarAt(vga, TRUE) /\ vga.row # 0 /\ ClearBehind(vga)
  BY <1>1 DEF ConsoleInv, TypeOK, ScreenInv, Screens
<1>3. pos \in Indices /\ pos \in Nat /\ line \in [Indices -> Typed \cup {Nul, Unset}]
      /\ (\A i \in 0 .. (pos - 1) : line[i] \in Typed) /\ 0 \in Indices /\ entered \in Seq(Typed)
  BY Sizes DEF ConsoleInv, TypeOK, LineInv, Indices
<1> DEFINE buf == Terminate
<1>4. buf \in [Indices -> Typed \cup {Nul, Unset}] /\ buf[pos] = Nul
      /\ \A i \in 0 .. (pos - 1) : buf[i] = line[i]
  BY <1>3, Sizes DEF Terminate, Indices
<1>5. IsLine(buf, pos)
  BY <1>3, <1>4 DEF IsLine
<1>6. TextOf(buf, pos) = [i \in 1 .. pos |-> line[i - 1]]
  <2>1. \A i \in 1 .. pos : i - 1 \in 0 .. (pos - 1)
    BY <1>3
  <2> HIDE DEF buf
  <2> QED BY <1>4, <2>1 DEF TextOf
<1>7. TextOf(line, pos) = [i \in 1 .. pos |-> line[i - 1]]
  BY DEF TextOf
<1>8. TextOf(line, pos) \in Seq(Typed)
  BY <1>3, TypedText
<1>9. line' \in [Indices -> Typed \cup {Nul, Unset}]
      /\ argv' \in Seq(Seq(Typed)) /\ (argv' # <<>> => AreWords(argv', TextOf(buf, pos)))
  <2>1. CASE pos > 0
    <3>1. shell_parse(buf)
      BY <2>1 DEF TypeNewline
    <3> HIDE DEF buf
    <3>2. argv' = [j \in DOMAIN Spans(buf) |-> Arg(buf, Spans(buf)[j])]
      BY <3>1 DEF shell_parse, Arg
    <3>3. argv' \in Seq(Seq(Typed)) /\ AreWords(argv', TextOf(buf, pos))
      BY <1>5, <3>2, ParseIs
    <3>4. line' = [i \in Indices |-> IF \E j \in DOMAIN Spans(buf) : Spans(buf)[j][2] = i THEN Nul
                                     ELSE buf[i]]
      BY <3>1 DEF shell_parse
    <3>5. line' \in [Indices -> Typed \cup {Nul, Unset}]
      BY <1>4, <3>4
    <3> QED BY <3>3, <3>5
  <2>2. CASE ~(pos > 0)
    <3>1. line' = buf /\ argv' = <<>>
      BY <2>2 DEF TypeNewline
    <3> HIDE DEF buf
    <3> QED BY <1>4, <3>1
  <2> QED BY <2>1, <2>2
<1> HIDE DEF buf
<1>10. argv' \in Seq(Seq(Typed \cup {Unset}))
  <2>1. \A w \in Seq(Typed) : w \in Seq(Typed \cup {Unset})
    OBVIOUS
  <2> QED BY <1>9, <2>1
<1>11. <<Newline>> \in Seq(Characters) /\ Newline \in Characters
  <2>1. Newline \in Characters
    BY DEF Characters
  <2> QED BY <2>1
<1>12. CASE argv' = <<>>
  <2>1. vga' = vga_print(vga, <<Newline>> \o Prompt) /\ UNCHANGED <<entered, shell>>
    BY <1>12 DEF TypeNewline
  <2>2. Prompted(vga')
    BY <1>2, <1>11, <2>1, PromptedIs
  <2>3. ScreenInv' /\ vga' \in Screens
    BY <1>1, <2>1, <2>2, AtPrompt
  <2>4. TypeOK'
    BY <1>1, <1>3, <1>9, <1>10, <2>1, <2>3 DEF TypeOK, Screens
  <2>5. LineInv'
    BY <1>1, <2>1 DEF LineInv
  <2> QED BY <2>3, <2>4, <2>5 DEF ConsoleInv
<1>13. CASE argv' # <<>>
  <2>1. vga' = vga_putchar(vga, Newline) /\ shell' = "dispatch"
        /\ entered' = [i \in 1 .. pos |-> line[i - 1]]
    BY <1>13 DEF TypeNewline
  <2>2. vga' \in Screens /\ BarAt(vga', TRUE) /\ vga'.row # 0 /\ ClearBehind(vga')
    BY <1>2, <1>11, <2>1, PutcharKeeps, PutcharClears
  <2>3. (shell' # "boot") = TRUE
    BY <2>1
  <2>4. ScreenInv'
    BY <2>1, <2>2, <2>3 DEF ScreenInv
  <2>5. entered' \in Seq(Typed) /\ entered' = TextOf(buf, pos)
    BY <1>6, <1>7, <1>8, <2>1
  <2>6. TypeOK'
    BY <1>1, <1>3, <1>9, <1>10, <2>1, <2>2, <2>5 DEF TypeOK, Screens
  <2>7. LineInv'
    <3>1. AreWords(argv', entered')
      BY <1>9, <1>13, <2>5
    <3>2. \A i \in 0 .. (pos' - 1) : line'[i] \in Typed
      BY <1>1
    <3> QED BY <1>1, <1>13, <2>1, <3>1, <3>2 DEF LineInv
  <2> QED BY <2>4, <2>6, <2>7 DEF ConsoleInv
<1> QED BY <1>12, <1>13

\* Whatever a command prints, the shell is back at the prompt.
LEMMA DispatchStep ==
    ASSUME ConsoleInv, shell_dispatch
    PROVE  ConsoleInv'
<1>1. (shell # "boot") = TRUE /\ shell = "dispatch" /\ shell' = "edit" /\ argv' = <<>>
      /\ entered' = <<>> /\ UNCHANGED <<line, pos>>
  BY DEF shell_dispatch
<1>2. vga \in Screens /\ BarAt(vga, TRUE) /\ vga.row # 0 /\ ClearBehind(vga)
  BY <1>1 DEF ConsoleInv, TypeOK, ScreenInv, Screens
<1>3. pos = 0 /\ argv # <<>> /\ argv \in Seq(Seq(Typed \cup {Unset}))
  BY <1>1 DEF ConsoleInv, TypeOK, LineInv
<1>4. Prompted(vga')
  <2>1. CASE cmd_echo
    <3>1. vga' = vga_print(vga, EchoText(argv) \o <<Newline>> \o Prompt)
      BY <2>1 DEF cmd_echo, EchoText, EchoLoop
    <3>2. EchoText(argv) \in Seq(Characters) /\ <<Newline>> \in Seq(Characters)
      <4>1. Newline \in Characters
        BY DEF Characters
      <4>2. <<Newline>> \in Seq(Characters)
        BY <4>1
      <4> QED BY <1>3, <4>2, EchoIs
    <3>3. EchoText(argv) \o <<Newline>> \in Seq(Characters)
      BY <3>2
    <3> QED BY <1>2, <3>1, <3>3, PromptedIs
  <2>2. CASE cmd_clear
    <3> DEFINE c == vga_clear(vga)
               d == vga_draw_statusbar(c)
    <3>1. c \in Screens /\ BarAt(c, TRUE) /\ c.row # 0 /\ ClearBehind(c)
      BY <1>2, ClearIs
    <3> HIDE DEF c
    <3>2. d \in Screens /\ BarAt(d, TRUE) /\ d.row # 0 /\ ClearBehind(d)
      BY <3>1, StatusbarIs
    <3> HIDE DEF d
    <3>3. vga' = vga_print(d, Prompt)
      BY <2>2 DEF cmd_clear, c, d
    <3>4. <<>> \o Prompt = Prompt /\ <<>> \in Seq(Characters)
      BY TextFacts
    <3>5. Prompted(vga_print(d, <<>> \o Prompt))
      BY <3>2, <3>4, PromptedIs
    <3> QED BY <3>3, <3>4, <3>5
  <2>3. CASE cmd_other
    <3>1. PICK text \in Outputs : vga' = vga_print(vga, text \o Prompt)
      BY <2>3 DEF cmd_other
    <3>2. text \in Seq(Characters)
      BY TextFacts
    <3> QED BY <1>2, <3>1, <3>2, PromptedIs
  <2> QED BY <2>1, <2>2, <2>3 DEF shell_dispatch
<1>5. ScreenInv' /\ vga' \in Screens
  BY <1>1, <1>3, <1>4, AtPrompt
<1>6. TypeOK' /\ LineInv'
  BY <1>1, <1>3, <1>5 DEF ConsoleInv, TypeOK, LineInv, Screens
<1> QED BY <1>5, <1>6 DEF ConsoleInv

\* The invariant is inductive.
LEMMA ConsoleInductive == Spec => []ConsoleInv
<1>1. Init => ConsoleInv
  BY InitConsole
<1>2. ConsoleInv /\ [Next]_vars => ConsoleInv'
  <2> SUFFICES ASSUME ConsoleInv, [Next]_vars PROVE ConsoleInv'
    OBVIOUS
  <2>1. CASE kernel_main
    BY <2>1, BootStep
  <2>2. CASE Refresh
    BY <2>2, RefreshStep
  <2>3. CASE \E ch \in Typed : TypeChar(ch)
    BY <2>3, TypeCharStep
  <2>4. CASE TypeBackspace
    BY <2>4, TypeBackspaceStep
  <2>5. CASE TypeNewline
    BY <2>5, TypeNewlineStep
  <2>6. CASE shell_dispatch
    BY <2>6, DispatchStep
  <2>7. CASE UNCHANGED vars
    BY <2>7 DEF ConsoleInv, TypeOK, ScreenInv, LineInv
  <2> QED BY <2>1, <2>2, <2>3, <2>4, <2>5, <2>6, <2>7 DEF Next
<1> QED BY <1>1, <1>2, PTL DEF Spec

\* Whatever is printed and typed, the cursor of src/vga.c stays on the screen,
\* pos stays inside line[], and the arguments hold only what was typed.
THEOREM ConsoleTypeOK == Spec => []TypeOK
<1>1. ConsoleInv => TypeOK
  BY DEF ConsoleInv
<1> QED BY <1>1, ConsoleInductive, PTL

\* Row 0 is the status bar and nothing else is, through printing, scrolling,
\* clearing and backspaces, on a screen of every size.
THEOREM BarStays == Spec => []StatusBarKept
<1>1. ConsoleInv => StatusBarKept
  BY DEF ConsoleInv, ScreenInv, BarAt, StatusBarKept
<1> QED BY <1>1, ConsoleInductive, PTL

\* shell_dispatch gets the first MAX_ARGS words of the line that was typed,
\* whole and in order, for every MAX_LINE and MAX_ARGS.
THEOREM ArgumentsAreWords == Spec => []ArgsAreWords
<1>1. ConsoleInv => ArgsAreWords
  <2> SUFFICES ASSUME ConsoleInv, shell = "dispatch" PROVE AreWords(argv, entered)
    BY DEF ArgsAreWords, AreWords, WordStarts, Starts
  <2> QED BY DEF ConsoleInv, LineInv
<1> QED BY <1>1, ConsoleInductive, PTL

\* While a line is edited the screen shows it, behind its prompt, and nothing
\* behind the cursor: over the ends of rows, backspaces and scrolling, for
\* every screen on which a line and its prompt fit.
THEOREM LineIsShown == Spec => []ScreenShowsLine
<1>1. ConsoleInv => ScreenShowsLine
  <2> SUFFICES ASSUME ConsoleInv, shell = "edit"
      PROVE  /\ \A n \in 1 .. pos : CellBefore(n) = line[pos - n]
             /\ \A n \in 1 .. Len(Prompt) : CellBefore(pos + n) = Prompt[Len(Prompt) + 1 - n]
             /\ ClearBehind(vga)
    BY DEF ScreenShowsLine, ClearBehind
  <2> DEFINE s == Prompt \o TextOf(line, pos)
             L == Len(Prompt)
  <2>1. vga \in Screens /\ ClearBehind(vga) /\ Shows(vga, s) /\ vga.row # 0
    BY DEF ConsoleInv, ScreenInv, TypeOK, Screens
  <2>2. pos \in Nat /\ \A i \in 0 .. (pos - 1) : line[i] \in Typed
    BY Sizes DEF ConsoleInv, TypeOK, LineInv, Indices
  <2>3. L \in Nat
    BY TextFacts
  <2>4. /\ s \in Seq(Glyphs) /\ Len(s) = L + pos
        /\ \A i \in 1 .. L : s[i] = Prompt[i]
        /\ \A i \in 1 .. pos : s[L + i] = line[i - 1]
    BY <2>2, TypedText
  <2> HIDE DEF s, L
  <2>5. vga.row \in Rows /\ vga.col \in Cols /\ vga.row \in Nat /\ vga.col \in Nat /\ vga.row < VGA_HEIGHT
    BY <2>1, Sizes DEF Screens, Rows, Cols
  <2>6. At(vga) \in Nat /\ At(vga) < Pos(VGA_HEIGHT, 0) /\ Pos(VGA_HEIGHT, 0) \in Nat
    <3>1. 0 \in Cols /\ VGA_HEIGHT \in Nat
      BY Sizes DEF Cols
    <3> QED BY <2>5, <3>1, PosInjective, PosFacts DEF At
  <2>7. ASSUME NEW n \in 1 .. (L + pos) PROVE CellBefore(n) = s[L + pos + 1 - n]
    <3> DEFINE x == At(vga) - n
               r == x \div VGA_WIDTH
               k == x % VGA_WIDTH
    <3>1. At(vga) - (L + pos) >= VGA_WIDTH
      BY <2>1, <2>4 DEF Shows
    <3>2. x \in Nat /\ x >= VGA_WIDTH /\ x < Pos(VGA_HEIGHT, 0) /\ At(vga) - x = n
      BY <2>2, <2>3, <2>6, <2>7, <3>1, Sizes
    <3>3. CellBefore(n) = vga.cells[r][k]
      <4>1. vga.row * VGA_WIDTH \in Nat
        BY <2>5, Sizes
      <4>2. vga.row * VGA_WIDTH + vga.col - n = x
        BY <2>2, <2>3, <2>5, <2>7, <4>1 DEF At, Pos
      <4> HIDE DEF x
      <4> QED BY <4>2 DEF CellBefore
    <3> HIDE DEF x
    <3>4. r \in Rows \ {0} /\ k \in Cols /\ Pos(r, k) = x
      BY <3>2, PosOf
    <3> HIDE DEF r, k
    <3>5. At(vga) - Pos(r, k) \in 1 .. Len(s)
      BY <2>4, <3>2, <3>4
    <3>6. vga.cells[r][k] = s[Len(s) + 1 - (At(vga) - Pos(r, k))]
      BY <2>1, <3>4, <3>5 DEF Shows
    <3> QED BY <2>4, <3>2, <3>3, <3>4, <3>6
  <2>8. ASSUME NEW n \in 1 .. pos PROVE CellBefore(n) = line[pos - n]
    <3>1. n \in 1 .. (L + pos) /\ pos + 1 - n \in 1 .. pos
          /\ L + pos + 1 - n = L + (pos + 1 - n) /\ (pos + 1 - n) - 1 = pos - n
      BY <2>2, <2>3
    <3> QED BY <2>4, <2>7, <3>1
  <2>9. ASSUME NEW n \in 1 .. L PROVE CellBefore(pos + n) = Prompt[L + 1 - n]
    <3>1. pos + n \in 1 .. (L + pos) /\ L + 1 - n \in 1 .. L
          /\ L + pos + 1 - (pos + n) = L + 1 - n
      BY <2>2, <2>3
    <3> QED BY <2>4, <2>7, <3>1
  <2> QED BY <2>1, <2>8, <2>9 DEF L
<1> QED BY <1>1, ConsoleInductive, PTL
-----------------------------------------------------------------------------
(***************************************************************************)
(* Numbers.  sh_itoa and the loop of cmd_killprocess as recursive          *)
(* functions; what they compute follows from the least number for which it *)
(* would be wrong, since n / 10 is smaller and was right.                  *)
(***************************************************************************)
\* What is left of a number without its last digit, and the digit.
LEMMA TenFacts ==
    ASSUME NEW k \in Nat
    PROVE  /\ k \div 10 \in Nat /\ k % 10 \in 0 .. 9
           /\ k = 10 * (k \div 10) + (k % 10)
           /\ k # 0 => k \div 10 < k
  OBVIOUS

\* The digits, the lowest first, of the numbers up to N.
Digits(d, N) ==
    d = [k \in 0 .. N |-> IF k = 0 THEN <<>> ELSE <<k % 10>> \o d[k \div 10]]

\* The loop "while (n)" of sh_itoa ends, whatever the number.
LEMMA DigitsExist ==
    ASSUME NEW N \in Nat
    PROVE  \E d : Digits(d, N)
<1> DEFINE Bad == {k \in Nat : ~ \E d : Digits(d, k)}
<1> SUFFICES ASSUME N \in Bad PROVE FALSE
  OBVIOUS
<1>1. PICK k \in Bad : \A j \in Bad : k <= j
  <2>1. Bad \in SUBSET Nat /\ Bad # {}
    OBVIOUS
  <2> HIDE DEF Bad
  <2> QED BY <2>1, LeastNatural
<1>2. CASE k = 0
  <2> DEFINE w == [i \in 0 .. 0 |-> <<>>]
  <2>1. Digits(w, 0)
    BY DEF Digits
  <2> QED BY <1>2, <2>1
<1>3. CASE k # 0
  <2>1. k - 1 \in Nat /\ k - 1 \notin Bad
    BY <1>1, <1>3
  <2>2. PICK w : Digits(w, k - 1)
    BY <2>1
  <2> DEFINE v == [i \in 0 .. k |-> IF i = k THEN <<k % 10>> \o w[k \div 10] ELSE w[i]]
  <2>3. \A i \in 0 .. (k - 1) : v[i] = w[i]
    BY <2>1
  <2>4. \A i \in 0 .. k : v[i] = IF i = 0 THEN <<>> ELSE <<i % 10>> \o v[i \div 10]
    <3> TAKE i \in 0 .. k
    <3>0. i # 0 => i \div 10 \in 0 .. (k - 1)
      BY TenFacts
    <3>1. CASE i = k
      BY <1>3, <2>1, <2>3, <3>0, <3>1
    <3>2. CASE i # k
      <4>1. i \in 0 .. (k - 1)
        BY <3>2
      <4>2. w[i] = IF i = 0 THEN <<>> ELSE <<i % 10>> \o w[i \div 10]
        BY <2>2, <4>1 DEF Digits
      <4>3. i # 0 => v[i \div 10] = w[i \div 10]
        BY <2>3, <3>0
      <4> QED BY <2>3, <4>1, <4>2, <4>3
    <3> QED BY <3>1, <3>2
  <2>5. Digits(v, k)
    BY <2>4 DEF Digits
  <2> QED BY <2>5
<1> QED BY <1>2, <1>3

\* The digits of the numbers up to N, one by one.
AllDigits(d, N) ==
    /\ d[0] = <<>>
    /\ \A k \in 1 .. N : d[k] = <<k % 10>> \o d[k \div 10]

\* The digits that LowDigits returns.
LEMMA LowDigitsIs ==
    ASSUME NEW n \in Nat
    PROVE  \E d : LowDigits(n) = d[n] /\ AllDigits(d, n)
<1> DEFINE d == CHOOSE f : f = [k \in 0 .. n |-> IF k = 0 THEN <<>> ELSE <<k % 10>> \o f[k \div 10]]
<1>1. \E f : f = [k \in 0 .. n |-> IF k = 0 THEN <<>> ELSE <<k % 10>> \o f[k \div 10]]
  BY DigitsExist DEF Digits
<1>2. d = [k \in 0 .. n |-> IF k = 0 THEN <<>> ELSE <<k % 10>> \o d[k \div 10]]
  BY <1>1
<1>3. LowDigits(n) = d[n]
  BY DEF LowDigits
<1> HIDE DEF d
<1>4. \A k \in 0 .. n : d[k] = IF k = 0 THEN <<>> ELSE <<k % 10>> \o d[k \div 10]
  BY <1>2
<1>5. d[0] = <<>>
  <2>1. 0 \in 0 .. n
    OBVIOUS
  <2> QED BY <1>4, <2>1, Zenon
<1>6. \A k \in 1 .. n : d[k] = <<k % 10>> \o d[k \div 10]
  <2> TAKE k \in 1 .. n
  <2>1. k \in 0 .. n /\ k # 0
    OBVIOUS
  <2> QED BY <1>4, <2>1, Zenon
<1>7. AllDigits(d, n)
  BY <1>5, <1>6 DEF AllDigits
<1> QED BY <1>3, <1>7


\* There is one remainder.
LEMMA OneRemainder ==
    ASSUME NEW w \in Nat, NEW p \in Nat, NEW q \in Nat,
           NEW r \in 0 .. (w - 1), NEW s \in 0 .. (w - 1), w * p + r = w * q + s
    PROVE  r = s
<1>0. ASSUME NEW a \in Nat, NEW b \in Nat, a < b PROVE w * a + w <= w * b
  <2>1. PICK c \in Nat : b = a + 1 + c
    <3>1. b - a - 1 \in Nat /\ b = a + 1 + (b - a - 1)
      BY <1>0
    <3> QED BY <3>1
  <2>2. w * b = w * a + w + w * c
    BY <2>1
  <2>3. w * c \in Nat /\ w * a \in Nat /\ w * b \in Nat
    OBVIOUS
  <2> QED BY <2>2, <2>3
<1>1. w * p \in Nat /\ w * q \in Nat
  OBVIOUS
<1>2. ~(p < q)
  <2>1. p < q => w * p + w <= w * q
    BY <1>0
  <2> QED BY <2>1, <1>1
<1>3. ~(q < p)
  <2>1. q < p => w * q + w <= w * p
    BY <1>0
  <2> QED BY <2>1, <1>1
<1>4. p = q
  BY <1>2, <1>3
<1> QED BY <1>1, <1>4

\* Division with a remainder.
LEMMA DivMod ==
    ASSUME NEW w \in Nat, w # 0, NEW x \in Nat
    PROVE  /\ x \div w \in Nat /\ x % w \in 0 .. (w - 1)
           /\ x = w * (x \div w) + (x % w)
  OBVIOUS

\* The remainder of a number with one more digit depends only on the digit
\* and the remainder of the others.
LEMMA ModStep ==
    ASSUME NEW w \in Nat, w # 0, NEW a \in Nat, NEW b \in Nat
    PROVE  ((a % w) * 10 + b) % w = (a * 10 + b) % w
<1>1. PICK q, r : /\ q \in Nat /\ r \in 0 .. (w - 1)
                  /\ a = w * q + r /\ r = a % w
  BY DivMod
<1> DEFINE x == r * 10 + b
           y == a * 10 + b
<1>2. x \in Nat /\ y \in Nat
  BY <1>1
<1>3. y = w * (q * 10) + x
  <2>1. w * (q * 10) = (w * q) * 10
    BY <1>1
  <2>2. w * q \in Nat
    BY <1>1
  <2> QED BY <1>1, <2>1, <2>2
<1>x. x = r * 10 + b /\ y = a * 10 + b
  OBVIOUS
<1> HIDE DEF x, y
<1>4. PICK qx, rx : /\ qx \in Nat /\ rx \in 0 .. (w - 1)
                    /\ x = w * qx + rx /\ rx = x % w
  BY <1>2, DivMod
<1>5. PICK qy, ry : /\ qy \in Nat /\ ry \in 0 .. (w - 1)
                    /\ y = w * qy + ry /\ ry = y % w
  BY <1>2, DivMod
<1>6. PICK t : t = q * 10 + qx
  OBVIOUS
<1>7. t \in Nat /\ w * t + rx = w * qy + ry
  <2>1. t \in Nat
    BY <1>1, <1>4, <1>6
  <2>2. w * t = w * (q * 10) + w * qx
    BY <1>1, <1>4, <1>6
  <2>3. w * (q * 10) \in Nat /\ w * qx \in Nat
    BY <1>1, <1>4
  <2> QED BY <1>3, <1>4, <1>5, <2>1, <2>2, <2>3
<1>8. rx = ry
  BY <1>4, <1>5, <1>7, OneRemainder
<1> QED BY <1>1, <1>4, <1>5, <1>8, <1>x

\* One round of "while (n)": the last digit is put in front of the others.
LEMMA OneDigit ==
    ASSUME NEW d, NEW N \in Nat, AllDigits(d, N), NEW k \in 1 .. N,
           d[k \div 10] \in Seq(0 .. 9)
    PROVE  /\ d[k] \in Seq(0 .. 9) /\ Len(d[k]) = Len(d[k \div 10]) + 1
           /\ d[k][1] = k % 10
           /\ \A i \in 1 .. Len(d[k \div 10]) : d[k][i + 1] = d[k \div 10][i]
<1>1. PICK u \in Seq(0 .. 9) : u = d[k \div 10]
  OBVIOUS
<1>2. k % 10 \in 0 .. 9
  BY TenFacts
<1>3. PICK t \in Seq(0 .. 9) : t = <<k % 10>>
  <2>1. PICK c \in 0 .. 9 : c = k % 10
    BY <1>2
  <2>2. <<c>> \in Seq(0 .. 9)
    OBVIOUS
  <2> QED BY <2>1, <2>2
<1>4. Len(t) = 1 /\ t[1] = k % 10
  BY <1>3
<1>5. d[k] = t \o u
  BY <1>1, <1>3 DEF AllDigits
<1>6. /\ t \o u \in Seq(0 .. 9) /\ Len(t \o u) = Len(t) + Len(u)
      /\ \A i \in 1 .. (Len(t) + Len(u)) :
            (t \o u)[i] = IF i <= Len(t) THEN t[i] ELSE u[i - Len(t)]
  BY ConcatProperties
<1>7. Len(u) \in Nat
  OBVIOUS
<1>8. /\ (t \o u)[1] = k % 10
      /\ \A i \in 1 .. Len(u) : (t \o u)[i + 1] = u[i]
  BY <1>4, <1>6, <1>7
<1> QED BY <1>1, <1>4, <1>5, <1>6, <1>7, <1>8

\* Every number is written with decimal digits.
LEMMA DigitsAreDigits ==
    ASSUME NEW d, NEW N \in Nat, AllDigits(d, N), NEW k \in 0 .. N
    PROVE  d[k] \in Seq(0 .. 9)
<1> DEFINE Bad == {j \in 0 .. N : d[j] \notin Seq(0 .. 9)}
<1> SUFFICES ASSUME Bad # {} PROVE FALSE
  OBVIOUS
<1>1. PICK j \in Bad : \A i \in Bad : j <= i
  <2>1. Bad \in SUBSET Nat
    OBVIOUS
  <2> HIDE DEF Bad
  <2> QED BY <2>1, LeastNatural
<1>2. d[0] \in Seq(0 .. 9)
  BY DEF AllDigits
<1>3. j \in 1 .. N
  BY <1>2
<1>4. j \div 10 \in 0 .. N /\ j \div 10 < j
  BY <1>3, TenFacts
<1>5. j \div 10 \notin Bad
  BY <1>1, <1>4
<1>6. d[j \div 10] \in Seq(0 .. 9)
  BY <1>4, <1>5
<1> QED BY <1>3, <1>6, OneDigit

\* Every round of the loop finds one digit of those that are left.
LEMMA NextDigit ==
    ASSUME NEW d, NEW N \in Nat, AllDigits(d, N), NEW k \in 1 .. N
    PROVE  /\ k \div 10 \in 0 .. N /\ k \div 10 < k
           /\ d[k] \in Seq(0 .. 9) /\ d[k \div 10] \in Seq(0 .. 9)
           /\ Len(d[k]) = Len(d[k \div 10]) + 1
           /\ d[k][1] = k % 10
           /\ \A i \in 1 .. Len(d[k \div 10]) : d[k][i + 1] = d[k \div 10][i]
<1>1. k \div 10 \in 0 .. N /\ k \div 10 < k
  BY TenFacts
<1>2. d[k \div 10] \in Seq(0 .. 9)
  BY <1>1, DigitsAreDigits
<1> QED BY <1>1, <1>2, OneDigit

\* The text begins with the digits of low, the highest first.
BeginsWith(text, low) ==
    /\ Len(low) <= Len(text)
    /\ \A i \in 1 .. Len(low) : text[i] = low[Len(low) - i + 1]

\* target after each of the first m characters of the text.
Reads(t, text, m, wrap) ==
    /\ t[0] = 0
    /\ \A i \in 1 .. m : t[i] = (t[i - 1] * 10 + text[i]) % wrap

\* After the digits of a number, target is that number.
LEMMA ReadBack ==
    ASSUME NEW d, NEW N \in Nat, AllDigits(d, N), NEW wrap \in Nat, wrap # 0
    PROVE  \A k \in 0 .. N : \A t, text :
               BeginsWith(text, d[k]) /\ Reads(t, text, Len(d[k]), wrap) => t[Len(d[k])] = k % wrap
<1> DEFINE Right(k) == \A t, text :
               BeginsWith(text, d[k]) /\ Reads(t, text, Len(d[k]), wrap) => t[Len(d[k])] = k % wrap
           Bad == {j \in 0 .. N : ~Right(j)}
<1> SUFFICES ASSUME Bad # {} PROVE FALSE
  OBVIOUS
<1>1. PICK j \in Bad : \A i \in Bad : j <= i
  <2>1. Bad \in SUBSET Nat
    OBVIOUS
  <2> HIDE DEF Bad
  <2> QED BY <2>1, LeastNatural
<1>2. Right(0)
  <2> SUFFICES ASSUME NEW t, NEW text, Reads(t, text, Len(d[0]), wrap)
               PROVE  t[Len(d[0])] = 0 % wrap
    OBVIOUS
  <2>1. Len(d[0]) = 0
    BY DEF AllDigits
  <2>2. 0 % wrap = 0
    <3>1. PICK q, r : q \in Nat /\ r \in 0 .. (wrap - 1) /\ 0 = wrap * q + r /\ r = 0 % wrap
      BY DivMod
    <3>2. wrap * q \in Nat
      BY <3>1
    <3> QED BY <3>1, <3>2
  <2> QED BY <2>1, <2>2 DEF Reads
<1>3. j \in 0 .. N /\ ~Right(j)
  OBVIOUS
<1>4. j \in 1 .. N
  BY <1>2, <1>3
<1> DEFINE h == j \div 10
<1>5. /\ h \in 0 .. N /\ h < j /\ d[j] \in Seq(0 .. 9) /\ d[h] \in Seq(0 .. 9)
      /\ Len(d[j]) = Len(d[h]) + 1 /\ d[j][1] = j % 10
      /\ \A i \in 1 .. Len(d[h]) : d[j][i + 1] = d[h][i]
  BY <1>4, NextDigit
<1>6. j = 10 * h + (j % 10) /\ j % 10 \in 0 .. 9
  BY <1>4, TenFacts
<1> HIDE DEF h
<1>7. h \in Bad => j <= h
  BY <1>1
<1>8. Right(h)
  <2>1. h \notin Bad
    <3> HIDE DEF Bad
    <3> QED BY <1>3, <1>5, <1>7
  <2> QED BY <1>5, <2>1
<1> HIDE DEF Bad
<1>9. Right(j)
  <2> SUFFICES ASSUME NEW t, NEW text, BeginsWith(text, d[j]), Reads(t, text, Len(d[j]), wrap)
               PROVE  t[Len(d[j])] = j % wrap
    OBVIOUS
  <2>1. PICK L \in Nat : L = Len(d[h])
    BY <1>5
  <2>a. Len(d[j]) = L + 1
    BY <1>5, <2>1
  <2>b. \A i \in 1 .. (L + 1) : text[i] = d[j][(L + 1) - i + 1]
    BY <2>a, Zenon DEF BeginsWith
  <2>c. \A i \in 1 .. (L + 1) : t[i] = (t[i - 1] * 10 + text[i]) % wrap
    BY <2>a, Zenon DEF Reads
  <2>d. t[0] = 0
    BY DEF Reads
  <2>2. BeginsWith(text, d[h])
    <3>1. Len(d[h]) <= Len(text)
      BY <1>5, <2>1 DEF BeginsWith
    <3>2. ASSUME NEW i \in 1 .. L PROVE text[i] = d[h][L - i + 1]
      <4>1. text[i] = d[j][(L + 1) - i + 1]
        BY <2>b
      <4>2. L - i + 1 \in 1 .. L /\ (L + 1) - i + 1 = (L - i + 1) + 1
        BY <2>1
      <4>3. d[j][(L - i + 1) + 1] = d[h][L - i + 1]
        BY <1>5, <2>1, <4>2
      <4> QED BY <4>1, <4>2, <4>3
    <3> QED BY <2>1, <3>1, <3>2 DEF BeginsWith
  <2>3. Reads(t, text, Len(d[h]), wrap)
    <3>1. \A i \in 1 .. L : t[i] = (t[i - 1] * 10 + text[i]) % wrap
      BY <2>c
    <3> QED BY <2>1, <2>d, <3>1 DEF Reads
  <2>4. t[L] = h % wrap
    BY <1>8, <2>1, <2>2, <2>3
  <2>5. t[L + 1] = (t[L] * 10 + text[L + 1]) % wrap
    <3>1. L + 1 \in 1 .. (L + 1) /\ (L + 1) - 1 = L
      BY <2>1
    <3> QED BY <2>c, <3>1
  <2>6. text[L + 1] = j % 10
    <3>1. L + 1 \in 1 .. (L + 1) /\ (L + 1) - (L + 1) + 1 = 1
      BY <2>1
    <3> QED BY <1>5, <2>b, <3>1
  <2>7. PICK b \in Nat : b = j % 10
    BY <1>6
  <2>8. ((h % wrap) * 10 + b) % wrap = (h * 10 + b) % wrap
    <3>1. h \in Nat /\ b \in Nat
      BY <1>5
    <3> QED BY <3>1, ModStep
  <2>9. h * 10 + b = j
    BY <1>5, <1>6, <2>7
  <2> QED BY <1>5, <2>1, <2>4, <2>5, <2>6, <2>7, <2>8, <2>9
<1> QED BY <1>3, <1>9

\* target, after every character of the text.
Targets(t, text, m, wrap) ==
    t = [i \in 0 .. m |-> IF i = 0 THEN 0 ELSE (t[i - 1] * 10 + text[i]) % wrap]

\* The loop of cmd_killprocess gets to every character of its argument.
LEMMA TargetsExist ==
    ASSUME NEW text, NEW m \in Nat, NEW wrap
    PROVE  \E t : Targets(t, text, m, wrap)
<1> DEFINE Bad == {k \in Nat : ~ \E t : Targets(t, text, k, wrap)}
<1> SUFFICES ASSUME m \in Bad PROVE FALSE
  OBVIOUS
<1>1. PICK k \in Bad : \A j \in Bad : k <= j
  <2>1. Bad \in SUBSET Nat /\ Bad # {}
    OBVIOUS
  <2> HIDE DEF Bad
  <2> QED BY <2>1, LeastNatural
<1>2. CASE k = 0
  <2> DEFINE w == [i \in 0 .. 0 |-> 0]
  <2>1. Targets(w, text, 0, wrap)
    BY DEF Targets
  <2> QED BY <1>2, <2>1
<1>3. CASE k # 0
  <2>1. k - 1 \in Nat /\ k - 1 \notin Bad
    BY <1>1, <1>3
  <2>2. PICK w : Targets(w, text, k - 1, wrap)
    BY <2>1
  <2> DEFINE v == [i \in 0 .. k |-> IF i = k THEN (w[k - 1] * 10 + text[k]) % wrap ELSE w[i]]
  <2>3. \A i \in 0 .. (k - 1) : v[i] = w[i]
    BY <2>1
  <2>4. \A i \in 0 .. k : v[i] = IF i = 0 THEN 0 ELSE (v[i - 1] * 10 + text[i]) % wrap
    <3> TAKE i \in 0 .. k
    <3>1. CASE i = k
      BY <1>3, <2>1, <2>3, <3>1
    <3>2. CASE i # k
      <4>1. i \in 0 .. (k - 1) /\ (i # 0 => i - 1 \in 0 .. (k - 1))
        BY <3>2
      <4>2. w[i] = IF i = 0 THEN 0 ELSE (w[i - 1] * 10 + text[i]) % wrap
        BY <2>2, <4>1 DEF Targets
      <4> QED BY <2>3, <4>1, <4>2
    <3> QED BY <3>1, <3>2
  <2>5. Targets(v, text, k, wrap)
    BY <2>4 DEF Targets
  <2> QED BY <2>5
<1> QED BY <1>2, <1>3

\* What stands behind a number, if anything, does not begin with a digit.
NoDigit(rest) == rest \in Seq(Int) /\ (rest = <<>> \/ rest[1] \notin 0 .. 9)

\* cmd_killprocess reads the digits that its argument begins with and no more.
LEMMA ParsesDigits ==
    ASSUME NEW s \in Seq(0 .. 9), NEW rest, NoDigit(rest), NEW wrap
    PROVE  \E t : /\ Reads(t, s \o rest, Len(s), wrap)
                  /\ ParseTarget(s \o rest, wrap) = t[Len(s)]
<1>0. PICK text : text = s \o rest
  OBVIOUS
<1>1. /\ text \in Seq(Int) /\ Len(text) = Len(s) + Len(rest)
      /\ \A i \in 1 .. (Len(s) + Len(rest)) :
            text[i] = IF i <= Len(s) THEN s[i] ELSE rest[i - Len(s)]
  <2>1. s \in Seq(Int) /\ rest \in Seq(Int)
    BY DEF NoDigit
  <2> QED BY <1>0, <2>1, ConcatProperties
<1>2. PICK L \in Nat : L = Len(s)
  OBVIOUS
<1>3. PICK R \in Nat : R = Len(rest)
  BY DEF NoDigit
<1>4. \A i \in 1 .. L : text[i] \in 0 .. 9
  <2> TAKE i \in 1 .. L
  <2>1. text[i] = s[i]
    BY <1>1, <1>2, <1>3
  <2> QED BY <1>2, <2>1
<1>5. R # 0 => L + 1 \in 1 .. (L + R) /\ text[L + 1] \notin 0 .. 9
  <2> SUFFICES ASSUME R # 0 PROVE L + 1 \in 1 .. (L + R) /\ text[L + 1] \notin 0 .. 9
    OBVIOUS
  <2>1. rest[1] \notin 0 .. 9
    BY <1>3 DEF NoDigit
  <2>2. L + 1 \in 1 .. (L + R) /\ ~(L + 1 <= L) /\ (L + 1) - L = 1
    OBVIOUS
  <2>3. text[L + 1] = rest[1]
    BY <1>1, <1>2, <1>3, <2>2
  <2> QED BY <2>1, <2>2, <2>3
<1> DEFINE others == {i \in DOMAIN text : text[i] \notin 0 .. 9}
<1>6. others = {i \in 1 .. (L + R) : text[i] \notin 0 .. 9}
  BY <1>1, <1>2, <1>3
<1>7. (IF others = {} THEN Len(text) ELSE Min(others) - 1) = L
  <2>1. CASE R = 0
    <3>1. others = {}
      BY <1>4, <1>6, <2>1
    <3> QED BY <1>1, <1>2, <1>3, <2>1, <3>1
  <2>2. CASE R # 0
    <3>1. L + 1 \in others /\ others \in SUBSET Nat
      BY <1>5, <1>6, <2>2
    <3>2. \A i \in others : i \in Nat /\ ~(i \in 1 .. L) /\ i >= 1
      BY <1>4, <1>6
    <3> HIDE DEF others
    <3>3. Min(others) \in others /\ \A y \in others : Min(others) <= y
      BY <3>1, MinIs
    <3>4. PICK m : m = Min(others)
      OBVIOUS
    <3>5. m \in Nat /\ ~(m \in 1 .. L) /\ m >= 1 /\ m <= L + 1
      BY <3>1, <3>2, <3>3, <3>4
    <3>6. m - 1 = L
      BY <3>5
    <3> QED BY <3>1, <3>4, <3>6
  <2> QED BY <2>1, <2>2
<1> DEFINE t == CHOOSE f : f = [i \in 0 .. Len(text) |->
                    IF i = 0 THEN 0 ELSE (f[i - 1] * 10 + text[i]) % wrap]
<1>8. ParseTarget(text, wrap) = t[IF others = {} THEN Len(text) ELSE Min(others) - 1]
  BY DEF ParseTarget
<1>9. t = [i \in 0 .. Len(text) |-> IF i = 0 THEN 0 ELSE (t[i - 1] * 10 + text[i]) % wrap]
  <2>1. Len(text) \in Nat
    BY <1>1
  <2>2. PICK f : Targets(f, text, Len(text), wrap)
    BY <2>1, TargetsExist
  <2>3. f = [i \in 0 .. Len(text) |-> IF i = 0 THEN 0 ELSE (f[i - 1] * 10 + text[i]) % wrap]
    BY <2>2 DEF Targets
  <2> QED BY <2>3
<1> HIDE DEF t, others
<1>10. Reads(t, text, L, wrap)
  <2>0. \A i \in 0 .. Len(text) : t[i] = IF i = 0 THEN 0 ELSE (t[i - 1] * 10 + text[i]) % wrap
    BY <1>9
  <2>1. t[0] = 0
    BY <1>1, <2>0
  <2>2. \A i \in 1 .. L : i \in 0 .. Len(text) /\ i # 0
    BY <1>1, <1>2, <1>3
  <2>3. \A i \in 1 .. L : t[i] = (t[i - 1] * 10 + text[i]) % wrap
    BY <2>0, <2>2
  <2> QED BY <2>1, <2>3 DEF Reads
<1>11. ParseTarget(text, wrap) = t[L]
  BY <1>7, <1>8
<1> QED BY <1>0, <1>2, <1>10, <1>11

\* sh_itoa copies the digits in the order opposite to that of tmp[].
LEMMA ItoaIs ==
    ASSUME NEW n \in Nat
    PROVE  /\ sh_itoa(n) \in Seq(0 .. 9) /\ Len(sh_itoa(n)) >= 1
           /\ n = 0 => sh_itoa(n) = <<0>>
           /\ n # 0 => \E d : /\ AllDigits(d, n) /\ Len(sh_itoa(n)) = Len(d[n])
                              /\ \A i \in 1 .. Len(d[n]) : sh_itoa(n)[i] = d[n][Len(d[n]) - i + 1]
<1>1. CASE n = 0
  BY <1>1 DEF sh_itoa
<1>2. CASE n # 0
  <2>1. PICK d : LowDigits(n) = d[n] /\ AllDigits(d, n)
    BY LowDigitsIs
  <2>2. n \in 1 .. n
    BY <1>2
  <2>3. d[n] \in Seq(0 .. 9) /\ d[n \div 10] \in Seq(0 .. 9) /\ Len(d[n]) = Len(d[n \div 10]) + 1
    BY <2>1, <2>2, NextDigit
  <2>4. PICK u \in Seq(0 .. 9) : u = d[n]
    BY <2>3
  <2>5. sh_itoa(n) = [i \in 1 .. Len(u) |-> u[(Len(u) - i) + 1]]
    BY <1>2, <2>1, <2>4 DEF sh_itoa, Reverse
  <2>6. Len(u) \in Nat /\ Len(u) >= 1
    BY <2>3, <2>4
  <2>7. \A i \in 1 .. Len(u) : u[(Len(u) - i) + 1] \in 0 .. 9
    <3> TAKE i \in 1 .. Len(u)
    <3>1. (Len(u) - i) + 1 \in 1 .. Len(u)
      BY <2>6
    <3> QED BY <3>1
  <2>8. sh_itoa(n) \in Seq(0 .. 9) /\ Len(sh_itoa(n)) = Len(u)
    BY <2>5, <2>6, <2>7
  <2>9. \A i \in 1 .. Len(u) : sh_itoa(n)[i] = u[Len(u) - i + 1]
    BY <2>5
  <2> QED BY <1>2, <2>1, <2>4, <2>6, <2>8, <2>9
<1> QED BY <1>1, <1>2

\* A number that sh_itoa wrote is read back by killprocess.
LEMMA NumberIsRead ==
    ASSUME NEW n \in Nat, NEW wrap \in Nat, wrap # 0, NEW rest, NoDigit(rest)
    PROVE  ParseTarget(sh_itoa(n) \o rest, wrap) = n % wrap
<1>1. PICK s \in Seq(0 .. 9) : s = sh_itoa(n)
  BY ItoaIs
<1>2. PICK text : text = s \o rest
  OBVIOUS
<1>3. PICK t : Reads(t, text, Len(s), wrap) /\ ParseTarget(text, wrap) = t[Len(s)]
  BY <1>2, ParsesDigits
<1>4. Len(s) <= Len(text) /\ \A i \in 1 .. Len(s) : text[i] = s[i]
  <2>1. s \in Seq(Int) /\ rest \in Seq(Int)
    BY DEF NoDigit
  <2>2. /\ Len(text) = Len(s) + Len(rest)
        /\ \A i \in 1 .. (Len(s) + Len(rest)) :
              text[i] = IF i <= Len(s) THEN s[i] ELSE rest[i - Len(s)]
    BY <1>2, <2>1, ConcatProperties
  <2>3. Len(s) \in Nat /\ Len(rest) \in Nat
    BY <2>1
  <2> QED BY <2>2, <2>3
<1>5. CASE n = 0
  <2>1. Len(s) = 1 /\ s[1] = 0
    BY <1>1, <1>5, ItoaIs
  <2>2. t[0] = 0 /\ t[1] = (t[1 - 1] * 10 + text[1]) % wrap /\ text[1] = 0
    BY <1>3, <1>4, <2>1 DEF Reads
  <2>3. t[1] = 0 % wrap
    BY <2>2
  <2> QED BY <1>1, <1>2, <1>3, <1>5, <2>1, <2>3
<1>6. CASE n # 0
  <2>1. PICK d : /\ AllDigits(d, n) /\ Len(s) = Len(d[n])
                 /\ \A i \in 1 .. Len(d[n]) : s[i] = d[n][Len(d[n]) - i + 1]
    BY <1>1, <1>6, ItoaIs
  <2>2. BeginsWith(text, d[n])
    BY <1>4, <2>1 DEF BeginsWith
  <2>3. Reads(t, text, Len(d[n]), wrap)
    BY <1>3, <2>1
  <2>4. t[Len(d[n])] = n % wrap
    <3>1. n \in 0 .. n
      OBVIOUS
    <3> QED BY <2>1, <2>2, <2>3, <3>1, ReadBack
  <2> QED BY <1>1, <1>2, <1>3, <2>1, <2>4
<1> QED BY <1>5, <1>6

\* A number below b has at most m digits.
Short(d, N, b, m) == \A k \in 0 .. N : k < b => Len(d[k]) <= m

\* Ten times the numbers have one digit more.
LEMMA OneMoreDigit ==
    ASSUME NEW d, NEW N \in Nat, AllDigits(d, N),
           NEW b \in Nat, NEW m \in Nat, b >= 1, Short(d, N, b, m)
    PROVE  Short(d, N, 10 * b, m + 1)
<1> SUFFICES ASSUME NEW k \in 0 .. N, k < 10 * b PROVE Len(d[k]) <= m + 1
  BY DEF Short
<1>1. CASE k = 0
  BY <1>1 DEF AllDigits
<1>2. CASE k # 0
  <2>0. k \in 1 .. N
    BY <1>2
  <2>1. /\ k \div 10 \in 0 .. N /\ d[k \div 10] \in Seq(0 .. 9)
        /\ Len(d[k]) = Len(d[k \div 10]) + 1
    BY <2>0, NextDigit
  <2>2. k \div 10 < b
    <3>1. PICK h \in Nat : h = k \div 10
      BY TenFacts
    <3>2. k = 10 * h + (k % 10) /\ k % 10 \in 0 .. 9
      BY <3>1, TenFacts
    <3> QED BY <3>1, <3>2
  <2>3. Len(d[k \div 10]) <= m
    BY <2>1, <2>2 DEF Short
  <2>4. Len(d[k \div 10]) \in Nat
    BY <2>1
  <2> QED BY <2>1, <2>3, <2>4
<1> QED BY <1>1, <1>2

\* sh_itoa writes between one and m digits of n.
Fits(n, m) == Len(sh_itoa(n)) \in 1 .. m

\* Every number has a digit: only its length has to be bounded.
LEMMA FitsIf ==
    ASSUME NEW n \in Nat, NEW m \in Nat, NEW u \in Seq(0 .. 9),
           Len(sh_itoa(n)) = Len(u), Len(u) <= m
    PROVE  Fits(n, m)
<1>1. PICK L \in Nat : L = Len(u)
  OBVIOUS
<1>2. L >= 1
  BY <1>1, ItoaIs
<1>3. L \in 1 .. m
  <2>1. L <= m
    BY <1>1
  <2> QED BY <1>2, <2>1
<1> QED BY <1>1, <1>3, Zenon DEF Fits

\* How many digits a number has, up to the largest uint32_t.
LEMMA DigitCount ==
    ASSUME NEW n \in Nat
    PROVE  /\ n < 1000000 => Fits(n, 6)
           /\ n < 100000000 => Fits(n, 8)
           /\ n < 10000000000 => Fits(n, 10)
<1>1. CASE n = 0
  <2>0. <<0>> \in Seq(0 .. 9)
    OBVIOUS
  <2>1. PICK u \in Seq(0 .. 9) : u = <<0>>
    BY <2>0, Zenon
  <2>2. Len(u) = 1 /\ sh_itoa(n) = u
    BY <1>1, <2>1, ItoaIs
  <2>3. ASSUME NEW m \in Nat, m >= 1 PROVE Fits(n, m)
    BY <2>2, <2>3, FitsIf
  <2> QED BY <2>3, SMT
<1>2. CASE n # 0
  <2>1. PICK d : AllDigits(d, n) /\ Len(sh_itoa(n)) = Len(d[n])
    BY <1>2, ItoaIs, Zenon
  <2>2. Short(d, n, 1, 0)
    BY <2>1, SMT DEF Short, AllDigits
  <2>3. ASSUME NEW b \in Nat, NEW m \in Nat, b >= 1, Short(d, n, b, m)
        PROVE  Short(d, n, 10 * b, m + 1)
    BY <2>1, <2>3, OneMoreDigit, SMT
  <2>4. Short(d, n, 10 * 1, 0 + 1)
    BY <2>2, <2>3, SMT
  <2>5. Short(d, n, 10 * 10, 1 + 1)
    BY <2>3, <2>4, SMT
  <2>6. Short(d, n, 10 * 100, 2 + 1)
    BY <2>3, <2>5, SMT
  <2>7. Short(d, n, 10 * 1000, 3 + 1)
    BY <2>3, <2>6, SMT
  <2>8. Short(d, n, 10 * 10000, 4 + 1)
    BY <2>3, <2>7, SMT
  <2>9. Short(d, n, 10 * 100000, 5 + 1)
    BY <2>3, <2>8, SMT
  <2>10. Short(d, n, 10 * 1000000, 6 + 1)
    BY <2>3, <2>9, SMT
  <2>11. Short(d, n, 10 * 10000000, 7 + 1)
    BY <2>3, <2>10, SMT
  <2>12. Short(d, n, 10 * 100000000, 8 + 1)
    BY <2>3, <2>11, SMT
  <2>13. Short(d, n, 10 * 1000000000, 9 + 1)
    BY <2>3, <2>12, SMT
  <2>14. n \in 0 .. n
    BY SMT
  <2>15. d[n] \in Seq(0 .. 9)
    BY <2>1, <2>14, DigitsAreDigits
  <2>16. ASSUME NEW b \in Nat, NEW m \in Nat, Short(d, n, b, m), n < b PROVE Fits(n, m)
    <3>1. Len(d[n]) <= m
      BY <2>14, <2>16 DEF Short
    <3> QED BY <2>1, <2>15, <3>1, FitsIf
  <2>17. n < 1000000 => Fits(n, 6)
    BY <2>9, <2>16, SMT
  <2>18. n < 100000000 => Fits(n, 8)
    BY <2>11, <2>16, SMT
  <2>19. n < 10000000000 => Fits(n, 10)
    BY <2>13, <2>16, SMT
  <2> QED BY <2>17, <2>18, <2>19, SMT
<1> QED BY <1>1, <1>2, SMT

\* The smaller one of two numbers.
LEMMA MinOfTwo ==
    ASSUME NEW a \in Nat, NEW b \in Nat, a <= b
    PROVE  Min({a, b}) = a
<1>1. PICK S : S = {a, b}
  OBVIOUS
<1>2. S \in SUBSET Nat /\ S # {} /\ a \in S /\ \A y \in S : a <= y
  BY <1>1
<1>3. PICK m : m = Min(S)
  OBVIOUS
<1>4. m \in S /\ \A y \in S : m <= y
  BY <1>2, <1>3, MinIs
<1>5. m \in Nat /\ m <= a /\ a <= m
  BY <1>2, <1>4
<1> QED BY <1>1, <1>3, <1>5

\* The status bar shows all digits of a number that has at most six.
LEMMA UptimeShown ==
    ASSUME NEW ticks \in Nat, ticks \div 100 < 1000000
    PROVE  UptimeDigits(ticks) = sh_itoa(ticks \div 100)
<1>1. PICK n \in Nat : n = ticks \div 100
  BY SMT
<1>2. PICK s \in Seq(0 .. 9) : s = sh_itoa(n)
  BY ItoaIs, SMT
<1>3. Len(s) \in Nat /\ Len(s) >= 1 /\ Len(s) <= 6
  <2>1. Fits(n, 6)
    BY <1>1, DigitCount, SMT
  <2>2. Len(sh_itoa(n)) \in 1 .. 6
    BY <2>1, SMT DEF Fits
  <2>3. PICK L : L = Len(s)
    BY SMT
  <2>4. L \in 1 .. 6
    BY <1>2, <2>2, <2>3, SMT
  <2>5. L \in Nat /\ L >= 1 /\ L <= 6
    BY <2>4, SMT
  <2> QED BY <2>3, <2>5, SMT
<1>4. Min({Len(s), (80 - 70) - 4}) = Len(s)
  <2>1. (80 - 70) - 4 \in Nat /\ Len(s) <= (80 - 70) - 4
    BY <1>3, SMT
  <2> QED BY <1>3, <2>1, MinOfTwo, SMT
<1>5. SubSeq(s, 1, Len(s)) = s
  BY <1>3, SMT
<1> QED BY <1>1, <1>2, <1>4, <1>5, SMT DEF UptimeDigits

\* time splits the seconds without losing one.
LEMMA TimeSplits ==
    ASSUME NEW ticks \in Nat
    PROVE  LET time == cmd_time(ticks)
           IN  /\ time[1] \in Nat /\ time[2] \in 0 .. 59 /\ time[3] \in 0 .. 59
               /\ time[1] * 3600 + time[2] * 60 + time[3] = ticks \div 100
<1>1. PICK secs \in Nat : secs = ticks \div 100
  OBVIOUS
<1>2. PICK mins \in Nat : mins = secs \div 60
  OBVIOUS
<1>3. cmd_time(ticks) = <<mins \div 60, mins % 60, secs % 60>>
  BY <1>1, <1>2 DEF cmd_time
<1>4. mins \div 60 \in Nat /\ mins % 60 \in 0 .. 59 /\ secs % 60 \in 0 .. 59
  OBVIOUS
<1>5. secs = 60 * mins + (secs % 60) /\ mins = 60 * (mins \div 60) + (mins % 60)
  BY <1>2
<1> QED BY <1>1, <1>3, <1>4, <1>5

(***************************************************************************)
(* Every number that sh_itoa prints is the number that killprocess reads,  *)
(* modulo what target holds, whatever other characters follow it: the loop *)
(* of cmd_killprocess undoes the loops of sh_itoa.                         *)
(***************************************************************************)
THEOREM NumbersRoundTrip ==
    \A n \in Nat : \A wrap \in Nat \ {0} : \A rest :
        NoDigit(rest) => ParseTarget(sh_itoa(n) \o rest, wrap) = n % wrap
  BY NumberIsRead

(***************************************************************************)
(* No uint32_t overruns a buffer: sh_itoa writes at most 10 digits (tmp    *)
(* and buf have 12 characters), the uptime at most 8 (tmp[8] of            *)
(* vga_draw_statusbar), and the status bar shows all of an uptime below    *)
(* 1000000 seconds.                                                        *)
(***************************************************************************)
THEOREM NumbersFit ==
    \A n \in Nat :
        n < 4294967296 =>
            /\ Fits(n, 10)
            /\ Fits(n \div 100, 8)
            /\ n < 100000000 => UptimeDigits(n) = sh_itoa(n \div 100)
<1> SUFFICES ASSUME NEW n \in Nat, n < 4294967296
             PROVE  /\ Fits(n, 10)
                    /\ Fits(n \div 100, 8)
                    /\ n < 100000000 => UptimeDigits(n) = sh_itoa(n \div 100)
  BY SMT
<1>1. n \in Nat /\ n < 10000000000
  BY SMT
<1>2. PICK k \in Nat : k = n \div 100
  BY <1>1, SMT
<1>3. k < 100000000 /\ (n < 100000000 => k < 1000000)
  BY <1>1, <1>2, SMT
<1>4. Fits(n, 10)
  BY <1>1, DigitCount, SMT
<1>5. Fits(k, 8)
  BY <1>3, DigitCount, SMT
<1>6. n < 100000000 => UptimeDigits(n) = sh_itoa(n \div 100)
  BY <1>1, <1>2, <1>3, UptimeShown, SMT
<1> QED BY <1>2, <1>4, <1>5, <1>6, SMT

\* Every sample is a number that the theorems above speak of.
LEMMA SamplesFit == \A n \in Samples : n \in Nat /\ n < 100000000
  BY SMT DEF Samples

(***************************************************************************)
(* newprocess prints a pid that killprocess reads back, the uptime fits    *)
(* its buffer, its digits and the split into hours, minutes and seconds    *)
(* lose nothing: what the run checks on samples follows from the facts     *)
(* about every number.                                                     *)
(***************************************************************************)
THEOREM NumbersAreReadBack == Spec => []NumbersReadBack
<1>1. NumbersReadBack
  <2> SUFFICES ASSUME NEW n \in Samples
               PROVE  /\ ParseTarget(sh_itoa(n), 256) = n % 256
                      /\ ParseTarget(sh_itoa(n) \o <<-1, 7>>, 256) = n % 256
                      /\ Len(sh_itoa(n)) \in 1 .. 8
                      /\ n <= 999999 => UptimeDigits(100 * n) = sh_itoa(n)
                      /\ cmd_time(50 * n)[1] * 3600 + cmd_time(50 * n)[2] * 60
                            + cmd_time(50 * n)[3] = n \div 2
                      /\ cmd_time(50 * n)[2] < 60 /\ cmd_time(50 * n)[3] < 60
    BY SMT DEF NumbersReadBack
  <2>1. n \in Nat /\ n < 100000000
    BY SamplesFit, SMT
  <2>w. n \in Nat /\ 256 \in Nat /\ 256 # 0
    BY <2>1, SMT
  <2>2. PICK s \in Seq(0 .. 9) : s = sh_itoa(n) /\ Len(s) >= 1
    BY <2>1, ItoaIs, SMT
  <2>3. ParseTarget(sh_itoa(n), 256) = n % 256
    <3>1. NoDigit(<<>>)
      BY SMT DEF NoDigit
    <3>2. ParseTarget(sh_itoa(n) \o <<>>, 256) = n % 256
      BY <2>w, <3>1, NumberIsRead, Zenon
    <3>3. s \o <<>> = s
      BY SMT
    <3> QED BY <2>2, <3>2, <3>3, SMT
  <2>4. ParseTarget(sh_itoa(n) \o <<-1, 7>>, 256) = n % 256
    <3>1. NoDigit(<<-1, 7>>)
      BY SMT DEF NoDigit
    <3> QED BY <2>w, <3>1, NumberIsRead, Zenon
  <2>5. Len(sh_itoa(n)) \in 1 .. 8
    <3>1. Fits(n, 8)
      BY <2>1, DigitCount, SMT
    <3> QED BY <3>1, Zenon DEF Fits
  <2>6. n <= 999999 => UptimeDigits(100 * n) = sh_itoa(n)
    <3>1. PICK ticks \in Nat : ticks = 100 * n
      BY <2>1, SMT
    <3>2. ticks \div 100 = n
      BY <2>1, <3>1, SMT
    <3>3. n <= 999999 => ticks \div 100 < 1000000
      BY <2>1, <3>2, SMT
    <3>4. n <= 999999 => UptimeDigits(ticks) = sh_itoa(ticks \div 100)
      BY <3>3, UptimeShown, SMT
    <3> QED BY <3>1, <3>2, <3>4, SMT
  <2>7. PICK ticks \in Nat : ticks = 50 * n /\ ticks \div 100 = n \div 2
    BY <2>1, SMT
  <2>8. PICK time : time = cmd_time(ticks)
    OBVIOUS
  <2>9. /\ time[1] \in Nat /\ time[2] \in 0 .. 59 /\ time[3] \in 0 .. 59
        /\ time[1] * 3600 + time[2] * 60 + time[3] = ticks \div 100
    BY <2>8, TimeSplits, SMT
  <2>10. time[2] < 60 /\ time[3] < 60
    <3>1. PICK x, y : x = time[2] /\ y = time[3]
      BY SMT
    <3>2. x \in 0 .. 59 /\ y \in 0 .. 59
      BY <2>9, <3>1, SMT
    <3>3. x < 60 /\ y < 60
      BY <3>2, SMT
    <3> QED BY <3>1, <3>3, SMT
  <2> QED BY <2>3, <2>4, <2>5, <2>6, <2>7, <2>8, <2>9, <2>10, SMT
<1> QED BY <1>1, PTL
=============================================================================
