------------------------------- MODULE Console -------------------------------
(***************************************************************************)
(* The screen driver, kernel/console.c: con_write takes one character at a *)
(* time through the escape sequence parser (state 0 to 4) and moves a      *)
(* window of video memory (origin .. scr_end) instead of the text when the *)
(* whole screen scrolls, until the window meets the end of that memory.    *)
(* Addresses count 16-bit cells from SCREEN_START, so the shifts by one of *)
(* the source are gone.  All printable characters show as Mark; colours    *)
(* (attr, csi_m) and the cursor registers are left out.  The queue that    *)
(* feeds con_write is the business of module Tty.                          *)
(***************************************************************************)
EXTENDS Integers, Sequences

CONSTANTS Lines, Columns, Tab,
          ScreenEnd,            \* cells of video memory, SCREEN_END
          NPar,                 \* parameters of a sequence, NPAR
          Digits, MaxPar,       \* the digits that are typed, the largest value
          SaveColumn,           \* '7' and '8' read as columns: con_write tests
          RestoreColumn         \* x where it means c (lines 416 and 418)

ASSUME ConsoleAssumption ==
    /\ Lines \in Nat \ {0} /\ Columns \in Nat \ {0} /\ Tab \in Nat \ {0}
    /\ Columns % Tab = 0
    /\ ScreenEnd \in Nat /\ Lines * Columns <= ScreenEnd
    /\ NPar \in Nat /\ NPar >= 2
    /\ Digits \subseteq 0..9 /\ MaxPar \in Nat
    /\ SaveColumn \in 0..Columns /\ RestoreColumn \in 0..Columns

Mark  == "mark"
Blank == "blank"
Alien == "alien"      \* what lies before and behind the video memory

VARIABLES con,        \* [mem, origin, scr_end, pos, x, y, top, bottom]
          saved,      \* <<saved_x, saved_y>>
          state, npar, par

vars == <<con, saved, state, npar, par>>

Video == 0..ScreenEnd-1
Banks == -Columns..ScreenEnd+Columns-1        \* with a line on either side
NoPar == [i \in 0..NPar-1 |-> 0]

-----------------------------------------------------------------------------
(* Stores into video memory *)

\* memsetw(a, 0x0720, n)
Clear(mem, a, n) == [i \in Banks |-> IF i \in a..a+n-1 THEN Blank ELSE mem[i]]

\* memcpyw and memcpyw_backward: the direction fits the overlap.
CopyCells(mem, to, from, n) ==
    [i \in Banks |-> IF i \in to..to+n-1 THEN mem[from + i - to] ELSE mem[i]]

-----------------------------------------------------------------------------
(* Cursor and scrolling *)

\* Arguments are unsigned: a value below zero is beyond every column and line.
Gotoxy(d, nx, ny) ==
    IF nx \in 0..Columns-1 /\ ny \in 0..Lines-1
    THEN [d EXCEPT !.x = nx, !.y = ny, !.pos = d.origin + ny * Columns + nx]
    ELSE d

\* Mutant: the last line is not cleared after the copy to the start.
ScrupWholeUncleared(d) ==
    LET o == d.origin + Columns
        e == d.scr_end + Columns
    IN IF e > ScreenEnd
       THEN [d EXCEPT !.mem = CopyCells(@, 0, o, (Lines-1) * Columns),
                      !.origin = 0, !.scr_end = e - o, !.pos = @ + Columns - o]
       ELSE [d EXCEPT !.mem = Clear(@, e - Columns, Columns),
                      !.origin = o, !.scr_end = e, !.pos = @ + Columns]

ScrupWhole(d) ==
    LET o == d.origin + Columns
        e == d.scr_end + Columns
    IN IF e > ScreenEnd
       THEN [d EXCEPT !.mem = Clear(CopyCells(@, 0, o, (Lines-1) * Columns),
                                    (Lines-1) * Columns, Columns),
                      !.origin = 0, !.scr_end = e - o,
                      !.pos = @ + Columns - o]
       ELSE [d EXCEPT !.mem = Clear(@, e - Columns, Columns),
                      !.origin = o, !.scr_end = e, !.pos = @ + Columns]

Scrup(d) ==
    IF d.top = 0 /\ d.bottom = Lines THEN ScrupWhole(d)
    ELSE [d EXCEPT !.mem =
            Clear(CopyCells(@, d.origin + Columns * d.top,
                               d.origin + Columns * (d.top + 1),
                               (d.bottom - d.top - 1) * Columns),
                  d.origin + Columns * (d.bottom - 1), Columns)]

Scrdown(d) ==
    [d EXCEPT !.mem =
        Clear(CopyCells(@, d.origin + Columns * (d.top + 1),
                           d.origin + Columns * d.top,
                           (d.bottom - d.top - 1) * Columns),
              d.origin + Columns * d.top, Columns)]

Lf(d) == IF d.y + 1 < d.bottom THEN [d EXCEPT !.y = @ + 1, !.pos = @ + Columns]
         ELSE Scrup(d)

Ri(d) == IF d.y > d.top THEN [d EXCEPT !.y = @ - 1, !.pos = @ - Columns]
         ELSE Scrdown(d)

Cr(d) == [d EXCEPT !.pos = @ - d.x, !.x = 0]

Backspace(d) == IF d.x > 0 THEN [d EXCEPT !.x = @ - 1, !.pos = @ - 1] ELSE d

Del(d) == IF d.x = 0 THEN d
          ELSE LET b == Backspace(d) IN [b EXCEPT !.mem = Clear(@, b.pos, 1)]

\* x went past the last column: back by a row, and a line feed.
Wrap(d) == Lf([d EXCEPT !.x = @ - Columns, !.pos = @ - Columns])

Print1(d) ==
    LET w == IF d.x >= Columns THEN Wrap(d) ELSE d
    IN [w EXCEPT !.mem = [@ EXCEPT ![w.pos] = Mark], !.pos = @ + 1, !.x = @ + 1]

HorizontalTab(d) ==
    LET c == Tab - (d.x % Tab)
        t == [d EXCEPT !.x = @ + c, !.pos = @ + c]
    IN IF t.x > Columns THEN Wrap(t) ELSE t

-----------------------------------------------------------------------------
(* Erasing, inserting and deleting *)

\* Mutant: erases one cell too many behind the cursor.
CsiJOneMore(d, v) ==
    IF v = 0 THEN [d EXCEPT !.mem = Clear(@, d.pos, d.scr_end - d.pos + 1)] ELSE d

CsiJ(d, v) ==
    CASE v = 0 -> [d EXCEPT !.mem = Clear(@, d.pos, d.scr_end - d.pos)]
      [] v = 1 -> [d EXCEPT !.mem = Clear(@, d.origin, d.pos - d.origin)]
      [] v = 2 -> [d EXCEPT !.mem = Clear(@, d.origin, Columns * Lines)]
      [] OTHER -> d

CsiK(d, v) ==
    CASE v = 0 -> IF d.x >= Columns THEN d
                  ELSE [d EXCEPT !.mem = Clear(@, d.pos, Columns - d.x)]
      [] v = 1 -> [d EXCEPT !.mem = Clear(@, d.pos - d.x,
                                          IF d.x < Columns THEN d.x ELSE Columns)]
      [] v = 2 -> [d EXCEPT !.mem = Clear(@, d.pos - d.x, Columns)]
      [] OTHER -> d

InsertChar(d) ==
    IF d.x >= Columns THEN d
    ELSE [d EXCEPT !.mem =
            Clear(CopyCells(@, d.pos + 1, d.pos, Columns - d.x - 1), d.pos, 1)]

DeleteChar(d) ==
    IF d.x >= Columns THEN d
    ELSE [d EXCEPT !.mem =
            Clear(CopyCells(@, d.pos, d.pos + 1, Columns - d.x - 1),
                  d.pos + Columns - d.x - 1, 1)]

\* insert_line and delete_line scroll from the cursor down to the last line
\* and put the region back.
FromCursor(d, Scroll(_)) ==
    [Scroll([d EXCEPT !.top = d.y, !.bottom = Lines])
        EXCEPT !.top = d.top, !.bottom = d.bottom]
InsertLine(d) == FromCursor(d, Scrdown)
DeleteLine(d) == FromCursor(d, Scrup)

\* csi_at, csi_L, csi_P, csi_M: as often as asked, at least once.
Once(c, d) ==
    CASE c = "L" -> InsertLine(d)
      [] c = "M" -> DeleteLine(d)
      [] c = "P" -> DeleteChar(d)
      [] c = "@" -> InsertChar(d)

AtLeastOne(n) == IF n = 0 THEN 1 ELSE n

Turns(nr, most) == IF nr > most THEN most ELSE AtLeastOne(nr)

Times(c, d, n) ==
    LET done[i \in 0..n] == IF i = 0 THEN d ELSE Once(c, done[i-1])
    IN done[n]

-----------------------------------------------------------------------------
(* con_write, a character at a time *)

LessOne(n) == IF n = 0 THEN 0 ELSE n - 1

Relative == {"A", "B", "C", "D", "E", "F"}
Absolute == {"G", "d", "H"}
Edits    == {"J", "K", "L", "M", "P", "@"}

Moved(d, c) ==
    LET n == AtLeastOne(par[0]) IN
    CASE c = "A" -> Gotoxy(d, d.x, d.y - n)
      [] c = "B" -> Gotoxy(d, d.x, d.y + n)
      [] c = "C" -> Gotoxy(d, d.x + n, d.y)
      [] c = "D" -> Gotoxy(d, d.x - n, d.y)
      [] c = "E" -> Gotoxy(d, 0, d.y + n)
      [] c = "F" -> Gotoxy(d, 0, d.y - n)
      [] c = "G" -> Gotoxy(d, LessOne(par[0]), d.y)
      [] c = "d" -> Gotoxy(d, d.x, LessOne(par[0]))
      [] c = "H" -> Gotoxy(d, LessOne(par[1]), LessOne(par[0]))

Edited(d, c) ==
    CASE c = "J" -> CsiJ(d, par[0])
      [] c = "K" -> CsiK(d, par[0])
      [] c \in {"L", "M"} -> Times(c, d, Turns(par[0], Lines))
      [] c \in {"P", "@"} -> Times(c, d, Turns(par[0], Columns))

\* 'r': the scrolling region, if it has a line and fits.
Regioned(d) ==
    LET t == LessOne(par[0])
        b == IF par[1] = 0 THEN Lines ELSE par[1]
    IN IF t < b /\ b <= Lines THEN [d EXCEPT !.top = t, !.bottom = b] ELSE d

\* Mutant: the position does not follow the restored coordinates.
RestoreCurNoPos(d) == [d EXCEPT !.x = saved[1], !.y = saved[2]]

RestoreCur(d) == [d EXCEPT !.x = saved[1], !.y = saved[2],
                           !.pos = d.origin + saved[2] * Columns + saved[1]]

Display(d) == con' = d /\ UNCHANGED saved

\* npar and par are zeroed when a sequence opens and dead outside it.
Leave == state' = 0 /\ npar' = 0 /\ par' = NoPar
Stay  == UNCHANGED <<state, npar, par>>

\* State 0: text and control characters.
Text ==
    /\ state = 0
    /\ \/ Display(Print1(con)) /\ Stay
       \/ Display(Lf(con)) /\ Stay
       \/ Display(Cr(con)) /\ Stay
       \/ Display(Del(con)) /\ Stay
       \/ Display(Backspace(con)) /\ Stay
       \/ Display(HorizontalTab(con)) /\ Stay
       \/ state' = 1 /\ UNCHANGED <<con, saved, npar, par>>

\* State 1: the character after ESC; any other one saves or restores the
\* cursor in the two columns whose numbers are the codes of '7' and '8'.
Escape ==
    /\ state = 1
    /\ UNCHANGED <<npar, par>>
    /\ \/ state' = 2 /\ UNCHANGED <<con, saved>>
       \/ /\ state' = 0
          /\ \/ Display(Gotoxy(con, 0, con.y + 1))
             \/ Display(Ri(con))
             \/ Display(Lf(con))
             \/ con.x = SaveColumn /\ saved' = <<con.x, con.y>> /\ UNCHANGED con
             \/ /\ con.x = RestoreColumn /\ con.x # SaveColumn
                /\ Display(RestoreCur(con))
             \/ UNCHANGED <<con, saved>>      \* 'Z', and all the rest

\* States 2 to 4: a parameter, or the command that ends the sequence.  State
\* 2 has zeroed the parameters; a '?' there is only remembered in ques.
Question == state = 2 /\ state' = 3 /\ UNCHANGED <<con, saved, npar, par>>

Semicolon == /\ state \in {2, 3} /\ npar < NPar - 1
             /\ state' = 3 /\ npar' = npar + 1
             /\ UNCHANGED <<con, saved, par>>

Digit == /\ state \in {2, 3}
         /\ \E c \in Digits :
              /\ 10 * par[npar] + c <= MaxPar
              /\ par' = [par EXCEPT ![npar] = 10 * @ + c]
         /\ state' = 3
         /\ UNCHANGED <<con, saved, npar>>

Command ==
    /\ state \in {2, 3}
    /\ \/ \E c \in Relative \cup Absolute : Display(Moved(con, c))
       \/ \E c \in Edits : Display(Edited(con, c))
       \/ Display(Regioned(con))
       \/ saved' = <<con.x, con.y>> /\ UNCHANGED con
       \/ Display(RestoreCur(con))
       \/ UNCHANGED <<con, saved>>            \* 'm', and what is no command
    /\ Leave

Init ==
    \E m \in [Video -> {Mark, Blank}], x \in 0..Columns-1, y \in 0..Lines-1 :
      /\ con = [mem |-> [i \in Banks |-> IF i \in Video THEN m[i] ELSE Alien],
                origin |-> 0, scr_end |-> Lines * Columns,
                pos |-> y * Columns + x, x |-> x, y |-> y,
                top |-> 0, bottom |-> Lines]
      /\ saved = <<0, 0>> /\ state = 0 /\ npar = 0 /\ par = NoPar

Next == Text \/ Escape \/ Question \/ Semicolon \/ Digit \/ Command

Spec == Init /\ [][Next]_vars

-----------------------------------------------------------------------------
(* Properties *)

\* The position the driver writes to is the one x and y name in the window,
\* whatever was printed, scrolled, wrapped or restored: pos, origin, scr_end,
\* x and y are five separate variables updated in a dozen places.
CursorExact ==
    /\ con.pos = con.origin + con.y * Columns + con.x
    /\ con.scr_end = con.origin + Lines * Columns
    /\ con.x \in 0..Columns /\ con.y \in 0..Lines-1
    /\ con.origin >= 0 /\ con.scr_end <= ScreenEnd
    /\ 0 <= con.top /\ con.top < con.bottom /\ con.bottom <= Lines

\* No sequence of characters makes the driver store outside video memory: what
\* lies before and behind it stays as it was.
StoresInside == \A i \in Banks \ Video : con.mem[i] = Alien

\* Each character does to the display what Terminal says: the moving window,
\* its return to the start of video memory and the stores by address never
\* show.
T == INSTANCE Terminal WITH
        Glyph  <- {Mark},
        screen <- [r \in 0..Lines-1 |-> [c \in 0..Columns-1 |->
                      con.mem[con.origin + r * Columns + c]]],
        x <- con.x, y <- con.y, top <- con.top, bottom <- con.bottom
ImplementsTerminal == T!TSpec

=============================================================================
