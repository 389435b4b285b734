------------------------------ MODULE Terminal ------------------------------
(***************************************************************************)
(* What console.c promises: a display of Lines rows and Columns columns    *)
(* with a cursor, a scrolling region and a saved cursor.  No word here     *)
(* about video memory, its origin or the position derived from it: each    *)
(* character that is written performs one of these operations, or nothing. *)
(***************************************************************************)
EXTENDS Integers

CONSTANTS Lines, Columns,
          Glyph,      \* the characters that can be shown
          Blank,      \* an erased cell, 0x0720
          Tab         \* distance of the tab stops
VARIABLES screen,     \* screen[r][c]
          x, y,       \* the cursor; x = Columns: the next character wraps
          top, bottom, saved

tvars == <<screen, x, y, top, bottom, saved>>

Rows == 0..Lines-1
Cols == 0..Columns-1
BlankRow == [c \in Cols |-> Blank]

\* Rows t..b-1 move up by one, the last of them is cleared.
Up(s, t, b) == [r \in Rows |-> IF r \in t..b-2 THEN s[r+1]
                               ELSE IF r = b-1 THEN BlankRow ELSE s[r]]

\* Rows t..b-1 move down by one, the first of them is cleared.
Down(s, t, b) == [r \in Rows |-> IF r \in t+1..b-1 THEN s[r-1]
                                 ELSE IF r = t THEN BlankRow ELSE s[r]]

\* Cells the predicate E(r, c) holds of are erased.
Erased(E(_, _)) ==
    [r \in Rows |-> [c \in Cols |-> IF E(r, c) THEN Blank ELSE screen[r][c]]]

Frame == UNCHANGED <<top, bottom, saved>>

\* A line feed from column cx: down one row, or the region scrolls.
Feed(cx) ==
    /\ x' = cx
    /\ IF y + 1 < bottom THEN y' = y + 1 /\ UNCHANGED screen
                         ELSE y' = y /\ screen' = Up(screen, top, bottom)
    /\ Frame

\* A character goes to the cursor, after a wrap when the row is full.
Show(g) ==
    LET wrap == x >= Columns
        cx   == IF wrap THEN x - Columns ELSE x
        cy   == IF wrap /\ y + 1 < bottom THEN y + 1 ELSE y
        s    == IF wrap /\ y + 1 >= bottom THEN Up(screen, top, bottom) ELSE screen
    IN /\ screen' = [s EXCEPT ![cy][cx] = g]
       /\ x' = cx + 1 /\ y' = cy
       /\ Frame

ReverseFeed ==
    /\ IF y > top THEN y' = y - 1 /\ UNCHANGED screen
                  ELSE y' = y /\ screen' = Down(screen, top, bottom)
    /\ UNCHANGED x /\ Frame

NextStop == Tab * ((x \div Tab) + 1)

Tabulate == IF NextStop > Columns THEN Feed(NextStop - Columns)
            ELSE x' = NextStop /\ UNCHANGED <<screen, y>> /\ Frame

Rubout == /\ x > 0
          /\ x' = x - 1
          /\ screen' = [screen EXCEPT ![y][x-1] = Blank]
          /\ UNCHANGED y /\ Frame

Move == /\ x' \in 0..Columns /\ y' \in Rows
        /\ UNCHANGED screen /\ Frame

\* Erasure never moves the cursor.
Erase ==
    /\ \/ screen' = Erased(LAMBDA r, c : r > y \/ (r = y /\ c >= x))
       \/ screen' = Erased(LAMBDA r, c : r < y \/ (r = y /\ c < x))
       \/ screen' = Erased(LAMBDA r, c : TRUE)
       \/ screen' = Erased(LAMBDA r, c : r = y /\ c >= x)
       \/ screen' = Erased(LAMBDA r, c : r = y /\ c < x)
       \/ screen' = Erased(LAMBDA r, c : r = y)
    /\ UNCHANGED <<x, y>> /\ Frame

Shift ==
    /\ \/ \E n \in 1..Columns : screen' = [screen EXCEPT ![y] =
              [c \in Cols |-> IF c < x THEN @[c] ELSE IF c < x + n THEN Blank
                              ELSE @[c-n]]]
       \/ \E n \in 1..Columns : screen' = [screen EXCEPT ![y] =
              [c \in Cols |-> IF c < x THEN @[c] ELSE IF c + n < Columns THEN @[c+n]
                              ELSE Blank]]
       \/ \E n \in 1..Lines : screen' =
              [r \in Rows |-> IF r < y THEN screen[r] ELSE IF r < y + n THEN BlankRow
                              ELSE screen[r-n]]
       \/ \E n \in 1..Lines : screen' =
              [r \in Rows |-> IF r < y THEN screen[r] ELSE IF r + n < Lines THEN screen[r+n]
                              ELSE BlankRow]
    /\ UNCHANGED <<x, y>> /\ Frame

Region == /\ top' \in Rows /\ bottom' \in 1..Lines /\ top' < bottom'
          /\ UNCHANGED <<screen, x, y, saved>>

Save == saved' = <<x, y>> /\ UNCHANGED <<screen, x, y, top, bottom>>

Restore == x' = saved[1] /\ y' = saved[2] /\ UNCHANGED screen /\ Frame

TInit == /\ screen \in [Rows -> [Cols -> Glyph \cup {Blank}]]
         /\ x \in Cols /\ y \in Rows
         /\ top = 0 /\ bottom = Lines /\ saved = <<0, 0>>

TNext == \/ \E g \in Glyph : Show(g)
         \/ Feed(x) \/ ReverseFeed \/ Tabulate \/ Rubout
         \/ Move \/ Erase \/ Shift \/ Region \/ Save \/ Restore

TSpec == TInit /\ [][TNext]_tvars
=============================================================================
