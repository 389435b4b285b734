--------------------------- MODULE ConsoleProofs ---------------------------
(***************************************************************************)
(* For every size of the screen, of the video memory and of the tab stops: *)
(* the variables for the cursor agree, every store is inside the video     *)
(* memory, and what the window shows is the display of module Terminal.    *)
(***************************************************************************)
EXTENDS Console, NaturalsInduction, WellFoundedInduction, TLAPS

Cell == {Mark, Blank, Alien}

\* Contents of memory with nothing stored before or behind the video memory.
Memory == {m \in [Banks -> Cell] : \A i \in Banks \ Video : m[i] = Alien}

Screen == [mem : Memory, origin : Int, scr_end : Int, pos : Int, x : Int, y : Int,
           top : Int, bottom : Int]

\* CursorExact of a display.
Exact(d) ==
    /\ d.pos = d.origin + d.y * Columns + d.x
    /\ d.scr_end = d.origin + Lines * Columns
    /\ d.x \in 0..Columns /\ d.y \in 0..Lines-1
    /\ d.origin >= 0 /\ d.scr_end <= ScreenEnd
    /\ 0 <= d.top /\ d.top < d.bottom /\ d.bottom <= Lines

Good(d) == d \in Screen /\ Exact(d)

LEMMA Sizes ==
    /\ Lines \in Nat /\ Lines >= 1 /\ Columns \in Nat /\ Columns >= 1
    /\ Tab \in Nat /\ Tab >= 1 /\ Columns % Tab = 0
    /\ ScreenEnd \in Nat /\ Lines * Columns <= ScreenEnd /\ Lines * Columns \in Nat
    /\ NPar \in Nat /\ NPar >= 2
BY ConsoleAssumption

-----------------------------------------------------------------------------
\* Rows of cells.
LEMMA Times0 == ASSUME NEW a \in Nat, NEW b \in Nat PROVE a * b \in Nat
OBVIOUS

LEMMA RowAfter ==
    ASSUME NEW r \in Int
    PROVE  r * Columns \in Int /\ (r + 1) * Columns = r * Columns + Columns
           /\ (r - 1) * Columns = r * Columns - Columns
BY Sizes

LEMMA RowOrder ==
    ASSUME NEW r \in Int, NEW s \in Int, r < s
    PROVE  r * Columns + Columns <= s * Columns
<1>1. PICK k \in Nat : s = r + 1 + k
  <2>1. s - r - 1 \in Nat /\ s = r + 1 + (s - r - 1)
    OBVIOUS
  <2> QED
    BY <2>1
<1>2. k * Columns \in Nat
  BY Sizes, Times0
<1>3. s * Columns = r * Columns + Columns + k * Columns
  BY <1>1, Sizes
<1> QED
  BY <1>2, <1>3, RowAfter, Sizes

\* A row of the screen is inside the window.
LEMMA RowInside ==
    ASSUME NEW r \in 0..Lines-1
    PROVE  0 <= r * Columns /\ r * Columns + Columns <= Lines * Columns /\ r * Columns \in Nat
BY RowOrder, Times0, Sizes

LEMMA RowBefore ==
    ASSUME NEW r \in 0..Lines
    PROVE  0 <= r * Columns /\ r * Columns <= Lines * Columns /\ r * Columns \in Nat
<1>1. CASE r = Lines
  BY <1>1, Sizes
<1>2. CASE r # Lines
  <2>1. r \in 0..Lines-1
    BY <1>2, Sizes
  <2> QED
    BY <2>1, RowInside, Sizes
<1> QED
  BY <1>1, <1>2

-----------------------------------------------------------------------------
\* Stores inside the video memory keep the memory what it is.
LEMMA ClearInside ==
    ASSUME NEW m \in Memory, NEW a \in Int, NEW n \in Int, 0 <= a, a + n <= ScreenEnd
    PROVE  Clear(m, a, n) \in Memory
BY Sizes DEF Clear, Memory, Cell, Banks, Video

LEMMA CopyInside ==
    ASSUME NEW m \in Memory, NEW to \in Int, NEW from \in Int, NEW n \in Int,
           0 <= to, to + n <= ScreenEnd, 0 <= from, from + n <= ScreenEnd
    PROVE  CopyCells(m, to, from, n) \in Memory
<1>1. \A i \in Banks : i \in to..to+n-1 => i \in Video /\ from + i - to \in Banks
  BY Sizes DEF Banks, Video
<1> QED
  BY <1>1, Sizes DEF CopyCells, Memory

LEMMA PutInside ==
    ASSUME NEW m \in Memory, NEW a \in Video, NEW c \in Cell
    PROVE  [m EXCEPT ![a] = c] \in Memory
BY DEF Memory

-----------------------------------------------------------------------------
\* The operations on a display.

\* A display with everything but its scrolling region set.
Set(d, m, o, s, p, c, r) ==
    [d EXCEPT !.mem = m, !.origin = o, !.scr_end = s, !.pos = p, !.x = c, !.y = r]

LEMMA SetFields ==
    ASSUME NEW d \in Screen, NEW m \in Memory, NEW o \in Int, NEW s \in Int, NEW p \in Int,
           NEW c \in Int, NEW r \in Int
    PROVE  LET e == Set(d, m, o, s, p, c, r)
           IN /\ e \in Screen /\ e.mem = m /\ e.origin = o /\ e.scr_end = s /\ e.pos = p
              /\ e.x = c /\ e.y = r /\ e.top = d.top /\ e.bottom = d.bottom
BY DEF Screen, Set

\* The fields of a display.
LEMMA Fields ==
    ASSUME NEW d, Good(d)
    PROVE  /\ d \in Screen /\ d.mem \in Memory
           /\ d.origin \in Int /\ d.scr_end \in Int /\ d.pos \in Int /\ d.x \in Int /\ d.y \in Int
           /\ d.top \in Int /\ d.bottom \in Int
           /\ d.pos = d.origin + d.y * Columns + d.x
           /\ d.scr_end = d.origin + Lines * Columns
           /\ d.x \in 0..Columns /\ d.y \in 0..Lines-1
           /\ d.origin >= 0 /\ d.scr_end <= ScreenEnd
           /\ 0 <= d.top /\ d.top < d.bottom /\ d.bottom <= Lines
BY DEF Good, Screen, Exact

LEMMA SetGood ==
    ASSUME NEW d, Good(d), NEW m \in Memory, NEW o \in Int, NEW s \in Int, NEW p \in Int,
           NEW c \in Int, NEW r \in Int, p = o + r * Columns + c, s = o + Lines * Columns,
           c \in 0..Columns, r \in 0..Lines-1, o >= 0, s <= ScreenEnd
    PROVE  Good(Set(d, m, o, s, p, c, r))
<1>1. PICK e : e = Set(d, m, o, s, p, c, r)
  OBVIOUS
<1>2. /\ e \in Screen /\ e.mem = m /\ e.origin = o /\ e.scr_end = s /\ e.pos = p
      /\ e.x = c /\ e.y = r /\ e.top = d.top /\ e.bottom = d.bottom
  BY <1>1, SetFields DEF Good
<1>3. 0 <= d.top /\ d.top < d.bottom /\ d.bottom <= Lines
  BY Fields
<1>4. Exact(e)
  BY <1>2, <1>3, Zenon DEF Exact
<1> QED
  BY <1>1, <1>2, <1>4 DEF Good

LEMMA MemGood ==
    ASSUME NEW d, Good(d), NEW m \in Memory
    PROVE  Good([d EXCEPT !.mem = m])
BY DEF Good, Screen, Exact

LEMMA GotoxyGood ==
    ASSUME NEW d, Good(d), NEW nx \in Int, NEW ny \in Int
    PROVE  Good(Gotoxy(d, nx, ny))
<1>1. CASE nx \in 0..Columns-1 /\ ny \in 0..Lines-1
  <2>1. PICK p : p = d.origin + ny * Columns + nx
    OBVIOUS
  <2>2. p \in Int
    BY <2>1, Fields, RowAfter
  <2>3. Gotoxy(d, nx, ny) = Set(d, d.mem, d.origin, d.scr_end, p, nx, ny)
    BY <1>1, <2>1, <2>2, Fields DEF Gotoxy, Set, Screen
  <2>4. nx \in 0..Columns
    BY <1>1, Sizes
  <2> QED
    BY <1>1, <2>1, <2>2, <2>3, <2>4, Fields, SetGood
<1>2. CASE ~(nx \in 0..Columns-1 /\ ny \in 0..Lines-1)
  BY <1>2 DEF Gotoxy
<1> QED
  BY <1>1, <1>2

\* The cursor of a row that moves inside it.
Slide(d, c, p) == [d EXCEPT !.x = c, !.pos = p]

LEMMA SlideGood ==
    ASSUME NEW d, Good(d), NEW c \in Int, NEW p \in Int, c \in 0..Columns,
           p - c = d.pos - d.x
    PROVE  Good(Slide(d, c, p))
<1>1. Slide(d, c, p) = Set(d, d.mem, d.origin, d.scr_end, p, c, d.y)
  BY Fields DEF Set, Screen, Slide
<1>2. PICK w \in Int : w = d.y * Columns
  BY Fields, RowAfter
<1>3. p = d.origin + w + c
  BY <1>2, Fields, Sizes
<1>4. c \in Int
  OBVIOUS
<1> QED
  BY <1>1, <1>2, <1>3, <1>4, Fields, SetGood

LEMMA CrGood == ASSUME NEW d, Good(d) PROVE Good(Cr(d))
<1>1. PICK p \in Int, c \in Int : p = d.pos - d.x /\ c = 0
  BY Fields
<1>2. Cr(d) = Slide(d, c, p)
  BY <1>1, Fields DEF Cr, Screen, Slide
<1>3. c \in 0..Columns /\ p - c = d.pos - d.x
  BY <1>1, Fields, Sizes
<1> QED
  BY <1>2, <1>3, SlideGood

LEMMA BackspaceGood == ASSUME NEW d, Good(d) PROVE Good(Backspace(d))
<1>1. CASE d.x > 0
  <2>1. PICK p \in Int, c \in Int : p = d.pos - 1 /\ c = d.x - 1
    BY Fields
  <2>2. Backspace(d) = Slide(d, c, p)
    BY <1>1, <2>1, Fields DEF Backspace, Slide
  <2>3. c \in 0..Columns /\ p - c = d.pos - d.x
    BY <1>1, <2>1, Fields, Sizes
  <2> QED
    BY <2>2, <2>3, SlideGood
<1>2. CASE ~(d.x > 0)
  BY <1>2 DEF Backspace
<1> QED
  BY <1>1, <1>2

LEMMA ScrupWholeGood ==
    ASSUME NEW d, Good(d)
    PROVE  Good(ScrupWhole(d))
<1>0. PICK o \in Int : o = d.origin + Columns
  BY Fields, Sizes
<1>e. PICK e \in Int : e = d.scr_end + Columns
  BY Fields, Sizes
<1>w. PICK w \in Int : w = d.y * Columns
  BY Fields, RowAfter
<1>1. (Lines - 1) * Columns = Lines * Columns - Columns /\ 0 <= Lines * Columns - Columns
  BY RowAfter, RowInside, Sizes
<1>2. CASE e > ScreenEnd
  <2> DEFINE m == Clear(CopyCells(d.mem, 0, o, (Lines-1) * Columns), (Lines-1) * Columns, Columns)
  <2>1. CopyCells(d.mem, 0, o, (Lines-1) * Columns) \in Memory
    BY <1>0, <1>1, Fields, CopyInside, Sizes
  <2>2. m \in Memory
    BY <1>0, <1>1, <2>1, Fields, ClearInside, Sizes
  <2>3. ScrupWhole(d) = [d EXCEPT !.mem = m, !.origin = 0, !.scr_end = e - o, !.pos = d.pos + Columns - o]
    BY <1>0, <1>e, <1>2 DEF ScrupWhole
  <2> HIDE DEF m
  <2>4. PICK s, p : s = e - o /\ p = d.pos + Columns - o
    OBVIOUS
  <2>5. s \in Int /\ p \in Int /\ s = 0 + Lines * Columns /\ p = 0 + w + d.x
    BY <1>0, <1>e, <1>w, <2>4, Fields, Sizes
  <2>6. ScrupWhole(d) = Set(d, m, 0, s, p, d.x, d.y)
    BY <2>2, <2>3, <2>4, <2>5, Fields DEF Set, Screen
  <2>7. 0 \in Int /\ 0 >= 0 /\ s <= ScreenEnd
    BY <2>5, Sizes
  <2>8. p = 0 + d.y * Columns + d.x
    BY <2>5, <1>w
  <2>9. d.x \in Int /\ d.y \in Int /\ d.x \in 0..Columns /\ d.y \in 0..Lines-1
    BY Fields
  <2> QED
    BY <2>2, <2>5, <2>6, <2>7, <2>8, <2>9, SetGood
<1>3. CASE ~(e > ScreenEnd)
  <2> DEFINE m == Clear(d.mem, e - Columns, Columns)
  <2>2. m \in Memory
    BY <1>3, <1>e, Fields, ClearInside, Sizes
  <2>3. ScrupWhole(d) = [d EXCEPT !.mem = m, !.origin = o, !.scr_end = e, !.pos = d.pos + Columns]
    BY <1>0, <1>e, <1>3 DEF ScrupWhole
  <2> HIDE DEF m
  <2>4. PICK p \in Int : p = d.pos + Columns
    BY Fields, Sizes
  <2>5. e = o + Lines * Columns /\ p = o + w + d.x /\ o >= 0 /\ e <= ScreenEnd
    BY <1>0, <1>e, <1>w, <1>3, <2>4, Fields, Sizes
  <2>6. ScrupWhole(d) = Set(d, m, o, e, p, d.x, d.y)
    BY <2>2, <2>3, <2>4, Fields DEF Set, Screen
  <2>8. p = o + d.y * Columns + d.x
    BY <2>5, <1>w
  <2>9. d.x \in Int /\ d.y \in Int /\ d.x \in 0..Columns /\ d.y \in 0..Lines-1
    BY Fields
  <2> QED
    BY <2>2, <2>5, <2>6, <2>8, <2>9, SetGood
<1> QED
  BY <1>2, <1>3

\* The rows between top and bottom.
LEMMA RegionInside ==
    ASSUME NEW d, Good(d)
    PROVE  /\ (d.bottom - d.top - 1) * Columns = d.bottom * Columns - d.top * Columns - Columns
           /\ Columns * d.top = d.top * Columns /\ Columns * (d.top + 1) = d.top * Columns + Columns
           /\ Columns * (d.bottom - 1) = d.bottom * Columns - Columns
           /\ d.top * Columns \in Nat /\ d.bottom * Columns \in Nat
           /\ d.top * Columns + Columns <= d.bottom * Columns
           /\ d.bottom * Columns <= Lines * Columns
<1>1. PICK t \in Int, b \in Int : t = d.top /\ b = d.bottom
  BY Fields
<1>2. t \in 0..Lines /\ b \in 0..Lines /\ t < b
  BY <1>1, Fields, Sizes
<1>3. t * Columns + Columns <= b * Columns
  BY <1>2, RowOrder
<1>4. t * Columns \in Nat /\ b * Columns \in Nat /\ b * Columns <= Lines * Columns
  BY <1>2, RowBefore
<1>5. Columns * t = t * Columns /\ Columns * (t + 1) = t * Columns + Columns
  BY Sizes
<1>6. Columns * (b - 1) = b * Columns - Columns
  BY Sizes
<1>7. (b - t - 1) * Columns = b * Columns - t * Columns - Columns
  BY Sizes
<1> QED
  BY <1>1, <1>3, <1>4, <1>5, <1>6, <1>7, Zenon

LEMMA ScrdownGood == ASSUME NEW d, Good(d) PROVE Good(Scrdown(d))
<1> DEFINE m == CopyCells(d.mem, d.origin + Columns * (d.top + 1), d.origin + Columns * d.top,
                          (d.bottom - d.top - 1) * Columns)
<1>1. m \in Memory
  BY Fields, RegionInside, CopyInside, Sizes
<1> HIDE DEF m
<1>2. Clear(m, d.origin + Columns * d.top, Columns) \in Memory
  BY <1>1, Fields, RegionInside, ClearInside, Sizes
<1>3. Scrdown(d) = [d EXCEPT !.mem = Clear(m, d.origin + Columns * d.top, Columns)]
  BY DEF Scrdown, m
<1> QED
  BY <1>2, <1>3, MemGood

LEMMA ScrupGood == ASSUME NEW d, Good(d) PROVE Good(Scrup(d))
<1>1. CASE d.top = 0 /\ d.bottom = Lines
  BY <1>1, ScrupWholeGood DEF Scrup
<1>2. CASE ~(d.top = 0 /\ d.bottom = Lines)
  <2> DEFINE m == CopyCells(d.mem, d.origin + Columns * d.top, d.origin + Columns * (d.top + 1),
                            (d.bottom - d.top - 1) * Columns)
  <2>1. m \in Memory
    BY Fields, RegionInside, CopyInside, Sizes
  <2> HIDE DEF m
  <2>2. Clear(m, d.origin + Columns * (d.bottom - 1), Columns) \in Memory
    BY <2>1, Fields, RegionInside, ClearInside, Sizes
  <2>3. Scrup(d) = [d EXCEPT !.mem = Clear(m, d.origin + Columns * (d.bottom - 1), Columns)]
    BY <1>2 DEF Scrup, m
  <2> QED
    BY <2>2, <2>3, MemGood
<1> QED
  BY <1>1, <1>2

\* Line feeds keep the column.
LEMMA ScrupX == ASSUME NEW d, Good(d) PROVE Scrup(d).x = d.x /\ Scrup(d).y = d.y
BY Fields DEF Scrup, ScrupWhole, Screen

LEMMA LfGood == ASSUME NEW d, Good(d) PROVE Good(Lf(d)) /\ Lf(d).x = d.x
<1>1. CASE d.y + 1 < d.bottom
  <2>1. PICK r \in Int, p \in Int : r = d.y + 1 /\ p = d.pos + Columns
    BY Fields, Sizes
  <2>2. Lf(d) = Set(d, d.mem, d.origin, d.scr_end, p, d.x, r)
    BY <1>1, <2>1, Fields DEF Lf, Set, Screen
  <2>3. r \in 0..Lines-1
    BY <1>1, <2>1, Fields, Sizes
  <2>4. PICK w \in Int : w = d.y * Columns
    BY Fields, RowAfter
  <2>5. r * Columns = w + Columns
    BY <2>1, <2>4, Fields, RowAfter
  <2>6. p = d.origin + (w + Columns) + d.x
    BY <2>1, <2>4, Fields, Sizes
  <2>7. p = d.origin + r * Columns + d.x
    BY <2>5, <2>6
  <2>8. Good(Set(d, d.mem, d.origin, d.scr_end, p, d.x, r))
    BY <2>3, <2>7, Fields, SetGood
  <2>9. Set(d, d.mem, d.origin, d.scr_end, p, d.x, r).x = d.x
    BY Fields, SetFields
  <2> QED
    BY <2>2, <2>8, <2>9
<1>2. CASE ~(d.y + 1 < d.bottom)
  BY <1>2, ScrupGood, ScrupX DEF Lf
<1> QED
  BY <1>1, <1>2

LEMMA RiGood == ASSUME NEW d, Good(d) PROVE Good(Ri(d))
<1>1. CASE d.y > d.top
  <2>1. PICK r \in Int, p \in Int : r = d.y - 1 /\ p = d.pos - Columns
    BY Fields, Sizes
  <2>2. Ri(d) = Set(d, d.mem, d.origin, d.scr_end, p, d.x, r)
    BY <1>1, <2>1, Fields DEF Ri, Set, Screen
  <2>3. r \in 0..Lines-1
    BY <1>1, <2>1, Fields, Sizes
  <2>4. PICK w \in Int : w = d.y * Columns
    BY Fields, RowAfter
  <2>5. r * Columns = w - Columns
    BY <2>1, <2>4, Fields, RowAfter
  <2>6. p = d.origin + (w - Columns) + d.x
    BY <2>1, <2>4, Fields, Sizes
  <2>7. p = d.origin + r * Columns + d.x
    BY <2>5, <2>6
  <2>8. Good(Set(d, d.mem, d.origin, d.scr_end, p, d.x, r))
    BY <2>3, <2>7, Fields, SetGood
  <2> QED
    BY <2>2, <2>8
<1>2. CASE ~(d.y > d.top)
  BY <1>2, ScrdownGood DEF Ri
<1> QED
  BY <1>1, <1>2

\* The cursor is inside the video memory unless the row is full.
LEMMA PosInside ==
    ASSUME NEW d, Good(d)
    PROVE  /\ d.origin <= d.pos - d.x /\ d.pos - d.x + Columns <= d.scr_end
           /\ d.pos - d.x \in Int
<1>1. PICK w \in Int : w = d.y * Columns /\ 0 <= w /\ w + Columns <= Lines * Columns
  BY Fields, RowInside
<1> QED
  BY <1>1, Fields, Sizes

LEMMA DelGood == ASSUME NEW d, Good(d) PROVE Good(Del(d))
<1>1. CASE d.x # 0
  <2>1. PICK b : b = Backspace(d)
    OBVIOUS
  <2>2. Good(b)
    BY <2>1, BackspaceGood
  <2>3. b.x = d.x - 1
    BY <1>1, <2>1, Fields DEF Backspace, Screen
  <2>4. 0 <= b.pos /\ b.pos + 1 <= ScreenEnd /\ b.pos \in Int /\ b.mem \in Memory
    BY <2>2, <2>3, Fields, PosInside, Sizes
  <2>5. Clear(b.mem, b.pos, 1) \in Memory
    BY <2>4, ClearInside
  <2> QED
    BY <1>1, <2>1, <2>2, <2>5, MemGood DEF Del
<1>2. CASE d.x = 0
  BY <1>2 DEF Del
<1> QED
  BY <1>1, <1>2

\* x past the last column, but by no more than a row.
LEMMA WrapGood ==
    ASSUME NEW d, Good(d), NEW k \in Int, d.x + k \in Columns..Columns + Columns
    PROVE  LET t == [d EXCEPT !.x = d.x + k, !.pos = d.pos + k]
           IN Good(Wrap(t)) /\ Wrap(t).x = d.x + k - Columns
<1>1. PICK t : t = [d EXCEPT !.x = d.x + k, !.pos = d.pos + k]
  OBVIOUS
<1>2. PICK c \in Int, p \in Int : c = d.x + k - Columns /\ p = d.pos + k - Columns
  BY Fields, Sizes
<1>3. [t EXCEPT !.x = @ - Columns, !.pos = @ - Columns] = Slide(d, c, p)
  <2>1. PICK u \in Int, v \in Int : u = d.x + k /\ v = d.pos + k
    BY Fields
  <2>2. t = [d EXCEPT !.x = u, !.pos = v] /\ d \in Screen
    BY <1>1, <2>1, Fields
  <2>3. t.x = u /\ t.pos = v
    BY <2>2 DEF Screen
  <2>4. t.x - Columns = c /\ t.pos - Columns = p
    <3>1. d.x \in Int /\ d.pos \in Int /\ Columns \in Int
      BY Fields, Sizes
    <3> QED
      BY <1>2, <2>1, <2>3, <3>1
  <2>5. [t EXCEPT !.x = c, !.pos = p] = [d EXCEPT !.x = c, !.pos = p]
    BY <2>2 DEF Screen
  <2> QED
    BY <2>4, <2>5 DEF Slide
<1>4. c \in 0..Columns /\ p - c = d.pos - d.x
  BY <1>2, Fields, Sizes
<1>5. Good(Slide(d, c, p))
  BY <1>4, SlideGood
<1>6. Slide(d, c, p).x = c
  BY Fields DEF Slide, Screen
<1>7. Wrap(t) = Lf(Slide(d, c, p))
  BY <1>3 DEF Wrap
<1>8. Good(Wrap(t)) /\ Wrap(t).x = d.x + k - Columns
  BY <1>2, <1>5, <1>6, <1>7, LfGood
<1> QED
  BY <1>1, <1>8

LEMMA PrintWrapped ==
    ASSUME NEW d, Good(d)
    PROVE  LET w == IF d.x >= Columns THEN Wrap(d) ELSE d IN Good(w) /\ w.x < Columns
<1>1. CASE d.x >= Columns
  <2>1. PICK k \in Int : k = 0
    OBVIOUS
  <2>2. d = [d EXCEPT !.x = d.x + k, !.pos = d.pos + k]
    <3>1. d.x + k = d.x /\ d.pos + k = d.pos /\ d \in Screen
      BY <2>1, Fields
    <3>2. d = [d EXCEPT !.x = d.x, !.pos = d.pos]
      BY <3>1 DEF Screen
    <3> QED
      BY <3>1, <3>2
  <2>3. d.x + k \in Columns..Columns + Columns /\ d.x + k - Columns < Columns
    BY <1>1, <2>1, Fields, Sizes
  <2>4. Good(Wrap(d)) /\ Wrap(d).x = d.x + k - Columns
    BY <2>2, <2>3, WrapGood
  <2> QED
    BY <1>1, <2>3, <2>4
<1>2. CASE ~(d.x >= Columns)
  BY <1>2, Fields, Sizes
<1> QED
  BY <1>1, <1>2

LEMMA Print1Good == ASSUME NEW d, Good(d) PROVE Good(Print1(d))
<1>1. PICK w : w = IF d.x >= Columns THEN Wrap(d) ELSE d
  OBVIOUS
<1>2. Good(w) /\ w.x < Columns
  BY <1>1, PrintWrapped
<1>3. w.pos \in Video /\ w.pos \in Int
  BY <1>2, Fields, PosInside, Sizes DEF Video
<1>4. PICK m \in Memory : m = [w.mem EXCEPT ![w.pos] = Mark]
  <2>1. Mark \in Cell
    BY DEF Cell
  <2> QED
    BY <1>2, <1>3, <2>1, Fields, PutInside
<1>5. PICK c \in Int, p \in Int : c = w.x + 1 /\ p = w.pos + 1
  BY <1>2, Fields
<1>6. c \in 0..Columns /\ p - c = w.pos - w.x
  BY <1>2, <1>5, Fields, Sizes
<1>7. PICK s : s = Slide(w, c, p)
  OBVIOUS
<1>8. Good(s)
  BY <1>2, <1>6, <1>7, SlideGood
<1>9. Print1(d) = [s EXCEPT !.mem = m]
  <2>1. Print1(d) = [w EXCEPT !.mem = m, !.pos = p, !.x = c]
    BY <1>1, <1>4, <1>5 DEF Print1
  <2>2. s = [w EXCEPT !.x = c, !.pos = p] /\ w \in Screen
    BY <1>2, <1>7, Fields DEF Slide
  <2> QED
    BY <2>1, <2>2 DEF Screen
<1> QED
  BY <1>8, <1>9, MemGood

\* The distance to the next stop.
LEMMA StopNear ==
    ASSUME NEW c \in Int
    PROVE  Tab - (c % Tab) \in 1..Tab /\ Tab <= Columns
<1>1. c % Tab \in 0..Tab-1
  BY Sizes
<1>2. Tab <= Columns
  <2>1. CASE Tab > Columns
    <3>1. Columns % Tab = Columns
      BY <2>1, Sizes
    <3> QED
      BY <3>1, Sizes
  <2> QED
    BY <2>1, Sizes
<1> QED
  BY <1>1, <1>2, Sizes

LEMMA HorizontalTabGood == ASSUME NEW d, Good(d) PROVE Good(HorizontalTab(d))
<1>1. PICK k \in Int : k = Tab - (d.x % Tab)
  BY Fields, StopNear
<1>2. k \in 1..Tab /\ Tab <= Columns
  BY <1>1, Fields, StopNear
<1>3. PICK t : t = [d EXCEPT !.x = d.x + k, !.pos = d.pos + k]
  OBVIOUS
<1>4. HorizontalTab(d) = IF t.x > Columns THEN Wrap(t) ELSE t
  BY <1>1, <1>3 DEF HorizontalTab
<1>5. t.x = d.x + k
  BY <1>3, Fields DEF Screen
<1>6. CASE t.x > Columns
  <2>1. d.x + k \in Columns..Columns + Columns
    BY <1>2, <1>5, <1>6, Fields, Sizes
  <2> QED
    BY <1>3, <1>4, <1>6, <2>1, WrapGood
<1>7. CASE ~(t.x > Columns)
  <2>1. PICK c \in Int, p \in Int : c = d.x + k /\ p = d.pos + k
    BY Fields
  <2>2. c \in 0..Columns /\ p - c = d.pos - d.x
    BY <1>2, <1>5, <1>7, <2>1, Fields, Sizes
  <2>3. t = Slide(d, c, p)
    BY <1>3, <2>1 DEF Slide
  <2> QED
    BY <1>4, <1>7, <2>2, <2>3, SlideGood
<1> QED
  BY <1>6, <1>7

-----------------------------------------------------------------------------
\* Erasing, inserting and deleting.
LEMMA CsiJGood == ASSUME NEW d, Good(d), NEW v \in Int PROVE Good(CsiJ(d, v))
<1>0. /\ d.mem \in Memory /\ d.pos \in Int /\ d.origin \in Int /\ d.scr_end \in Int
      /\ 0 <= d.origin /\ d.scr_end <= ScreenEnd /\ ScreenEnd \in Int
      /\ d.origin <= d.pos /\ d.pos <= d.scr_end /\ d.origin + Columns * Lines = d.scr_end
      /\ Columns * Lines \in Int
  BY Fields, PosInside, Sizes
<1>1. CASE v = 0
  <2>1. Clear(d.mem, d.pos, d.scr_end - d.pos) \in Memory
    BY <1>0, ClearInside
  <2> QED
    BY <1>1, <2>1, MemGood DEF CsiJ
<1>2. CASE v = 1
  <2>1. Clear(d.mem, d.origin, d.pos - d.origin) \in Memory
    BY <1>0, ClearInside
  <2> QED
    BY <1>2, <2>1, MemGood DEF CsiJ
<1>3. CASE v = 2
  <2>1. PICK n \in Int : n = Columns * Lines
    BY <1>0
  <2>2. Clear(d.mem, d.origin, n) \in Memory
    BY <1>0, <2>1, ClearInside
  <2> QED
    BY <1>3, <2>1, <2>2, MemGood DEF CsiJ
<1>4. CASE v \notin {0, 1, 2}
  BY <1>4 DEF CsiJ
<1> QED
  BY <1>1, <1>2, <1>3, <1>4

LEMMA CsiKGood == ASSUME NEW d, Good(d), NEW v \in Int PROVE Good(CsiK(d, v))
<1>0. /\ d.mem \in Memory /\ d.pos \in Int /\ d.x \in 0..Columns /\ Columns \in Int
      /\ 0 <= d.pos - d.x /\ d.pos - d.x + Columns <= ScreenEnd /\ ScreenEnd \in Int
  BY Fields, PosInside, Sizes
<1>1. CASE v = 0
  <2>1. CASE d.x < Columns
    <3>1. Clear(d.mem, d.pos, Columns - d.x) \in Memory
      BY <1>0, <2>1, ClearInside
    <3> QED
      BY <1>0, <1>1, <2>1, <3>1, MemGood DEF CsiK
  <2>2. CASE d.x >= Columns
    BY <1>1, <2>2 DEF CsiK
  <2> QED
    BY <1>0, <2>1, <2>2
<1>2. CASE v = 1
  <2>1. PICK n \in Int : n = IF d.x < Columns THEN d.x ELSE Columns
    BY <1>0
  <2>2. Clear(d.mem, d.pos - d.x, n) \in Memory
    BY <1>0, <2>1, ClearInside
  <2> QED
    BY <1>2, <2>1, <2>2, MemGood DEF CsiK
<1>3. CASE v = 2
  <2>1. Clear(d.mem, d.pos - d.x, Columns) \in Memory
    BY <1>0, ClearInside
  <2> QED
    BY <1>3, <2>1, MemGood DEF CsiK
<1>4. CASE v \notin {0, 1, 2}
  BY <1>4 DEF CsiK
<1> QED
  BY <1>1, <1>2, <1>3, <1>4

LEMMA InsertCharGood == ASSUME NEW d, Good(d) PROVE Good(InsertChar(d))
<1>0. /\ d.mem \in Memory /\ d.pos \in Int /\ d.x \in 0..Columns /\ Columns \in Int
      /\ 0 <= d.pos - d.x /\ d.pos - d.x + Columns <= ScreenEnd /\ ScreenEnd \in Int
  BY Fields, PosInside, Sizes
<1>1. CASE d.x < Columns
  <2>1. PICK m : m = CopyCells(d.mem, d.pos + 1, d.pos, Columns - d.x - 1)
    OBVIOUS
  <2>2. m \in Memory
    BY <1>0, <1>1, <2>1, CopyInside
  <2>3. Clear(m, d.pos, 1) \in Memory
    BY <1>0, <1>1, <2>2, ClearInside
  <2> QED
    BY <1>0, <1>1, <2>1, <2>3, MemGood DEF InsertChar
<1>2. CASE d.x >= Columns
  BY <1>2 DEF InsertChar
<1> QED
  BY <1>0, <1>1, <1>2

LEMMA DeleteCharGood == ASSUME NEW d, Good(d) PROVE Good(DeleteChar(d))
<1>0. /\ d.mem \in Memory /\ d.pos \in Int /\ d.x \in 0..Columns /\ Columns \in Int
      /\ 0 <= d.pos - d.x /\ d.pos - d.x + Columns <= ScreenEnd /\ ScreenEnd \in Int
  BY Fields, PosInside, Sizes
<1>1. CASE d.x < Columns
  <2>1. PICK m : m = CopyCells(d.mem, d.pos, d.pos + 1, Columns - d.x - 1)
    OBVIOUS
  <2>2. m \in Memory
    BY <1>0, <1>1, <2>1, CopyInside
  <2>3. Clear(m, d.pos + Columns - d.x - 1, 1) \in Memory
    BY <1>0, <1>1, <2>2, ClearInside
  <2> QED
    BY <1>0, <1>1, <2>1, <2>3, MemGood DEF DeleteChar
<1>2. CASE d.x >= Columns
  BY <1>2 DEF DeleteChar
<1> QED
  BY <1>0, <1>1, <1>2

\* A display with another scrolling region.
LEMMA RegionGood ==
    ASSUME NEW d, Good(d), NEW t \in Int, NEW b \in Int, 0 <= t, t < b, b <= Lines
    PROVE  Good([d EXCEPT !.top = t, !.bottom = b])
<1>1. PICK e : e = [d EXCEPT !.top = t, !.bottom = b]
  OBVIOUS
<1>2. /\ e \in Screen /\ e.mem = d.mem /\ e.origin = d.origin /\ e.scr_end = d.scr_end
      /\ e.pos = d.pos /\ e.x = d.x /\ e.y = d.y /\ e.top = t /\ e.bottom = b
  <2>1. d \in Screen
    BY Fields
  <2> QED
    BY <1>1, <2>1 DEF Screen
<1>3. Exact(d)
  BY DEF Good
<1>4. Exact(e)
  BY <1>2, <1>3, Zenon DEF Exact
<1> QED
  BY <1>1, <1>2, <1>4 DEF Good

LEMMA InsertLineGood == ASSUME NEW d, Good(d) PROVE Good(InsertLine(d))
<1>1. PICK e : e = [d EXCEPT !.top = d.y, !.bottom = Lines]
  OBVIOUS
<1>2. d.y \in Int /\ Lines \in Int /\ 0 <= d.y /\ d.y < Lines /\ Lines <= Lines
  BY Fields, Sizes
<1>3. Good(e)
  BY <1>1, <1>2, RegionGood
<1>4. Good(Scrdown(e))
  BY <1>3, ScrdownGood
<1>5. d.top \in Int /\ d.bottom \in Int /\ 0 <= d.top /\ d.top < d.bottom /\ d.bottom <= Lines
  BY Fields
<1> QED
  BY <1>1, <1>4, <1>5, RegionGood DEF InsertLine, FromCursor

LEMMA DeleteLineGood == ASSUME NEW d, Good(d) PROVE Good(DeleteLine(d))
<1>1. PICK e : e = [d EXCEPT !.top = d.y, !.bottom = Lines]
  OBVIOUS
<1>2. d.y \in Int /\ Lines \in Int /\ 0 <= d.y /\ d.y < Lines /\ Lines <= Lines
  BY Fields, Sizes
<1>3. Good(e)
  BY <1>1, <1>2, RegionGood
<1>4. Good(Scrup(e))
  BY <1>3, ScrupGood
<1>5. d.top \in Int /\ d.bottom \in Int /\ 0 <= d.top /\ d.top < d.bottom /\ d.bottom <= Lines
  BY Fields
<1> QED
  BY <1>1, <1>4, <1>5, RegionGood DEF DeleteLine, FromCursor

LEMMA OnceGood ==
    ASSUME NEW d, Good(d), NEW c \in {"L", "M", "P", "@"} PROVE Good(Once(c, d))
BY InsertLineGood, DeleteLineGood, InsertCharGood, DeleteCharGood, Zenon DEF Once

\* Every set of numbers that is not empty has a least one.
LEMMA LeastExists ==
    ASSUME NEW S \in SUBSET Nat, S # {}
    PROVE  \E x \in S : \A y \in S : x <= y
<1> DEFINE R == {ss \in Nat \X Nat : ss[1] < ss[2]}
<1>1. OpToRel(<, Nat) = R
  BY Zenon DEF OpToRel
<1>2. IsWellFoundedOn(R, Nat)
  BY <1>1, NatLessThanWellFounded, Zenon
<1> HIDE DEF R
<1>3. PICK x \in S : \A y \in S : ~(<<y, x>> \in R)
  BY <1>2, WFMin, Zenon
<1>4. ASSUME NEW y \in S, y < x PROVE FALSE
  <2>1. <<y, x>> \in Nat \X Nat /\ <<y, x>>[1] < <<y, x>>[2]
    BY <1>4
  <2> QED
    BY <1>3, <2>1 DEF R
<1> QED
  BY <1>4

\* f does c i times to d, for i up to n.
Doing(f, c, d, n) == f = [i \in 0..n |-> IF i = 0 THEN d ELSE Once(c, f[i-1])]

LEMMA DoingFacts ==
    ASSUME NEW f, NEW c, NEW d, NEW n \in Nat, Doing(f, c, d, n)
    PROVE  /\ f[0] = d
           /\ \A i \in 0..n : i # 0 => f[i] = Once(c, f[i-1])
BY DEF Doing

\* What Times names exists.
LEMMA DoingExists ==
    ASSUME NEW c, NEW d, NEW n \in Nat
    PROVE  \E f : Doing(f, c, d, n)
<1> DEFINE S == {k \in Nat : ~\E f : Doing(f, c, d, k)}
<1>1. SUFFICES ASSUME S # {} PROVE FALSE
  OBVIOUS
<1>2. PICK k \in S : \A y \in S : k <= y
  <2>1. S \in SUBSET Nat
    OBVIOUS
  <2> HIDE DEF S
  <2> QED
    BY <1>1, <2>1, LeastExists
<1>3. CASE k = 0
  <2>1. Doing([i \in 0..0 |-> d], c, d, 0)
    BY DEF Doing
  <2> QED
    BY <1>2, <1>3, <2>1
<1>4. CASE k # 0
  <2>1. k - 1 \in Nat /\ k - 1 \notin S
    BY <1>2, <1>4
  <2>2. PICK f : Doing(f, c, d, k - 1)
    BY <2>1
  <2> DEFINE g == [i \in 0..k |-> IF i = k THEN Once(c, f[k-1]) ELSE f[i]]
  <2>3. ASSUME NEW i \in 0..k
        PROVE  g[i] = IF i = 0 THEN d ELSE Once(c, g[i-1])
    <3>1. CASE i = k
      <4>1. k - 1 \in 0..k /\ k - 1 # k
        BY <1>4
      <4> QED
        BY <1>4, <3>1, <4>1
    <3>2. CASE i # k /\ i = 0
      BY <2>1, <2>2, <3>2, DoingFacts
    <3>3. CASE i # k /\ i # 0
      <4>1. i \in 0..k-1 /\ i - 1 \in 0..k /\ i - 1 # k
        BY <3>3
      <4>2. f[i] = Once(c, f[i-1])
        BY <2>1, <2>2, <3>3, <4>1, DoingFacts
      <4> QED
        BY <3>3, <4>1, <4>2
    <3> QED
      BY <3>1, <3>2, <3>3
  <2>4. g = [i \in 0..k |-> g[i]]
    OBVIOUS
  <2> HIDE DEF g
  <2>5. g = [i \in 0..k |-> IF i = 0 THEN d ELSE Once(c, g[i-1])]
    BY <2>3, <2>4
  <2>6. Doing(g, c, d, k)
    BY <2>5 DEF Doing
  <2> QED
    BY <1>2, <2>6
<1> QED
  BY <1>3, <1>4

LEMMA TimesDone ==
    ASSUME NEW c, NEW d, NEW n \in Nat
    PROVE  \E f : Doing(f, c, d, n) /\ Times(c, d, n) = f[n]
<1>1. PICK f : f = CHOOSE h : h = [i \in 0..n |-> IF i = 0 THEN d ELSE Once(c, h[i-1])]
  OBVIOUS
<1>2. \E h : h = [i \in 0..n |-> IF i = 0 THEN d ELSE Once(c, h[i-1])]
  <2>1. PICK h : Doing(h, c, d, n)
    BY DoingExists
  <2>2. h = [i \in 0..n |-> IF i = 0 THEN d ELSE Once(c, h[i-1])]
    BY <2>1 DEF Doing
  <2> QED
    BY <2>2, Zenon
<1>3. Doing(f, c, d, n)
  BY <1>1, <1>2, Zenon DEF Doing
<1>4. Times(c, d, n) = f[n]
  BY <1>1, Zenon DEF Times
<1> QED
  BY <1>3, <1>4

LEMMA TimesGood ==
    ASSUME NEW d, Good(d), NEW c \in {"L", "M", "P", "@"}, NEW n \in Nat
    PROVE  Good(Times(c, d, n))
<1>1. PICK f : Doing(f, c, d, n) /\ Times(c, d, n) = f[n]
  BY TimesDone
<1> DEFINE S == {k \in 0..n : ~Good(f[k])}
<1>2. SUFFICES ASSUME S # {} PROVE FALSE
  BY <1>1
<1>3. PICK k \in S : \A y \in S : k <= y
  <2>1. S \in SUBSET Nat
    OBVIOUS
  <2> HIDE DEF S
  <2> QED
    BY <1>2, <2>1, LeastExists
<1>4. CASE k = 0
  BY <1>1, <1>3, <1>4, DoingFacts
<1>5. CASE k # 0
  <2>1. k - 1 \in 0..n /\ k - 1 \notin S
    BY <1>3, <1>5
  <2>2. Good(f[k-1])
    BY <2>1
  <2>3. f[k] = Once(c, f[k-1])
    BY <1>1, <1>3, <1>5, DoingFacts
  <2> QED
    BY <1>3, <2>2, <2>3, OnceGood
<1> QED
  BY <1>4, <1>5

-----------------------------------------------------------------------------
\* The parser: the parameters are numbers and the saved cursor is one of the
\* screen's.
Pars == [0..NPar-1 -> Nat]

Parsed == /\ par \in Pars /\ npar \in 0..NPar-1
          /\ saved \in (0..Columns) \X (0..Lines-1)

IInv == Good(con) /\ Parsed

LEMMA Parameters ==
    ASSUME Parsed
    PROVE  /\ par[0] \in Nat /\ par[1] \in Nat
           /\ AtLeastOne(par[0]) \in Nat
           /\ LessOne(par[0]) \in Nat /\ LessOne(par[1]) \in Nat
BY Sizes DEF Parsed, Pars, AtLeastOne, LessOne

LEMMA MovedGood ==
    ASSUME NEW d, Good(d), Parsed, NEW c \in Relative \cup Absolute
    PROVE  Good(Moved(d, c))
<1>1. PICK n \in Int : n = AtLeastOne(par[0])
  BY Parameters
<1>2. PICK u \in Int, v \in Int : u = LessOne(par[0]) /\ v = LessOne(par[1])
  BY Parameters
<1>3. d.x \in Int /\ d.y \in Int /\ 0 \in Int
  BY Fields
<1>4. d.x - n \in Int /\ d.x + n \in Int /\ d.y - n \in Int /\ d.y + n \in Int
  BY <1>3
<1>5. \A nx, ny \in Int : Good(Gotoxy(d, nx, ny))
  BY GotoxyGood
<1>6. \/ c = "A" \/ c = "B" \/ c = "C" \/ c = "D" \/ c = "E" \/ c = "F"
      \/ c = "G" \/ c = "d" \/ c = "H"
  BY DEF Relative, Absolute
<1> QED
  BY <1>1, <1>2, <1>3, <1>4, <1>5, <1>6, Zenon DEF Moved

LEMMA EditedGood ==
    ASSUME NEW d, Good(d), Parsed, NEW c \in Edits
    PROVE  Good(Edited(d, c))
<1>1. par[0] \in Int /\ Turns(par[0], Lines) \in Nat /\ Turns(par[0], Columns) \in Nat
  BY Parameters, Sizes DEF Turns
<1>2. CASE c = "J"
  BY <1>1, <1>2, CsiJGood, Zenon DEF Edited
<1>3. CASE c = "K"
  BY <1>1, <1>3, CsiKGood, Zenon DEF Edited
<1>4. CASE c \in {"L", "M"}
  <2>1. Edited(d, c) = Times(c, d, Turns(par[0], Lines))
    BY <1>4, Zenon DEF Edited
  <2>2. c \in {"L", "M", "P", "@"}
    BY <1>4, Zenon
  <2> QED
    BY <1>1, <2>1, <2>2, TimesGood, Zenon
<1>5. CASE c \in {"P", "@"}
  <2>1. Edited(d, c) = Times(c, d, Turns(par[0], Columns))
    BY <1>5, Zenon DEF Edited
  <2>2. c \in {"L", "M", "P", "@"}
    BY <1>5, Zenon
  <2> QED
    BY <1>1, <2>1, <2>2, TimesGood, Zenon
<1> QED
  BY <1>2, <1>3, <1>4, <1>5, Zenon DEF Edits

LEMMA RegionedGood ==
    ASSUME NEW d, Good(d), Parsed
    PROVE  Good(Regioned(d))
<1>1. PICK t \in Int : t = LessOne(par[0]) /\ t >= 0
  BY Parameters
<1>2. PICK b \in Int : b = IF par[1] = 0 THEN Lines ELSE par[1]
  BY Parameters, Sizes
<1>3. Regioned(d) = IF t < b /\ b <= Lines THEN [d EXCEPT !.top = t, !.bottom = b] ELSE d
  BY <1>1, <1>2 DEF Regioned
<1>4. CASE t < b /\ b <= Lines
  <2>1. 0 <= t /\ t < b /\ b <= Lines
    BY <1>1, <1>4
  <2>2. Good([d EXCEPT !.top = t, !.bottom = b])
    BY <2>1, RegionGood, Zenon
  <2> QED
    BY <1>3, <1>4, <2>2
<1>5. CASE ~(t < b /\ b <= Lines)
  BY <1>3, <1>5
<1> QED
  BY <1>4, <1>5

LEMMA RestoreCurGood ==
    ASSUME NEW d, Good(d), Parsed
    PROVE  Good(RestoreCur(d))
<1>1. PICK c \in Int, r \in Int : c = saved[1] /\ r = saved[2]
  BY DEF Parsed
<1>2. c \in 0..Columns /\ r \in 0..Lines-1
  BY <1>1 DEF Parsed
<1>3. PICK p \in Int : p = d.origin + r * Columns + c
  BY Fields, RowAfter
<1>4. RestoreCur(d) = Set(d, d.mem, d.origin, d.scr_end, p, c, r)
  <2>1. RestoreCur(d) = [d EXCEPT !.x = c, !.y = r, !.pos = p]
    BY <1>1, <1>3 DEF RestoreCur
  <2>2. d \in Screen
    BY Fields
  <2> QED
    BY <2>1, <2>2 DEF Set, Screen
<1> QED
  BY <1>2, <1>3, <1>4, Fields, SetGood

-----------------------------------------------------------------------------
\* The actions.
LEMMA DisplayStep ==
    ASSUME Parsed, NEW d, Good(d), Display(d), par' \in Pars, npar' \in 0..NPar-1
    PROVE  IInv'
<1>1. Good(con)' /\ saved' = saved
  BY DEF Display
<1> QED
  BY <1>1 DEF IInv, Parsed, Pars

LEMMA SaveStep ==
    ASSUME IInv, saved' = <<con.x, con.y>>, UNCHANGED con, par' \in Pars, npar' \in 0..NPar-1
    PROVE  IInv'
<1>1. con.x \in 0..Columns /\ con.y \in 0..Lines-1
  BY Fields DEF IInv
<1> QED
  BY <1>1 DEF IInv, Parsed, Pars

LEMMA StutterStep ==
    ASSUME IInv, UNCHANGED <<con, saved>>, par' \in Pars, npar' \in 0..NPar-1
    PROVE  IInv'
BY DEF IInv, Parsed, Pars

LEMMA TextStep == ASSUME IInv, Text PROVE IInv'
<1>1. Good(con) /\ Parsed /\ par \in Pars /\ npar \in 0..NPar-1
  BY DEF IInv, Parsed
<1>2. par' = par /\ npar' = npar
  BY DEF Text, Stay
<1>3. par' \in Pars /\ npar' \in 0..NPar-1
  BY <1>1, <1>2
<1>4. \/ Display(Print1(con)) \/ Display(Lf(con)) \/ Display(Cr(con)) \/ Display(Del(con))
      \/ Display(Backspace(con)) \/ Display(HorizontalTab(con))
      \/ UNCHANGED <<con, saved>>
  BY DEF Text
<1> QED
  BY <1>1, <1>3, <1>4, DisplayStep, StutterStep, Print1Good, LfGood, CrGood, DelGood,
     BackspaceGood, HorizontalTabGood, Zenon

LEMMA EscapeStep == ASSUME IInv, Escape PROVE IInv'
<1>1. Good(con) /\ Parsed /\ par \in Pars /\ npar \in 0..NPar-1
  BY DEF IInv, Parsed
<1>2. par' = par /\ npar' = npar
  BY DEF Escape
<1>3. par' \in Pars /\ npar' \in 0..NPar-1
  BY <1>1, <1>2
<1>4. \/ Display(Gotoxy(con, 0, con.y + 1)) \/ Display(Ri(con)) \/ Display(Lf(con))
      \/ saved' = <<con.x, con.y>> /\ UNCHANGED con
      \/ Display(RestoreCur(con))
      \/ UNCHANGED <<con, saved>>
  BY DEF Escape
<1>5. Good(Gotoxy(con, 0, con.y + 1))
  <2>1. con.y + 1 \in Int /\ 0 \in Int
    BY <1>1, Fields
  <2> QED
    BY <1>1, <2>1, GotoxyGood
<1> QED
  BY <1>1, <1>3, <1>4, <1>5, DisplayStep, SaveStep, StutterStep, RiGood, LfGood,
     RestoreCurGood, Zenon

LEMMA CommandStep == ASSUME IInv, Command PROVE IInv'
<1>1. Good(con) /\ Parsed
  BY DEF IInv
<1>2. par' \in Pars /\ npar' \in 0..NPar-1
  <2>1. par' = NoPar /\ npar' = 0
    BY DEF Command, Leave
  <2> QED
    BY <2>1, Sizes DEF NoPar, Pars
<1>3. \/ \E c \in Relative \cup Absolute : Display(Moved(con, c))
      \/ \E c \in Edits : Display(Edited(con, c))
      \/ Display(Regioned(con))
      \/ saved' = <<con.x, con.y>> /\ UNCHANGED con
      \/ Display(RestoreCur(con))
      \/ UNCHANGED <<con, saved>>
  BY DEF Command
<1> QED
  BY <1>1, <1>2, <1>3, DisplayStep, SaveStep, StutterStep, MovedGood, EditedGood,
     RegionedGood, RestoreCurGood, Zenon

LEMMA ParserStep == ASSUME IInv, Question \/ Semicolon \/ Digit PROVE IInv'
<1>1. par \in Pars /\ npar \in 0..NPar-1
  BY DEF IInv, Parsed
<1>2. CASE Question
  BY <1>1, <1>2, StutterStep DEF Question
<1>3. CASE Semicolon
  BY <1>1, <1>3, Sizes, StutterStep DEF Semicolon
<1>4. CASE Digit
  <2>1. PICK c \in Digits : par' = [par EXCEPT ![npar] = 10 * par[npar] + c]
    BY <1>4 DEF Digit
  <2>2. c \in Nat
    BY ConsoleAssumption
  <2>3. par' \in Pars
    BY <1>1, <2>1, <2>2 DEF Pars
  <2> QED
    BY <1>1, <1>4, <2>3, StutterStep DEF Digit
<1> QED
  BY <1>2, <1>3, <1>4

LEMMA ConsoleInit == Init => IInv
<1> SUFFICES ASSUME Init PROVE IInv
  OBVIOUS
<1>1. PICK m \in [Video -> {Mark, Blank}], c \in 0..Columns-1, r \in 0..Lines-1 :
        con = [mem |-> [i \in Banks |-> IF i \in Video THEN m[i] ELSE Alien],
                origin |-> 0, scr_end |-> Lines * Columns,
                pos |-> r * Columns + c, x |-> c, y |-> r,
                top |-> 0, bottom |-> Lines]
  BY DEF Init
<1>2. [i \in Banks |-> IF i \in Video THEN m[i] ELSE Alien] \in Memory
  BY DEF Memory, Cell
<1>3. PICK p \in Int : p = r * Columns + c
  BY RowInside, Sizes
<1>4. /\ con \in Screen /\ con.origin = 0 /\ con.scr_end = Lines * Columns /\ con.pos = p
      /\ con.x = c /\ con.y = r /\ con.top = 0 /\ con.bottom = Lines
  BY <1>1, <1>2, <1>3, Sizes DEF Screen
<1>5. p = 0 + r * Columns + c /\ Lines * Columns = 0 + Lines * Columns /\ 0 <= 0 /\ 0 >= 0
      /\ c \in 0..Columns /\ 0 < Lines /\ Lines <= Lines /\ Lines * Columns <= ScreenEnd
  BY <1>3, RowInside, Sizes
<1>6. Exact(con)
  BY <1>4, <1>5, Zenon DEF Exact
<1>7. Parsed
  BY Sizes DEF Init, Parsed, Pars, NoPar
<1> QED
  BY <1>4, <1>6, <1>7 DEF IInv, Good

\* The inductive invariant: no character takes the driver out of a good display,
\* whatever state the escape sequence parser is in.
THEOREM Inductive == Spec => []IInv
<1>1. IInv /\ [Next]_vars => IInv'
  <2> SUFFICES ASSUME IInv, [Next]_vars PROVE IInv'
    OBVIOUS
  <2>1. CASE UNCHANGED vars
    BY <2>1, StutterStep DEF vars, IInv, Parsed
  <2> QED
    BY <2>1, TextStep, EscapeStep, ParserStep, CommandStep DEF Next
<1> QED
  BY <1>1, ConsoleInit, PTL DEF Spec

\* pos, origin, scr_end, x and y, which a dozen functions of console.c update one
\* by one, always name the same cell of a window inside the video memory.
THEOREM CursorKept == Spec => []CursorExact
<1>1. IInv => CursorExact
  BY DEF IInv, Good, Exact, CursorExact
<1> QED
  BY <1>1, Inductive, PTL

\* No memsetw, memcpyw or store of con_write touches what lies before or behind
\* the video memory.
THEOREM StoresKept == Spec => []StoresInside
<1>1. IInv => StoresInside
  <2> SUFFICES ASSUME IInv PROVE StoresInside
    OBVIOUS
  <2>1. con.mem \in Memory
    BY Fields DEF IInv
  <2> QED
    BY <2>1 DEF Memory, StoresInside
<1> QED
  BY <1>1, Inductive, PTL

-----------------------------------------------------------------------------
\* What the window shows: the refinement of Terminal.
Rows == 0..Lines-1
Cols == 0..Columns-1

\* The cell of row r and column c of a window that begins at o, its row r, and
\* what a display shows.
At(m, o, r, c) == m[o + r * Columns + c]
Line(m, o, r) == [c \in Cols |-> At(m, o, r, c)]
Shown(d) == [r \in Rows |-> Line(d.mem, d.origin, r)]

\* Cells come row by row.
LEMMA CellOrder ==
    ASSUME NEW r \in Int, NEW s \in Int, NEW c \in Cols, NEW k \in 0..Columns
    PROVE  /\ r * Columns \in Int /\ s * Columns \in Int
           /\ r * Columns + c < s * Columns + k <=> r < s \/ (r = s /\ c < k)
<1>1. PICK u \in Int, v \in Int : u = r * Columns /\ v = s * Columns
  BY RowAfter
<1>2. c \in Int /\ k \in Int /\ 0 <= c /\ c < Columns /\ 0 <= k /\ k <= Columns /\ Columns \in Int
  BY Sizes DEF Cols
<1>3. CASE r < s
  <2>1. u + Columns <= v
    BY <1>1, <1>3, RowOrder
  <2>2. u + c < v + k
    BY <1>2, <2>1
  <2> QED
    BY <1>1, <1>3, <2>2
<1>4. CASE r = s
  <2>1. u = v
    BY <1>1, <1>4
  <2>2. u + c < v + k <=> c < k
    BY <1>2, <2>1
  <2> QED
    BY <1>1, <1>4, <2>2
<1>5. CASE s < r
  <2>1. v + Columns <= u
    BY <1>1, <1>5, RowOrder
  <2>2. ~(u + c < v + k)
    BY <1>2, <2>1
  <2>3. ~(r < s) /\ r # s
    BY <1>5
  <2> QED
    BY <1>1, <2>2, <2>3
<1> QED
  BY <1>3, <1>4, <1>5

\* From column k of row s up to column l of row t, as a condition on cells.
Between(r, c, s, k, t, l) == ~(r < s \/ (r = s /\ c < k)) /\ (r < t \/ (r = t /\ c < l))

\* n cells from a on are those, in a window that begins at o.
Stretch(o, a, n, s, k, t, l) ==
    /\ o \in Int /\ a \in Int /\ n \in Int /\ s \in Int /\ t \in Int
    /\ k \in 0..Columns /\ l \in 0..Columns
    /\ a = o + s * Columns + k /\ a + n = o + t * Columns + l

LEMMA StretchCells ==
    ASSUME NEW o, NEW a, NEW n, NEW s, NEW k, NEW t, NEW l, Stretch(o, a, n, s, k, t, l),
           NEW r \in Rows, NEW c \in Cols
    PROVE  o + r * Columns + c \in a..a+n-1 <=> Between(r, c, s, k, t, l)
<1>1. r \in Int /\ c \in Int /\ k \in Int /\ l \in Int
  BY Sizes DEF Rows, Cols, Stretch
<1>0. /\ o \in Int /\ a \in Int /\ n \in Int /\ s \in Int /\ t \in Int
      /\ k \in 0..Columns /\ l \in 0..Columns
  BY DEF Stretch
<1>2. PICK u \in Int, v \in Int, w \in Int :
        u = r * Columns /\ v = s * Columns /\ w = t * Columns
  BY <1>0, <1>1, RowAfter
<1>3. u + c < v + k <=> r < s \/ (r = s /\ c < k)
  BY <1>0, <1>1, <1>2, CellOrder
<1>4. u + c < w + l <=> r < t \/ (r = t /\ c < l)
  BY <1>0, <1>1, <1>2, CellOrder
<1>5. a = o + v + k /\ a + n = o + w + l
  BY <1>2 DEF Stretch
<1>6. o + u + c \in a..a+n-1 <=> ~(u + c < v + k) /\ u + c < w + l
  BY <1>0, <1>1, <1>2, <1>5
<1> QED
  BY <1>2, <1>3, <1>4, <1>6 DEF Between

\* A window inside the video memory.
Window(o) == o \in Int /\ o >= 0 /\ o + Lines * Columns <= ScreenEnd

LEMMA CellInside ==
    ASSUME NEW o, Window(o), NEW r \in Rows, NEW c \in Cols
    PROVE  /\ o + r * Columns + c \in Video /\ o + r * Columns + c \in Banks
           /\ o + r * Columns + c \in Int
<1>1. PICK u \in Int : u = r * Columns /\ 0 <= u /\ u + Columns <= Lines * Columns
  BY RowInside DEF Rows
<1>2. PICK w \in Int : w = Lines * Columns
  BY Sizes
<1>3. 0 <= o + u + c /\ o + u + c < ScreenEnd /\ o + u + c \in Int
  BY <1>1, <1>2, Sizes DEF Cols, Window
<1>4. o + u + c \in Video /\ o + u + c \in Banks
  BY <1>3, Sizes DEF Video, Banks
<1> QED
  BY <1>1, <1>3, <1>4

LEMMA ClearAt ==
    ASSUME NEW m, NEW o, Window(o), NEW a, NEW n, NEW s, NEW k, NEW t, NEW l,
           Stretch(o, a, n, s, k, t, l), NEW r \in Rows, NEW c \in Cols
    PROVE  At(Clear(m, a, n), o, r, c) =
             IF Between(r, c, s, k, t, l) THEN Blank ELSE At(m, o, r, c)
<1>1. PICK i : i = o + r * Columns + c
  OBVIOUS
<1>2. i \in Banks
  BY <1>1, CellInside
<1>3. i \in a..a+n-1 <=> Between(r, c, s, k, t, l)
  <2>1. o + r * Columns + c \in a..a+n-1 <=> Between(r, c, s, k, t, l)
    BY StretchCells, Zenon
  <2> QED
    BY <1>1, <2>1, Zenon
<1>4. Clear(m, a, n)[i] = IF i \in a..a+n-1 THEN Blank ELSE m[i]
  BY <1>2, Zenon DEF Clear
<1> QED
  BY <1>1, <1>3, <1>4 DEF At

\* b is as far from a as the window at q is from the one at o.
AsFar(a, b, o, q) == a \in Int /\ b \in Int /\ o \in Int /\ q \in Int /\ b - a = q - o

LEMMA CopyAt ==
    ASSUME NEW m, NEW o, Window(o), NEW a, NEW b, NEW q, AsFar(a, b, o, q), NEW n,
           NEW s, NEW k, NEW t, NEW l, Stretch(o, a, n, s, k, t, l),
           NEW r \in Rows, NEW c \in Cols
    PROVE  At(CopyCells(m, a, b, n), o, r, c) =
             IF Between(r, c, s, k, t, l) THEN At(m, q, r, c) ELSE At(m, o, r, c)
<1>1. PICK i : i = o + r * Columns + c
  OBVIOUS
<1>2. i \in Banks
  BY <1>1, CellInside
<1>3. i \in a..a+n-1 <=> Between(r, c, s, k, t, l)
  <2>1. o + r * Columns + c \in a..a+n-1 <=> Between(r, c, s, k, t, l)
    BY StretchCells, Zenon
  <2> QED
    BY <1>1, <2>1, Zenon
<1>4. CopyCells(m, a, b, n)[i] = IF i \in a..a+n-1 THEN m[b + i - a] ELSE m[i]
  BY <1>2, Zenon DEF CopyCells
<1>5. b + i - a = q + r * Columns + c
  <2>1. PICK u \in Int : u = r * Columns
    BY RowAfter DEF Rows
  <2>2. a \in Int /\ b \in Int /\ o \in Int /\ q \in Int /\ c \in Int /\ b - a = q - o
    BY Sizes DEF Cols, AsFar
  <2>3. b + (o + u + c) - a = q + u + c
    BY <2>2
  <2> QED
    BY <1>1, <2>1, <2>3
<1> QED
  BY <1>1, <1>3, <1>4, <1>5, Zenon DEF At

\* Whole rows.
BlankLine == [c \in Cols |-> Blank]

LEMMA BetweenRows ==
    ASSUME NEW r \in Int, NEW s \in Int, NEW t \in Int, NEW c \in Cols
    PROVE  Between(r, c, s, 0, t, 0) <=> r \in s..t-1
BY Sizes DEF Between, Cols

LEMMA ClearLines ==
    ASSUME NEW m, NEW o, Window(o), NEW a, NEW n, NEW s, NEW t,
           Stretch(o, a, n, s, 0, t, 0), NEW r \in Rows
    PROVE  Line(Clear(m, a, n), o, r) = IF r \in s..t-1 THEN BlankLine ELSE Line(m, o, r)
<1>1. s \in Int /\ t \in Int /\ r \in Int
  BY DEF Stretch, Rows
<1>2. ASSUME NEW c \in Cols
      PROVE  At(Clear(m, a, n), o, r, c) = IF r \in s..t-1 THEN Blank ELSE At(m, o, r, c)
  <2>1. At(Clear(m, a, n), o, r, c) =
          IF Between(r, c, s, 0, t, 0) THEN Blank ELSE At(m, o, r, c)
    BY ClearAt
  <2>2. Between(r, c, s, 0, t, 0) <=> r \in s..t-1
    BY <1>1, BetweenRows
  <2> QED
    BY <2>1, <2>2, Zenon
<1> QED
  BY <1>2, Zenon DEF Line, BlankLine

LEMMA CopyLines ==
    ASSUME NEW m, NEW o, Window(o), NEW a, NEW b, NEW q, AsFar(a, b, o, q), NEW n,
           NEW s, NEW t, Stretch(o, a, n, s, 0, t, 0), NEW r \in Rows
    PROVE  Line(CopyCells(m, a, b, n), o, r) =
             IF r \in s..t-1 THEN Line(m, q, r) ELSE Line(m, o, r)
<1>1. s \in Int /\ t \in Int /\ r \in Int
  BY DEF Stretch, Rows
<1>2. ASSUME NEW c \in Cols
      PROVE  At(CopyCells(m, a, b, n), o, r, c) =
               IF r \in s..t-1 THEN At(m, q, r, c) ELSE At(m, o, r, c)
  <2>1. At(CopyCells(m, a, b, n), o, r, c) =
          IF Between(r, c, s, 0, t, 0) THEN At(m, q, r, c) ELSE At(m, o, r, c)
    BY CopyAt
  <2>2. Between(r, c, s, 0, t, 0) <=> r \in s..t-1
    BY <1>1, BetweenRows
  <2> QED
    BY <2>1, <2>2, Zenon
<1> QED
  BY <1>2, Zenon DEF Line

\* A window that begins a row later shows the next row.
LEMMA NextLine ==
    ASSUME NEW m, NEW o \in Int, NEW r \in Int
    PROVE  Line(m, o + Columns, r) = Line(m, o, r + 1) /\ Line(m, o - Columns, r) = Line(m, o, r - 1)
<1>1. PICK u \in Int : u = r * Columns
  BY RowAfter
<1>2. (r + 1) * Columns = u + Columns /\ (r - 1) * Columns = u - Columns
  BY <1>1, RowAfter
<1>3. ASSUME NEW c \in Cols
      PROVE  At(m, o + Columns, r, c) = At(m, o, r + 1, c) /\ At(m, o - Columns, r, c) = At(m, o, r - 1, c)
  <2>1. c \in Int /\ Columns \in Int
    BY Sizes DEF Cols
  <2>2. (o + Columns) + u + c = o + (u + Columns) + c /\ (o - Columns) + u + c = o + (u - Columns) + c
    BY <2>1
  <2> QED
    BY <1>1, <1>2, <2>2, Zenon DEF At
<1> QED
  BY <1>3, Zenon DEF Line

LEMMA GoodWindow == ASSUME NEW d, Good(d) PROVE Window(d.origin)
BY Fields DEF Window

LEMMA ShownLine ==
    ASSUME NEW d, NEW r \in Rows
    PROVE  Shown(d)[r] = Line(d.mem, d.origin, r)
BY DEF Shown

LEMMA RowsStretch ==
    ASSUME NEW o \in Int, NEW s \in Int, NEW t \in Int, NEW a, NEW n,
           a = o + Columns * s, n = (t - s) * Columns
    PROVE  Stretch(o, a, n, s, 0, t, 0)
<1>1. PICK u \in Int, v \in Int : u = s * Columns /\ v = t * Columns
  BY RowAfter
<1>2. Columns * s = u /\ (t - s) * Columns = v - u
  BY <1>1, Sizes
<1>3. a = o + u + 0 /\ a + n = o + v + 0 /\ a \in Int /\ n \in Int /\ 0 \in 0..Columns
  BY <1>2, Sizes
<1> QED
  BY <1>1, <1>3 DEF Stretch

\* Scrolling moves rows of the region.
LEMMA ScrdownLines ==
    ASSUME NEW d, Good(d), NEW r \in Rows
    PROVE  Line(Scrdown(d).mem, d.origin, r) =
             IF r = d.top THEN BlankLine
             ELSE IF r \in d.top+1..d.bottom-1 THEN Line(d.mem, d.origin, r - 1)
             ELSE Line(d.mem, d.origin, r)
<1>a. PICK o \in Int, t \in Int, b \in Int : o = d.origin /\ t = d.top /\ b = d.bottom
  BY Fields
<1>b. PICK q \in Int, s \in Int : q = o - Columns /\ s = t + 1
  BY Sizes
<1>1. o = d.origin /\ t = d.top /\ b = d.bottom /\ q = o - Columns /\ s = t + 1
  BY <1>a, <1>b
<1>2. PICK a \in Int, n \in Int : a = o + Columns * s /\ n = (b - s) * Columns
  BY RowAfter, Sizes
<1>3. PICK a2 \in Int, n2 \in Int : a2 = o + Columns * t /\ n2 = (s - t) * Columns
  BY RowAfter, Sizes
<1>4. Stretch(o, a, n, s, 0, b, 0) /\ Stretch(o, a2, n2, t, 0, s, 0)
  BY <1>2, <1>3, RowsStretch
<1>5. AsFar(a, a2, o, q) /\ n2 = Columns /\ b - s = b - t - 1
  <2>1. PICK u \in Int : u = Columns * t
    BY Sizes
  <2>2. Columns * s = u + Columns /\ Columns \in Int
    BY <1>1, <2>1, Sizes
  <2>3. a = o + (u + Columns) /\ a2 = o + u
    BY <1>2, <1>3, <2>1, <2>2
  <2>4. AsFar(a, a2, o, q)
    BY <1>1, <2>2, <2>3 DEF AsFar
  <2>5. s - t = 1 /\ b - s = b - t - 1
    BY <1>1
  <2>6. n2 = Columns
    BY <1>3, <2>2, <2>5
  <2> QED
    BY <2>4, <2>5, <2>6
<1>6. PICK m : m = CopyCells(d.mem, a, a2, n)
  OBVIOUS
<1>7. Scrdown(d).mem = Clear(m, a2, n2)
  <2>1. Scrdown(d) = [d EXCEPT !.mem = Clear(m, a2, n2)]
    BY <1>1, <1>2, <1>3, <1>5, <1>6 DEF Scrdown
  <2>2. d \in Screen
    BY Fields
  <2> QED
    BY <2>1, <2>2 DEF Screen
<1>8. Window(o)
  BY <1>1, GoodWindow
<1>9. Line(m, o, r) = IF r \in s..b-1 THEN Line(d.mem, q, r) ELSE Line(d.mem, o, r)
  BY <1>4, <1>5, <1>6, <1>8, CopyLines
<1>10. Line(Clear(m, a2, n2), o, r) = IF r \in t..s-1 THEN BlankLine ELSE Line(m, o, r)
  BY <1>4, <1>8, ClearLines
<1>11. r \in t..s-1 <=> r = t
  BY <1>1 DEF Rows
<1>12. Line(d.mem, q, r) = Line(d.mem, o, r - 1)
  <2>1. r \in Int
    BY DEF Rows
  <2> QED
    BY <1>1, <2>1, NextLine
<1> QED
  BY <1>1, <1>7, <1>9, <1>10, <1>11, <1>12, Zenon

LEMMA ScrdownShown ==
    ASSUME NEW d, Good(d)
    PROVE  /\ Shown(Scrdown(d)) = T!Down(Shown(d), d.top, d.bottom)
           /\ Scrdown(d).x = d.x /\ Scrdown(d).y = d.y
           /\ Scrdown(d).top = d.top /\ Scrdown(d).bottom = d.bottom
<1>1. /\ Scrdown(d).x = d.x /\ Scrdown(d).y = d.y
      /\ Scrdown(d).top = d.top /\ Scrdown(d).bottom = d.bottom
      /\ Scrdown(d).origin = d.origin
  BY Fields DEF Scrdown, Screen
<1>2. PICK t \in Int, b \in Int : t = d.top /\ b = d.bottom /\ 0 <= t /\ b <= Lines
  BY Fields
<1>3. ASSUME NEW r \in Rows
      PROVE  Shown(Scrdown(d))[r] = IF r \in t+1..b-1 THEN Shown(d)[r-1]
                                    ELSE IF r = t THEN BlankLine ELSE Shown(d)[r]
  <2>1. Shown(Scrdown(d))[r] =
          IF r = t THEN BlankLine
          ELSE IF r \in t+1..b-1 THEN Line(d.mem, d.origin, r - 1)
          ELSE Line(d.mem, d.origin, r)
    BY <1>1, <1>2, ShownLine, ScrdownLines
  <2>2. r \in t+1..b-1 => r - 1 \in Rows /\ r # t
    BY <1>2, Sizes DEF Rows
  <2>3. r \in t+1..b-1 => Shown(d)[r-1] = Line(d.mem, d.origin, r - 1)
    BY <2>2, ShownLine
  <2>4. Shown(d)[r] = Line(d.mem, d.origin, r)
    BY ShownLine
  <2> QED
    BY <2>1, <2>2, <2>3, <2>4
<1>4. Shown(Scrdown(d)) = [r \in Rows |-> Shown(Scrdown(d))[r]]
  BY DEF Shown
<1>5. Shown(Scrdown(d)) = [r \in Rows |-> IF r \in t+1..b-1 THEN Shown(d)[r-1]
                                    ELSE IF r = t THEN BlankLine ELSE Shown(d)[r]]
  BY <1>3, <1>4, Zenon
<1>6. Shown(Scrdown(d)) = T!Down(Shown(d), d.top, d.bottom)
  BY <1>2, <1>5 DEF T!Down, T!Rows, T!Cols, T!BlankRow, BlankLine, Rows, Cols
<1> QED
  BY <1>1, <1>6

LEMMA RegionLines ==
    ASSUME NEW d, Good(d), ~(d.top = 0 /\ d.bottom = Lines), NEW r \in Rows
    PROVE  Line(Scrup(d).mem, d.origin, r) =
             IF r = d.bottom - 1 THEN BlankLine
             ELSE IF r \in d.top..d.bottom-2 THEN Line(d.mem, d.origin, r + 1)
             ELSE Line(d.mem, d.origin, r)
<1>a. PICK o \in Int, t \in Int, b \in Int : o = d.origin /\ t = d.top /\ b = d.bottom
  BY Fields
<1>b. PICK q \in Int, s \in Int, u \in Int : q = o + Columns /\ s = b - 1 /\ u = t + 1
  BY Sizes
<1>1. o = d.origin /\ t = d.top /\ b = d.bottom /\ q = o + Columns /\ s = b - 1 /\ u = t + 1
  BY <1>a, <1>b
<1>2. PICK a \in Int, a1 \in Int, n \in Int :
        a = o + Columns * t /\ a1 = o + Columns * u /\ n = (s - t) * Columns
  BY RowAfter, Sizes
<1>3. PICK a2 \in Int, n2 \in Int : a2 = o + Columns * s /\ n2 = (b - s) * Columns
  BY RowAfter, Sizes
<1>4. Stretch(o, a, n, t, 0, s, 0) /\ Stretch(o, a2, n2, s, 0, b, 0)
  BY <1>2, <1>3, RowsStretch
<1>5. AsFar(a, a1, o, q) /\ n2 = Columns /\ s - t = b - t - 1
  <2>1. PICK v \in Int : v = Columns * t
    BY Sizes
  <2>2. Columns * u = v + Columns /\ Columns \in Int
    BY <1>1, <2>1, Sizes
  <2>3. a1 = o + (v + Columns) /\ a = o + v
    BY <1>2, <2>1, <2>2
  <2>4. AsFar(a, a1, o, q)
    BY <1>1, <2>2, <2>3 DEF AsFar
  <2>5. b - s = 1 /\ s - t = b - t - 1
    BY <1>1
  <2>6. n2 = Columns
    BY <1>3, <2>2, <2>5
  <2> QED
    BY <2>4, <2>5, <2>6
<1>6. PICK m : m = CopyCells(d.mem, a, a1, n)
  OBVIOUS
<1>7. Scrup(d).mem = Clear(m, a2, n2)
  <2>1. Scrup(d) = [d EXCEPT !.mem = Clear(m, a2, n2)]
    BY <1>1, <1>2, <1>3, <1>5, <1>6 DEF Scrup
  <2>2. d \in Screen
    BY Fields
  <2> QED
    BY <2>1, <2>2 DEF Screen
<1>8. Window(o)
  BY <1>1, GoodWindow
<1>9. Line(m, o, r) = IF r \in t..s-1 THEN Line(d.mem, q, r) ELSE Line(d.mem, o, r)
  BY <1>4, <1>5, <1>6, <1>8, CopyLines
<1>10. Line(Clear(m, a2, n2), o, r) = IF r \in s..b-1 THEN BlankLine ELSE Line(m, o, r)
  BY <1>4, <1>8, ClearLines
<1>11. (r \in s..b-1 <=> r = b - 1) /\ s - 1 = b - 2
  BY <1>1 DEF Rows
<1>12. Line(d.mem, q, r) = Line(d.mem, o, r + 1)
  <2>1. r \in Int
    BY DEF Rows
  <2> QED
    BY <1>1, <2>1, NextLine
<1> QED
  BY <1>1, <1>7, <1>9, <1>10, <1>11, <1>12, Zenon

\* When the window cannot move on, the rows that stay are copied to the start.
LEMMA WholeLinesBack ==
    ASSUME NEW d, Good(d), d.scr_end + Columns > ScreenEnd, NEW r \in Rows
    PROVE  /\ ScrupWhole(d).origin = 0
           /\ Line(ScrupWhole(d).mem, 0, r) =
                IF r = Lines - 1 THEN BlankLine ELSE Line(d.mem, d.origin, r + 1)
<1>a. PICK o \in Int, q \in Int, s \in Int, z \in Int :
        o = d.origin /\ q = o + Columns /\ s = Lines - 1 /\ z = 0
  <2>1. d.origin \in Int /\ d.origin + Columns \in Int /\ Lines - 1 \in Int
    BY Fields, Sizes
  <2> QED
    BY <2>1
<1>2. PICK n \in Int : n = s * Columns
  BY RowAfter
<1>3. Columns * z = 0 /\ z + 0 = 0 /\ (s - z) * Columns = n /\ Columns * s = n
      /\ (Lines - s) * Columns = Columns
  <2>1. s - z = s /\ Lines - s = 1 /\ Columns \in Int /\ Lines \in Int
    BY <1>a, Sizes
  <2> QED
    BY <1>a, <1>2, <2>1
<1>4. Stretch(z, z, n, z, 0, s, 0) /\ Stretch(z, n, Columns, s, 0, Lines, 0)
  <2>1. z = z + Columns * z /\ n = (s - z) * Columns /\ n = z + Columns * s
        /\ Columns = (Lines - s) * Columns
    BY <1>a, <1>2, <1>3
  <2>2. Lines \in Int
    BY Sizes
  <2>3. Stretch(z, z, n, z, 0, s, 0)
    BY <2>1, RowsStretch
  <2>4. Stretch(z, n, Columns, s, 0, Lines, 0)
    BY <2>1, <2>2, RowsStretch
  <2> QED
    BY <2>3, <2>4
<1>5. AsFar(z, q, z, q)
  BY DEF AsFar
<1>6. PICK m : m = CopyCells(d.mem, z, q, n)
  OBVIOUS
<1>7. ScrupWhole(d).mem = Clear(m, n, Columns) /\ ScrupWhole(d).origin = 0
  <2>1. PICK e, p : ScrupWhole(d) = [d EXCEPT !.mem = Clear(m, n, Columns), !.origin = 0,
                                        !.scr_end = e, !.pos = p]
    BY <1>a, <1>2, <1>6, Zenon DEF ScrupWhole
  <2>2. d \in Screen
    BY Fields
  <2> QED
    BY <2>1, <2>2 DEF Screen
<1>8. Window(z)
  BY <1>a, Sizes DEF Window
<1>9. Line(m, z, r) = IF r \in z..s-1 THEN Line(d.mem, q, r) ELSE Line(d.mem, z, r)
  BY <1>4, <1>5, <1>6, <1>8, CopyLines
<1>10. Line(Clear(m, n, Columns), z, r) = IF r \in s..Lines-1 THEN BlankLine ELSE Line(m, z, r)
  BY <1>4, <1>8, ClearLines
<1>11. (r \in s..Lines-1 <=> r = Lines - 1) /\ (r # Lines - 1 => r \in z..s-1)
  BY <1>a, Sizes DEF Rows
<1>12. Line(d.mem, q, r) = Line(d.mem, o, r + 1)
  <2>1. r \in Int
    BY DEF Rows
  <2> QED
    BY <1>a, <2>1, NextLine
<1> QED
  BY <1>a, <1>7, <1>9, <1>10, <1>11, <1>12, Zenon

\* When it moves on, the row it comes to is cleared.
LEMMA WholeLinesOn ==
    ASSUME NEW d, Good(d), ~(d.scr_end + Columns > ScreenEnd), NEW r \in Rows
    PROVE  Line(ScrupWhole(d).mem, ScrupWhole(d).origin, r) =
             IF r = Lines - 1 THEN BlankLine ELSE Line(d.mem, d.origin, r + 1)
<1>a. PICK o \in Int, q \in Int, s \in Int, e \in Int, a \in Int :
        o = d.origin /\ q = o + Columns /\ s = Lines - 1 /\ e = d.scr_end + Columns
        /\ a = e - Columns
  <2>1. d.origin \in Int /\ d.origin + Columns \in Int /\ Lines - 1 \in Int
        /\ d.scr_end + Columns \in Int /\ (d.scr_end + Columns) - Columns \in Int
    BY Fields, Sizes
  <2> QED
    BY <2>1
<1>2. PICK w \in Int : w = Lines * Columns
  BY Sizes
<1>3. a = q + Columns * s /\ Columns = (Lines - s) * Columns
  <2>1. Columns * s = w - Columns /\ Lines - s = 1 /\ Columns \in Int
    BY <1>a, <1>2, Sizes
  <2>2. d.scr_end = o + w /\ d.scr_end \in Int
    BY <1>a, <1>2, Fields
  <2>3. a = q + (w - Columns)
    BY <1>a, <2>1, <2>2
  <2> QED
    BY <2>1, <2>3
<1>4. Stretch(q, a, Columns, s, 0, Lines, 0)
  <2>1. Lines \in Int
    BY Sizes
  <2> QED
    BY <1>3, <2>1, RowsStretch
<1>7. ScrupWhole(d).mem = Clear(d.mem, a, Columns) /\ ScrupWhole(d).origin = q
  <2>1. PICK p : ScrupWhole(d) = [d EXCEPT !.mem = Clear(d.mem, a, Columns), !.origin = q,
                                        !.scr_end = e, !.pos = p]
    BY <1>a, Zenon DEF ScrupWhole
  <2>2. d \in Screen
    BY Fields
  <2> QED
    BY <2>1, <2>2 DEF Screen
<1>8. Window(q)
  <2>1. q + w <= ScreenEnd /\ q >= 0
    BY <1>a, <1>2, Fields, Sizes
  <2> QED
    BY <1>2, <2>1 DEF Window
<1>9. Line(Clear(d.mem, a, Columns), q, r) = IF r \in s..Lines-1 THEN BlankLine ELSE Line(d.mem, q, r)
  BY <1>4, <1>8, ClearLines
<1>11. r \in s..Lines-1 <=> r = Lines - 1
  BY <1>a, Sizes DEF Rows
<1>12. Line(d.mem, q, r) = Line(d.mem, o, r + 1)
  <2>1. r \in Int
    BY DEF Rows
  <2> QED
    BY <1>a, <2>1, NextLine
<1> QED
  BY <1>a, <1>7, <1>9, <1>11, <1>12, Zenon

LEMMA ScrupLines ==
    ASSUME NEW d, Good(d), NEW r \in Rows
    PROVE  Line(Scrup(d).mem, Scrup(d).origin, r) =
             IF r = d.bottom - 1 THEN BlankLine
             ELSE IF r \in d.top..d.bottom-2 THEN Line(d.mem, d.origin, r + 1)
             ELSE Line(d.mem, d.origin, r)
<1>1. CASE d.top = 0 /\ d.bottom = Lines
  <2>1. Scrup(d) = ScrupWhole(d)
    BY <1>1 DEF Scrup
  <2>2. Line(ScrupWhole(d).mem, ScrupWhole(d).origin, r) =
             IF r = Lines - 1 THEN BlankLine ELSE Line(d.mem, d.origin, r + 1)
    BY WholeLinesBack, WholeLinesOn
  <2>3. r # Lines - 1 => r \in 0..Lines-2
    BY Sizes DEF Rows
  <2> QED
    BY <1>1, <2>1, <2>2, <2>3
<1>2. CASE ~(d.top = 0 /\ d.bottom = Lines)
  <2>1. Scrup(d).origin = d.origin
    BY <1>2, Fields DEF Scrup, Screen
  <2> QED
    BY <1>2, <2>1, RegionLines
<1> QED
  BY <1>1, <1>2

LEMMA ScrupShown ==
    ASSUME NEW d, Good(d)
    PROVE  /\ Shown(Scrup(d)) = T!Up(Shown(d), d.top, d.bottom)
           /\ Scrup(d).x = d.x /\ Scrup(d).y = d.y
           /\ Scrup(d).top = d.top /\ Scrup(d).bottom = d.bottom
<1>1. /\ Scrup(d).x = d.x /\ Scrup(d).y = d.y
      /\ Scrup(d).top = d.top /\ Scrup(d).bottom = d.bottom
  BY Fields DEF Scrup, ScrupWhole, Screen
<1>2. PICK t \in Int, b \in Int : t = d.top /\ b = d.bottom /\ 0 <= t /\ b <= Lines
  BY Fields
<1>3. ASSUME NEW r \in Rows
      PROVE  Shown(Scrup(d))[r] = IF r \in t..b-2 THEN Shown(d)[r+1]
                                  ELSE IF r = b-1 THEN BlankLine ELSE Shown(d)[r]
  <2>1. Shown(Scrup(d))[r] =
          IF r = b - 1 THEN BlankLine
          ELSE IF r \in t..b-2 THEN Line(d.mem, d.origin, r + 1)
          ELSE Line(d.mem, d.origin, r)
    BY <1>1, <1>2, ShownLine, ScrupLines
  <2>2. r \in t..b-2 => r + 1 \in Rows /\ r # b - 1
    BY <1>2, Sizes DEF Rows
  <2>3. r \in t..b-2 => Shown(d)[r+1] = Line(d.mem, d.origin, r + 1)
    BY <2>2, ShownLine
  <2>4. Shown(d)[r] = Line(d.mem, d.origin, r)
    BY ShownLine
  <2> QED
    BY <2>1, <2>2, <2>3, <2>4
<1>4. Shown(Scrup(d)) = [r \in Rows |-> Shown(Scrup(d))[r]]
  BY DEF Shown
<1>5. Shown(Scrup(d)) = [r \in Rows |-> IF r \in t..b-2 THEN Shown(d)[r+1]
                                  ELSE IF r = b-1 THEN BlankLine ELSE Shown(d)[r]]
  BY <1>3, <1>4, Zenon
<1>6. Shown(Scrup(d)) = T!Up(Shown(d), d.top, d.bottom)
  BY <1>2, <1>5 DEF T!Up, T!Rows, T!Cols, T!BlankRow, BlankLine, Rows, Cols
<1> QED
  BY <1>1, <1>6

LEMMA SameShown ==
    ASSUME NEW d, NEW e, e.mem = d.mem, e.origin = d.origin
    PROVE  Shown(e) = Shown(d)
BY Zenon DEF Shown

\* The region, and what the steps of Terminal call Frame of it.
SameRegion(d, e) == e.top = d.top /\ e.bottom = d.bottom

LEMMA LfShown ==
    ASSUME NEW d, Good(d)
    PROVE  /\ Lf(d).x = d.x /\ SameRegion(d, Lf(d))
           /\ IF d.y + 1 < d.bottom THEN Lf(d).y = d.y + 1 /\ Shown(Lf(d)) = Shown(d)
              ELSE Lf(d).y = d.y /\ Shown(Lf(d)) = T!Up(Shown(d), d.top, d.bottom)
<1>1. CASE d.y + 1 < d.bottom
  <2>1. PICK r, p : r = d.y + 1 /\ p = d.pos + Columns
    OBVIOUS
  <2>2. Lf(d) = [d EXCEPT !.y = r, !.pos = p] /\ d \in Screen
    BY <1>1, <2>1, Fields DEF Lf
  <2>3. /\ Lf(d).x = d.x /\ Lf(d).top = d.top /\ Lf(d).bottom = d.bottom
        /\ Lf(d).y = r /\ Lf(d).mem = d.mem /\ Lf(d).origin = d.origin
    BY <2>2 DEF Screen
  <2> QED
    BY <1>1, <2>1, <2>3, SameShown DEF SameRegion
<1>2. CASE ~(d.y + 1 < d.bottom)
  BY <1>2, ScrupShown DEF Lf, SameRegion
<1> QED
  BY <1>1, <1>2

LEMMA RiShown ==
    ASSUME NEW d, Good(d)
    PROVE  /\ Ri(d).x = d.x /\ SameRegion(d, Ri(d))
           /\ IF d.y > d.top THEN Ri(d).y = d.y - 1 /\ Shown(Ri(d)) = Shown(d)
              ELSE Ri(d).y = d.y /\ Shown(Ri(d)) = T!Down(Shown(d), d.top, d.bottom)
<1>1. CASE d.y > d.top
  <2>1. PICK r, p : r = d.y - 1 /\ p = d.pos - Columns
    OBVIOUS
  <2>2. Ri(d) = [d EXCEPT !.y = r, !.pos = p] /\ d \in Screen
    BY <1>1, <2>1, Fields DEF Ri
  <2>3. /\ Ri(d).x = d.x /\ Ri(d).top = d.top /\ Ri(d).bottom = d.bottom
        /\ Ri(d).y = r /\ Ri(d).mem = d.mem /\ Ri(d).origin = d.origin
    BY <2>2 DEF Screen
  <2> QED
    BY <1>1, <2>1, <2>3, SameShown DEF SameRegion
<1>2. CASE ~(d.y > d.top)
  BY <1>2, ScrdownShown DEF Ri, SameRegion
<1> QED
  BY <1>1, <1>2

\* A store to one cell.
Stored(m, o, y, k, v, m2) == m2 = [m EXCEPT ![o + y * Columns + k] = v]

LEMMA PutAt ==
    ASSUME NEW m \in Memory, NEW v, NEW o, Window(o), NEW y \in Rows, NEW k \in Cols,
           NEW m2, Stored(m, o, y, k, v, m2), NEW r \in Rows, NEW c \in Cols
    PROVE  At(m2, o, r, c) = IF r = y /\ c = k THEN v ELSE At(m, o, r, c)
<1>1. r \in Int /\ y \in Int /\ c \in Int /\ k \in Int /\ c \in 0..Columns /\ k \in 0..Columns
      /\ o \in Int
  BY Sizes DEF Rows, Cols, Window
<1>2. PICK u \in Int, w \in Int : u = r * Columns /\ w = y * Columns
  BY <1>1, RowAfter
<1>3. u + c < w + k <=> r < y \/ (r = y /\ c < k)
  BY <1>1, <1>2, CellOrder
<1>4. w + k < u + c <=> y < r \/ (y = r /\ k < c)
  BY <1>1, <1>2, CellOrder
<1>5. o + u + c = o + w + k <=> r = y /\ c = k
  BY <1>1, <1>3, <1>4
<1>6. o + r * Columns + c \in Banks
  BY CellInside
<1>7. PICK i, a : i = o + u + c /\ a = o + w + k
  OBVIOUS
<1>8. i \in Banks /\ m \in [Banks -> Cell]
  BY <1>2, <1>6, <1>7 DEF Memory
<1>9. [m EXCEPT ![a] = v][i] = IF i = a THEN v ELSE m[i]
  BY <1>8, Zenon
<1>10. m2 = [m EXCEPT ![a] = v]
  BY <1>2, <1>7 DEF Stored
<1> QED
  BY <1>2, <1>5, <1>7, <1>9, <1>10, Zenon DEF At

Put(s, y, k, v) == [s EXCEPT ![y][k] = v]

LEMMA PutShown ==
    ASSUME NEW d, Good(d), NEW e, NEW v, NEW k \in Cols, e.origin = d.origin,
           Stored(d.mem, d.origin, d.y, k, v, e.mem)
    PROVE  Shown(e) = Put(Shown(d), d.y, k, v)
<1>1. d.mem \in Memory /\ Window(d.origin) /\ d.y \in Rows
  BY Fields, GoodWindow DEF Rows
<1>2. PICK y \in Rows, o \in Int : y = d.y /\ o = d.origin
  BY <1>1 DEF Window
<1>3. ASSUME NEW r \in Rows, NEW c \in Cols
      PROVE  At(e.mem, o, r, c) = IF r = y /\ c = k THEN v ELSE At(d.mem, o, r, c)
  BY <1>1, <1>2, PutAt
<1>4. ASSUME NEW r \in Rows
      PROVE  Line(e.mem, o, r) = IF r = y THEN [Line(d.mem, o, r) EXCEPT ![k] = v] ELSE Line(d.mem, o, r)
  BY <1>3 DEF Line
<1>5. [Shown(d) EXCEPT ![y][k] = v] = [Shown(d) EXCEPT ![y] = [Line(d.mem, o, y) EXCEPT ![k] = v]]
  BY <1>2 DEF Shown
<1>6. Shown(e) = [Shown(d) EXCEPT ![y] = [Line(d.mem, o, y) EXCEPT ![k] = v]]
  BY <1>2, <1>4 DEF Shown
<1> QED
  BY <1>2, <1>5, <1>6 DEF Put

LEMMA ClearOne ==
    ASSUME NEW m \in Memory, NEW a \in Int
    PROVE  Clear(m, a, 1) = [m EXCEPT ![a] = Blank]
<1>1. \A i \in Banks : i \in a..a+1-1 <=> i = a
  BY Sizes DEF Banks
<1> QED
  BY <1>1 DEF Clear, Memory

-----------------------------------------------------------------------------
\* What the steps of Terminal ask of con.
Framed == SameRegion(con, con') /\ saved' = saved

LEMMA FeedMeans ==
    ASSUME NEW cx, con'.x = cx, Framed,
           IF con.y + 1 < con.bottom THEN con'.y = con.y + 1 /\ Shown(con') = Shown(con)
           ELSE con'.y = con.y /\ Shown(con') = T!Up(Shown(con), con.top, con.bottom)
    PROVE  T!Feed(cx)
BY Zenon DEF T!Feed, T!Frame, Framed, SameRegion, Shown, Line, At, Rows, Cols

LEMMA ReverseFeedMeans ==
    ASSUME con'.x = con.x, Framed,
           IF con.y > con.top THEN con'.y = con.y - 1 /\ Shown(con') = Shown(con)
           ELSE con'.y = con.y /\ Shown(con') = T!Down(Shown(con), con.top, con.bottom)
    PROVE  T!ReverseFeed
BY Zenon DEF T!ReverseFeed, T!Frame, Framed, SameRegion, Shown, Line, At, Rows, Cols

LEMMA MoveMeans ==
    ASSUME con'.x \in 0..Columns, con'.y \in Rows, Framed, Shown(con') = Shown(con)
    PROVE  T!Move
BY Zenon DEF T!Move, T!Frame, T!Rows, Framed, SameRegion, Shown, Line, At, Rows, Cols

LEMMA RuboutMeans ==
    ASSUME con.x > 0, con'.x = con.x - 1, con'.y = con.y, Framed,
           Shown(con') = Put(Shown(con), con.y, con.x - 1, Blank)
    PROVE  T!Rubout
BY Zenon DEF Put, T!Rubout, T!Frame, Framed, SameRegion, Shown, Line, At, Rows, Cols

LEMMA RegionMeans ==
    ASSUME con'.x = con.x, con'.y = con.y, saved' = saved, Shown(con') = Shown(con),
           con'.top \in Rows, con'.bottom \in 1..Lines, con'.top < con'.bottom
    PROVE  T!Region
BY Zenon DEF T!Region, T!Rows, Shown, Line, At, Rows, Cols

LEMMA SaveMeans ==
    ASSUME saved' = <<con.x, con.y>>, con' = con
    PROVE  T!Save
BY Zenon DEF T!Save

LEMMA RestoreMeans ==
    ASSUME con'.x = saved[1], con'.y = saved[2], Framed, Shown(con') = Shown(con)
    PROVE  T!Restore
BY Zenon DEF T!Restore, T!Frame, Framed, SameRegion, Shown, Line, At, Rows, Cols

LEMMA StutterMeans ==
    ASSUME UNCHANGED <<con, saved>> PROVE UNCHANGED T!tvars
BY Zenon DEF T!tvars

LEMMA ShowMeans ==
    ASSUME NEW s, NEW cx, NEW cy, con'.x = cx + 1, con'.y = cy, Framed,
           cx = (IF con.x >= Columns THEN con.x - Columns ELSE con.x),
           cy = (IF con.x >= Columns /\ con.y + 1 < con.bottom THEN con.y + 1 ELSE con.y),
           s = (IF con.x >= Columns /\ con.y + 1 >= con.bottom
                THEN T!Up(Shown(con), con.top, con.bottom) ELSE Shown(con)),
           Shown(con') = Put(s, cy, cx, Mark)
    PROVE  T!Show(Mark)
BY Zenon DEF Put, T!Show, T!Frame, Framed, SameRegion, Shown, Line, At, Rows, Cols

-----------------------------------------------------------------------------
\* Text and control characters are steps of Terminal.
LEMMA LfIsFeed ==
    ASSUME Good(con), Display(Lf(con)) PROVE T!Feed(con.x)
<1>1. con' = Lf(con) /\ saved' = saved
  BY DEF Display
<1>2. PICK cx : cx = con.x
  OBVIOUS
<1>3. /\ con'.x = cx /\ Framed
      /\ IF con.y + 1 < con.bottom THEN con'.y = con.y + 1 /\ Shown(con') = Shown(con)
         ELSE con'.y = con.y /\ Shown(con') = T!Up(Shown(con), con.top, con.bottom)
  BY <1>1, <1>2, LfShown DEF Framed
<1>4. T!Feed(cx)
  BY <1>3, FeedMeans, Zenon
<1> QED
  BY <1>2, <1>4, Zenon DEF T!Feed

LEMMA RiIsReverseFeed ==
    ASSUME Good(con), Display(Ri(con)) PROVE T!ReverseFeed
BY RiShown, ReverseFeedMeans DEF Display, Framed

\* A step that leaves memory, window and region alone moves the cursor.
LEMMA CursorMoves ==
    ASSUME NEW e, Good(e), Good(con), Display(e), e.mem = con.mem, e.origin = con.origin,
           SameRegion(con, e)
    PROVE  T!Move
<1>1. con' = e /\ saved' = saved
  BY DEF Display
<1>2. e.x \in 0..Columns /\ e.y \in Rows
  BY Fields DEF Rows
<1>3. Shown(e) = Shown(con)
  BY SameShown
<1> QED
  BY <1>1, <1>2, <1>3, MoveMeans DEF Framed

LEMMA GotoxyMoves ==
    ASSUME Good(con), NEW nx \in Int, NEW ny \in Int, Display(Gotoxy(con, nx, ny)) PROVE T!Move
<1>1. PICK e : e = Gotoxy(con, nx, ny)
  OBVIOUS
<1>2. Good(e)
  BY <1>1, GotoxyGood
<1>3. e.mem = con.mem /\ e.origin = con.origin /\ e.top = con.top /\ e.bottom = con.bottom
  <2>1. con \in Screen
    BY Fields
  <2> QED
    BY <1>1, <2>1 DEF Gotoxy, Screen
<1> QED
  BY <1>1, <1>2, <1>3, CursorMoves DEF SameRegion

LEMMA CrMoves ==
    ASSUME Good(con), Display(Cr(con)) PROVE T!Move
<1>1. PICK e : e = Cr(con)
  OBVIOUS
<1>2. Good(e)
  BY <1>1, CrGood
<1>3. e.mem = con.mem /\ e.origin = con.origin /\ e.top = con.top /\ e.bottom = con.bottom
  <2>1. con \in Screen
    BY Fields
  <2> QED
    BY <1>1, <2>1 DEF Cr, Screen
<1> QED
  BY <1>1, <1>2, <1>3, CursorMoves DEF SameRegion

LEMMA BackspaceKeeps ==
    ASSUME NEW d, Good(d)
    PROVE  LET e == Backspace(d) IN
           /\ e.mem = d.mem /\ e.origin = d.origin /\ e.y = d.y /\ SameRegion(d, e)
           /\ d.x > 0 => e.x = d.x - 1 /\ e.pos = d.pos - 1
<1>1. d \in Screen
  BY Fields
<1> QED
  BY <1>1 DEF Backspace, Screen, SameRegion

LEMMA BackspaceMoves ==
    ASSUME Good(con), Display(Backspace(con)) PROVE T!Move
<1>1. PICK e : e = Backspace(con)
  OBVIOUS
<1>2. Good(e)
  BY <1>1, BackspaceGood
<1>3. e.mem = con.mem /\ e.origin = con.origin /\ SameRegion(con, e)
  BY <1>1, BackspaceKeeps
<1> QED
  BY <1>1, <1>2, <1>3, CursorMoves

LEMMA DelIsRubout ==
    ASSUME Good(con), Display(Del(con)), con.x # 0 PROVE T!Rubout
<1>1. PICK b : b = Backspace(con)
  OBVIOUS
<1>2. con.x \in 0..Columns /\ con.x > 0
  BY Fields
<1>3. Good(b) /\ b.mem = con.mem /\ b.origin = con.origin /\ b.y = con.y /\ SameRegion(con, b)
      /\ b.x = con.x - 1
  BY <1>1, <1>2, BackspaceGood, BackspaceKeeps
<1>4. PICK k \in Cols : k = con.x - 1
  BY <1>2, Sizes DEF Cols
<1>5. con' = [b EXCEPT !.mem = Clear(b.mem, b.pos, 1)] /\ saved' = saved
  BY <1>1, <1>2 DEF Display, Del
<1>6. b.pos = con.origin + con.y * Columns + k
  BY <1>3, <1>4, Fields
<1>7. Clear(b.mem, b.pos, 1) = [con.mem EXCEPT ![con.origin + con.y * Columns + k] = Blank]
  <2>1. b.mem \in Memory /\ b.pos \in Int
    BY <1>3, Fields
  <2>2. Clear(b.mem, b.pos, 1) = [b.mem EXCEPT ![b.pos] = Blank]
    BY <2>1, ClearOne
  <2> QED
    BY <1>3, <1>6, <2>2
<1>8. /\ con'.mem = [con.mem EXCEPT ![con.origin + con.y * Columns + k] = Blank]
      /\ con'.origin = con.origin /\ con'.x = k /\ con'.y = con.y /\ SameRegion(con, con')
  <2>1. b \in Screen
    BY <1>3, Fields
  <2>2. PICK m : m = [con.mem EXCEPT ![con.origin + con.y * Columns + k] = Blank]
    OBVIOUS
  <2>3. con' = [b EXCEPT !.mem = m]
    BY <1>5, <1>7, <2>2
  <2>4. con'.mem = m /\ con'.origin = b.origin /\ con'.x = b.x /\ con'.y = b.y
        /\ con'.top = b.top /\ con'.bottom = b.bottom
    BY <2>1, <2>3 DEF Screen
  <2> QED
    BY <1>3, <1>4, <2>2, <2>4 DEF SameRegion
<1>9. Shown(con') = Put(Shown(con), con.y, k, Blank)
  BY <1>8, PutShown DEF Stored
<1> QED
  BY <1>2, <1>4, <1>5, <1>8, <1>9, RuboutMeans DEF Framed

LEMMA WrapShown ==
    ASSUME NEW d, Good(d), NEW k \in Int, d.x + k \in Columns..Columns + Columns
    PROVE  LET w == Wrap([d EXCEPT !.x = d.x + k, !.pos = d.pos + k]) IN
           /\ w.x = d.x + k - Columns /\ SameRegion(d, w)
           /\ IF d.y + 1 < d.bottom THEN w.y = d.y + 1 /\ Shown(w) = Shown(d)
              ELSE w.y = d.y /\ Shown(w) = T!Up(Shown(d), d.top, d.bottom)
<1>1. PICK t : t = [d EXCEPT !.x = d.x + k, !.pos = d.pos + k]
  OBVIOUS
<1>2. PICK c \in Int, p \in Int : c = d.x + k - Columns /\ p = d.pos + k - Columns
  BY Fields, Sizes
<1>3. [t EXCEPT !.x = @ - Columns, !.pos = @ - Columns] = Slide(d, c, p)
  <2>1. PICK u \in Int, v \in Int : u = d.x + k /\ v = d.pos + k
    BY Fields
  <2>2. t = [d EXCEPT !.x = u, !.pos = v] /\ d \in Screen
    BY <1>1, <2>1, Fields
  <2>3. t.x = u /\ t.pos = v
    BY <2>2 DEF Screen
  <2>4. t.x - Columns = c /\ t.pos - Columns = p
    <3>1. d.x \in Int /\ d.pos \in Int /\ Columns \in Int
      BY Fields, Sizes
    <3> QED
      BY <1>2, <2>1, <2>3, <3>1
  <2>5. [t EXCEPT !.x = c, !.pos = p] = [d EXCEPT !.x = c, !.pos = p]
    BY <2>2 DEF Screen
  <2> QED
    BY <2>4, <2>5 DEF Slide
<1>4. c \in 0..Columns /\ p - c = d.pos - d.x
  BY <1>2, Fields, Sizes
<1>5. PICK s : s = Slide(d, c, p)
  OBVIOUS
<1>6. Good(s)
  BY <1>4, <1>5, SlideGood
<1>7. s.x = c /\ s.y = d.y /\ s.top = d.top /\ s.bottom = d.bottom /\ s.mem = d.mem /\ s.origin = d.origin
  <2>1. d \in Screen
    BY Fields
  <2> QED
    BY <1>5, <2>1 DEF Slide, Screen
<1>8. Shown(s) = Shown(d)
  BY <1>7, SameShown
<1>9. Wrap(t) = Lf(s)
  BY <1>3, <1>5 DEF Wrap
<1>10. /\ Wrap(t).x = d.x + k - Columns /\ SameRegion(d, Wrap(t))
       /\ IF d.y + 1 < d.bottom THEN Wrap(t).y = d.y + 1 /\ Shown(Wrap(t)) = Shown(d)
          ELSE Wrap(t).y = d.y /\ Shown(Wrap(t)) = T!Up(Shown(d), d.top, d.bottom)
  <2>1. /\ Lf(s).x = s.x /\ SameRegion(s, Lf(s))
        /\ IF s.y + 1 < s.bottom THEN Lf(s).y = s.y + 1 /\ Shown(Lf(s)) = Shown(s)
           ELSE Lf(s).y = s.y /\ Shown(Lf(s)) = T!Up(Shown(s), s.top, s.bottom)
    BY <1>6, LfShown
  <2> QED
    BY <1>2, <1>7, <1>8, <1>9, <2>1, Zenon DEF SameRegion
<1> QED
  BY <1>1, <1>10

LEMMA Print1Shows ==
    ASSUME Good(con), Display(Print1(con)) PROVE T!Show(Mark)
<1>1. PICK w : w = IF con.x >= Columns THEN Wrap(con) ELSE con
  OBVIOUS
<1>2. Good(w) /\ w.x < Columns
  BY <1>1, PrintWrapped
<1>3. con' = [w EXCEPT !.mem = [w.mem EXCEPT ![w.pos] = Mark], !.pos = w.pos + 1, !.x = w.x + 1]
      /\ saved' = saved
  BY <1>1 DEF Display, Print1
<1>4. PICK k \in Cols : k = w.x
  <2>1. w.x \in 0..Columns /\ Columns \in Int
    BY <1>2, Fields, Sizes
  <2> QED
    BY <1>2, <2>1 DEF Cols
<1>5. /\ con'.mem = [w.mem EXCEPT ![w.pos] = Mark] /\ con'.origin = w.origin
      /\ con'.x = w.x + 1 /\ con'.y = w.y /\ con'.top = w.top /\ con'.bottom = w.bottom
  <2>1. w \in Screen
    BY <1>2, Fields
  <2>2. PICK m, p, c : m = [w.mem EXCEPT ![w.pos] = Mark] /\ p = w.pos + 1 /\ c = w.x + 1
    OBVIOUS
  <2>3. con' = [w EXCEPT !.mem = m, !.pos = p, !.x = c]
    BY <1>3, <2>2
  <2>4. /\ con'.mem = m /\ con'.origin = w.origin
        /\ con'.x = c /\ con'.y = w.y /\ con'.top = w.top /\ con'.bottom = w.bottom
    BY <2>1, <2>3 DEF Screen
  <2> QED
    BY <2>2, <2>4
<1>6. Stored(w.mem, w.origin, w.y, k, Mark, con'.mem)
  <2>1. w.pos = w.origin + w.y * Columns + k
    BY <1>2, <1>4, Fields
  <2> QED
    BY <1>5, <2>1 DEF Stored
<1>7. Shown(con') = Put(Shown(w), w.y, k, Mark)
  <2>1. con'.origin = w.origin
    BY <1>5
  <2> QED
    BY <1>2, <1>6, <2>1, PutShown, Zenon
<1>8. con.y + 1 >= con.bottom <=> ~(con.y + 1 < con.bottom)
  BY Fields
<1>9. CASE con.x >= Columns
  <2>1. PICK z \in Int : z = 0
    OBVIOUS
  <2>2. con = [con EXCEPT !.x = con.x + z, !.pos = con.pos + z]
    <3>1. con.x + z = con.x /\ con.pos + z = con.pos /\ con \in Screen
      BY <2>1, Fields
    <3>2. con = [con EXCEPT !.x = con.x, !.pos = con.pos]
      BY <3>1 DEF Screen
    <3> QED
      BY <3>1, <3>2
  <2>3. con.x + z \in Columns..Columns + Columns /\ con.x + z - Columns = con.x - Columns
    BY <1>9, <2>1, Fields, Sizes
  <2>4. /\ w.x = con.x - Columns /\ SameRegion(con, w)
        /\ IF con.y + 1 < con.bottom THEN w.y = con.y + 1 /\ Shown(w) = Shown(con)
           ELSE w.y = con.y /\ Shown(w) = T!Up(Shown(con), con.top, con.bottom)
    BY <1>1, <1>9, <2>2, <2>3, WrapShown, Zenon
  <2>5. SameRegion(con, con')
    BY <1>5, <2>4, Zenon DEF SameRegion
  <2> QED
    <3>1. con'.x = w.x + 1 /\ con'.y = w.y /\ Framed
      BY <1>3, <1>5, <2>5 DEF Framed
    <3>2. w.x = IF con.x >= Columns THEN con.x - Columns ELSE con.x
      BY <1>9, <2>4
    <3>3. w.y = IF con.x >= Columns /\ con.y + 1 < con.bottom THEN con.y + 1 ELSE con.y
      BY <1>9, <2>4
    <3>4. Shown(w) = IF con.x >= Columns /\ con.y + 1 >= con.bottom
                     THEN T!Up(Shown(con), con.top, con.bottom) ELSE Shown(con)
      BY <1>8, <1>9, <2>4
    <3> QED
      BY <1>4, <1>7, <3>1, <3>2, <3>3, <3>4, ShowMeans, Zenon
<1>10. CASE ~(con.x >= Columns)
  <2>1. w = con
    BY <1>1, <1>10
  <2>2. SameRegion(con, con')
    BY <1>5, <2>1, Zenon DEF SameRegion
  <2> QED
    <3>1. con'.x = w.x + 1 /\ con'.y = w.y /\ Framed
      BY <1>3, <1>5, <2>2 DEF Framed
    <3>2. w.x = IF con.x >= Columns THEN con.x - Columns ELSE con.x
      BY <1>10, <2>1
    <3>3. w.y = IF con.x >= Columns /\ con.y + 1 < con.bottom THEN con.y + 1 ELSE con.y
      BY <1>10, <2>1
    <3>4. Shown(w) = IF con.x >= Columns /\ con.y + 1 >= con.bottom
                     THEN T!Up(Shown(con), con.top, con.bottom) ELSE Shown(con)
      BY <1>10, <2>1
    <3> QED
      BY <1>4, <1>7, <3>1, <3>2, <3>3, <3>4, ShowMeans, Zenon
<1> QED
  BY <1>9, <1>10

\* The next stop is where the source puts it.
LEMMA StopsAgree ==
    ASSUME NEW c \in Nat
    PROVE  Tab * ((c \div Tab) + 1) = c + (Tab - (c % Tab))
<1>1. PICK q \in Int, k \in Int : q = c \div Tab /\ k = c % Tab
  BY Sizes
<1>2. c = Tab * q + k
  BY <1>1, Sizes
<1>3. Tab * (q + 1) = Tab * q + Tab /\ Tab * q \in Int
  BY Sizes
<1> QED
  BY <1>1, <1>2, <1>3, Sizes

LEMMA TabulateMeans ==
    ASSUME NEW n, n = Tab * ((con.x \div Tab) + 1),
           IF n > Columns THEN T!Feed(n - Columns)
           ELSE con'.x = n /\ con'.y = con.y /\ Shown(con') = Shown(con) /\ Framed
    PROVE  T!Tabulate
BY Zenon DEF T!Tabulate, T!NextStop, T!Feed, T!Frame, Framed, SameRegion, Shown, Line, At, Rows, Cols

LEMMA TabTabulates ==
    ASSUME Good(con), Display(HorizontalTab(con)) PROVE T!Tabulate
<1>1. PICK k \in Int : k = Tab - (con.x % Tab)
  BY Fields, StopNear
<1>2. k \in 1..Tab /\ Tab <= Columns /\ con.x \in Nat /\ con.x \in 0..Columns
  BY <1>1, Fields, StopNear, Sizes
<1>3. PICK t : t = [con EXCEPT !.x = con.x + k, !.pos = con.pos + k]
  OBVIOUS
<1>4. HorizontalTab(con) = IF t.x > Columns THEN Wrap(t) ELSE t
  BY <1>1, <1>3 DEF HorizontalTab
<1>5. /\ t.x = con.x + k /\ t.y = con.y /\ t.top = con.top /\ t.bottom = con.bottom
      /\ t.mem = con.mem /\ t.origin = con.origin
  <2>1. con \in Screen
    BY Fields
  <2> QED
    BY <1>3, <2>1 DEF Screen
<1>6. PICK n \in Int : n = con.x + k
  BY <1>2
<1>7. n = Tab * ((con.x \div Tab) + 1)
  BY <1>1, <1>2, <1>6, StopsAgree
<1>8. con' = HorizontalTab(con) /\ saved' = saved
  BY DEF Display
<1>9. CASE n > Columns
  <2>1. con' = Wrap(t)
    BY <1>4, <1>5, <1>6, <1>8, <1>9
  <2>2. con.x + k \in Columns..Columns + Columns
    BY <1>2, <1>6, <1>9, Sizes
  <2>3. /\ con'.x = con.x + k - Columns /\ SameRegion(con, con')
        /\ IF con.y + 1 < con.bottom THEN con'.y = con.y + 1 /\ Shown(con') = Shown(con)
           ELSE con'.y = con.y /\ Shown(con') = T!Up(Shown(con), con.top, con.bottom)
    BY <1>3, <2>1, <2>2, WrapShown, Zenon
  <2>4. T!Feed(n - Columns)
    <3>1. PICK cx : cx = n - Columns
      OBVIOUS
    <3>2. con'.x = cx /\ Framed
      <4>1. n - Columns = con.x + k - Columns
        BY <1>2, <1>6, Sizes
      <4> QED
        BY <1>8, <2>3, <3>1, <4>1 DEF Framed
    <3>3. T!Feed(cx)
      BY <2>3, <3>2, FeedMeans, Zenon
    <3> QED
      BY <3>1, <3>3, Zenon DEF T!Feed
  <2> QED
    BY <1>7, <1>9, <2>4, TabulateMeans, Zenon
<1>10. CASE ~(n > Columns)
  <2>1. con' = t
    BY <1>4, <1>5, <1>6, <1>8, <1>10
  <2>2. Shown(con') = Shown(con)
    BY <1>5, <2>1, SameShown
  <2>3. con'.x = n /\ con'.y = con.y /\ Framed
    BY <1>5, <1>6, <1>8, <2>1, Zenon DEF Framed, SameRegion
  <2> QED
    BY <1>7, <1>10, <2>2, <2>3, TabulateMeans, Zenon
<1> QED
  BY <1>9, <1>10

LEMMA RegionedSets ==
    ASSUME Good(con), Parsed, Display(Regioned(con)) PROVE T!Region \/ UNCHANGED T!tvars
<1>1. PICK t \in Int : t = LessOne(par[0]) /\ t >= 0
  BY Parameters
<1>2. PICK b \in Int : b = IF par[1] = 0 THEN Lines ELSE par[1]
  BY Parameters, Sizes
<1>3. con' = (IF t < b /\ b <= Lines THEN [con EXCEPT !.top = t, !.bottom = b] ELSE con)
      /\ saved' = saved
  BY <1>1, <1>2 DEF Regioned, Display
<1>4. CASE t < b /\ b <= Lines
  <2>1. con \in Screen
    BY Fields
  <2>2. con' = [con EXCEPT !.top = t, !.bottom = b]
    BY <1>3, <1>4
  <2>3. con'.x = con.x /\ con'.y = con.y /\ con'.mem = con.mem /\ con'.origin = con.origin
        /\ con'.top = t /\ con'.bottom = b
    BY <2>1, <2>2 DEF Screen
  <2>4. t \in Rows /\ b \in 1..Lines /\ t < b
    BY <1>1, <1>4, Sizes DEF Rows
  <2>5. Shown(con') = Shown(con)
    BY <2>3, SameShown
  <2> QED
    BY <1>3, <2>3, <2>4, <2>5, RegionMeans, Zenon
<1>5. CASE ~(t < b /\ b <= Lines)
  <2>1. UNCHANGED <<con, saved>>
    BY <1>3, <1>5
  <2> QED
    BY <2>1, StutterMeans
<1> QED
  BY <1>4, <1>5

LEMMA RestoreCurRestores ==
    ASSUME Good(con), Display(RestoreCur(con)) PROVE T!Restore
<1>1. PICK c, r, p : c = saved[1] /\ r = saved[2] /\ p = con.origin + saved[2] * Columns + saved[1]
  OBVIOUS
<1>2. con' = [con EXCEPT !.x = c, !.y = r, !.pos = p] /\ saved' = saved
  BY <1>1 DEF RestoreCur, Display
<1>3. con \in Screen
  BY Fields
<1>4. con'.x = c /\ con'.y = r /\ con'.mem = con.mem /\ con'.origin = con.origin
      /\ con'.top = con.top /\ con'.bottom = con.bottom
  BY <1>2, <1>3 DEF Screen
<1>5. Shown(con') = Shown(con)
  BY <1>4, SameShown
<1>6. Framed
  BY <1>2, <1>4 DEF Framed, SameRegion
<1> QED
  BY <1>1, <1>4, <1>5, <1>6, RestoreMeans, Zenon

\* Erasing.
Wiped(S, s, k, t, l) ==
    [r \in Rows |-> [c \in Cols |-> IF Between(r, c, s, k, t, l) THEN Blank ELSE S[r][c]]]

LEMMA ShownCell ==
    ASSUME NEW d, NEW r \in Rows, NEW c \in Cols
    PROVE  Shown(d)[r][c] = At(d.mem, d.origin, r, c)
BY DEF Shown, Line

LEMMA ClearWipes ==
    ASSUME NEW d, Good(d), NEW e, NEW a, NEW n, NEW s, NEW k, NEW t, NEW l,
           Stretch(d.origin, a, n, s, k, t, l),
           e = [d EXCEPT !.mem = Clear(d.mem, a, n)]
    PROVE  /\ e.x = d.x /\ e.y = d.y /\ SameRegion(d, e)
           /\ Shown(e) = Wiped(Shown(d), s, k, t, l)
<1>1. /\ e.x = d.x /\ e.y = d.y /\ SameRegion(d, e) /\ e.origin = d.origin
      /\ e.mem = Clear(d.mem, a, n)
  <2>1. d \in Screen
    BY Fields
  <2> QED
    BY <2>1 DEF Screen, SameRegion
<1>2. Window(d.origin)
  BY GoodWindow
<1>3. ASSUME NEW r \in Rows, NEW c \in Cols
      PROVE  At(e.mem, e.origin, r, c) =
               IF Between(r, c, s, k, t, l) THEN Blank ELSE Shown(d)[r][c]
  <2>1. PICK m, o : m = d.mem /\ o = d.origin /\ Window(o) /\ Stretch(o, a, n, s, k, t, l)
    BY <1>2
  <2>2. At(Clear(m, a, n), o, r, c) =
          IF Between(r, c, s, k, t, l) THEN Blank ELSE At(m, o, r, c)
    BY <2>1, ClearAt
  <2>3. Shown(d)[r][c] = At(m, o, r, c)
    BY <2>1, ShownCell
  <2> QED
    BY <1>1, <2>1, <2>2, <2>3
<1>4. Shown(e) = Wiped(Shown(d), s, k, t, l)
  BY <1>3, Zenon DEF Shown, Line, Wiped
<1> QED
  BY <1>1, <1>4

\* The six ways to erase.
WipeJ0(S, x, y) == [r \in Rows |-> [c \in Cols |-> IF r > y \/ (r = y /\ c >= x) THEN Blank ELSE S[r][c]]]
WipeJ1(S, x, y) == [r \in Rows |-> [c \in Cols |-> IF r < y \/ (r = y /\ c < x) THEN Blank ELSE S[r][c]]]
WipeJ2(S, x, y) == [r \in Rows |-> [c \in Cols |-> IF TRUE THEN Blank ELSE S[r][c]]]
WipeK0(S, x, y) == [r \in Rows |-> [c \in Cols |-> IF r = y /\ c >= x THEN Blank ELSE S[r][c]]]
WipeK1(S, x, y) == [r \in Rows |-> [c \in Cols |-> IF r = y /\ c < x THEN Blank ELSE S[r][c]]]
WipeK2(S, x, y) == [r \in Rows |-> [c \in Cols |-> IF r = y THEN Blank ELSE S[r][c]]]

LEMMA EraseMeans ==
    ASSUME con'.x = con.x, con'.y = con.y, Framed,
           \/ Shown(con') = WipeJ0(Shown(con), con.x, con.y)
           \/ Shown(con') = WipeJ1(Shown(con), con.x, con.y)
           \/ Shown(con') = WipeJ2(Shown(con), con.x, con.y)
           \/ Shown(con') = WipeK0(Shown(con), con.x, con.y)
           \/ Shown(con') = WipeK1(Shown(con), con.x, con.y)
           \/ Shown(con') = WipeK2(Shown(con), con.x, con.y)
    PROVE  T!Erase
BY Zenon DEF T!Erase, T!Erased, T!Rows, T!Cols, T!Frame, Framed, SameRegion, Shown, Line, At,
     Rows, Cols, WipeJ0, WipeJ1, WipeJ2, WipeK0, WipeK1, WipeK2

LEMMA Wipings ==
    ASSUME NEW S, NEW x \in 0..Columns, NEW y \in Rows
    PROVE  /\ Wiped(S, y, x, Lines, 0) = WipeJ0(S, x, y)
           /\ Wiped(S, 0, 0, y, x) = WipeJ1(S, x, y)
           /\ Wiped(S, 0, 0, Lines, 0) = WipeJ2(S, x, y)
           /\ Wiped(S, y, x, y, Columns) = WipeK0(S, x, y)
           /\ Wiped(S, y, 0, y, x) = WipeK1(S, x, y)
           /\ Wiped(S, y, 0, y, Columns) = WipeK2(S, x, y)
<1>1. ASSUME NEW r \in Rows, NEW c \in Cols
      PROVE  /\ Between(r, c, y, x, Lines, 0) <=> r > y \/ (r = y /\ c >= x)
             /\ Between(r, c, 0, 0, y, x) <=> r < y \/ (r = y /\ c < x)
             /\ Between(r, c, 0, 0, Lines, 0)
             /\ Between(r, c, y, x, y, Columns) <=> r = y /\ c >= x
             /\ Between(r, c, y, 0, y, x) <=> r = y /\ c < x
             /\ Between(r, c, y, 0, y, Columns) <=> r = y
  BY Sizes DEF Between, Rows, Cols
<1> QED
  BY <1>1, Zenon DEF Wiped, WipeJ0, WipeJ1, WipeJ2, WipeK0, WipeK1, WipeK2

LEMMA Cursor ==
    ASSUME NEW d, Good(d)
    PROVE  /\ d.x \in 0..Columns /\ d.y \in Rows /\ d.x \in Int /\ d.y \in Int
           /\ d.pos \in Int /\ d.origin \in Int /\ d.scr_end \in Int
           /\ Stretch(d.origin, d.pos, d.scr_end - d.pos, d.y, d.x, Lines, 0)
           /\ Stretch(d.origin, d.origin, d.pos - d.origin, 0, 0, d.y, d.x)
           /\ Stretch(d.origin, d.origin, Columns * Lines, 0, 0, Lines, 0)
           /\ Stretch(d.origin, d.pos, Columns - d.x, d.y, d.x, d.y, Columns)
           /\ Stretch(d.origin, d.pos - d.x, d.x, d.y, 0, d.y, d.x)
           /\ Stretch(d.origin, d.pos - d.x, Columns, d.y, 0, d.y, Columns)
<1>1. PICK o \in Int, p \in Int, e \in Int, x \in Int, y \in Int, w \in Int, v \in Int, z \in Int :
        /\ o = d.origin /\ p = d.pos /\ e = d.scr_end /\ x = d.x /\ y = d.y
        /\ w = d.y * Columns /\ v = Lines * Columns /\ z = 0 * Columns
  <2>1. d.y * Columns \in Int /\ Lines * Columns \in Int /\ 0 * Columns \in Int
    BY Fields, RowAfter, Sizes
  <2>2. d.origin \in Int /\ d.pos \in Int /\ d.scr_end \in Int /\ d.x \in Int /\ d.y \in Int
    BY Fields
  <2> QED
    BY <2>1, <2>2, Zenon
<1>2. p = o + w + x /\ e = o + v
  BY <1>1, Fields
<1>3. x \in 0..Columns /\ y \in Rows /\ 0 \in 0..Columns /\ Columns \in 0..Columns
      /\ Columns \in Int /\ Lines \in Int
  BY <1>1, Fields, Sizes DEF Rows
<1>4. w = y * Columns /\ z = 0 /\ v = Lines * Columns /\ Columns * Lines = v
  BY <1>1, Sizes
<1>5. Stretch(o, p, e - p, y, x, Lines, 0)
  <2>1. p + (e - p) = o + v + 0 /\ e - p \in Int
    BY <1>2
  <2> QED
    BY <1>2, <1>3, <1>4, <2>1 DEF Stretch
<1>6. Stretch(o, o, p - o, 0, 0, y, x)
  <2>1. o = o + z + 0 /\ o + (p - o) = o + w + x /\ p - o \in Int
    BY <1>2, <1>4
  <2>2. o = o + 0 * Columns + 0 /\ o + (p - o) = o + y * Columns + x
    BY <1>1, <1>4, <2>1, Zenon
  <2> QED
    BY <1>3, <2>1, <2>2 DEF Stretch
<1>7. Stretch(o, o, Columns * Lines, 0, 0, Lines, 0)
  <2>1. o = o + z + 0 /\ o + v = o + v + 0
    BY <1>4
  <2>2. o = o + 0 * Columns + 0 /\ o + Columns * Lines = o + Lines * Columns + 0
    BY <1>1, <1>4, <2>1, Zenon
  <2> QED
    BY <1>3, <1>4, <2>1, <2>2 DEF Stretch
<1>8. Stretch(o, p, Columns - x, y, x, y, Columns)
  <2>1. p + (Columns - x) = o + w + Columns /\ Columns - x \in Int
    BY <1>2, <1>3
  <2> QED
    BY <1>2, <1>3, <1>4, <2>1 DEF Stretch
<1>9. Stretch(o, p - x, x, y, 0, y, x)
  <2>1. p - x = o + w + 0 /\ (p - x) + x = o + w + x /\ p - x \in Int
    BY <1>2
  <2> QED
    BY <1>3, <1>4, <2>1 DEF Stretch
<1>10. Stretch(o, p - x, Columns, y, 0, y, Columns)
  <2>1. p - x = o + w + 0 /\ (p - x) + Columns = o + w + Columns /\ p - x \in Int
    BY <1>2, <1>3
  <2> QED
    BY <1>3, <1>4, <2>1 DEF Stretch
<1> QED
  BY <1>1, <1>3, <1>5, <1>6, <1>7, <1>8, <1>9, <1>10, Zenon

\* A step that clears a stretch of cells.
LEMMA ClearingStep ==
    ASSUME Good(con), NEW a, NEW n, NEW s, NEW k, NEW t, NEW l,
           Stretch(con.origin, a, n, s, k, t, l),
           Display([con EXCEPT !.mem = Clear(con.mem, a, n)])
    PROVE  /\ con'.x = con.x /\ con'.y = con.y /\ Framed
           /\ Shown(con') = Wiped(Shown(con), s, k, t, l)
<1>1. con' = [con EXCEPT !.mem = Clear(con.mem, a, n)] /\ saved' = saved
  BY DEF Display
<1> QED
  BY <1>1, ClearWipes DEF Framed

LEMMA CsiJErases ==
    ASSUME Good(con), NEW v \in Int, Display(CsiJ(con, v)) PROVE T!Erase \/ UNCHANGED T!tvars
<1>0. PICK x \in 0..Columns, y \in Rows : x = con.x /\ y = con.y
  BY Cursor
<1>1. CASE v = 0
  <2>n. PICK n : n = con.scr_end - con.pos
    OBVIOUS
  <2>1. Display([con EXCEPT !.mem = Clear(con.mem, con.pos, n)])
    BY <1>1, <2>n DEF CsiJ
  <2>2. Stretch(con.origin, con.pos, n, y, x, Lines, 0)
    BY <1>0, <2>n, Cursor
  <2>3. /\ con'.x = con.x /\ con'.y = con.y /\ Framed
        /\ Shown(con') = Wiped(Shown(con), y, x, Lines, 0)
    BY <2>1, <2>2, ClearingStep
  <2> QED
    BY <1>0, <2>3, Wipings, EraseMeans
<1>2. CASE v = 1
  <2>n. PICK n : n = con.pos - con.origin
    OBVIOUS
  <2>1. Display([con EXCEPT !.mem = Clear(con.mem, con.origin, n)])
    BY <1>2, <2>n DEF CsiJ
  <2>2. Stretch(con.origin, con.origin, n, 0, 0, y, x)
    BY <1>0, <2>n, Cursor
  <2>3. /\ con'.x = con.x /\ con'.y = con.y /\ Framed
        /\ Shown(con') = Wiped(Shown(con), 0, 0, y, x)
    BY <2>1, <2>2, ClearingStep
  <2> QED
    BY <1>0, <2>3, Wipings, EraseMeans
<1>3. CASE v = 2
  <2>1. Display([con EXCEPT !.mem = Clear(con.mem, con.origin, Columns * Lines)])
    BY <1>3 DEF CsiJ
  <2>2. Stretch(con.origin, con.origin, Columns * Lines, 0, 0, Lines, 0)
    BY Cursor
  <2>3. /\ con'.x = con.x /\ con'.y = con.y /\ Framed
        /\ Shown(con') = Wiped(Shown(con), 0, 0, Lines, 0)
    BY <2>1, <2>2, ClearingStep
  <2> QED
    BY <1>0, <2>3, Wipings, EraseMeans
<1>4. CASE v \notin {0, 1, 2}
  <2>1. UNCHANGED <<con, saved>>
    BY <1>4 DEF CsiJ, Display
  <2> QED
    BY <2>1, StutterMeans
<1> QED
  BY <1>1, <1>2, <1>3, <1>4

LEMMA CsiKErases ==
    ASSUME Good(con), NEW v \in Int, Display(CsiK(con, v)) PROVE T!Erase \/ UNCHANGED T!tvars
<1>0. PICK x \in 0..Columns, y \in Rows : x = con.x /\ y = con.y
  BY Cursor
<1>1. CASE v = 0 /\ ~(con.x >= Columns)
  <2>n. PICK n : n = Columns - con.x
    OBVIOUS
  <2>1. Display([con EXCEPT !.mem = Clear(con.mem, con.pos, n)])
    BY <1>1, <2>n DEF CsiK
  <2>2. Stretch(con.origin, con.pos, n, y, x, y, Columns)
    BY <1>0, <2>n, Cursor
  <2>3. /\ con'.x = con.x /\ con'.y = con.y /\ Framed
        /\ Shown(con') = Wiped(Shown(con), y, x, y, Columns)
    BY <2>1, <2>2, ClearingStep
  <2> QED
    BY <1>0, <2>3, Wipings, EraseMeans
<1>2. CASE v = 1
  <2>n. PICK a : a = con.pos - con.x
    OBVIOUS
  <2>x. con.x = IF con.x < Columns THEN con.x ELSE Columns
    BY <1>0, Sizes
  <2>1. Display([con EXCEPT !.mem = Clear(con.mem, a, x)])
    BY <1>0, <1>2, <2>n, <2>x DEF CsiK
  <2>2. Stretch(con.origin, a, x, y, 0, y, x)
    BY <1>0, <2>n, Cursor
  <2>3. /\ con'.x = con.x /\ con'.y = con.y /\ Framed
        /\ Shown(con') = Wiped(Shown(con), y, 0, y, x)
    BY <2>1, <2>2, ClearingStep
  <2> QED
    BY <1>0, <2>3, Wipings, EraseMeans
<1>3. CASE v = 2
  <2>n. PICK a : a = con.pos - con.x
    OBVIOUS
  <2>1. Display([con EXCEPT !.mem = Clear(con.mem, a, Columns)])
    BY <1>3, <2>n DEF CsiK
  <2>2. Stretch(con.origin, a, Columns, y, 0, y, Columns)
    BY <1>0, <2>n, Cursor
  <2>3. /\ con'.x = con.x /\ con'.y = con.y /\ Framed
        /\ Shown(con') = Wiped(Shown(con), y, 0, y, Columns)
    BY <2>1, <2>2, ClearingStep
  <2> QED
    BY <1>0, <2>3, Wipings, EraseMeans
<1>4. CASE v \notin {0, 1, 2} \/ (v = 0 /\ con.x >= Columns)
  <2>1. UNCHANGED <<con, saved>>
    BY <1>4 DEF CsiK, Display
  <2> QED
    BY <2>1, StutterMeans
<1> QED
  BY <1>1, <1>2, <1>3, <1>4

-----------------------------------------------------------------------------
\* Inserting and deleting n characters or lines at once.
InsRow(L, x, n) == [c \in Cols |-> IF c < x THEN L[c] ELSE IF c < x + n THEN Blank ELSE L[c-n]]
DelRow(L, x, n) == [c \in Cols |-> IF c < x THEN L[c] ELSE IF c + n < Columns THEN L[c+n] ELSE Blank]
InsChars(S, x, y, n) == [r \in Rows |-> IF r = y THEN InsRow(S[r], x, n) ELSE S[r]]
DelChars(S, x, y, n) == [r \in Rows |-> IF r = y THEN DelRow(S[r], x, n) ELSE S[r]]
InsLines(S, y, n) ==
    [r \in Rows |-> IF r < y THEN S[r] ELSE IF r < y + n THEN BlankLine ELSE S[r-n]]
DelLines(S, y, n) ==
    [r \in Rows |-> IF r < y THEN S[r] ELSE IF r + n < Lines THEN S[r+n] ELSE BlankLine]

Shifted(c, S, x, y, n) ==
    CASE c = "L" -> InsLines(S, y, n)
      [] c = "M" -> DelLines(S, y, n)
      [] c = "P" -> DelChars(S, x, y, n)
      [] c = "@" -> InsChars(S, x, y, n)

\* Once more is one more.
LEMMA InsRowMore ==
    ASSUME NEW L, NEW x \in Nat, NEW i \in Nat
    PROVE  InsRow(InsRow(L, x, i), x, 1) = InsRow(L, x, i + 1)
<1>1. ASSUME NEW c \in Cols
      PROVE  InsRow(InsRow(L, x, i), x, 1)[c] = InsRow(L, x, i + 1)[c]
  <2>1. CASE c < x
    BY <2>1, Sizes DEF InsRow, Cols
  <2>2. CASE c = x
    BY <2>2, Sizes DEF InsRow, Cols
  <2>3. CASE c > x
    <3>1. c - 1 \in Cols /\ ~(c - 1 < x) /\ ~(c < x) /\ ~(c < x + 1)
          /\ (c - 1 < x + i <=> c < x + (i + 1)) /\ (c - 1) - i = c - (i + 1)
      BY <2>3, Sizes DEF Cols
    <3>2. InsRow(InsRow(L, x, i), x, 1)[c] = InsRow(L, x, i)[c-1]
      BY <3>1 DEF InsRow
    <3>3. InsRow(L, x, i)[c-1] = IF c < x + (i + 1) THEN Blank ELSE L[c - (i + 1)]
      BY <3>1 DEF InsRow
    <3> QED
      BY <3>1, <3>2, <3>3 DEF InsRow
  <2>4. c \in Int
    BY Sizes DEF Cols
  <2> QED
    BY <2>1, <2>2, <2>3, <2>4
<1> QED
  BY <1>1 DEF InsRow

LEMMA DelRowMore ==
    ASSUME NEW L, NEW x \in Nat, NEW i \in Nat
    PROVE  DelRow(DelRow(L, x, i), x, 1) = DelRow(L, x, i + 1)
<1>1. ASSUME NEW c \in Cols
      PROVE  DelRow(DelRow(L, x, i), x, 1)[c] = DelRow(L, x, i + 1)[c]
  <2>1. CASE c < x
    BY <2>1, Sizes DEF DelRow, Cols
  <2>2. CASE c >= x /\ c + 1 >= Columns
    <3>1. ~(c < x) /\ ~(c + 1 < Columns) /\ ~(c + (i + 1) < Columns)
      BY <2>2, Sizes DEF Cols
    <3> QED
      BY <3>1 DEF DelRow
  <2>3. CASE c >= x /\ c + 1 < Columns
    <3>1. c + 1 \in Cols /\ ~(c + 1 < x) /\ ~(c < x)
          /\ (c + 1) + i = c + (i + 1)
      BY <2>3, Sizes DEF Cols
    <3>2. DelRow(DelRow(L, x, i), x, 1)[c] = DelRow(L, x, i)[c+1]
      BY <2>3, <3>1 DEF DelRow
    <3>3. DelRow(L, x, i)[c+1] = IF c + (i + 1) < Columns THEN L[c + (i + 1)] ELSE Blank
      BY <3>1 DEF DelRow
    <3> QED
      BY <3>1, <3>2, <3>3 DEF DelRow
  <2>4. c \in Int
    BY Sizes DEF Cols
  <2> QED
    BY <2>1, <2>2, <2>3, <2>4, Sizes
<1> QED
  BY <1>1 DEF DelRow

LEMMA InsLinesMore ==
    ASSUME NEW S, NEW y \in Nat, NEW i \in Nat
    PROVE  InsLines(InsLines(S, y, i), y, 1) = InsLines(S, y, i + 1)
<1>1. ASSUME NEW r \in Rows
      PROVE  InsLines(InsLines(S, y, i), y, 1)[r] = InsLines(S, y, i + 1)[r]
  <2>1. CASE r < y
    BY <2>1, Sizes DEF InsLines, Rows
  <2>2. CASE r = y
    BY <2>2, Sizes DEF InsLines, Rows
  <2>3. CASE r > y
    <3>1. r - 1 \in Rows /\ ~(r - 1 < y) /\ ~(r < y) /\ ~(r < y + 1)
          /\ (r - 1 < y + i <=> r < y + (i + 1)) /\ (r - 1) - i = r - (i + 1)
      BY <2>3, Sizes DEF Rows
    <3>2. InsLines(InsLines(S, y, i), y, 1)[r] = InsLines(S, y, i)[r-1]
      BY <3>1 DEF InsLines
    <3>3. InsLines(S, y, i)[r-1] = IF r < y + (i + 1) THEN BlankLine ELSE S[r - (i + 1)]
      BY <3>1 DEF InsLines
    <3> QED
      BY <3>1, <3>2, <3>3 DEF InsLines
  <2>4. r \in Int
    BY Sizes DEF Rows
  <2> QED
    BY <2>1, <2>2, <2>3, <2>4
<1> QED
  BY <1>1 DEF InsLines

LEMMA DelLinesMore ==
    ASSUME NEW S, NEW y \in Nat, NEW i \in Nat
    PROVE  DelLines(DelLines(S, y, i), y, 1) = DelLines(S, y, i + 1)
<1>1. ASSUME NEW r \in Rows
      PROVE  DelLines(DelLines(S, y, i), y, 1)[r] = DelLines(S, y, i + 1)[r]
  <2>1. CASE r < y
    BY <2>1, Sizes DEF DelLines, Rows
  <2>2. CASE r >= y /\ r + 1 >= Lines
    <3>1. ~(r < y) /\ ~(r + 1 < Lines) /\ ~(r + (i + 1) < Lines)
      BY <2>2, Sizes DEF Rows
    <3> QED
      BY <3>1 DEF DelLines
  <2>3. CASE r >= y /\ r + 1 < Lines
    <3>1. r + 1 \in Rows /\ ~(r + 1 < y) /\ ~(r < y)
          /\ (r + 1) + i = r + (i + 1)
      BY <2>3, Sizes DEF Rows
    <3>2. DelLines(DelLines(S, y, i), y, 1)[r] = DelLines(S, y, i)[r+1]
      BY <2>3, <3>1 DEF DelLines
    <3>3. DelLines(S, y, i)[r+1] = IF r + (i + 1) < Lines THEN S[r + (i + 1)] ELSE BlankLine
      BY <3>1 DEF DelLines
    <3> QED
      BY <3>1, <3>2, <3>3 DEF DelLines
  <2>4. r \in Int
    BY Sizes DEF Rows
  <2> QED
    BY <2>1, <2>2, <2>3, <2>4, Sizes
<1> QED
  BY <1>1 DEF DelLines

LEMMA ShiftedMore ==
    ASSUME NEW c \in {"L", "M", "P", "@"}, NEW S, NEW x \in Nat, NEW y \in Nat, NEW i \in Nat
    PROVE  Shifted(c, Shifted(c, S, x, y, i), x, y, 1) = Shifted(c, S, x, y, i + 1)
<1>1. InsChars(InsChars(S, x, y, i), x, y, 1) = InsChars(S, x, y, i + 1)
  BY InsRowMore DEF InsChars
<1>2. DelChars(DelChars(S, x, y, i), x, y, 1) = DelChars(S, x, y, i + 1)
  BY DelRowMore DEF DelChars
<1>3. InsLines(InsLines(S, y, i), y, 1) = InsLines(S, y, i + 1)
      /\ DelLines(DelLines(S, y, i), y, 1) = DelLines(S, y, i + 1)
  BY InsLinesMore, DelLinesMore
<1> QED
  BY <1>1, <1>2, <1>3, Zenon DEF Shifted

\* No times is nothing.
Picture(S) == S = [r \in Rows |-> [c \in Cols |-> S[r][c]]]

LEMMA ShownPicture == ASSUME NEW d PROVE Picture(Shown(d))
BY DEF Picture, Shown, Line

LEMMA ShiftedNone ==
    ASSUME NEW c \in {"L", "M", "P", "@"}, NEW S, Picture(S), NEW x \in Nat, NEW y \in Nat
    PROVE  Shifted(c, S, x, y, 0) = S
<1>1. S = [r \in Rows |-> S[r]] /\ \A r \in Rows : S[r] = [k \in Cols |-> S[r][k]]
  BY DEF Picture
<1>2. \A r \in Rows : r \in Int /\ r + 0 = r /\ r - 0 = r /\ y + 0 = y /\ r + 0 < Lines
  BY Sizes DEF Rows
<1>3. \A k \in Cols : k \in Int /\ k + 0 = k /\ k - 0 = k /\ x + 0 = x /\ k + 0 < Columns
  BY Sizes DEF Cols
<1>4. InsLines(S, y, 0) = S
  BY <1>1, <1>2 DEF InsLines
<1>5. DelLines(S, y, 0) = S
  BY <1>1, <1>2 DEF DelLines
<1>6. ASSUME NEW r \in Rows PROVE InsRow(S[r], x, 0) = S[r] /\ DelRow(S[r], x, 0) = S[r]
  BY <1>1, <1>3 DEF InsRow, DelRow
<1>7. InsChars(S, x, y, 0) = S /\ DelChars(S, x, y, 0) = S
  BY <1>1, <1>6 DEF InsChars, DelChars
<1> QED
  BY <1>4, <1>5, <1>7, Zenon DEF Shifted

\* Each loop turn shifts by one.
LEMMA DownIsInsert ==
    ASSUME NEW S, NEW y \in Rows
    PROVE  T!Down(S, y, Lines) = InsLines(S, y, 1) /\ T!Up(S, y, Lines) = DelLines(S, y, 1)
<1>1. ASSUME NEW r \in Rows
      PROVE  /\ r \in y+1..Lines-1 <=> ~(r < y) /\ ~(r < y + 1)
             /\ r = y => ~(r < y) /\ r < y + 1 /\ r \notin y+1..Lines-1
             /\ r < y => r # y /\ r \notin y+1..Lines-1 /\ r \notin y..Lines-2 /\ r # Lines - 1
             /\ r \in y..Lines-2 <=> ~(r < y) /\ r + 1 < Lines
             /\ r = Lines - 1 => ~(r < y) /\ ~(r + 1 < Lines) /\ r \notin y..Lines-2
             /\ r < y \/ r = y \/ r \in y+1..Lines-1
             /\ r < y \/ r = Lines - 1 \/ r \in y..Lines-2
  BY Sizes DEF Rows
<1>2. ASSUME NEW r \in Rows
      PROVE  (IF r \in y+1..Lines-1 THEN S[r-1] ELSE IF r = y THEN BlankLine ELSE S[r])
             = (IF r < y THEN S[r] ELSE IF r < y + 1 THEN BlankLine ELSE S[r-1])
  BY <1>1, Zenon
<1>3. ASSUME NEW r \in Rows
      PROVE  (IF r \in y..Lines-2 THEN S[r+1] ELSE IF r = Lines-1 THEN BlankLine ELSE S[r])
             = (IF r < y THEN S[r] ELSE IF r + 1 < Lines THEN S[r+1] ELSE BlankLine)
  BY <1>1, Zenon
<1>4. T!Down(S, y, Lines) = [r \in Rows |-> IF r \in y+1..Lines-1 THEN S[r-1] ELSE IF r = y THEN BlankLine ELSE S[r]]
  BY Zenon DEF T!Down, T!Rows, T!Cols, T!BlankRow, BlankLine, Rows, Cols
<1>5. T!Up(S, y, Lines) = [r \in Rows |-> IF r \in y..Lines-2 THEN S[r+1] ELSE IF r = Lines-1 THEN BlankLine ELSE S[r]]
  BY Zenon DEF T!Up, T!Rows, T!Cols, T!BlankRow, BlankLine, Rows, Cols
<1>6. T!Down(S, y, Lines) = InsLines(S, y, 1)
  BY <1>2, <1>4, Zenon DEF InsLines
<1>7. T!Up(S, y, Lines) = DelLines(S, y, 1)
  BY <1>3, <1>5, Zenon DEF DelLines
<1> QED
  BY <1>6, <1>7

\* What a loop turn leaves alone.
Beside(d, e) == e.x = d.x /\ e.y = d.y /\ SameRegion(d, e)

LEMMA LineShifts ==
    ASSUME NEW d, Good(d)
    PROVE  /\ Beside(d, InsertLine(d)) /\ Shown(InsertLine(d)) = InsLines(Shown(d), d.y, 1)
           /\ Beside(d, DeleteLine(d)) /\ Shown(DeleteLine(d)) = DelLines(Shown(d), d.y, 1)
<1>1. PICK e : e = [d EXCEPT !.top = d.y, !.bottom = Lines]
  OBVIOUS
<1>2. d.y \in Int /\ Lines \in Int /\ 0 <= d.y /\ d.y < Lines /\ Lines <= Lines /\ d.y \in Rows
      /\ d \in Screen
  BY Fields, Sizes DEF Rows
<1>3. Good(e)
  BY <1>1, <1>2, RegionGood
<1>4. e.x = d.x /\ e.y = d.y /\ e.top = d.y /\ e.bottom = Lines /\ e.mem = d.mem /\ e.origin = d.origin
  BY <1>1, <1>2 DEF Screen
<1>5. Shown(e) = Shown(d)
  BY <1>4, SameShown
<1>6. PICK u, v : u = Scrdown(e) /\ v = Scrup(e)
  OBVIOUS
<1>7. /\ Shown(u) = T!Down(Shown(d), d.y, Lines) /\ u.x = d.x /\ u.y = d.y
      /\ Shown(v) = T!Up(Shown(d), d.y, Lines) /\ v.x = d.x /\ v.y = d.y
  BY <1>3, <1>4, <1>5, <1>6, ScrdownShown, ScrupShown
<1>8. u \in Screen /\ v \in Screen
  BY <1>3, <1>6, ScrdownGood, ScrupGood DEF Good
<1>9. PICK f, g : f = InsertLine(d) /\ g = DeleteLine(d)
  OBVIOUS
<1>10. f = [u EXCEPT !.top = d.top, !.bottom = d.bottom] /\ g = [v EXCEPT !.top = d.top, !.bottom = d.bottom]
  BY <1>1, <1>6, <1>9, Zenon DEF InsertLine, DeleteLine, FromCursor
<1>11. /\ f.x = u.x /\ f.y = u.y /\ f.mem = u.mem /\ f.origin = u.origin
       /\ f.top = d.top /\ f.bottom = d.bottom
  BY <1>8, <1>10 DEF Screen
<1>12. /\ g.x = v.x /\ g.y = v.y /\ g.mem = v.mem /\ g.origin = v.origin
       /\ g.top = d.top /\ g.bottom = d.bottom
  BY <1>8, <1>10 DEF Screen
<1>13. Shown(f) = Shown(u) /\ Shown(g) = Shown(v)
  BY <1>11, <1>12, SameShown
<1>14. Shown(f) = InsLines(Shown(d), d.y, 1) /\ Shown(g) = DelLines(Shown(d), d.y, 1)
  BY <1>2, <1>7, <1>13, DownIsInsert
<1>15. Beside(d, f) /\ Beside(d, g)
  BY <1>7, <1>11, <1>12 DEF Beside, SameRegion
<1> QED
  BY <1>9, <1>14, <1>15

\* A window that begins a cell earlier or later.
LEMMA NextCell ==
    ASSUME NEW m, NEW o \in Int, NEW r \in Rows, NEW c \in Cols
    PROVE  At(m, o + 1, r, c) = At(m, o, r, c + 1) /\ At(m, o - 1, r, c) = At(m, o, r, c - 1)
<1>1. PICK u \in Int : u = r * Columns
  BY RowAfter DEF Rows
<1>2. c \in Int
  BY Sizes DEF Cols
<1>3. (o + 1) + u + c = o + u + (c + 1) /\ (o - 1) + u + c = o + u + (c - 1)
  BY <1>2
<1> QED
  BY <1>1, <1>3, Zenon DEF At

\* The stretches that inserting and deleting a character move and clear.
LEMMA CharStretches ==
    ASSUME NEW d, Good(d), d.x < Columns
    PROVE  /\ Stretch(d.origin, d.pos + 1, Columns - d.x - 1, d.y, d.x + 1, d.y, Columns)
           /\ Stretch(d.origin, d.pos, 1, d.y, d.x, d.y, d.x + 1)
           /\ Stretch(d.origin, d.pos, Columns - d.x - 1, d.y, d.x, d.y, Columns - 1)
           /\ Stretch(d.origin, d.pos + Columns - d.x - 1, 1, d.y, Columns - 1, d.y, Columns)
           /\ AsFar(d.pos + 1, d.pos, d.origin, d.origin - 1)
           /\ AsFar(d.pos, d.pos + 1, d.origin, d.origin + 1)
<1>1. PICK o \in Int, p \in Int, x \in Int, y \in Int, w \in Int :
        /\ o = d.origin /\ p = d.pos /\ x = d.x /\ y = d.y /\ w = d.y * Columns
  <2>1. d.y * Columns \in Int
    BY Fields, RowAfter
  <2>2. d.origin \in Int /\ d.pos \in Int /\ d.x \in Int /\ d.y \in Int
    BY Fields
  <2> QED
    BY <2>1, <2>2, Zenon
<1>2. p = o + w + x /\ w = y * Columns
  BY <1>1, Fields
<1>3. x \in 0..Columns /\ x < Columns /\ Columns \in Int /\ Columns >= 1
  BY <1>1, Fields, Sizes
<1>4. /\ x + 1 \in 0..Columns /\ Columns \in 0..Columns /\ Columns - 1 \in 0..Columns
      /\ Columns - x - 1 \in Int /\ p + 1 \in Int /\ p + Columns - x - 1 \in Int
  BY <1>3
<1>5. /\ p + 1 = o + w + (x + 1) /\ (p + 1) + (Columns - x - 1) = o + w + Columns
      /\ p + (Columns - x - 1) = o + w + (Columns - 1)
      /\ p + Columns - x - 1 = o + w + (Columns - 1)
      /\ (p + Columns - x - 1) + 1 = o + w + Columns
  BY <1>2, <1>3
<1>6. Stretch(o, p + 1, Columns - x - 1, y, x + 1, y, Columns)
  BY <1>2, <1>3, <1>4, <1>5 DEF Stretch
<1>7. Stretch(o, p, 1, y, x, y, x + 1)
  BY <1>2, <1>3, <1>4, <1>5 DEF Stretch
<1>8. Stretch(o, p, Columns - x - 1, y, x, y, Columns - 1)
  BY <1>2, <1>3, <1>4, <1>5 DEF Stretch
<1>9. Stretch(o, p + Columns - x - 1, 1, y, Columns - 1, y, Columns)
  BY <1>2, <1>3, <1>4, <1>5 DEF Stretch
<1>10. AsFar(p + 1, p, o, o - 1) /\ AsFar(p, p + 1, o, o + 1)
  BY DEF AsFar
<1> QED
  BY <1>1, <1>6, <1>7, <1>8, <1>9, <1>10, Zenon

LEMMA InsertCharShifts ==
    ASSUME NEW d, Good(d)
    PROVE  Beside(d, InsertChar(d)) /\ Shown(InsertChar(d)) = InsChars(Shown(d), d.x, d.y, 1)
<1>0. PICK o \in Int, x \in Int, y \in Rows, e \in {InsertChar(d)} :
        o = d.origin /\ x = d.x /\ y = d.y
  BY Fields DEF Rows
<1>x. x \in 0..Columns /\ Columns \in Int
  BY <1>0, Fields, Sizes
<1>1. CASE x < Columns
  <2>1. PICK a, b, n, q, m : a = d.pos + 1 /\ b = d.pos /\ n = Columns - d.x - 1 /\ q = d.origin - 1
                             /\ m = CopyCells(d.mem, a, b, n)
    OBVIOUS
  <2>2. PICK x1 : x1 = x + 1
    OBVIOUS
  <2>3. /\ Stretch(o, a, n, y, x1, y, Columns) /\ Stretch(o, b, 1, y, x, y, x1)
        /\ AsFar(a, b, o, q) /\ Window(o)
    BY <1>0, <1>1, <2>1, <2>2, CharStretches, GoodWindow
  <2>4. e = [d EXCEPT !.mem = Clear(m, b, 1)] /\ d \in Screen
    BY <1>0, <1>x, <1>1, <2>1, Fields DEF InsertChar
  <2>5. e.mem = Clear(m, b, 1) /\ e.origin = o /\ Beside(d, e)
    BY <1>0, <2>4 DEF Screen, Beside, SameRegion
  <2>6. ASSUME NEW r \in Rows, NEW c \in Cols
        PROVE  At(e.mem, o, r, c) = IF r = y THEN InsRow(Shown(d)[r], x, 1)[c] ELSE Shown(d)[r][c]
    <3>1. At(m, o, r, c) = IF Between(r, c, y, x1, y, Columns) THEN At(d.mem, q, r, c) ELSE At(d.mem, o, r, c)
      BY <2>1, <2>3, CopyAt
    <3>2. At(e.mem, o, r, c) = IF Between(r, c, y, x, y, x1) THEN Blank ELSE At(m, o, r, c)
      BY <2>3, <2>5, ClearAt
    <3>3. /\ Between(r, c, y, x1, y, Columns) <=> r = y /\ c > x
          /\ Between(r, c, y, x, y, x1) <=> r = y /\ c = x
          /\ c < x \/ c = x \/ c > x
          /\ c < x => ~(c > x) /\ c # x
          /\ c = x => ~(c < x) /\ c < x + 1
          /\ c > x => ~(c < x) /\ ~(c < x + 1) /\ c # x /\ c - 1 \in Cols
      BY <1>x, <2>2, Sizes DEF Between, Rows, Cols
    <3>4. At(d.mem, q, r, c) = At(d.mem, o, r, c - 1)
      BY <1>0, <2>1, NextCell
    <3>5. Shown(d)[r][c] = At(d.mem, o, r, c)
      BY <1>0, ShownCell
    <3>6. c > x => Shown(d)[r][c-1] = At(d.mem, o, r, c - 1)
      BY <1>0, <3>3, ShownCell
    <3>7. InsRow(Shown(d)[r], x, 1)[c] = IF c < x THEN Shown(d)[r][c]
                                         ELSE IF c < x + 1 THEN Blank ELSE Shown(d)[r][c-1]
      BY DEF InsRow
    <3> QED
      BY <3>1, <3>2, <3>3, <3>4, <3>5, <3>6, <3>7, Zenon
  <2>7. ASSUME NEW r \in Rows
        PROVE  Line(e.mem, o, r) = IF r = y THEN InsRow(Shown(d)[r], x, 1) ELSE Shown(d)[r]
    <3>1. Line(e.mem, o, r) = [c \in Cols |-> IF r = y THEN InsRow(Shown(d)[r], x, 1)[c] ELSE Shown(d)[r][c]]
      BY <2>6, Zenon DEF Line
    <3>2. Shown(d)[r] = [c \in Cols |-> Shown(d)[r][c]]
      BY DEF Shown, Line
    <3>3. InsRow(Shown(d)[r], x, 1) = [c \in Cols |-> InsRow(Shown(d)[r], x, 1)[c]]
      BY DEF InsRow
    <3>4. CASE r = y
      BY <3>1, <3>3, <3>4, Zenon
    <3>5. CASE r # y
      BY <3>1, <3>2, <3>5, Zenon
    <3> QED
      BY <3>4, <3>5
  <2>8. Shown(e) = InsChars(Shown(d), x, y, 1)
    BY <2>5, <2>7, Zenon DEF Shown, InsChars
  <2> QED
    BY <1>0, <2>5, <2>8
<1>2. CASE ~(x < Columns)
  <2>1. e = d /\ x = Columns
    BY <1>0, <1>x, <1>2 DEF InsertChar
  <2>2. ASSUME NEW r \in Rows PROVE InsRow(Shown(d)[r], x, 1) = Shown(d)[r]
    <3>1. \A c \in Cols : c < x
      BY <2>1, <1>x DEF Cols
    <3>2. Shown(d)[r] = [c \in Cols |-> Shown(d)[r][c]]
      BY DEF Shown, Line
    <3> QED
      BY <3>1, <3>2, Zenon DEF InsRow
  <2>3. Shown(d) = [r \in Rows |-> Shown(d)[r]]
    BY DEF Shown
  <2>4. Shown(d) = InsChars(Shown(d), x, y, 1)
    BY <2>2, <2>3, Zenon DEF InsChars
  <2> QED
    BY <1>0, <2>1, <2>4 DEF Beside, SameRegion
<1> QED
  BY <1>1, <1>2

LEMMA DeleteCharShifts ==
    ASSUME NEW d, Good(d)
    PROVE  Beside(d, DeleteChar(d)) /\ Shown(DeleteChar(d)) = DelChars(Shown(d), d.x, d.y, 1)
<1>0. PICK o \in Int, x \in Int, y \in Rows, e \in {DeleteChar(d)} :
        o = d.origin /\ x = d.x /\ y = d.y
  BY Fields DEF Rows
<1>x. x \in 0..Columns /\ Columns \in Int
  BY <1>0, Fields, Sizes
<1>1. CASE x < Columns
  <2>1. PICK a, b, n, q, m : a = d.pos /\ b = d.pos + 1 /\ n = Columns - d.x - 1 /\ q = d.origin + 1
                             /\ m = CopyCells(d.mem, a, b, n)
    OBVIOUS
  <2>2. PICK x1, a1 : x1 = Columns - 1 /\ a1 = d.pos + Columns - d.x - 1
    OBVIOUS
  <2>3. /\ Stretch(o, a, n, y, x, y, x1) /\ Stretch(o, a1, 1, y, x1, y, Columns)
        /\ AsFar(a, b, o, q) /\ Window(o)
    BY <1>0, <1>1, <2>1, <2>2, CharStretches, GoodWindow
  <2>4. e = [d EXCEPT !.mem = Clear(m, a1, 1)] /\ d \in Screen
    BY <1>0, <1>x, <1>1, <2>1, <2>2, Fields DEF DeleteChar
  <2>5. e.mem = Clear(m, a1, 1) /\ e.origin = o /\ Beside(d, e)
    BY <1>0, <2>4 DEF Screen, Beside, SameRegion
  <2>6. ASSUME NEW r \in Rows, NEW c \in Cols
        PROVE  At(e.mem, o, r, c) = IF r = y THEN DelRow(Shown(d)[r], x, 1)[c] ELSE Shown(d)[r][c]
    <3>1. At(m, o, r, c) = IF Between(r, c, y, x, y, x1) THEN At(d.mem, q, r, c) ELSE At(d.mem, o, r, c)
      BY <2>1, <2>3, CopyAt
    <3>2. At(e.mem, o, r, c) = IF Between(r, c, y, x1, y, Columns) THEN Blank ELSE At(m, o, r, c)
      BY <2>3, <2>5, ClearAt
    <3>3. /\ Between(r, c, y, x, y, x1) <=> r = y /\ ~(c < x) /\ c + 1 < Columns
          /\ Between(r, c, y, x1, y, Columns) <=> r = y /\ ~(c + 1 < Columns)
          /\ ~(c + 1 < Columns) => ~(c < x)
          /\ c + 1 < Columns => c + 1 \in Cols
      BY <1>x, <1>1, <2>2, Sizes DEF Between, Rows, Cols
    <3>4. At(d.mem, q, r, c) = At(d.mem, o, r, c + 1)
      BY <1>0, <2>1, NextCell
    <3>5. Shown(d)[r][c] = At(d.mem, o, r, c)
      BY <1>0, ShownCell
    <3>6. c + 1 < Columns => Shown(d)[r][c+1] = At(d.mem, o, r, c + 1)
      BY <1>0, <3>3, ShownCell
    <3>7. DelRow(Shown(d)[r], x, 1)[c] = IF c < x THEN Shown(d)[r][c]
                                         ELSE IF c + 1 < Columns THEN Shown(d)[r][c+1] ELSE Blank
      BY DEF DelRow
    <3> QED
      BY <3>1, <3>2, <3>3, <3>4, <3>5, <3>6, <3>7, Zenon
  <2>7. ASSUME NEW r \in Rows
        PROVE  Line(e.mem, o, r) = IF r = y THEN DelRow(Shown(d)[r], x, 1) ELSE Shown(d)[r]
    <3>1. Line(e.mem, o, r) = [c \in Cols |-> IF r = y THEN DelRow(Shown(d)[r], x, 1)[c] ELSE Shown(d)[r][c]]
      BY <2>6, Zenon DEF Line
    <3>2. Shown(d)[r] = [c \in Cols |-> Shown(d)[r][c]]
      BY DEF Shown, Line
    <3>3. DelRow(Shown(d)[r], x, 1) = [c \in Cols |-> DelRow(Shown(d)[r], x, 1)[c]]
      BY DEF DelRow
    <3>4. CASE r = y
      BY <3>1, <3>3, <3>4, Zenon
    <3>5. CASE r # y
      BY <3>1, <3>2, <3>5, Zenon
    <3> QED
      BY <3>4, <3>5
  <2>8. Shown(e) = DelChars(Shown(d), x, y, 1)
    BY <2>5, <2>7, Zenon DEF Shown, DelChars
  <2> QED
    BY <1>0, <2>5, <2>8
<1>2. CASE ~(x < Columns)
  <2>1. e = d /\ x = Columns
    BY <1>0, <1>x, <1>2 DEF DeleteChar
  <2>2. ASSUME NEW r \in Rows PROVE DelRow(Shown(d)[r], x, 1) = Shown(d)[r]
    <3>1. \A c \in Cols : c < x
      BY <2>1, <1>x DEF Cols
    <3>2. Shown(d)[r] = [c \in Cols |-> Shown(d)[r][c]]
      BY DEF Shown, Line
    <3> QED
      BY <3>1, <3>2, Zenon DEF DelRow
  <2>3. Shown(d) = [r \in Rows |-> Shown(d)[r]]
    BY DEF Shown
  <2>4. Shown(d) = DelChars(Shown(d), x, y, 1)
    BY <2>2, <2>3, Zenon DEF DelChars
  <2> QED
    BY <1>0, <2>1, <2>4 DEF Beside, SameRegion
<1> QED
  BY <1>1, <1>2

LEMMA OnceShifts ==
    ASSUME NEW d, Good(d), NEW c \in {"L", "M", "P", "@"}
    PROVE  Beside(d, Once(c, d)) /\ Shown(Once(c, d)) = Shifted(c, Shown(d), d.x, d.y, 1)
BY LineShifts, InsertCharShifts, DeleteCharShifts, Zenon DEF Once, Shifted

\* After k turns, as much as k at once.
LEMMA TimesShifts ==
    ASSUME NEW d, Good(d), NEW c \in {"L", "M", "P", "@"}, NEW n \in Nat
    PROVE  /\ Beside(d, Times(c, d, n))
           /\ Shown(Times(c, d, n)) = Shifted(c, Shown(d), d.x, d.y, n)
<1>1. PICK f : Doing(f, c, d, n) /\ Times(c, d, n) = f[n]
  BY TimesDone
<1>0. PICK x \in Nat, y \in Nat : x = d.x /\ y = d.y
  <2>1. d.x \in Nat /\ d.y \in Nat
    BY Fields, Sizes
  <2> QED
    BY <2>1
<1> DEFINE Right(k) == Good(f[k]) /\ Beside(d, f[k]) /\ Shown(f[k]) = Shifted(c, Shown(d), x, y, k)
<1> DEFINE S == {k \in 0..n : ~Right(k)}
<1>2. SUFFICES ASSUME S # {} PROVE FALSE
  <2>1. n \in 0..n
    OBVIOUS
  <2> HIDE DEF Right
  <2>2. S = {} => Right(n)
    BY <2>1
  <2> QED
    BY <1>0, <1>1, <2>2 DEF Right
<1>3. PICK k \in S : \A j \in S : k <= j
  <2>1. S \in SUBSET Nat
    OBVIOUS
  <2> HIDE DEF S
  <2> QED
    BY <1>2, <2>1, LeastExists
<1>4. CASE k = 0
  <2>1. f[0] = d
    BY <1>1, DoingFacts
  <2>2. Shown(d) = Shifted(c, Shown(d), x, y, 0)
    BY ShownPicture, ShiftedNone
  <2>3. Right(0)
    BY <2>1, <2>2 DEF Beside, SameRegion
  <2> HIDE DEF Right
  <2> QED
    BY <1>3, <1>4, <2>3
<1>5. CASE k # 0
  <2>0. PICK i \in Nat : i = k - 1
    BY <1>3, <1>5
  <2>1. i \in 0..n /\ i \notin S /\ k = i + 1 /\ k \in 0..n
    <3> HIDE DEF Right
    <3> QED
      BY <1>3, <1>5, <2>0
  <2>2. Right(i)
    <3> HIDE DEF Right
    <3> QED
      BY <2>1
  <2>3. f[k] = Once(c, f[i])
    BY <1>1, <1>5, <2>0, <2>1, DoingFacts
  <2>4. PICK g : g = f[i]
    OBVIOUS
  <2>5. Good(g) /\ Beside(d, g) /\ Shown(g) = Shifted(c, Shown(d), x, y, i)
    BY <2>2, <2>4
  <2>6. Good(f[k])
    BY <2>3, <2>4, <2>5, OnceGood
  <2>7. Beside(g, f[k]) /\ Shown(f[k]) = Shifted(c, Shown(g), g.x, g.y, 1)
    BY <2>3, <2>4, <2>5, OnceShifts
  <2>8. Beside(d, f[k]) /\ g.x = x /\ g.y = y
    BY <1>0, <2>5, <2>7, Zenon DEF Beside, SameRegion
  <2>9. Shifted(c, Shifted(c, Shown(d), x, y, i), x, y, 1) = Shifted(c, Shown(d), x, y, i + 1)
    BY ShiftedMore
  <2>10. Shown(f[k]) = Shifted(c, Shown(d), x, y, k)
    BY <2>1, <2>5, <2>7, <2>8, <2>9
  <2>11. Right(k)
    BY <2>6, <2>8, <2>10
  <2> HIDE DEF Right
  <2> QED
    BY <1>3, <2>11
<1> QED
  BY <1>4, <1>5

LEMMA CharsInPlace ==
    ASSUME NEW S, Picture(S), NEW x, NEW y \in Rows, NEW n
    PROVE  /\ InsChars(S, x, y, n) = [S EXCEPT ![y] = InsRow(S[y], x, n)]
           /\ DelChars(S, x, y, n) = [S EXCEPT ![y] = DelRow(S[y], x, n)]
<1>1. S = [r \in Rows |-> S[r]]
  BY DEF Picture
<1> QED
  BY <1>1 DEF InsChars, DelChars

LEMMA ShiftMeans ==
    ASSUME Beside(con, con'), saved' = saved,
           \/ \E n \in 1..Columns : Shown(con') = [Shown(con) EXCEPT ![con.y] = InsRow(Shown(con)[con.y], con.x, n)]
           \/ \E n \in 1..Columns : Shown(con') = [Shown(con) EXCEPT ![con.y] = DelRow(Shown(con)[con.y], con.x, n)]
           \/ \E n \in 1..Lines : Shown(con') = InsLines(Shown(con), con.y, n)
           \/ \E n \in 1..Lines : Shown(con') = DelLines(Shown(con), con.y, n)
    PROVE  T!Shift
BY Zenon DEF T!Shift, T!BlankRow, T!Rows, T!Cols, T!Frame, Beside, SameRegion, Shown, Line, At,
     Rows, Cols, InsRow, DelRow, InsLines, DelLines, BlankLine

LEMMA EditedErasesOrShifts ==
    ASSUME Good(con), Parsed, NEW c \in Edits, Display(Edited(con, c))
    PROVE  T!Erase \/ T!Shift \/ UNCHANGED T!tvars
<1>1. par[0] \in Int /\ Turns(par[0], Lines) \in 1..Lines /\ Turns(par[0], Columns) \in 1..Columns
  <2>1. par[0] \in Nat
    BY Parameters
  <2> QED
    BY <2>1, Sizes DEF Turns, AtLeastOne
<1>2. CASE c = "J"
  <2>1. Display(CsiJ(con, par[0]))
    BY <1>2, Zenon DEF Edited
  <2> QED
    BY <1>1, <2>1, CsiJErases
<1>3. CASE c = "K"
  <2>1. Display(CsiK(con, par[0]))
    BY <1>3, Zenon DEF Edited
  <2> QED
    BY <1>1, <2>1, CsiKErases
<1>4. CASE c \in {"L", "M"}
  <2>1. PICK n \in 1..Lines : n = Turns(par[0], Lines)
    BY <1>1
  <2>2. con' = Times(c, con, n) /\ saved' = saved
    BY <1>4, <2>1, Zenon DEF Edited, Display
  <2>3. c \in {"L", "M", "P", "@"}
    BY <1>4, Zenon
  <2>4. n \in Nat
    BY Sizes
  <2>5. Beside(con, con') /\ Shown(con') = Shifted(c, Shown(con), con.x, con.y, n)
    BY <2>2, <2>3, <2>4, TimesShifts
  <2>6. Shown(con') = InsLines(Shown(con), con.y, n) \/ Shown(con') = DelLines(Shown(con), con.y, n)
    BY <1>4, <2>5, Zenon DEF Shifted
  <2> QED
    BY <2>2, <2>5, <2>6, ShiftMeans, Zenon
<1>5. CASE c \in {"P", "@"}
  <2>1. PICK n \in 1..Columns : n = Turns(par[0], Columns)
    BY <1>1
  <2>2. con' = Times(c, con, n) /\ saved' = saved
    BY <1>5, <2>1, Zenon DEF Edited, Display
  <2>3. c \in {"L", "M", "P", "@"}
    BY <1>5, Zenon
  <2>4. n \in Nat
    BY Sizes
  <2>5. Beside(con, con') /\ Shown(con') = Shifted(c, Shown(con), con.x, con.y, n)
    BY <2>2, <2>3, <2>4, TimesShifts
  <2>6. Shown(con') = InsChars(Shown(con), con.x, con.y, n) \/ Shown(con') = DelChars(Shown(con), con.x, con.y, n)
    BY <1>5, <2>5, Zenon DEF Shifted
  <2>7. con.y \in Rows
    BY Cursor
  <2>8. \/ Shown(con') = [Shown(con) EXCEPT ![con.y] = InsRow(Shown(con)[con.y], con.x, n)]
        \/ Shown(con') = [Shown(con) EXCEPT ![con.y] = DelRow(Shown(con)[con.y], con.x, n)]
    <3>0. PICK y \in Rows : y = con.y
      BY <2>7
    <3>1. PICK S, x : S = Shown(con) /\ x = con.x
      BY Zenon
    <3>2. Picture(S)
      BY <3>1, ShownPicture, Zenon
    <3>3. /\ InsChars(S, x, y, n) = [S EXCEPT ![y] = InsRow(S[y], x, n)]
          /\ DelChars(S, x, y, n) = [S EXCEPT ![y] = DelRow(S[y], x, n)]
      BY <3>2, CharsInPlace
    <3>4. Shown(con') = InsChars(S, x, y, n) \/ Shown(con') = DelChars(S, x, y, n)
      BY <2>6, <3>0, <3>1, Zenon
    <3>5. \/ Shown(con') = [S EXCEPT ![y] = InsRow(S[y], x, n)]
          \/ Shown(con') = [S EXCEPT ![y] = DelRow(S[y], x, n)]
      BY <3>3, <3>4, Zenon
    <3> QED
      BY <3>0, <3>1, <3>5
  <2> QED
    BY <2>2, <2>5, <2>8, ShiftMeans, Zenon
<1> QED
  BY <1>2, <1>3, <1>4, <1>5, Zenon DEF Edits

LEMMA MovedMoves ==
    ASSUME Good(con), Parsed, NEW c \in Relative \cup Absolute, Display(Moved(con, c))
    PROVE  T!Move
<1>1. PICK n \in Int : n = AtLeastOne(par[0])
  BY Parameters
<1>2. PICK u \in Int, v \in Int : u = LessOne(par[0]) /\ v = LessOne(par[1])
  BY Parameters
<1>3. con.x \in Int /\ con.y \in Int /\ 0 \in Int
  BY Fields
<1>4. con.x - n \in Int /\ con.x + n \in Int /\ con.y - n \in Int /\ con.y + n \in Int
  BY <1>3
<1>5. \/ c = "A" \/ c = "B" \/ c = "C" \/ c = "D" \/ c = "E" \/ c = "F"
      \/ c = "G" \/ c = "d" \/ c = "H"
  BY DEF Relative, Absolute
<1>6. \E nx, ny \in Int : Moved(con, c) = Gotoxy(con, nx, ny)
  BY <1>1, <1>2, <1>3, <1>4, <1>5, Zenon DEF Moved
<1>7. PICK nx \in Int, ny \in Int : Display(Gotoxy(con, nx, ny))
  BY <1>6, Zenon DEF Display
<1> QED
  BY <1>7, GotoxyMoves, Zenon

-----------------------------------------------------------------------------
\* Every character is a step of Terminal, or shows nothing.
Refines == T!TNext \/ UNCHANGED T!tvars

LEMMA StepMeans ==
    /\ T!Show(Mark) => Refines
    /\ T!Feed(con.x) => Refines
    /\ T!ReverseFeed \/ T!Tabulate \/ T!Rubout => Refines
    /\ T!Move \/ T!Erase \/ T!Shift => Refines
    /\ T!Region \/ T!Save \/ T!Restore => Refines
    /\ UNCHANGED <<con, saved>> => Refines
<1>1. Mark \in {Mark}
  OBVIOUS
<1>2. UNCHANGED <<con, saved>> => UNCHANGED T!tvars
  BY StutterMeans
<1> QED
  BY <1>1, <1>2, Zenon DEF Refines, T!TNext

LEMMA TextRefines == ASSUME IInv, Text PROVE Refines
<1>1. Good(con)
  BY DEF IInv
<1>2. \/ Display(Print1(con)) \/ Display(Lf(con)) \/ Display(Cr(con)) \/ Display(Del(con))
      \/ Display(Backspace(con)) \/ Display(HorizontalTab(con))
      \/ UNCHANGED <<con, saved>>
  BY DEF Text
<1>3. Display(Del(con)) => T!Rubout \/ UNCHANGED <<con, saved>>
  <2>1. con.x = 0 => Del(con) = con
    BY DEF Del
  <2> QED
    BY <1>1, <2>1, DelIsRubout, Zenon DEF Display
<1>4. /\ Display(Print1(con)) => T!Show(Mark)
      /\ Display(Lf(con)) => T!Feed(con.x)
      /\ Display(Cr(con)) => T!Move
      /\ Display(Backspace(con)) => T!Move
      /\ Display(HorizontalTab(con)) => T!Tabulate
  BY <1>1, Print1Shows, LfIsFeed, CrMoves, BackspaceMoves, TabTabulates, Zenon
<1> QED
  BY <1>2, <1>3, <1>4, StepMeans, Zenon

LEMMA EscapeRefines == ASSUME IInv, Escape PROVE Refines
<1>1. Good(con)
  BY DEF IInv
<1>2. \/ Display(Gotoxy(con, 0, con.y + 1)) \/ Display(Ri(con)) \/ Display(Lf(con))
      \/ saved' = <<con.x, con.y>> /\ UNCHANGED con
      \/ Display(RestoreCur(con))
      \/ UNCHANGED <<con, saved>>
  BY DEF Escape
<1>3. Display(Gotoxy(con, 0, con.y + 1)) => T!Move
  <2>1. PICK ny \in Int : ny = con.y + 1
    BY <1>1, Fields
  <2>2. 0 \in Int
    OBVIOUS
  <2> QED
    BY <1>1, <2>1, <2>2, GotoxyMoves, Zenon
<1>4. /\ Display(Ri(con)) => T!ReverseFeed
      /\ Display(Lf(con)) => T!Feed(con.x)
      /\ Display(RestoreCur(con)) => T!Restore
      /\ saved' = <<con.x, con.y>> /\ UNCHANGED con => T!Save
  BY <1>1, RiIsReverseFeed, LfIsFeed, RestoreCurRestores, SaveMeans, Zenon
<1> QED
  BY <1>2, <1>3, <1>4, StepMeans, Zenon

LEMMA CommandRefines == ASSUME IInv, Command PROVE Refines
<1>1. Good(con) /\ Parsed
  BY DEF IInv
<1>2. \/ \E c \in Relative \cup Absolute : Display(Moved(con, c))
      \/ \E c \in Edits : Display(Edited(con, c))
      \/ Display(Regioned(con))
      \/ saved' = <<con.x, con.y>> /\ UNCHANGED con
      \/ Display(RestoreCur(con))
      \/ UNCHANGED <<con, saved>>
  BY DEF Command
<1>3. \A c \in Relative \cup Absolute : Display(Moved(con, c)) => T!Move
  BY <1>1, MovedMoves, Zenon
<1>4. \A c \in Edits : Display(Edited(con, c)) => T!Erase \/ T!Shift \/ UNCHANGED T!tvars
  BY <1>1, EditedErasesOrShifts, Zenon
<1>5. /\ Display(Regioned(con)) => T!Region \/ UNCHANGED T!tvars
      /\ Display(RestoreCur(con)) => T!Restore
      /\ saved' = <<con.x, con.y>> /\ UNCHANGED con => T!Save
  BY <1>1, RegionedSets, RestoreCurRestores, SaveMeans, Zenon
<1>6. UNCHANGED T!tvars => Refines
  BY Zenon DEF Refines
<1> QED
  BY <1>2, <1>3, <1>4, <1>5, <1>6, StepMeans, Zenon

LEMMA ParserRefines == ASSUME Question \/ Semicolon \/ Digit PROVE Refines
<1>1. UNCHANGED <<con, saved>>
  BY Zenon DEF Question, Semicolon, Digit
<1> QED
  BY <1>1, StepMeans, Zenon

LEMMA InitRefines == ASSUME Init PROVE T!TInit
<1>1. PICK m \in [Video -> {Mark, Blank}], x \in 0..Columns-1, y \in 0..Lines-1 :
        /\ con = [mem |-> [i \in Banks |-> IF i \in Video THEN m[i] ELSE Alien],
                  origin |-> 0, scr_end |-> Lines * Columns,
                  pos |-> y * Columns + x, x |-> x, y |-> y,
                  top |-> 0, bottom |-> Lines]
        /\ saved = <<0, 0>>
  BY DEF Init
<1>2. /\ con.mem = [i \in Banks |-> IF i \in Video THEN m[i] ELSE Alien]
      /\ con.origin = 0 /\ con.x = x /\ con.y = y /\ con.top = 0 /\ con.bottom = Lines
  BY <1>1
<1>3. Window(0)
  BY Sizes DEF Window
<1>4. \A r \in Rows, c \in Cols : At(con.mem, con.origin, r, c) \in {Mark} \cup {Blank}
  <2> SUFFICES ASSUME NEW r \in Rows, NEW c \in Cols
               PROVE  At(con.mem, con.origin, r, c) \in {Mark} \cup {Blank}
    OBVIOUS
  <2>1. PICK i : i = 0 + r * Columns + c
    OBVIOUS
  <2>2. i \in Video /\ i \in Banks
    BY <1>3, <2>1, CellInside
  <2>3. At(con.mem, con.origin, r, c) = con.mem[i]
    BY <1>2, <2>1, Zenon DEF At
  <2> QED
    BY <1>1, <1>2, <2>2, <2>3
<1>5. Shown(con) \in [Rows -> [Cols -> {Mark} \cup {Blank}]]
  BY <1>4 DEF Shown, Line
<1> QED
  BY <1>1, <1>2, <1>5, Zenon DEF T!TInit, T!Rows, T!Cols, Rows, Cols, Shown, Line, At

\* The refinement: whatever is written to it, con_write does to what the window
\* shows one operation of Terminal or nothing; scrolling by moving the origin, and
\* its return to the start of the video memory, never show.
THEOREM WindowImplementsTerminal == Spec => ImplementsTerminal
<1>1. Init => T!TInit
  BY InitRefines
<1>2. IInv /\ [Next]_vars => [T!TNext]_(T!tvars)
  <2> SUFFICES ASSUME IInv, [Next]_vars PROVE Refines
    BY Zenon DEF Refines
  <2>1. CASE UNCHANGED vars
    BY <2>1, StepMeans, Zenon DEF vars
  <2> QED
    BY <2>1, TextRefines, EscapeRefines, CommandRefines, ParserRefines, Zenon DEF Next
<1> QED
  BY <1>1, <1>2, Inductive, PTL DEF Spec, ImplementsTerminal, T!TSpec
=============================================================================
