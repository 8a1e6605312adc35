------------------------------ MODULE PanicProofs ------------------------------
(***************************************************************************)
(* Machine-checked proofs about Panic for every screen, font, line buffer  *)
(* and message.                                                            *)
(***************************************************************************)
EXTENDS Panic, FiniteSetTheorems, WellFoundedInduction, TLAPS

-----------------------------------------------------------------------------
(* Least and greatest numbers, divisions *)

(* A set of natural numbers that is not empty has a least element.         *)
LEMMA Least ==
  ASSUME NEW T \in SUBSET Nat, T # {}
  PROVE  \E x \in T : \A z \in T : x <= z
<1> DEFINE less == {ss \in Nat \X Nat : ss[1] < ss[2]}
<1>1. IsWellFoundedOn(less, Nat)
  BY NatLessThanWellFounded DEF OpToRel
<1>2. PICK x \in T : \A z \in T : ~ (<<z, x>> \in less)
  <2> HIDE DEF less
  <2> QED
    BY <1>1, WFMin
<1>3. ASSUME NEW z \in T
      PROVE  x <= z
  <2>1. x \in Nat /\ z \in Nat
    OBVIOUS
  <2>2. ~ (z < x)
    BY <1>2, <2>1
  <2> QED
    BY <2>1, <2>2
<1> QED
  BY <1>3

LEMMA MinIs ==
  ASSUME NEW T \in SUBSET Nat, T # {}
  PROVE  Min(T) \in T /\ \A z \in T : Min(T) <= z
<1>1. PICK x \in T : \A z \in T : x <= z
  BY Least
<1> QED
  BY <1>1 DEF Min

LEMMA MaxIs ==
  ASSUME NEW n \in Nat, NEW T \in SUBSET (0 .. n), T # {}
  PROVE  Max(T) \in T /\ \A z \in T : z <= Max(T)
<1> DEFINE U == {n - x : x \in T}
<1>1. U \in SUBSET Nat /\ U # {}
  <2>1. \A x \in T : n - x \in Nat
    OBVIOUS
  <2> QED
    BY <2>1
<1>2. PICK u \in U : \A z \in U : u <= z
  <2> HIDE DEF U
  <2> QED
    BY <1>1, Least
<1>3. PICK x \in T : u = n - x
  BY <1>2
<1>4. \A z \in T : x >= z
  <2> SUFFICES ASSUME NEW z \in T
               PROVE  x >= z
    OBVIOUS
  <2>1. n - z \in U /\ n - z \in Nat /\ u \in Nat
    BY <1>1
  <2>2. u <= n - z
    BY <1>2, <2>1
  <2>3. x \in Nat /\ z \in Nat
    OBVIOUS
  <2> HIDE DEF U
  <2> QED
    BY <1>3, <2>1, <2>2, <2>3
<1> QED
  BY <1>3, <1>4 DEF Max

LEMMA MinOfTwo ==
  ASSUME NEW a \in Int, NEW b \in Int
  PROVE  Min({a, b}) = IF a <= b THEN a ELSE b
<1>1. CASE a <= b
  <2>1. \A z \in {a, b} : a <= z
    BY <1>1
  <2>2. \A x \in {a, b} : (\A z \in {a, b} : x <= z) => x = a
    BY <1>1
  <2> QED
    BY <1>1, <2>1, <2>2 DEF Min
<1>2. CASE ~ a <= b
  <2>1. \A z \in {a, b} : b <= z
    BY <1>2
  <2>2. \A x \in {a, b} : (\A z \in {a, b} : x <= z) => x = b
    BY <1>2
  <2> QED
    BY <1>2, <2>1, <2>2 DEF Min
<1> QED
  BY <1>1, <1>2

LEMMA MaxOfTwo ==
  ASSUME NEW a \in Int, NEW b \in Int
  PROVE  Max({a, b}) = IF a >= b THEN a ELSE b
<1>1. CASE a >= b
  <2>1. \A z \in {a, b} : a >= z
    BY <1>1
  <2>2. \A x \in {a, b} : (\A z \in {a, b} : x >= z) => x = a
    BY <1>1
  <2> QED
    BY <1>1, <2>1, <2>2 DEF Max
<1>2. CASE ~ a >= b
  <2>1. \A z \in {a, b} : b >= z
    BY <1>2
  <2>2. \A x \in {a, b} : (\A z \in {a, b} : x >= z) => x = b
    BY <1>2
  <2> QED
    BY <1>2, <2>1, <2>2 DEF Max
<1> QED
  BY <1>1, <1>2

LEMMA DivideIs ==
  ASSUME NEW a \in Nat, NEW k \in Nat \ {0}
  PROVE  /\ a \div k \in Nat
         /\ k * (a \div k) <= a
         /\ a < k * (a \div k) + k
  BY SMT

LEMMA ModBelow ==
  ASSUME NEW a \in Nat
  PROVE  /\ a % Word \in Nat /\ a % Word < Word /\ a % Word <= a
         /\ a < Word => a % Word = a
<1>1. Word \in Nat \ {0}
  BY PanicAssumption
<1>2. /\ a % Word \in 0 .. Word - 1
      /\ a = Word * (a \div Word) + (a % Word)
      /\ a \div Word \in Nat
  BY <1>1, SMT
<1>3. Word * (a \div Word) \in Nat
  BY <1>1, <1>2
<1>4. a < Word => a % Word = a
  <2> SUFFICES ASSUME a < Word
               PROVE  a % Word = a
    OBVIOUS
  <2>1. a \div Word = 0
    BY <1>1, SMT
  <2> QED
    BY <1>1, <1>2, <2>1
<1> QED
  BY <1>1, <1>2, <1>3, <1>4

(* How many rows of k glyphs n glyphs need.                                *)
LEMMA RowsIs ==
  ASSUME NEW n \in Int, NEW k \in Nat \ {0}
  PROVE  /\ Rows(n, k) \in Nat
         /\ n <= 0 => Rows(n, k) = 0
         /\ n > 0 => /\ 1 <= Rows(n, k) /\ Rows(n, k) <= n
                     /\ (Rows(n, k) - 1) * k < n
<1>1. CASE n <= 0
  BY <1>1 DEF Rows
<1>2. CASE n > 0
  <2>1. PICK q : q = (n - 1) \div k
    OBVIOUS
  <2>2. q \in Nat /\ k * q <= n - 1
    BY <1>2, <2>1, DivideIs
  <2>3. q <= k * q
    BY <2>2
  <2>4. Rows(n, k) = q + 1
    BY <1>2, <2>1 DEF Rows
  <2> QED
    BY <1>2, <2>2, <2>3, <2>4
<1> QED
  BY <1>1, <1>2

-----------------------------------------------------------------------------
(* A run of glyphs *)

IsText(text) == \E chars : text \in Seq(chars)

LEMMA SubText ==
  ASSUME NEW text, IsText(text), NEW m \in Int, NEW n \in Int,
         1 <= m, m <= n + 1, n <= Len(text)
  PROVE  /\ IsText(SubSeq(text, m, n))
         /\ Len(SubSeq(text, m, n)) = n - m + 1
<1>1. PICK chars : text \in Seq(chars)
  BY DEF IsText
<1>2. Len(text) \in Nat
  BY <1>1
<1>3. /\ SubSeq(text, m, n) \in Seq(chars)
      /\ Len(SubSeq(text, m, n)) = n - m + 1
  BY <1>1, <1>2
<1> QED
  BY <1>3 DEF IsText

Larger(a, b) == IF a >= b THEN a ELSE b

Stride == framebuffer.PixelsPerScanLine

Inside(row) ==
  /\ row.x + FONT_WIDTH * Len(row.text) <= Stride
  /\ row.y + charsize <= framebuffer.Height

LEMMA ScreenIs ==
  ASSUME framebuffer \in Screens
  PROVE  /\ Stride \in Nat /\ FONT_WIDTH = 8 /\ 8 <= Stride
         /\ 2 * Stride < Word /\ Word \in Nat /\ 16 < Word
         /\ charsize \in Nat \ {0} /\ framebuffer.Height \in Nat
<1>1. /\ framebuffer \in Framebuffer /\ FONT_WIDTH <= framebuffer.Width
      /\ framebuffer.Width <= framebuffer.PixelsPerScanLine
      /\ 2 * framebuffer.PixelsPerScanLine < Word
      /\ Word \in Nat \ {0} /\ charsize \in Nat \ {0}
  BY PanicAssumption
<1>2. /\ framebuffer.PixelsPerScanLine \in Nat /\ framebuffer.Width \in Nat
      /\ framebuffer.Height \in Nat
  BY <1>1 DEF Framebuffer
<1> QED
  BY <1>1, <1>2 DEF Stride, FONT_WIDTH

(* What printc makes of a print point and a run: it draws inside the       *)
(* framebuffer, moves no further to the right than the point or the end of *)
(* a row and no further down than a row for each glyph; and when the whole *)
(* run fits beside the point, only there.                                  *)
Prints(x, top, run, px, py, new) ==
  /\ px \in Nat /\ px <= Larger(x, Stride)
  /\ py \in Nat /\ top <= py /\ py <= top + charsize * Len(run)
  /\ \A row \in new : Inside(row) /\ row.y \in Nat /\ top <= row.y
  /\ x + 8 * Len(run) <= Stride =>
       py = top /\ px <= x + 8 * Len(run) /\ \A row \in new : row.y = top

(* The first and the last glyph of each row.                               *)
RowBounds(beside, k, n, r, first, last) ==
  /\ first \in Nat /\ last \in Nat
  /\ 1 <= first /\ first <= last /\ last <= n
  /\ r <= n
  /\ r = 0 => last - first + 1 <= beside
  /\ r # 0 => last - first + 1 <= k

LEMMA RowOf ==
  ASSUME NEW beside \in Nat, NEW k \in Nat \ {0}, NEW n \in Nat \ {0},
         NEW r \in Nat, r <= Rows(n - beside, k), beside = 0 => r >= 1,
         NEW first, r = 0 => first = 1,
         r # 0 => first = beside + (r - 1) * k + 1,
         NEW last, last = Min({beside + r * k, n})
  PROVE  RowBounds(beside, k, n, r, first, last)
<1> USE DEF RowBounds
<1>1. r * k \in Nat
  OBVIOUS
<1>2. last = IF beside + r * k <= n THEN beside + r * k ELSE n
  BY <1>1, MinOfTwo
<1>3. CASE r = 0
  <2>1. beside >= 1 /\ r * k = 0
    BY <1>3
  <2> QED
    BY <1>2, <1>3, <2>1
<1>4. CASE r # 0
  <2>1. PICK left \in Int : left = n - beside
    OBVIOUS
  <2>2. PICK q \in Nat : q = Rows(left, k)
    BY <2>1, RowsIs
  <2>3. left > 0 /\ r <= left /\ r <= q /\ (q - 1) * k < left
    <3>1. /\ left <= 0 => q = 0
          /\ left > 0 => q <= left /\ (q - 1) * k < left
      BY <2>1, <2>2, RowsIs
    <3>2. r <= q
      BY <2>1, <2>2
    <3> QED
      BY <1>4, <2>1, <3>1, <3>2
  <2>4. PICK m \in Nat : m = r - 1
    BY <1>4
  <2>5. m * k < n - beside
    <3>1. m <= q - 1
      BY <2>3, <2>4
    <3>2. m * k <= (q - 1) * k
      BY <2>2, <3>1
    <3> QED
      BY <2>1, <2>3, <3>2
  <2>6. r * k = m * k + k /\ m * k \in Nat
    BY <2>4
  <2>7. first = beside + m * k + 1
    BY <1>4, <2>4
  <2>8. CASE beside + r * k <= n
    <3>1. last = beside + m * k + k
      BY <1>2, <2>6, <2>8
    <3> QED
      BY <1>4, <2>1, <2>3, <2>5, <2>6, <2>7, <2>8, <3>1
  <2>9. CASE ~ beside + r * k <= n
    <3>1. last = n /\ n < beside + m * k + k
      BY <1>1, <1>2, <2>6, <2>9
    <3> QED
      BY <1>4, <2>1, <2>3, <2>5, <2>6, <2>7, <3>1
  <2> QED
    BY <2>8, <2>9
<1> QED
  BY <1>3, <1>4

(* beside and inRow of printc.                                             *)
LEMMA BesideIs ==
  ASSUME framebuffer \in Screens, NEW x \in Nat, x + 8 < Word,
         NEW beside, beside = IF (x + FONT_WIDTH) % Word > Stride THEN 0
                              ELSE (Stride - x) \div FONT_WIDTH
  PROVE  /\ beside \in Nat
         /\ beside # 0 => x + 8 * beside <= Stride
         /\ beside = 0 => x + 8 > Stride
         /\ \A n \in Nat \ {0} : x + 8 * n <= Stride => n <= beside
<1>1. (x + FONT_WIDTH) % Word = x + 8 /\ Stride \in Nat
  BY ScreenIs, ModBelow
<1>2. CASE x + 8 > Stride
  BY <1>1, <1>2
<1>3. CASE x + 8 <= Stride
  <2>1. PICK a \in Nat : a = Stride - x
    BY <1>1, <1>3
  <2>2. beside = a \div 8
    BY <1>1, <1>3, <2>1, ScreenIs
  <2>3. beside \in Nat /\ 8 * beside <= a /\ a < 8 * beside + 8
    BY <2>2, DivideIs
  <2> QED
    BY <1>1, <1>3, <2>1, <2>3
<1> QED
  BY <1>1, <1>2, <1>3

Printed(paper, x, top, run, rows) ==
  \E px, py, new :
    /\ Prints(x, top, run, px, py, new)
    /\ printc(paper, run)
         = [point |-> [x |-> px, y |-> py], rows |-> rows \cup new]

LEMMA PrintcIs ==
  ASSUME framebuffer \in Screens, NEW x \in Nat, x + 8 < Word, NEW y0 \in Nat,
         NEW run, IsText(run), y0 + charsize * Len(run) < Word, NEW rows,
         NEW paper, paper = [point |-> [x |-> x, y |-> y0], rows |-> rows]
  PROVE  Printed(paper, x, y0, run, rows)
<1> USE DEF Printed
<1> DEFINE beside == IF (paper.point.x + FONT_WIDTH) % Word > Stride THEN 0
                     ELSE (Stride - paper.point.x) \div FONT_WIDTH
           inRow == Stride \div FONT_WIDTH
           First(r) == IF r = 0 THEN 1 ELSE beside + (r - 1) * inRow + 1
           LastOf(r) == Min({beside + r * inRow, Len(run)})
           Left(r) == IF r = 0 THEN paper.point.x ELSE 0
           Top(r) == (paper.point.y + r * charsize) % Word
           reached == (IF beside = 0 THEN 1 ELSE 0) .. Rows(Len(run) - beside, inRow)
           drawn == {r \in reached : Top(r) <= LowestTop}
           stop == Min((reached \ drawn) \cup {Max(reached)})
           new == {[x |-> Left(r), y |-> Top(r),
                    text |-> SubSeq(run, First(r), LastOf(r))] : r \in drawn}
           px == Left(stop) + (IF stop \in drawn
                               THEN FONT_WIDTH * (LastOf(stop) - First(stop) + 1)
                               ELSE 0)
           py == Top(stop)
<1>1. /\ Stride \in Nat /\ FONT_WIDTH = 8 /\ 8 <= Stride
      /\ Word \in Nat /\ charsize \in Nat \ {0} /\ framebuffer.Height \in Nat
  BY ScreenIs
<1>5. paper.point.x = x /\ paper.point.y = y0 /\ paper.rows = rows
  OBVIOUS
<1>2. Len(run) \in Nat
  BY DEF IsText
<1>3. CASE run = <<>>
  <2>1. Len(run) = 0
    BY <1>3
  <2>2. Prints(x, y0, run, x, y0, {})
    BY <1>1, <2>1 DEF Prints, Larger
  <2>3. printc(paper, run)
          = [point |-> [x |-> x, y |-> y0], rows |-> rows \cup {}]
    BY <1>3 DEF printc
  <2> QED
    BY <2>2, <2>3
<1>4. CASE run # <<>>
  <2>1. Len(run) \in Nat \ {0}
    BY <1>2, <1>4 DEF IsText
  <2>2. printc(paper, run)
          = [point |-> [x |-> px, y |-> py], rows |-> paper.rows \cup new]
    BY <1>4, Zenon DEF printc, Stride
  <2>3. /\ beside \in Nat
        /\ beside # 0 => x + 8 * beside <= Stride
        /\ \A n \in Nat \ {0} : x + 8 * n <= Stride => n <= beside
    BY <1>5, BesideIs
  <2>4. inRow \in Nat \ {0} /\ 8 * inRow <= Stride
    <3>1. inRow = Stride \div 8
      BY <1>1
    <3>2. inRow \in Nat /\ 8 * inRow <= Stride /\ Stride < 8 * inRow + 8
      BY <1>1, <3>1, DivideIs
    <3> QED
      BY <1>1, <3>2
  <2> HIDE DEF beside, inRow
  <2>5. PICK n \in Nat \ {0} : n = Len(run)
    BY <2>1
  <2>6. PICK top \in Nat : top = Rows(n - beside, inRow)
    <3>1. PICK left \in Int : left = n - beside
      BY <2>3
    <3> QED
      BY <2>4, <3>1, RowsIs
  <2>7. (beside = 0 => 1 <= top) /\ (n <= beside => top = 0)
    <3>1. PICK left \in Int : left = n - beside
      BY <2>3
    <3>2. (left <= 0 => top = 0) /\ (left > 0 => 1 <= top)
      BY <2>4, <2>6, <3>1, RowsIs
    <3> QED
      BY <2>3, <3>1, <3>2
  <2>8. /\ reached \in SUBSET (0 .. top) /\ reached # {}
        /\ reached = (IF beside = 0 THEN 1 ELSE 0) .. top
    BY <2>5, <2>6, <2>7
  <2>9. ASSUME NEW r \in reached
        PROVE  /\ r \in Nat /\ (n <= beside => r = 0)
               /\ First(r) \in Nat /\ LastOf(r) \in Nat
               /\ 1 <= First(r) /\ First(r) <= LastOf(r) /\ LastOf(r) <= n
               /\ Left(r) + 8 * (LastOf(r) - First(r) + 1) <= Stride
               /\ Top(r) = y0 + charsize * r
               /\ y0 <= Top(r) /\ Top(r) <= y0 + charsize * n
               /\ Top(r) \in Nat
    <3>1. r \in Nat /\ r <= top /\ (beside = 0 => r >= 1)
      BY <2>6, <2>8
    <3>2. PICK first : first = First(r)
      OBVIOUS
    <3>3. PICK last : last = LastOf(r)
      OBVIOUS
    <3>4. /\ r = 0 => first = 1
          /\ r # 0 => first = beside + (r - 1) * inRow + 1
          /\ last = Min({beside + r * inRow, n})
      BY <2>5, <3>2, <3>3
    <3> HIDE DEF reached, First, LastOf
    <3>5. /\ first \in Nat /\ last \in Nat
          /\ 1 <= first /\ first <= last /\ last <= n /\ r <= n
          /\ r = 0 => last - first + 1 <= beside
          /\ r # 0 => last - first + 1 <= inRow
      <4>1. beside \in Nat /\ inRow \in Nat \ {0} /\ n \in Nat \ {0} /\ r \in Nat
        BY <2>3, <2>4, <3>1
      <4>2. r <= Rows(n - beside, inRow)
        BY <2>6, <3>1
      <4>3. beside = 0 => r >= 1
        BY <3>1
      <4>4. r = 0 => first = 1
        BY <3>4
      <4>5. r # 0 => first = beside + (r - 1) * inRow + 1
        BY <3>4
      <4>6. last = Min({beside + r * inRow, n})
        BY <3>4
      <4>7. RowBounds(beside, inRow, n, r, first, last)
        BY <4>1, <4>2, <4>3, <4>4, <4>5, <4>6, RowOf, Zenon
      <4> QED
        BY <4>7 DEF RowBounds
    <3>6. Left(r) + 8 * (last - first + 1) <= Stride
      BY <1>1, <1>5, <2>3, <2>4, <3>1, <3>5
    <3>7. charsize * r \in Nat /\ charsize * r <= charsize * n
      BY <1>1, <3>1, <3>5
    <3>8. Top(r) = y0 + charsize * r
      <4>1. PICK a \in Nat : a = y0 + charsize * r /\ Top(r) = (y0 + r * charsize) % Word
        BY <1>5, <3>7
      <4>2. a < Word /\ r * charsize = charsize * r
        BY <1>1, <2>5, <3>1, <3>7, <4>1
      <4>3. a % Word = a
        BY <4>2, ModBelow
      <4> QED
        BY <4>1, <4>2, <4>3
    <3>9. n <= beside => r = 0
      BY <2>7, <3>1
    <3>10. /\ y0 <= Top(r) /\ Top(r) <= y0 + charsize * n
           /\ Top(r) \in Nat
      <4>1. charsize * r \in Nat /\ charsize * n \in Nat
        BY <1>1, <3>1
      <4> HIDE DEF Top
      <4> QED
        BY <3>7, <3>8, <4>1
    <3> HIDE DEF Left, Top
    <3> QED
      BY <3>1, <3>2, <3>3, <3>5, <3>6, <3>8, <3>9, <3>10
  <2>10. Max(reached) \in reached
    BY <2>6, <2>8, MaxIs, Zenon
  <2>11. stop \in reached
    <3>1. PICK T : T = (reached \ drawn) \cup {Max(reached)}
      OBVIOUS
    <3>2. T \subseteq reached /\ T # {}
      BY <2>10, <3>1
    <3>3. T \in SUBSET Nat
      BY <2>8, <3>2
    <3>4. Min(T) \in T
      BY <3>2, <3>3, MinIs
    <3>5. stop = Min(T)
      BY <3>1
    <3> QED
      BY <3>2, <3>4, <3>5
  <2>12. /\ px \in Nat /\ px <= Larger(x, Stride)
         /\ n <= beside => px <= x + 8 * n
    <3>1. PICK r : r = stop
      OBVIOUS
    <3>2. /\ r \in reached
          /\ px = Left(r) + (IF r \in drawn
                               THEN FONT_WIDTH * (LastOf(r) - First(r) + 1) ELSE 0)
      BY <2>11, <3>1
    <3>3. /\ r \in Nat /\ (n <= beside => r = 0)
          /\ First(r) \in Nat /\ LastOf(r) \in Nat
          /\ 1 <= First(r) /\ First(r) <= LastOf(r) /\ LastOf(r) <= n
          /\ Left(r) + 8 * (LastOf(r) - First(r) + 1) <= Stride
      BY <2>9, <3>2
    <3>4. Left(r) \in Nat /\ Left(r) <= x
      BY <1>5
    <3>5. (r = 0) => Left(r) = x
      BY <1>5
    <3> HIDE DEF px, Left, First, LastOf, drawn, reached
    <3> QED
      <4>1. PICK c \in Nat : c = LastOf(r) - First(r) + 1
        BY <3>3
      <4>2. c <= n /\ Left(r) + 8 * c <= Stride
        BY <3>3, <4>1
      <4>3. px = Left(r) + (IF r \in drawn THEN 8 * c ELSE 0)
        BY <1>1, <3>2, <4>1
      <4>4. PICK left \in Nat : left = Left(r)
        BY <3>4
      <4>5. px = left + 8 * c \/ px = left
        BY <4>3, <4>4
      <4>6. /\ left <= x /\ left + 8 * c <= Stride
            /\ n <= beside => left = x
        BY <3>3, <3>4, <3>5, <4>2, <4>4
      <4>7. /\ px \in Nat /\ px <= Larger(x, Stride)
        BY <1>1, <4>5, <4>6 DEF Larger
      <4>8. n <= beside => px <= x + 8 * n
        BY <4>2, <4>5, <4>6
      <4> QED
        BY <4>7, <4>8
  <2>13. /\ py \in Nat /\ y0 <= py /\ py <= y0 + charsize * n
         /\ n <= beside => py = y0
    <3>1. PICK r : r = stop
      OBVIOUS
    <3>2. r \in reached /\ py = Top(r)
      BY <2>11, <3>1
    <3>3. /\ r \in Nat /\ (n <= beside => r = 0)
          /\ Top(r) = y0 + charsize * r
          /\ y0 <= Top(r) /\ Top(r) <= y0 + charsize * n /\ Top(r) \in Nat
      BY <2>9, <3>2
    <3> HIDE DEF Top, py, reached
    <3> QED
      BY <1>1, <3>2, <3>3
  <2>14. ASSUME NEW row \in new
         PROVE  /\ Inside(row) /\ row.y \in Nat /\ y0 <= row.y
                /\ n <= beside => row.y = y0
    <3>1. PICK r \in drawn :
            row = [x |-> Left(r), y |-> Top(r),
                   text |-> SubSeq(run, First(r), LastOf(r))]
      OBVIOUS
    <3>2. /\ r \in reached /\ Top(r) <= LowestTop
          /\ row.x = Left(r) /\ row.y = Top(r)
          /\ row.text = SubSeq(run, First(r), LastOf(r))
      BY <3>1
    <3>3. /\ r \in Nat /\ (n <= beside => r = 0)
          /\ First(r) \in Nat /\ LastOf(r) \in Nat
          /\ 1 <= First(r) /\ First(r) <= LastOf(r) /\ LastOf(r) <= n
          /\ Left(r) + 8 * (LastOf(r) - First(r) + 1) <= Stride
          /\ Top(r) = y0 + charsize * r
          /\ y0 <= Top(r) /\ Top(r) \in Nat
      BY <2>9, <3>2
    <3> HIDE DEF Top, Left, First, LastOf, drawn, reached, new
    <3>4. Len(row.text) = LastOf(r) - First(r) + 1
      <4>1. /\ First(r) \in Int /\ LastOf(r) \in Int
            /\ 1 <= First(r) /\ First(r) <= LastOf(r) + 1 /\ LastOf(r) <= Len(run)
        BY <2>5, <3>3
      <4>2. Len(SubSeq(run, First(r), LastOf(r))) = LastOf(r) - First(r) + 1
        BY <4>1, SubText
      <4> QED
        BY <3>2, <4>2
    <3>5. row.x + FONT_WIDTH * Len(row.text) <= Stride
      BY <1>1, <3>2, <3>3, <3>4
    <3>6. row.y + charsize <= framebuffer.Height
      <4>1. PICK t \in Nat : t = Top(r)
        BY <3>3
      <4>2. t <= framebuffer.Height - charsize /\ row.y = t
        BY <3>2, <4>1 DEF LowestTop
      <4> QED
        BY <1>1, <4>2
    <3>7. n <= beside => row.y = y0
      <4>1. r = 0 => charsize * r = 0
        BY <1>1
      <4> QED
        BY <3>2, <3>3, <4>1
    <3> QED
      BY <3>2, <3>3, <3>5, <3>6, <3>7 DEF Inside
  <2>15. x + 8 * n <= Stride => n <= beside
    BY <2>3, <2>5
  <2> HIDE DEF px, py, new
  <2>16. Prints(x, y0, run, px, py, new)
    BY <2>5, <2>12, <2>13, <2>14, <2>15 DEF Prints
  <2> QED
    BY <1>5, <2>2, <2>16
<1> QED
  BY <1>3, <1>4

-----------------------------------------------------------------------------
(* prints: a recursion over the blanks of a text *)

BlanksOf(text) == {i \in DOMAIN text : text[i] \in Blanks}

Before(text, i) == Max({0} \cup {k \in BlanksOf(text) : k < i})

(* What is printed when the blank at i is done, given what was at the      *)
(* blanks before.                                                          *)
AfterBlank(f, point, text, i) ==
  IF i = 0 THEN [point |-> point, rows |-> {}]
  ELSE LET before == Before(text, i)
           run == printc(f[before], SubSeq(text, before + 1, i - 1))
       IN  [run EXCEPT !.point = Blank(@, text[i])]

(* f is that for all positions of a set.                                   *)
After(f, D, point, text) == f = [i \in D |-> AfterBlank(f, point, text, i)]

UpTo(n, text) == {0} \cup {i \in BlanksOf(text) : i <= n}

LEMMA BeforeIs ==
  ASSUME NEW text, IsText(text), NEW i \in Nat \ {0}
  PROVE  /\ Before(text, i) \in {0} \cup BlanksOf(text)
         /\ Before(text, i) \in Nat /\ Before(text, i) < i
         /\ Before(text, i) <= Len(text)
<1>1. DOMAIN text = 1 .. Len(text) /\ Len(text) \in Nat
  BY DEF IsText
<1> DEFINE T == {0} \cup {k \in BlanksOf(text) : k < i}
<1>2. T \in SUBSET (0 .. Len(text)) /\ T # {}
  BY <1>1 DEF BlanksOf
<1>3. \A k \in T : k < i
  OBVIOUS
<1>4. T \subseteq {0} \cup BlanksOf(text)
  OBVIOUS
<1> HIDE DEF T
<1>5. Max(T) \in T
  BY <1>1, <1>2, MaxIs
<1>6. Before(text, i) = Max(T)
  BY DEF Before, T
<1>7. PICK m : m = Max(T)
  OBVIOUS
<1>8. m \in 0 .. Len(text) /\ m < i /\ m \in {0} \cup BlanksOf(text)
  <2>1. m \in T
    BY <1>5, <1>7
  <2> QED
    BY <1>2, <1>3, <1>4, <2>1
<1>9. m \in Nat /\ m <= Len(text)
  BY <1>1, <1>8
<1> QED
  BY <1>6, <1>7, <1>8, <1>9

LEMMA AfterNext ==
  ASSUME NEW text, IsText(text), NEW point, NEW n \in Nat, NEW f,
         After(f, UpTo(n, text), point, text)
  PROVE  \E h : After(h, UpTo(n + 1, text), point, text)
<1> DEFINE D == UpTo(n + 1, text)
           h == [i \in D |-> AfterBlank(f, point, text, i)]
<1>1. UpTo(n, text) \subseteq D /\ D \subseteq Nat
  BY DEF UpTo, BlanksOf, IsText
<1>2. ASSUME NEW i \in UpTo(n, text)
      PROVE  h[i] = f[i]
  <2>1. h[i] = AfterBlank(f, point, text, i)
    BY <1>1
  <2>2. f[i] = AfterBlank(f, point, text, i)
    BY Zenon DEF After
  <2> QED
    BY <2>1, <2>2
<1> HIDE DEF h
<1>3. ASSUME NEW i \in D
      PROVE  AfterBlank(f, point, text, i) = AfterBlank(h, point, text, i)
  <2>1. CASE i = 0
    BY <2>1 DEF AfterBlank
  <2>2. CASE i # 0
    <3>1. i \in Nat \ {0} /\ i <= n + 1
      BY <1>1, <2>2 DEF UpTo
    <3>2. /\ Before(text, i) \in {0} \cup BlanksOf(text)
          /\ Before(text, i) \in Nat /\ Before(text, i) < i
      BY <3>1, BeforeIs
    <3>3. Before(text, i) <= n
      BY <3>1, <3>2
    <3>4. Before(text, i) \in UpTo(n, text)
      BY <3>2, <3>3 DEF UpTo
    <3>5. h[Before(text, i)] = f[Before(text, i)]
      BY <1>2, <3>4
    <3> QED
      BY <3>5 DEF AfterBlank
  <2> QED
    BY <2>1, <2>2
<1>4. h = [i \in D |-> AfterBlank(h, point, text, i)]
  <2>1. h = [i \in D |-> AfterBlank(f, point, text, i)]
    BY DEF h
  <2> QED
    BY <1>3, <2>1, Zenon
<1> QED
  BY <1>4 DEF After

(* The recursion of prints has a solution, on however long a text.         *)
LEMMA AfterExists ==
  ASSUME NEW text, IsText(text), NEW point
  PROVE  \E f : After(f, {0} \cup BlanksOf(text), point, text)
<1> DEFINE T == {n \in Nat : ~ \E f : After(f, UpTo(n, text), point, text)}
<1>1. 0 \notin T
  <2> DEFINE f == [i \in {0} |-> [point |-> point, rows |-> {}]]
  <2>1. UpTo(0, text) = {0}
    BY DEF UpTo, BlanksOf, IsText
  <2>2. \A i \in {0} : AfterBlank(f, point, text, i) = [point |-> point, rows |-> {}]
    BY DEF AfterBlank
  <2>3. f = [i \in {0} |-> AfterBlank(f, point, text, i)]
    <3>1. \A i \in {0} : f[i] = AfterBlank(f, point, text, i)
      BY <2>2
    <3>2. PICK g : g = f
      OBVIOUS
    <3>3. PICK e : e = [i \in {0} |-> AfterBlank(g, point, text, i)]
      OBVIOUS
    <3>4. DOMAIN e = {0} /\ e[0] = AfterBlank(g, point, text, 0)
      BY <3>3
    <3>5. e[0] = f[0]
      BY <3>1, <3>2, <3>4
    <3>6. e = [i \in {0} |-> e[i]]
      BY <3>3
    <3>7. e = f
      BY <3>4, <3>5, <3>6
    <3> HIDE DEF f
    <3> QED
      BY <3>2, <3>3, <3>7
  <2>4. After(f, UpTo(0, text), point, text)
    <3> HIDE DEF f
    <3> QED
      BY <2>1, <2>3 DEF After
  <2> QED
    BY <2>4
<1>2. T = {}
  <2> SUFFICES ASSUME T # {}
               PROVE  FALSE
    OBVIOUS
  <2>1. T \in SUBSET Nat
    OBVIOUS
  <2>2. PICK n \in T : \A k \in T : n <= k
    <3> HIDE DEF T
    <3> QED
      BY <2>1, Least
  <2>3. n \in Nat \ {0}
    <3> HIDE DEF T
    <3> QED
      BY <1>1, <2>1
  <2>4. PICK m \in Nat : n = m + 1
    BY <2>3
  <2>5. m \notin T
    <3> SUFFICES ASSUME m \in T
                 PROVE  FALSE
      OBVIOUS
    <3>1. n <= m
      BY <2>2
    <3> QED
      BY <2>4, <3>1
  <2>6. PICK f : After(f, UpTo(m, text), point, text)
    BY <2>5
  <2>7. \E h : After(h, UpTo(m + 1, text), point, text)
    BY <2>6, AfterNext
  <2> QED
    BY <2>4, <2>7
<1>3. Len(text) \in Nat /\ UpTo(Len(text), text) = {0} \cup BlanksOf(text)
  BY DEF UpTo, BlanksOf, IsText
<1>4. Len(text) \notin T
  BY <1>2
<1> QED
  BY <1>3, <1>4

LEMMA PrintsIs ==
  ASSUME NEW text, IsText(text), NEW point
  PROVE  \E f, last :
           /\ After(f, {0} \cup BlanksOf(text), point, text)
           /\ last = Before(text, Len(text) + 1)
           /\ prints(point, text)
                = printc(f[last], SubSeq(text, last + 1, Len(text))).rows
<1> DEFINE f == CHOOSE g : After(g, {0} \cup BlanksOf(text), point, text)
           last == Before(text, Len(text) + 1)
<1>1. After(f, {0} \cup BlanksOf(text), point, text)
  BY AfterExists
<1>2. prints(point, text)
        = printc(f[last], SubSeq(text, last + 1, Len(text))).rows
  BY Zenon DEF prints, After, AfterBlank, Before, BlanksOf
<1> QED
  BY <1>1, <1>2

-----------------------------------------------------------------------------
(* A line of a page *)

Half == (Word - 1) \div 2

LEMMA HalfIs ==
  ASSUME framebuffer \in Screens
  PROVE  /\ Half \in Nat /\ Stride <= Half /\ 2 * Half < Word
         /\ Half + 32 * LineSize < Word
<1>1. /\ Stride \in Nat /\ 2 * Stride < Word /\ Word \in Nat /\ 16 < Word
  BY ScreenIs
<1>2. LineSize \in Nat /\ 64 * LineSize < Word
  BY PanicAssumption, MessagesAssumption
<1>3. PICK a \in Nat : a = Word - 1
  BY <1>1
<1>4. Half = a \div 2
  BY <1>3 DEF Half
<1>5. PICK h \in Nat : h = Half /\ 2 * h <= a /\ a < 2 * h + 2
  BY <1>4, DivideIs
<1> QED
  BY <1>1, <1>2, <1>3, <1>5

(* Where a line is when i of its characters are done: not further to the   *)
(* right than i tabulators, and, if it fits, than i glyphs.                *)
Progress(x, top, fits, i, px, py, rows) ==
  /\ px \in Nat /\ px <= Half + 32 * i
  /\ py \in Nat /\ top <= py /\ py <= top + charsize * i
  /\ \A row \in rows : Inside(row) /\ row.y \in Nat /\ top <= row.y
  /\ fits => py = top /\ px <= x + 8 * i /\ \A row \in rows : row.y = top

(* The line is there with what it has drawn.                               *)
Standing(paper, x, top, fits, i) ==
  \E px, py, rows :
    /\ Progress(x, top, fits, i, px, py, rows)
    /\ paper = [point |-> [x |-> px, y |-> py], rows |-> rows]

PrintsOn(x, top, run, rows) ==
  Printed([point |-> [x |-> x, y |-> top], rows |-> rows], x, top, run, rows)

LEMMA PrintcOn ==
  ASSUME framebuffer \in Screens, NEW x \in Nat, x + 8 < Word, NEW top \in Nat,
         NEW run, IsText(run), top + charsize * Len(run) < Word, NEW rows
  PROVE  PrintsOn(x, top, run, rows)
<1>1. PICK paper : paper = [point |-> [x |-> x, y |-> top], rows |-> rows]
  OBVIOUS
<1>2. Printed(paper, x, top, run, rows)
  BY <1>1, PrintcIs
<1> QED
  BY <1>1, <1>2 DEF PrintsOn

LEMMA RunProgress ==
  ASSUME framebuffer \in Screens, NEW x \in Nat, NEW top \in Nat, NEW fits \in BOOLEAN,
         NEW i \in Nat, i < LineSize, NEW px, NEW py, NEW rows,
         Progress(x, top, fits, i, px, py, rows),
         NEW run, IsText(run), NEW L \in Nat, i + Len(run) <= L,
         top + charsize * L < Word, fits => x + 8 * L <= Stride
  PROVE  Standing(printc([point |-> [x |-> px, y |-> py], rows |-> rows], run),
                  x, top, fits, i + Len(run))
<1>1. /\ Half \in Nat /\ Stride <= Half /\ Half + 32 * LineSize < Word
      /\ Stride \in Nat /\ charsize \in Nat \ {0} /\ Word \in Nat
      /\ LineSize \in Nat
  BY HalfIs, ScreenIs, PanicAssumption
<1>2. PICK n \in Nat : n = Len(run)
  BY DEF IsText
<1>3. /\ px \in Nat /\ px <= Half + 32 * i
      /\ py \in Nat /\ top <= py /\ py <= top + charsize * i
      /\ \A row \in rows : Inside(row) /\ row.y \in Nat /\ top <= row.y
      /\ fits => py = top /\ px <= x + 8 * i /\ \A row \in rows : row.y = top
  BY DEF Progress
<1>4. px + 8 < Word
  BY <1>1, <1>3
<1>5. /\ charsize * i \in Nat /\ charsize * n \in Nat /\ charsize * L \in Nat
      /\ charsize * (i + n) = charsize * i + charsize * n
      /\ charsize * (i + n) <= charsize * L
  BY <1>1, <1>2
<1>6. py + charsize * Len(run) < Word
  BY <1>1, <1>2, <1>3, <1>5
<1>7. PICK paper : paper = [point |-> [x |-> px, y |-> py], rows |-> rows]
  OBVIOUS
<1>8. px \in Nat /\ py \in Nat
  BY <1>3
<1>9. PICK qx, qy, new :
        /\ Prints(px, py, run, qx, qy, new)
        /\ printc(paper, run)
             = [point |-> [x |-> qx, y |-> qy], rows |-> rows \cup new]
  <2>1. px \in Nat
    BY <1>8
  <2>2. py \in Nat
    BY <1>8
  <2>3. PrintsOn(px, py, run, rows)
    BY <1>4, <1>6, <2>1, <2>2, PrintcOn
  <2> QED
    BY <1>7, <2>3 DEF PrintsOn, Printed
<1>10. /\ qx \in Nat /\ qx <= Larger(px, Stride)
       /\ qy \in Nat /\ py <= qy /\ qy <= py + charsize * n
       /\ \A row \in new : Inside(row) /\ row.y \in Nat /\ py <= row.y
       /\ px + 8 * n <= Stride =>
            qy = py /\ qx <= px + 8 * n /\ \A row \in new : row.y = py
  BY <1>2, <1>9 DEF Prints
<1>11. qx <= Half + 32 * (i + n)
  BY <1>1, <1>2, <1>3, <1>10 DEF Larger
<1>12. top <= qy /\ qy <= top + charsize * (i + n)
  <2>1. PICK a \in Nat : a = charsize * i
    BY <1>5
  <2>2. PICK b \in Nat : b = charsize * n
    BY <1>5
  <2>3. py \in Nat /\ top <= py /\ py <= top + a
    BY <1>3, <2>1
  <2>4. qy \in Nat /\ py <= qy /\ qy <= py + b
    BY <1>10, <2>2
  <2>5. charsize * (i + n) = a + b
    BY <1>5, <2>1, <2>2
  <2> QED
    BY <1>1, <2>1, <2>2, <2>3, <2>4, <2>5
<1>13. \A row \in rows \cup new : Inside(row) /\ row.y \in Nat /\ top <= row.y
  BY <1>3, <1>10
<1>14. ASSUME fits
       PROVE  /\ qy = top /\ qx <= x + 8 * (i + n)
              /\ \A row \in rows \cup new : row.y = top
  <2>1. /\ py = top /\ px <= x + 8 * i /\ \A row \in rows : row.y = top
        /\ x + 8 * L <= Stride
    BY <1>3, <1>14
  <2>2. px + 8 * n <= Stride
    BY <1>1, <1>2, <1>3, <2>1
  <2>3. qy = py /\ qx <= px + 8 * n /\ \A row \in new : row.y = py
    BY <1>10, <2>2
  <2>4. qx <= x + 8 * (i + n)
    BY <1>2, <1>3, <1>10, <2>1, <2>3
  <2> QED
    BY <2>1, <2>3, <2>4
<1>15. Progress(x, top, fits, i + n, qx, qy, rows \cup new)
  BY <1>10, <1>11, <1>12, <1>13, <1>14 DEF Progress
<1> QED
  BY <1>2, <1>7, <1>9, <1>15 DEF Standing

Narrow(c) == c = " "

LEMMA BlankProgress ==
  ASSUME framebuffer \in Screens, NEW x \in Nat, NEW top \in Nat, NEW fits \in BOOLEAN,
         NEW i \in Nat, i + 1 < LineSize, NEW px, NEW py, NEW rows,
         Progress(x, top, fits, i, px, py, rows),
         top + charsize * (i + 1) < Word,
         NEW c \in Blanks, fits => Narrow(c)
  PROVE  \E qx, qy :
           /\ Progress(x, top, fits, i + 1, qx, qy, rows)
           /\ Blank([x |-> px, y |-> py], c) = [x |-> qx, y |-> qy]
<1>1. /\ Half \in Nat /\ Half + 32 * LineSize < Word
      /\ charsize \in Nat \ {0} /\ Word \in Nat /\ LineSize \in Nat
  BY HalfIs, ScreenIs, PanicAssumption
<1>2. /\ px \in Nat /\ px <= Half + 32 * i
      /\ py \in Nat /\ top <= py /\ py <= top + charsize * i
      /\ \A row \in rows : Inside(row) /\ row.y \in Nat /\ top <= row.y
      /\ fits => py = top /\ px <= x + 8 * i /\ \A row \in rows : row.y = top
  BY DEF Progress
<1>3. charsize * i \in Nat /\ charsize * (i + 1) = charsize * i + charsize
  BY <1>1
<1>4. PICK point : point = [x |-> px, y |-> py]
  OBVIOUS
<1>5. point.x = px /\ point.y = py
  BY <1>4
<1>6. CASE c = " "
  <2>1. Blank(point, c) = [point EXCEPT !.x = (point.x + 8) % Word]
    BY <1>6 DEF Blank
  <2>2. px + 8 \in Nat /\ px + 8 < Word
    BY <1>1, <1>2
  <2>3. (px + 8) % Word = px + 8
    BY <2>2, ModBelow
  <2>4. Blank(point, c) = [x |-> px + 8, y |-> py]
    BY <1>4, <1>5, <2>1, <2>3
  <2>5. Progress(x, top, fits, i + 1, px + 8, py, rows)
    <3>1. /\ px + 8 \in Nat /\ px + 8 <= Half + 32 * (i + 1)
          /\ fits => px + 8 <= x + 8 * (i + 1)
      BY <1>1, <1>2
    <3>2. py <= top + charsize * (i + 1)
      BY <1>1, <1>2, <1>3
    <3> QED
      BY <1>2, <3>1, <3>2 DEF Progress
  <2> QED
    BY <1>4, <2>4, <2>5
<1>7. CASE c = "\t"
  <2>1. Blank(point, c) = [point EXCEPT !.x = (point.x + 32) % Word]
    BY <1>7 DEF Blank
  <2>2. px + 32 \in Nat /\ px + 32 < Word
    BY <1>1, <1>2
  <2>3. (px + 32) % Word = px + 32
    BY <2>2, ModBelow
  <2>4. Blank(point, c) = [x |-> px + 32, y |-> py]
    BY <1>4, <1>5, <2>1, <2>3
  <2>5. Progress(x, top, fits, i + 1, px + 32, py, rows)
    <3>1. px + 32 \in Nat /\ px + 32 <= Half + 32 * (i + 1)
      BY <1>1, <1>2
    <3>2. py <= top + charsize * (i + 1)
      BY <1>1, <1>2, <1>3
    <3>3. ~ fits
      BY <1>7 DEF Narrow
    <3> QED
      BY <1>2, <3>1, <3>2, <3>3 DEF Progress
  <2> QED
    BY <1>4, <2>4, <2>5
<1>8. CASE c = "\r"
  <2>1. Blank(point, c) = [point EXCEPT !.x = 0]
    BY <1>8 DEF Blank
  <2>4. Blank(point, c) = [x |-> 0, y |-> py]
    BY <1>4, <1>5, <2>1
  <2>5. Progress(x, top, fits, i + 1, 0, py, rows)
    <3>1. 0 <= Half + 32 * (i + 1)
      BY <1>1
    <3>2. py <= top + charsize * (i + 1)
      BY <1>1, <1>2, <1>3
    <3>3. ~ fits
      BY <1>8 DEF Narrow
    <3> QED
      BY <1>2, <3>1, <3>2, <3>3 DEF Progress
  <2> QED
    BY <1>4, <2>4, <2>5
<1>9. CASE c = "\n"
  <2>1. Blank(point, c) = [x |-> 0, y |-> (point.y + charsize) % Word]
    BY <1>9 DEF Blank, Down
  <2>2. /\ py + charsize \in Nat /\ py + charsize < Word
        /\ py + charsize <= top + charsize * (i + 1)
    BY <1>1, <1>2, <1>3
  <2>3. (py + charsize) % Word = py + charsize
    BY <2>2, ModBelow
  <2>4. Blank(point, c) = [x |-> 0, y |-> py + charsize]
    BY <1>4, <1>5, <2>1, <2>3
  <2>5. Progress(x, top, fits, i + 1, 0, py + charsize, rows)
    <3>1. 0 <= Half + 32 * (i + 1)
      BY <1>1
    <3>2. top <= py + charsize
      BY <1>1, <1>2
    <3>3. ~ fits
      BY <1>9 DEF Narrow
    <3> QED
      BY <1>2, <2>2, <3>1, <3>2, <3>3 DEF Progress
  <2> QED
    BY <1>4, <2>4, <2>5
<1> QED
  BY <1>6, <1>7, <1>8, <1>9 DEF Blanks

LEMMA RunStanding ==
  ASSUME framebuffer \in Screens, NEW x \in Nat, NEW top \in Nat,
         NEW fits \in BOOLEAN, NEW i \in Nat, i < LineSize,
         NEW paper, Standing(paper, x, top, fits, i),
         NEW run, IsText(run), NEW L \in Nat, i + Len(run) <= L,
         top + charsize * L < Word, fits => x + 8 * L <= Stride
  PROVE  Standing(printc(paper, run), x, top, fits, i + Len(run))
<1>1. PICK px, py, rows :
        /\ Progress(x, top, fits, i, px, py, rows)
        /\ paper = [point |-> [x |-> px, y |-> py], rows |-> rows]
  BY DEF Standing
<1>2. Standing(printc([point |-> [x |-> px, y |-> py], rows |-> rows], run),
               x, top, fits, i + Len(run))
  BY <1>1, RunProgress
<1> QED
  BY <1>1, <1>2

LEMMA BlankStanding ==
  ASSUME framebuffer \in Screens, NEW x \in Nat, NEW top \in Nat,
         NEW fits \in BOOLEAN, NEW i \in Nat, i + 1 < LineSize,
         NEW paper, Standing(paper, x, top, fits, i),
         top + charsize * (i + 1) < Word,
         NEW c \in Blanks, fits => Narrow(c)
  PROVE  Standing([paper EXCEPT !.point = Blank(@, c)], x, top, fits, i + 1)
<1>1. PICK px, py, rows :
        /\ Progress(x, top, fits, i, px, py, rows)
        /\ paper = [point |-> [x |-> px, y |-> py], rows |-> rows]
  BY DEF Standing
<1>2. PICK qx, qy :
        /\ Progress(x, top, fits, i + 1, qx, qy, rows)
        /\ Blank([x |-> px, y |-> py], c) = [x |-> qx, y |-> qy]
  BY <1>1, BlankProgress
<1>3. PICK new : new = [paper EXCEPT !.point = Blank(@, c)]
  OBVIOUS
<1>4. new = [paper EXCEPT !.point = Blank(paper.point, c)]
  BY <1>3
<1>5. paper.point = [x |-> px, y |-> py]
  BY <1>1
<1>6. new = [point |-> [x |-> qx, y |-> qy], rows |-> rows]
  BY <1>1, <1>2, <1>4, <1>5
<1> QED
  BY <1>2, <1>3, <1>6 DEF Standing

(* A text that its line buffer holds: its blanks are not far from its      *)
(* start.                                                                  *)
Held(text) == IsText(text) /\ \A i \in BlanksOf(text) : i < LineSize

Narrowly(text) == \A i \in BlanksOf(text) : Narrow(text[i])

LEMMA LineStanding ==
  ASSUME framebuffer \in Screens, NEW x \in Nat, x <= Half, NEW top \in Nat,
         NEW text, Held(text), top + charsize * Len(text) < Word,
         NEW fits \in BOOLEAN, fits => x + 8 * Len(text) <= Stride,
         fits => Narrowly(text),
         NEW f, After(f, {0} \cup BlanksOf(text), [x |-> x, y |-> top], text)
  PROVE  \A i \in {0} \cup BlanksOf(text) : Standing(f[i], x, top, fits, i)
<1>1. /\ IsText(text) /\ DOMAIN text = 1 .. Len(text) /\ Len(text) \in Nat
      /\ \A i \in BlanksOf(text) : i < LineSize
  BY DEF Held, IsText
<1>2. /\ charsize \in Nat \ {0} /\ LineSize \in Nat \ {0} /\ Half \in Nat
      /\ Word \in Nat
  BY PanicAssumption, HalfIs
<1> DEFINE D == {0} \cup BlanksOf(text)
           T == {i \in D : ~ Standing(f[i], x, top, fits, i)}
<1>3. D \subseteq Nat
  BY <1>1 DEF BlanksOf
<1>4. ASSUME NEW i \in D
      PROVE  f[i] = AfterBlank(f, [x |-> x, y |-> top], text, i)
  BY Zenon DEF After
<1>5. T = {}
  <2> SUFFICES ASSUME T # {}
               PROVE  FALSE
    OBVIOUS
  <2>1. T \in SUBSET Nat /\ T \subseteq D
    BY <1>3
  <2>2. PICK i \in T : \A k \in T : i <= k
    <3> HIDE DEF T
    <3> QED
      BY <2>1, Least
  <2>3. i \in D /\ i \in Nat
    BY <2>1, <2>2
  <2>4. ~ Standing(f[i], x, top, fits, i)
    BY <2>2
  <2>5. \A k \in D : k < i => Standing(f[k], x, top, fits, k)
    <3> SUFFICES ASSUME NEW k \in D, k < i, ~ Standing(f[k], x, top, fits, k)
                 PROVE  FALSE
      OBVIOUS
    <3>1. k \in T
      OBVIOUS
    <3>2. i <= k /\ k \in Nat
      BY <1>3, <2>2, <3>1
    <3> QED
      BY <2>3, <3>2
  <2> HIDE DEF T
  <2>6. CASE i = 0
    <3>1. f[i] = [point |-> [x |-> x, y |-> top], rows |-> {}]
      BY <1>4, <2>3, <2>6 DEF AfterBlank
    <3>2. Progress(x, top, fits, 0, x, top, {})
      BY <1>2 DEF Progress
    <3> QED
      BY <2>4, <2>6, <3>1, <3>2 DEF Standing
  <2>7. CASE i # 0
    <3>1. /\ i \in Nat \ {0} /\ i \in BlanksOf(text) /\ i \in 1 .. Len(text)
          /\ text[i] \in Blanks /\ i < LineSize
      BY <1>1, <2>3, <2>7 DEF BlanksOf
    <3>2. PICK before : before = Before(text, i)
      OBVIOUS
    <3>3. /\ before \in D /\ before \in Nat /\ before < i
      BY <1>1, <3>1, <3>2, BeforeIs
    <3>4. Standing(f[before], x, top, fits, before)
      BY <2>5, <3>3
    <3>5. PICK run : run = SubSeq(text, before + 1, i - 1)
      OBVIOUS
    <3>6. IsText(run) /\ Len(run) = i - 1 - before
      <4>1. /\ before + 1 \in Int /\ i - 1 \in Int /\ 1 <= before + 1
            /\ before + 1 <= (i - 1) + 1 /\ i - 1 <= Len(text)
        BY <1>1, <3>1, <3>3
      <4>2. /\ IsText(SubSeq(text, before + 1, i - 1))
            /\ Len(SubSeq(text, before + 1, i - 1)) = (i - 1) - (before + 1) + 1
        BY <1>1, <4>1, SubText
      <4> QED
        BY <3>1, <3>3, <3>5, <4>2
    <3>7. PICK k \in Nat : k = i - 1
      BY <3>1
    <3>8. k + 1 = i /\ k = before + Len(run) /\ k <= Len(text) /\ before < LineSize
      BY <1>1, <1>2, <3>1, <3>3, <3>6, <3>7
    <3>9. PICK paper : paper = printc(f[before], run)
      OBVIOUS
    <3>10. Standing(paper, x, top, fits, k)
      <4>1. Standing(printc(f[before], run), x, top, fits, before + Len(run))
        <5>1. before + Len(run) <= Len(text)
          BY <3>8
        <5>2. Len(text) \in Nat
          BY <1>1
        <5>3. before \in Nat /\ before < LineSize
          BY <3>3, <3>8
        <5>4. IsText(run)
          BY <3>6
        <5> QED
          BY <3>4, <5>1, <5>2, <5>3, <5>4, RunStanding
      <4> QED
        BY <3>8, <3>9, <4>1
    <3>11. top + charsize * (k + 1) < Word
      <4>1. PICK a \in Nat : a = charsize * i
        BY <1>2, <3>1
      <4>2. PICK b \in Nat : b = charsize * Len(text)
        BY <1>1, <1>2
      <4>3. charsize * i <= charsize * Len(text)
        BY <1>1, <1>2, <3>1
      <4> QED
        BY <1>2, <3>8, <4>1, <4>2, <4>3
    <3>12. fits => Narrow(text[i])
      BY <3>1 DEF Narrowly
    <3>13. Standing([paper EXCEPT !.point = Blank(@, text[i])], x, top, fits, k + 1)
      BY <3>1, <3>8, <3>10, <3>11, <3>12, BlankStanding
    <3>14. f[i] = [paper EXCEPT !.point = Blank(@, text[i])]
      BY <1>4, <2>3, <2>7, <3>2, <3>5, <3>9 DEF AfterBlank
    <3> QED
      BY <2>4, <3>8, <3>13, <3>14
  <2> QED
    BY <2>6, <2>7
<1> QED
  BY <1>5

(* Everything a line draws lies inside the framebuffer and not above the   *)
(* line, and beside it if the line fits.                                   *)
LEMMA LineRows ==
  ASSUME framebuffer \in Screens, NEW x \in Nat, x <= Half, NEW top \in Nat,
         NEW text, Held(text), top + charsize * Len(text) < Word,
         NEW fits \in BOOLEAN, fits => x + 8 * Len(text) <= Stride,
         fits => Narrowly(text)
  PROVE  \A row \in prints([x |-> x, y |-> top], text) :
           /\ Inside(row) /\ row.y \in Nat /\ top <= row.y
           /\ fits => row.y = top
<1>1. IsText(text) /\ Len(text) \in Nat /\ \A i \in BlanksOf(text) : i < LineSize
  BY DEF Held, IsText
<1>2. PICK f, last :
        /\ After(f, {0} \cup BlanksOf(text), [x |-> x, y |-> top], text)
        /\ last = Before(text, Len(text) + 1)
        /\ prints([x |-> x, y |-> top], text)
             = printc(f[last], SubSeq(text, last + 1, Len(text))).rows
  BY <1>1, PrintsIs
<1>3. /\ last \in {0} \cup BlanksOf(text) /\ last \in Nat /\ last <= Len(text)
      /\ last < LineSize
  <2>1. PICK i \in Nat \ {0} : i = Len(text) + 1
    BY <1>1
  <2>2. /\ Before(text, i) \in {0} \cup BlanksOf(text)
        /\ Before(text, i) \in Nat /\ Before(text, i) < i
        /\ Before(text, i) <= Len(text)
    BY <1>1, <2>1, BeforeIs
  <2>3. LineSize \in Nat \ {0}
    BY PanicAssumption
  <2> QED
    BY <1>1, <1>2, <2>1, <2>2, <2>3
<1>4. Standing(f[last], x, top, fits, last)
  <2>1. \A i \in {0} \cup BlanksOf(text) : Standing(f[i], x, top, fits, i)
    BY <1>2, LineStanding
  <2> QED
    BY <1>3, <2>1
<1>5. PICK run : run = SubSeq(text, last + 1, Len(text))
  OBVIOUS
<1>6. IsText(run) /\ last + Len(run) = Len(text)
  <2>1. /\ last + 1 \in Int /\ Len(text) \in Int /\ 1 <= last + 1
        /\ last + 1 <= Len(text) + 1 /\ Len(text) <= Len(text)
    BY <1>1, <1>3
  <2>2. /\ IsText(SubSeq(text, last + 1, Len(text)))
        /\ Len(SubSeq(text, last + 1, Len(text))) = Len(text) - (last + 1) + 1
    BY <1>1, <2>1, SubText
  <2> QED
    BY <1>1, <1>3, <1>5, <2>2
<1>7. PICK paper : paper = printc(f[last], run)
  OBVIOUS
<1>8. Standing(paper, x, top, fits, Len(text))
  <2>1. last + Len(run) <= Len(text)
    BY <1>1, <1>6
  <2>2. Standing(printc(f[last], run), x, top, fits, last + Len(run))
    <3>1. Len(text) \in Nat
      BY <1>1
    <3>2. last \in Nat /\ last < LineSize
      BY <1>3
    <3>3. IsText(run)
      BY <1>6
    <3> QED
      BY <1>4, <2>1, <3>1, <3>2, <3>3, RunStanding
  <2> QED
    BY <1>6, <1>7, <2>2
<1>9. PICK px, py, rows :
        /\ Progress(x, top, fits, Len(text), px, py, rows)
        /\ paper = [point |-> [x |-> px, y |-> py], rows |-> rows]
  BY <1>8 DEF Standing
<1>10. prints([x |-> x, y |-> top], text) = rows
  BY <1>2, <1>5, <1>7, <1>9
<1> QED
  BY <1>9, <1>10 DEF Progress

-----------------------------------------------------------------------------
(* The texts of a panic *)

LEMMA CenterIs ==
  ASSUME framebuffer \in Screens, NEW text, IsText(text)
  PROVE  /\ centerX(text) \in Nat /\ centerX(text) <= Half
         /\ 8 * Len(text) <= Stride => centerX(text) + 8 * Len(text) <= Stride
<1>1. /\ Stride \in Nat /\ FONT_WIDTH = 8 /\ 2 * Stride < Word /\ Word \in Nat
      /\ 16 < Word
  BY ScreenIs
<1>2. PICK n \in Nat : n = Len(text)
  BY DEF IsText
<1>3. PICK a \in Int : a = Stride - n * 8
  BY <1>1, <1>2
<1>4. PICK m : m = a % Word
  OBVIOUS
<1>5. m \in 0 .. Word - 1
  BY <1>1, <1>3, <1>4
<1>6. centerX(text) = m \div 2
  BY <1>1, <1>2, <1>3, <1>4 DEF centerX, Stride
<1>7. PICK c \in Nat : c = centerX(text) /\ 2 * c <= m /\ m < 2 * c + 2
  BY <1>1, <1>5, <1>6, DivideIs
<1>8. PICK h \in Nat : h = Half /\ 2 * h <= Word - 1 /\ Word - 1 < 2 * h + 2
  <2>1. PICK b \in Nat : b = Word - 1
    BY <1>1
  <2>2. Half = b \div 2
    BY <2>1 DEF Half
  <2> QED
    BY <2>1, <2>2, DivideIs
<1>9. c <= h
  BY <1>1, <1>5, <1>7, <1>8
<1>10. ASSUME 8 * n <= Stride
       PROVE  c + 8 * n <= Stride
  <2>1. a \in Nat /\ a < Word
    BY <1>1, <1>3, <1>10
  <2>2. m = a
    BY <1>4, <2>1, ModBelow
  <2> QED
    BY <1>1, <1>3, <1>7, <2>1, <2>2
<1> QED
  BY <1>2, <1>7, <1>8, <1>9, <1>10

LEMMA GlyphsIs ==
  ASSUME NEW n \in Nat
  PROVE  /\ IsText(Glyphs(n)) /\ Len(Glyphs(n)) = n
         /\ BlanksOf(Glyphs(n)) = {}
         /\ \A i \in DOMAIN Glyphs(n) : Glyphs(n)[i] # "\n"
<1>1. Glyphs(n) \in Seq({"*"}) /\ Len(Glyphs(n)) = n
  BY DEF Glyphs
<1>2. DOMAIN Glyphs(n) = 1 .. n
  BY DEF Glyphs
<1>3. \A i \in 1 .. n : Glyphs(n)[i] = "*"
  BY DEF Glyphs
<1>4. "*" \notin Blanks /\ "*" # "\n"
  BY DEF Blanks
<1> QED
  BY <1>1, <1>2, <1>3, <1>4 DEF IsText, BlanksOf

LEMMA JoinIs ==
  ASSUME NEW a, IsText(a), NEW b, IsText(b)
  PROVE  IsText(a \o b) /\ Len(a \o b) = Len(a) + Len(b)
<1>1. PICK A : a \in Seq(A)
  BY DEF IsText
<1>2. PICK B : b \in Seq(B)
  BY DEF IsText
<1>3. a \in Seq(A \cup B) /\ b \in Seq(A \cup B)
  BY <1>1, <1>2
<1>4. a \o b \in Seq(A \cup B) /\ Len(a \o b) = Len(a) + Len(b)
  BY <1>3
<1> QED
  BY <1>4 DEF IsText

LEMMA AddIs ==
  ASSUME NEW s, IsText(s), NEW e
  PROVE  /\ IsText(Append(s, e)) /\ Len(Append(s, e)) = Len(s) + 1
         /\ Len(s) \in Nat /\ DOMAIN s = 1 .. Len(s)
         /\ DOMAIN Append(s, e) = 1 .. Len(s) + 1
         /\ \A i \in DOMAIN s : Append(s, e)[i] = s[i]
         /\ Append(s, e)[Len(s) + 1] = e
<1>1. PICK S : s \in Seq(S)
  BY DEF IsText
<1>2. s \in Seq(S \cup {e}) /\ e \in S \cup {e}
  BY <1>1
<1>3. PICK T : T = S \cup {e}
  OBVIOUS
<1>4. s \in Seq(T) /\ e \in T
  BY <1>2, <1>3
<1>5. Append(s, e) \in Seq(T)
  BY <1>4
<1>6. /\ Len(Append(s, e)) = Len(s) + 1
      /\ Len(s) \in Nat /\ DOMAIN s = 1 .. Len(s)
      /\ DOMAIN Append(s, e) = 1 .. Len(s) + 1
      /\ \A i \in DOMAIN s : Append(s, e)[i] = s[i]
      /\ Append(s, e)[Len(s) + 1] = e
  BY <1>4
<1> QED
  BY <1>5, <1>6 DEF IsText

(* The buffer of toHexString has an end after each call.                   *)
HexBuffer(buffer) == DOMAIN buffer = 0 .. HexDigits + 4

(* f is what the loop leaves, in up to m turns.                            *)
LeftFor(f, m, value) ==
  f = [k \in 0 .. m |-> IF k = 0 THEN value ELSE f[k - 1] \div 16]

LEMMA LeftNext ==
  ASSUME NEW value, NEW m \in Nat, NEW f, LeftFor(f, m, value)
  PROVE  \E h : LeftFor(h, m + 1, value)
<1> DEFINE Step(g, k) == IF k = 0 THEN value ELSE g[k - 1] \div 16
           h == [k \in 0 .. m + 1 |-> Step(f, k)]
<1>1. ASSUME NEW k \in 0 .. m
      PROVE  h[k] = f[k]
  <2>1. k \in 0 .. m + 1
    OBVIOUS
  <2>2. h[k] = Step(f, k)
    BY <2>1
  <2>3. f = [i \in 0 .. m |-> Step(f, i)]
    BY DEF LeftFor
  <2> HIDE DEF Step, h
  <2>4. f[k] = Step(f, k)
    BY <2>3, Zenon
  <2> QED
    BY <2>2, <2>4
<1>2. h = [k \in 0 .. m + 1 |-> Step(f, k)]
  OBVIOUS
<1> HIDE DEF h
<1>3. ASSUME NEW k \in 0 .. m + 1
      PROVE  Step(f, k) = Step(h, k)
  <2>1. CASE k = 0
    BY <2>1
  <2>2. CASE k # 0
    <3>1. k - 1 \in 0 .. m
      BY <2>2
    <3>2. h[k - 1] = f[k - 1]
      BY <1>1, <3>1
    <3> QED
      BY <2>2, <3>2
  <2> QED
    BY <2>1, <2>2
<1>4. h = [k \in 0 .. m + 1 |-> Step(h, k)]
  <2> HIDE DEF Step
  <2> QED
    BY <1>2, <1>3, Zenon
<1> QED
  BY <1>4 DEF LeftFor

LEMMA LeftExists ==
  ASSUME NEW value, NEW m \in Nat
  PROVE  \E f : LeftFor(f, m, value)
<1> DEFINE T == {k \in Nat : ~ \E f : LeftFor(f, k, value)}
<1>1. 0 \notin T
  <2> DEFINE f == [k \in 0 .. 0 |-> value]
  <2>1. f = [k \in 0 .. 0 |-> IF k = 0 THEN value ELSE f[k - 1] \div 16]
    <3>1. PICK g : g = f
      OBVIOUS
    <3>2. PICK e : e = [k \in 0 .. 0 |-> IF k = 0 THEN value ELSE g[k - 1] \div 16]
      OBVIOUS
    <3>3. DOMAIN e = 0 .. 0 /\ \A k \in 0 .. 0 : e[k] = value
      BY <3>2
    <3>4. e = [k \in 0 .. 0 |-> e[k]]
      BY <3>2
    <3>5. e = f
      BY <3>3, <3>4
    <3> HIDE DEF f
    <3> QED
      BY <3>1, <3>2, <3>5
  <2> HIDE DEF f
  <2>2. LeftFor(f, 0, value)
    BY <2>1 DEF LeftFor
  <2> QED
    BY <2>2
<1>2. T = {}
  <2> SUFFICES ASSUME T # {}
               PROVE  FALSE
    OBVIOUS
  <2>1. T \in SUBSET Nat
    OBVIOUS
  <2>2. PICK n \in T : \A k \in T : n <= k
    <3> HIDE DEF T
    <3> QED
      BY <2>1, Least
  <2>3. n \in Nat \ {0}
    <3> HIDE DEF T
    <3> QED
      BY <1>1, <2>1
  <2>4. PICK i \in Nat : n = i + 1
    BY <2>3
  <2>5. i \notin T
    <3> SUFFICES ASSUME i \in T
                 PROVE  FALSE
      OBVIOUS
    <3>1. n <= i
      BY <2>2
    <3> QED
      BY <2>4, <3>1
  <2>6. PICK f : LeftFor(f, i, value)
    BY <2>5
  <2>7. \E h : LeftFor(h, i + 1, value)
    BY <2>6, LeftNext
  <2> QED
    BY <2>4, <2>7
<1> QED
  BY <1>2

LEMMA LeftIs ==
  ASSUME NEW value \in Nat
  PROVE  /\ LeftOf(value)[0] = value
         /\ \A k \in 0 .. HexDigits : LeftOf(value)[k] \in Nat
         /\ \A k \in 1 .. HexDigits :
              LeftOf(value)[k] = LeftOf(value)[k - 1] \div 16
<1>1. HexDigits \in Nat
  BY PanicAssumption
<1>2. PICK left : left = LeftOf(value)
  OBVIOUS
<1>3. LeftFor(left, HexDigits, value)
  <2>1. \E f : LeftFor(f, HexDigits, value)
    BY <1>1, LeftExists
  <2>2. LeftOf(value) = CHOOSE f : LeftFor(f, HexDigits, value)
    BY Zenon DEF LeftOf, LeftFor
  <2> QED
    BY <1>2, <2>1, <2>2
<1>4. \A k \in 0 .. HexDigits :
        left[k] = IF k = 0 THEN value ELSE left[k - 1] \div 16
  BY <1>3, Zenon DEF LeftFor
<1>5. left[0] = value
  BY <1>1, <1>4
<1>6. \A k \in 1 .. HexDigits : left[k] = left[k - 1] \div 16
  BY <1>1, <1>4
<1> DEFINE T == {k \in 0 .. HexDigits : left[k] \notin Nat}
<1>7. T = {}
  <2> SUFFICES ASSUME T # {}
               PROVE  FALSE
    OBVIOUS
  <2>1. T \in SUBSET Nat
    BY <1>1
  <2>2. PICK n \in T : \A k \in T : n <= k
    <3> HIDE DEF T
    <3> QED
      BY <2>1, Least
  <2>3. n \in 1 .. HexDigits /\ left[n] \notin Nat
    <3>1. n \in 0 .. HexDigits /\ left[n] \notin Nat
      OBVIOUS
    <3>2. n # 0
      BY <1>5, <3>1
    <3> QED
      BY <1>1, <3>1, <3>2
  <2>4. left[n - 1] \in Nat
    <3>1. n - 1 \in 0 .. HexDigits /\ ~ n <= n - 1
      BY <1>1, <2>3
    <3>2. n - 1 \notin T
      <4> HIDE DEF T
      <4> QED
        BY <2>2, <3>1
    <3> QED
      BY <3>1, <3>2
  <2>5. left[n] = left[n - 1] \div 16
    BY <1>6, <2>3
  <2>6. PICK a \in Nat : a = left[n - 1]
    BY <2>4
  <2>7. a \div 16 \in Nat
    BY DivideIs
  <2> QED
    BY <2>3, <2>5, <2>6, <2>7
<1>8. \A k \in 0 .. HexDigits : left[k] \in Nat
  BY <1>7
<1> QED
  BY <1>2, <1>5, <1>6, <1>8

LEMMA TurnsIs ==
  ASSUME NEW value \in Numbers
  PROVE  /\ value \in Nat
         /\ Turns(value) \in 1 .. HexDigits
         /\ LeftOf(value)[Turns(value)] = 0
<1>1. HexDigits \in Nat \ {0}
  BY PanicAssumption
<1>2. value \in Nat /\ LeftOf(value)[HexDigits] = 0
  BY NumbersAssumption
<1> DEFINE T == {1} \cup {k \in 1 .. HexDigits : LeftOf(value)[k - 1] > 0}
<1>3. T \in SUBSET (0 .. HexDigits) /\ T # {} /\ T \subseteq 1 .. HexDigits
  BY <1>1
<1>4. Turns(value) = Max(T)
  BY DEF Turns
<1>5. PICK n : n = Max(T)
  OBVIOUS
<1>6. \A k \in 1 .. HexDigits : LeftOf(value)[k - 1] > 0 => k \in T
  OBVIOUS
<1> HIDE DEF T
<1>7. n \in T /\ \A z \in T : z <= n
  BY <1>1, <1>3, <1>5, MaxIs
<1>8. n \in 1 .. HexDigits
  BY <1>3, <1>7
<1>9. LeftOf(value)[n] = 0
  <2>1. CASE n = HexDigits
    BY <1>2, <2>1
  <2>2. CASE n # HexDigits
    <3>1. n + 1 \in 1 .. HexDigits /\ (n + 1) - 1 = n /\ ~ n + 1 <= n
      BY <1>1, <1>8, <2>2
    <3>2. n + 1 \notin T
      BY <1>7, <3>1
    <3>3. ~ LeftOf(value)[n] > 0
      BY <1>6, <3>1, <3>2
    <3>4. LeftOf(value)[n] \in Nat
      BY <1>1, <1>2, <1>8, LeftIs
    <3> QED
      BY <3>3, <3>4
  <2> QED
    BY <2>1, <2>2
<1> QED
  BY <1>2, <1>4, <1>5, <1>8, <1>9

(* What the buffer holds after a call: 0x, the digits, their end.          *)
Digit(value, j) == HexChars[(LeftOf(value)[Turns(value) - j] % 16) + 1]

HexString(buffer, value) ==
  /\ buffer[0] = "0" /\ buffer[1] = "x"
  /\ \A j \in 1 .. Turns(value) : buffer[j + 1] = Digit(value, j)
  /\ buffer[Turns(value) + 2] = NUL

LEMMA HexStringIs ==
  ASSUME NEW buffer, HexBuffer(buffer), NEW value \in Numbers
  PROVE  /\ HexBuffer(toHexString(buffer, value))
         /\ HexString(toHexString(buffer, value), value)
<1>1. HexDigits \in Nat \ {0} /\ DOMAIN buffer = 0 .. HexDigits + 4
  BY PanicAssumption DEF HexBuffer
<1>2. PICK n \in 1 .. HexDigits : n = Turns(value)
  BY TurnsIs
<1> DEFINE D(k) == HexChars[(LeftOf(value)[Turns(value) - k] % 16) + 1]
           end == HexDigits + 2
           Char(i) == CASE i = 0 -> "0"
                        [] i = 1 -> "x"
                        [] i \in 2 .. Turns(value) + 1 -> D(i - 1)
                        [] i = Turns(value) + 2 -> NUL
                        [] i \in Max({Turns(value) + 3, end - Turns(value) + 1})
                                   .. end /\ value # 0
                             -> D(i - (end - Turns(value)))
                        [] OTHER -> buffer[i]
<1>3. toHexString(buffer, value) = [i \in DOMAIN buffer |-> Char(i)]
  BY Zenon DEF toHexString
<1>4. \A i \in 0 .. n + 2 :
        i \notin Max({Turns(value) + 3, end - Turns(value) + 1}) .. end
  <2>1. PICK a \in Int : a = n + 3
    BY <1>2
  <2>2. PICK b \in Int : b = end - n + 1
    BY <1>1, <1>2
  <2>3. Max({a, b}) = IF a >= b THEN a ELSE b
    BY MaxOfTwo
  <2>4. PICK c \in Int : c = Max({a, b}) /\ c >= a
    BY <2>3
  <2>5. Max({Turns(value) + 3, end - Turns(value) + 1}) = c
    BY <1>2, <2>1, <2>2, <2>4
  <2> HIDE DEF end
  <2> QED
    BY <1>2, <2>1, <2>4, <2>5
<1> HIDE DEF D, end
<1>5. Char(0) = "0" /\ Char(1) = "x"
  <2>1. 0 # 1 /\ 0 \notin 2 .. Turns(value) + 1 /\ 0 # Turns(value) + 2
    BY <1>2
  <2>2. 1 # 0 /\ 1 \notin 2 .. Turns(value) + 1 /\ 1 # Turns(value) + 2
    BY <1>2
  <2>3. 0 \notin Max({Turns(value) + 3, end - Turns(value) + 1}) .. end
    BY <1>2, <1>4
  <2>4. 1 \notin Max({Turns(value) + 3, end - Turns(value) + 1}) .. end
    BY <1>2, <1>4
  <2> QED
    BY <2>1, <2>2, <2>3, <2>4, Zenon
<1>6. Char(Turns(value) + 2) = NUL
  <2>1. PICK j : j = Turns(value) + 2
    OBVIOUS
  <2>2. /\ j # 0 /\ j # 1 /\ j \notin 2 .. Turns(value) + 1
        /\ j \notin Max({Turns(value) + 3, end - Turns(value) + 1}) .. end
    BY <1>2, <1>4, <2>1
  <2>3. Char(j) = NUL
    BY <2>1, <2>2, Zenon
  <2> QED
    BY <2>1, <2>3
<1>7. ASSUME NEW k \in 1 .. Turns(value)
      PROVE  Char(k + 1) = Digit(value, k)
  <2>1. PICK j : j = k + 1
    OBVIOUS
  <2>2. /\ j # 0 /\ j # 1 /\ j \in 2 .. Turns(value) + 1 /\ j # Turns(value) + 2
        /\ j \notin Max({Turns(value) + 3, end - Turns(value) + 1}) .. end
        /\ j - 1 = k
    BY <1>2, <1>4, <2>1
  <2>3. Char(j) = D(j - 1)
    BY <2>2, Zenon
  <2> QED
    BY <2>1, <2>2, <2>3 DEF D, Digit
<1> HIDE DEF Char
<1>8. \A i \in 0 .. n + 2 : toHexString(buffer, value)[i] = Char(i)
  <2>1. \A i \in 0 .. n + 2 : i \in DOMAIN buffer
    BY <1>1, <1>2
  <2> QED
    BY <1>3, <2>1, Zenon
<1>9. HexString(toHexString(buffer, value), value)
  <2>1. 0 \in 0 .. n + 2 /\ 1 \in 0 .. n + 2 /\ Turns(value) + 2 \in 0 .. n + 2
    BY <1>2
  <2>2. \A j \in 1 .. Turns(value) : j + 1 \in 0 .. n + 2
    BY <1>2
  <2> QED
    BY <1>5, <1>6, <1>7, <1>8, <2>1, <2>2, Zenon DEF HexString
<1>10. DOMAIN toHexString(buffer, value) = DOMAIN buffer
  BY DEF toHexString
<1> QED
  BY <1>9, <1>10 DEF HexBuffer

LEMMA HexCharsAre ==
  /\ DOMAIN HexChars = 1 .. 16
  /\ \A v \in 0 .. 15 : HexChars[v + 1] # NUL
  /\ \A v \in 0 .. 15 : \A w \in 0 .. 15 : HexChars[v + 1] = HexChars[w + 1] => v = w
<1>1. DOMAIN HexChars = 1 .. 16
  BY DEF HexChars
<1>2. \A v \in 0 .. 15 : HexChars[v + 1] # NUL
  BY DEF HexChars, NUL
<1>3. \A v \in 0 .. 15 : \A w \in 0 .. 15 : HexChars[v + 1] = HexChars[w + 1] => v = w
  BY DEF HexChars
<1> QED
  BY <1>1, <1>2, <1>3

LEMMA DigitIs ==
  ASSUME NEW value \in Numbers, NEW j \in 1 .. Turns(value)
  PROVE  /\ LeftOf(value)[Turns(value) - j] \in Nat
         /\ LeftOf(value)[Turns(value) - j] % 16 \in 0 .. 15
         /\ Digit(value, j) # NUL
<1>1. value \in Nat /\ Turns(value) \in 1 .. HexDigits /\ HexDigits \in Nat
  BY TurnsIs, PanicAssumption
<1>2. Turns(value) - j \in 0 .. HexDigits
  BY <1>1
<1>3. PICK a \in Nat : a = LeftOf(value)[Turns(value) - j]
  BY <1>1, <1>2, LeftIs
<1>4. PICK d \in 0 .. 15 : d = a % 16
  OBVIOUS
<1>5. Digit(value, j) = HexChars[d + 1]
  BY <1>3, <1>4 DEF Digit
<1> QED
  BY <1>3, <1>4, <1>5, HexCharsAre

LEMMA CStringIs ==
  ASSUME NEW buffer, HexBuffer(buffer), NEW value \in Numbers,
         HexString(buffer, value)
  PROVE  /\ IsText(CString(buffer)) /\ Len(CString(buffer)) <= HexDigits + 4
         /\ CString(buffer) = [k \in 1 .. Turns(value) + 2 |-> buffer[k - 1]]
<1>1. HexDigits \in Nat \ {0} /\ DOMAIN buffer = 0 .. HexDigits + 4
  BY PanicAssumption DEF HexBuffer
<1>2. PICK n \in 1 .. HexDigits : n = Turns(value)
  BY TurnsIs
<1> DEFINE IsEnd(i) == buffer[i] = NUL
                         /\ \A k \in DOMAIN buffer : k < i => buffer[k] # NUL
           end == CHOOSE i \in DOMAIN buffer : IsEnd(i)
<1>3. PICK e : e = n + 2
  OBVIOUS
<1>4. e \in DOMAIN buffer /\ e \in Nat /\ e <= HexDigits + 4
  BY <1>1, <1>2, <1>3
<1>5. buffer[e] = NUL
  BY <1>2, <1>3 DEF HexString
<1>6. ASSUME NEW k \in DOMAIN buffer, k < e
      PROVE  buffer[k] # NUL
  <2>1. CASE k = 0
    BY <2>1 DEF HexString, NUL
  <2>2. CASE k = 1
    BY <2>2 DEF HexString, NUL
  <2>3. CASE k # 0 /\ k # 1
    <3>1. PICK j \in 1 .. Turns(value) : k = j + 1
      <4>1. k \in Nat /\ k - 1 \in 1 .. Turns(value) /\ k = (k - 1) + 1
        BY <1>1, <1>2, <1>3, <1>6, <2>3
      <4> QED
        BY <4>1
    <3>2. buffer[k] = Digit(value, j)
      BY <3>1 DEF HexString
    <3> QED
      BY <3>2, DigitIs
  <2> QED
    BY <2>1, <2>2, <2>3
<1>7. IsEnd(e)
  BY <1>5, <1>6
<1>8. ASSUME NEW i \in DOMAIN buffer, IsEnd(i)
      PROVE  i = e
  <2>1. ~ i < e
    BY <1>6, <1>8
  <2>2. ~ e < i
    BY <1>4, <1>5, <1>8
  <2> QED
    BY <1>1, <1>4, <2>1, <2>2
<1>9. end = e
  <2> HIDE DEF IsEnd
  <2> QED
    BY <1>4, <1>7, <1>8
<1>10. CString(buffer) = [k \in 1 .. e |-> buffer[k - 1]]
  <2>1. CString(buffer) = [k \in 1 .. end |-> buffer[k - 1]]
    BY Zenon DEF CString
  <2> HIDE DEF end
  <2> QED
    BY <1>9, <2>1
<1>11. PICK text : text = [k \in 1 .. e |-> buffer[k - 1]]
  OBVIOUS
<1>12. PICK S : S = {buffer[k - 1] : k \in 1 .. e}
  OBVIOUS
<1>13. \A k \in 1 .. e : buffer[k - 1] \in S
  BY <1>12
<1>14. text \in Seq(S) /\ Len(text) = e
  BY <1>4, <1>11, <1>13
<1> QED
  BY <1>2, <1>3, <1>4, <1>10, <1>11, <1>14 DEF IsText

(* The reading of a string of digits, and what the loop left is what it    *)
(* has read.                                                               *)
ReadOf(g, digits) ==
  g = [i \in 0 .. Len(digits) |->
         IF i = 0 THEN 0
         ELSE 16 * g[i - 1] + (CHOOSE v \in 0 .. 15 : HexChars[v + 1] = digits[i])]

LEMMA ReadsBack ==
  ASSUME NEW value \in Numbers, NEW digits,
         digits = [i \in 1 .. Turns(value) |-> Digit(value, i)]
  PROVE  /\ \E g : ReadOf(g, digits)
         /\ \A g : ReadOf(g, digits) => g[Len(digits)] = value
<1>1. /\ value \in Nat /\ Turns(value) \in 1 .. HexDigits /\ HexDigits \in Nat
      /\ LeftOf(value)[Turns(value)] = 0
  BY TurnsIs, PanicAssumption
<1>2. PICK n \in Nat \ {0} : n = Turns(value) /\ n <= HexDigits
  BY <1>1
<1>3. PICK left : left = LeftOf(value)
  OBVIOUS
<1>4. Len(digits) = n /\ \A i \in 1 .. n : digits[i] = Digit(value, i)
  BY <1>2
<1> DEFINE Value(i) == CHOOSE v \in 0 .. 15 : HexChars[v + 1] = digits[i]
<1>5. ASSUME NEW i \in 1 .. n
      PROVE  Value(i) = left[n - i] % 16
  <2>1. PICK d \in 0 .. 15 : d = left[n - i] % 16
    BY <1>2, <1>3, DigitIs
  <2>2. digits[i] = HexChars[d + 1]
    BY <1>2, <1>3, <1>4, <2>1 DEF Digit
  <2>3. \A v \in 0 .. 15 : HexChars[v + 1] = digits[i] => v = d
    BY <2>2, HexCharsAre
  <2> QED
    BY <2>1, <2>2, <2>3
<1> HIDE DEF Value
<1>6. /\ left[0] = value /\ left[n] = 0
      /\ \A k \in 0 .. HexDigits : left[k] \in Nat
      /\ \A k \in 1 .. HexDigits : left[k] = left[k - 1] \div 16
  BY <1>1, <1>2, <1>3, LeftIs
<1>7. ASSUME NEW i \in 1 .. n
      PROVE  left[n - i] = 16 * left[n - (i - 1)] + Value(i)
  <2>1. n - i \in 0 .. HexDigits /\ n - (i - 1) \in 1 .. HexDigits
        /\ (n - (i - 1)) - 1 = n - i
    BY <1>1, <1>2
  <2>2. PICK a \in Nat : a = left[n - i]
    BY <1>6, <2>1
  <2>3. left[n - (i - 1)] = a \div 16
    <3>1. PICK k \in 1 .. HexDigits : k = n - (i - 1) /\ k - 1 = n - i
      BY <2>1
    <3>2. left[k] = left[k - 1] \div 16
      BY <1>6, <3>1
    <3> QED
      BY <2>2, <3>1, <3>2
  <2>4. Value(i) = a % 16
    BY <1>5, <2>2
  <2>5. a = 16 * (a \div 16) + (a % 16)
    BY <2>2
  <2> QED
    BY <2>2, <2>3, <2>4, <2>5
<1> DEFINE Step(g, i) == IF i = 0 THEN 0 ELSE 16 * g[i - 1] + Value(i)
           f == [i \in 0 .. n |-> left[n - i]]
<1>8. \A g : ReadOf(g, digits) <=> g = [i \in 0 .. n |-> Step(g, i)]
  BY <1>4 DEF ReadOf, Value
<1>9. f = [i \in 0 .. n |-> Step(f, i)]
  <2>1. ASSUME NEW i \in 0 .. n
        PROVE  f[i] = Step(f, i)
    <3>1. CASE i = 0
      BY <1>6, <3>1
    <3>2. CASE i # 0
      <4>1. i \in 1 .. n /\ i - 1 \in 0 .. n
        BY <3>2
      <4>2. f[i] = left[n - i] /\ f[i - 1] = left[n - (i - 1)]
        BY <4>1
      <4> HIDE DEF f
      <4>3. f[i] = 16 * f[i - 1] + Value(i)
        BY <1>7, <4>1, <4>2
      <4> QED
        BY <3>2, <4>3
    <3> QED
      BY <3>1, <3>2
  <2>2. f = [i \in 0 .. n |-> f[i]]
    OBVIOUS
  <2> HIDE DEF f, Step
  <2> QED
    BY <2>1, <2>2, Zenon
<1>10. ASSUME NEW g, ReadOf(g, digits)
       PROVE  g[n] = value
  <2>1. \A i \in 0 .. n : g[i] = Step(g, i)
    BY <1>8, <1>10
  <2> DEFINE T == {i \in 0 .. n : g[i] # left[n - i]}
  <2>2. T = {}
    <3> SUFFICES ASSUME T # {}
                 PROVE  FALSE
      OBVIOUS
    <3>1. T \in SUBSET Nat
      OBVIOUS
    <3>2. PICK i \in T : \A k \in T : i <= k
      <4> HIDE DEF T
      <4> QED
        BY <3>1, Least
    <3>3. i \in 0 .. n /\ g[i] # left[n - i]
      OBVIOUS
    <3>4. CASE i = 0
      <4>1. g[0] = 0
        BY <2>1
      <4>2. n - 0 = n
        BY <1>2
      <4> QED
        BY <1>6, <3>3, <3>4, <4>1, <4>2
    <3>5. CASE i # 0
      <4>1. i \in 1 .. n /\ i - 1 \in 0 .. n /\ ~ i <= i - 1
        BY <3>3, <3>5
      <4>2. i - 1 \notin T
        <5> HIDE DEF T
        <5> QED
          BY <3>2, <4>1
      <4>3. g[i - 1] = left[n - (i - 1)]
        BY <4>1, <4>2
      <4>4. g[i] = 16 * g[i - 1] + Value(i)
        BY <2>1, <3>3, <3>5
      <4> QED
        BY <1>7, <3>3, <4>1, <4>3, <4>4
    <3> QED
      BY <3>4, <3>5
  <2>3. g[n] = left[n - n] /\ n - n = 0
    BY <1>2, <2>2
  <2> QED
    BY <1>6, <2>3
<1>11. ReadOf(f, digits)
  BY <1>8, <1>9
<1> QED
  BY <1>4, <1>10, <1>11

LEMMA PageIs ==
  /\ Len(Page) = 27
  /\ \A k \in 1 .. 27 : Page[k] = Gap \/ Page[k] \in 0 .. 83
<1>1. Header \in Seq(-1 .. 83) /\ Len(Header) = 24
  <2>1. Header = <<31, 83, -1, 17, 24, 64, -1, 22, 4, 51, 28, 33, 44, 41, -1,
                   19, 4, 25, 46, 65, 67, 45, -1, 15>>
    BY Zenon DEF Header, Gap
  <2> QED
    BY <2>1
<1>2. PICK n \in 10 .. 24 : n = Len(PanicTypeToString(type))
  <2>1. /\ Len(Glyphs(10)) = 10 /\ Len(Glyphs(24)) = 24
        /\ Len(Glyphs(12)) = 12 /\ Len(Glyphs(18)) = 18
    BY GlyphsIs
  <2>2. \/ PanicTypeToString(type) = Glyphs(10)
        \/ PanicTypeToString(type) = Glyphs(24)
        \/ PanicTypeToString(type) = Glyphs(12)
        \/ PanicTypeToString(type) = Glyphs(18)
    BY DEF PanicTypeToString
  <2> QED
    BY <2>1, <2>2
<1>3. PICK tail : tail = <<TypeLabel + n, Gap, Title>>
  OBVIOUS
<1>4. tail \in Seq(-1 .. 83) /\ Len(tail) = 3
  <2>1. TypeLabel + n \in -1 .. 83 /\ Gap \in -1 .. 83 /\ Title \in -1 .. 83
    BY DEF TypeLabel, Title, Gap
  <2> QED
    BY <1>3, <2>1
<1>5. Page = Header \o tail
  BY <1>2, <1>3 DEF Page
<1>6. PICK S : S = -1 .. 83
  OBVIOUS
<1>7. PICK head : head = Header
  OBVIOUS
<1>8. head \in Seq(S) /\ tail \in Seq(S) /\ Len(head) = 24 /\ Len(tail) = 3
  BY <1>1, <1>4, <1>6, <1>7
<1>9. head \o tail \in Seq(S) /\ Len(head \o tail) = 27
  <2>1. head \in Seq(S)
    BY <1>8
  <2>2. tail \in Seq(S)
    BY <1>8
  <2>3. head \o tail \in Seq(S) /\ Len(head \o tail) = Len(head) + Len(tail)
    BY <2>1, <2>2
  <2> QED
    BY <1>8, <2>3
<1>10. \A k \in 1 .. 27 : (head \o tail)[k] \in S
  BY <1>9
<1>11. Page = head \o tail
  BY <1>5, <1>7
<1>12. \A j \in S : j = Gap \/ j \in 0 .. 83
  BY <1>6 DEF Gap
<1> QED
  BY <1>9, <1>10, <1>11, <1>12

LEMMA LineEndIs ==
  ASSUME IsText(rest)
  PROVE  /\ LineEnd \in 1 .. Len(rest) + 1
         /\ \A k \in DOMAIN rest : k < LineEnd => rest[k] # "\n"
<1>1. Len(rest) \in Nat /\ DOMAIN rest = 1 .. Len(rest)
  BY DEF IsText
<1> DEFINE T == {k \in DOMAIN rest : rest[k] = "\n"} \cup {Len(rest) + 1}
<1>2. T \in SUBSET Nat /\ T # {} /\ T \subseteq 1 .. Len(rest) + 1
  BY <1>1
<1>3. LineEnd = Min(T)
  BY DEF LineEnd
<1>4. \A k \in DOMAIN rest : rest[k] = "\n" => k \in T
  OBVIOUS
<1> HIDE DEF T
<1>5. Min(T) \in T /\ \A k \in T : Min(T) <= k
  BY <1>2, MinIs
<1>6. PICK e : e = Min(T)
  OBVIOUS
<1>7. e \in 1 .. Len(rest) + 1 /\ \A k \in T : e <= k
  BY <1>2, <1>5, <1>6
<1>8. ASSUME NEW k \in DOMAIN rest, k < e
      PROVE  rest[k] # "\n"
  <2>1. k \notin T
    BY <1>1, <1>7, <1>8
  <2> QED
    BY <1>4, <2>1
<1> QED
  BY <1>3, <1>6, <1>7, <1>8

(* How far down a page with a message of n characters goes.                *)
Room(n) ==
  \A k \in Nat, z \in Nat, w \in Nat :
    /\ z <= 20 + k * (charsize + 2)
    /\ k + w <= LineSize + n + 120
    => z + charsize * w < Deepest(n)

LEMMA DeepestIs ==
  ASSUME NEW n \in Nat, NEW m \in Nat, m <= n
  PROVE  /\ Deepest(n) \in Nat /\ Deepest(m) <= Deepest(n)
         /\ Room(n)
<1>1. charsize \in Nat \ {0} /\ LineSize \in Nat
  BY PanicAssumption
<1>2. PICK c \in Nat : c = charsize + 2
  BY <1>1
<1>3. PICK a \in Nat : a = LineSize + n + 150
  BY <1>1
<1>4. PICK b \in Nat : b = LineSize + m + 150
  BY <1>1
<1>5. Deepest(n) = c * a /\ Deepest(m) = c * b /\ b <= a
  BY <1>1, <1>2, <1>3, <1>4 DEF Deepest
<1>6. c * a \in Nat /\ c * b \in Nat /\ c * b <= c * a
  BY <1>5
<1>7. ASSUME NEW k \in Nat, NEW z \in Nat, NEW w \in Nat,
             z <= 20 + k * (charsize + 2), k + w <= LineSize + n + 120
      PROVE  z + charsize * w < Deepest(n)
  <2>1. PICK d \in Nat : a = k + w + 30 + d
    <3>1. a - (k + w + 30) \in Nat
      BY <1>1, <1>3, <1>7
    <3> QED
      BY <3>1
  <2>2. c * a = c * k + c * w + c * 30 + c * d
    BY <2>1
  <2>3. /\ c * k \in Nat /\ c * w \in Nat /\ c * d \in Nat
        /\ charsize * w \in Nat /\ charsize * w <= c * w
        /\ k * (charsize + 2) = c * k /\ c >= 3
    BY <1>1, <1>2
  <2>4. z + charsize * w < c * a
    <3>1. PICK ck \in Nat : ck = c * k
      BY <2>3
    <3>2. PICK cw \in Nat : cw = c * w
      BY <2>3
    <3>3. PICK cd \in Nat : cd = c * d
      BY <2>3
    <3>4. PICK sw \in Nat : sw = charsize * w
      BY <2>3
    <3>5. c * a = ck + cw + c * 30 + cd
      BY <2>2, <3>1, <3>2, <3>3
    <3>6. z <= 20 + ck
      BY <1>7, <2>3, <3>1
    <3>7. sw <= cw
      BY <2>3, <3>2, <3>4
    <3>8. z + sw < ck + cw + c * 30 + cd
      BY <2>3, <3>6, <3>7
    <3> QED
      BY <3>4, <3>5, <3>8
  <2> QED
    BY <1>5, <2>4
<1> QED
  BY <1>5, <1>6, <1>7 DEF Room

-----------------------------------------------------------------------------
(* The pages of a panic *)

LineHolds(line) ==
  /\ line.x \in Nat /\ line.x <= Half /\ line.y \in Nat
  /\ Held(line.text)
  /\ \A i \in DOMAIN line.text : line.text[i] # "\n"
  /\ line.y + charsize * Len(line.text) < Word
  /\ 8 * Len(line.text) <= Stride => line.x + 8 * Len(line.text) <= Stride

(* The lines so far, each far enough below the one before.                 *)
LinesHold ==
  /\ IsText(lines) /\ y \in Nat
  /\ \A n \in DOMAIN lines :
       LineHolds(lines[n]) /\ lines[n].y + charsize + 2 <= y
  /\ \A n \in DOMAIN lines : \A m \in 1 .. n - 1 :
       lines[m].y + charsize + 2 <= lines[n].y

MessageHolds ==
  /\ IsText(message) /\ IsText(rest)
  /\ Deepest(Len(message)) < Word
  /\ Len(rest) <= Len(message)

(* How far down the page has come.                                         *)
PageHolds ==
  /\ stage \in {"running", "header", "message", "halted"}
  /\ stage = "running" => at = 0 /\ lines = <<>>
  /\ stage = "header" => at \in 0 .. 26 /\ y <= 20 + at * (charsize + 2)
  /\ stage = "message" =>
       y <= 20 + (27 + Len(message) - Len(rest)) * (charsize + 2)

PanicInv ==
  /\ framebuffer \in Screens /\ HexBuffer(hexBuffer)
  /\ LinesHold /\ MessageHolds /\ PageHolds

LEMMA EmptyIs == IsText(<<>>) /\ Len(<<>>) = 0 /\ DOMAIN <<>> = {}
<1>1. <<>> \in Seq({})
  OBVIOUS
<1> QED
  BY <1>1 DEF IsText

LEMMA InitHolds == Init => PanicInv
<1> SUFFICES ASSUME Init
             PROVE  PanicInv
  OBVIOUS
<1>1. framebuffer \in Screens /\ HexBuffer(hexBuffer)
  BY DEF Init, HexBuffer
<1>2. LinesHold
  BY EmptyIs DEF Init, LinesHold
<1>3. MessageHolds
  <2>1. HexDigits \in Nat /\ Word \in Nat /\ Deepest(HexDigits + 96) < Word
    BY PanicAssumption, MessagesAssumption
  <2>2. PICK n \in Nat : n = HexDigits + 96
    BY <2>1
  <2>3. /\ Deepest(n) \in Nat /\ Deepest(0) <= Deepest(n)
    BY DeepestIs
  <2>4. Deepest(0) < Word
    <3>1. Deepest(0) \in Nat
      BY DeepestIs
    <3> QED
      BY <2>1, <2>2, <2>3, <3>1
  <2> QED
    BY <2>4, EmptyIs DEF Init, MessageHolds
<1>4. PageHolds
  BY DEF Init, PageHolds
<1> QED
  BY <1>1, <1>2, <1>3, <1>4 DEF PanicInv

LEMMA PrintlnHolds ==
  ASSUME framebuffer \in Screens, framebuffer' = framebuffer, LinesHold,
         NEW text, Held(text), \A i \in DOMAIN text : text[i] # "\n",
         y + charsize * Len(text) < Word, printlnCentered(text)
  PROVE  LinesHold'
<1>1. charsize \in Nat \ {0}
  BY PanicAssumption
<1>2. PICK line : line = [x |-> centerX(text), y |-> y, text |-> text]
  OBVIOUS
<1>3. lines' = Append(lines, line) /\ y' = y + charsize + 2
  BY <1>2 DEF printlnCentered
<1>4. /\ IsText(lines) /\ y \in Nat
      /\ \A n \in DOMAIN lines :
           LineHolds(lines[n]) /\ lines[n].y + charsize + 2 <= y
      /\ \A n \in DOMAIN lines : \A m \in 1 .. n - 1 :
           lines[m].y + charsize + 2 <= lines[n].y
  BY DEF LinesHold
<1>5. LineHolds(line)
  <2>1. IsText(text)
    BY DEF Held
  <2>2. /\ centerX(text) \in Nat /\ centerX(text) <= Half
        /\ 8 * Len(text) <= Stride => centerX(text) + 8 * Len(text) <= Stride
    BY <2>1, CenterIs
  <2>3. line.x = centerX(text) /\ line.y = y /\ line.text = text
    BY <1>2
  <2> QED
    BY <1>4, <2>2, <2>3 DEF LineHolds
<1>6. \A l : LineHolds(l) => LineHolds(l)'
  BY DEF LineHolds, Stride
<1>7. PICK all : all = lines'
  OBVIOUS
<1>8. PICK L \in Nat : L = Len(lines)
  BY <1>4, AddIs
<1>9. /\ IsText(all) /\ DOMAIN all = 1 .. L + 1 /\ DOMAIN lines = 1 .. L
      /\ \A n \in 1 .. L : all[n] = lines[n]
      /\ all[L + 1] = line
  BY <1>3, <1>4, <1>7, <1>8, AddIs
<1>10. line.y = y
  BY <1>2
<1>11. ASSUME NEW n \in 1 .. L + 1
       PROVE  LineHolds(all[n]) /\ all[n].y + charsize + 2 <= y + charsize + 2
  <2>1. CASE n = L + 1
    BY <1>1, <1>4, <1>5, <1>9, <1>10, <2>1
  <2>2. CASE n # L + 1
    <3>1. n \in 1 .. L
      BY <2>2
    <3>2. PICK l : l = lines[n]
      OBVIOUS
    <3>3. LineHolds(l) /\ l.y + charsize + 2 <= y /\ all[n] = l
      BY <1>4, <1>9, <3>1, <3>2
    <3>4. l.y \in Nat
      BY <3>3 DEF LineHolds
    <3> QED
      BY <1>1, <1>4, <3>3, <3>4
  <2> QED
    BY <2>1, <2>2
<1>12. ASSUME NEW n \in 1 .. L + 1, NEW m \in 1 .. n - 1
       PROVE  all[m].y + charsize + 2 <= all[n].y
  <2>1. m \in 1 .. L /\ all[m] = lines[m]
    BY <1>9
  <2>2. CASE n = L + 1
    BY <1>4, <1>9, <1>10, <2>1, <2>2
  <2>3. CASE n # L + 1
    <3>1. n \in 1 .. L /\ all[n] = lines[n]
      BY <1>9, <2>3
    <3> QED
      BY <1>4, <1>9, <2>1, <3>1
  <2> QED
    BY <2>2, <2>3
<1>13. y' \in Nat /\ y' = y + charsize + 2
  BY <1>1, <1>3, <1>4
<1>14. /\ IsText(lines')
       /\ \A n \in DOMAIN lines' :
            LineHolds(lines[n])' /\ lines'[n].y + charsize + 2 <= y'
       /\ \A n \in DOMAIN lines' : \A m \in 1 .. n - 1 :
            lines'[m].y + charsize + 2 <= lines'[n].y
  <2>1. \A n \in DOMAIN lines' : LineHolds(lines[n])'
    <3> SUFFICES ASSUME NEW n \in DOMAIN lines'
                 PROVE  LineHolds(lines[n])'
      OBVIOUS
    <3>1. PICK l : l = lines'[n]
      OBVIOUS
    <3>2. LineHolds(l)
      BY <1>7, <1>9, <1>11, <3>1
    <3>3. LineHolds(l)'
      BY <1>6, <3>2
    <3> QED
      BY <3>1, <3>3 DEF LineHolds
  <2>2. \A n \in DOMAIN lines' : lines'[n].y + charsize + 2 <= y'
    BY <1>3, <1>7, <1>9, <1>11
  <2> QED
    BY <1>7, <1>9, <1>12, <2>1, <2>2
<1> QED
  BY <1>13, <1>14 DEF LinesHold

(* A text of n glyphs printed when the page has come down to y fits in the *)
(* numbers of an unsigned int.                                             *)
LEMMA RoomBelow ==
  ASSUME MessageHolds, NEW k \in Nat, y \in Nat,
         y <= 20 + k * (charsize + 2), k <= 27 + Len(message),
         NEW n \in Nat, n <= LineSize + 90
  PROVE  y + charsize * n < Word
<1>1. /\ Word \in Nat /\ charsize \in Nat \ {0} /\ LineSize \in Nat
  BY PanicAssumption
<1>2. PICK L \in Nat : L = Len(message) /\ Deepest(L) < Word
  BY DEF MessageHolds, IsText
<1>3. k + n <= LineSize + L + 120
  BY <1>1, <1>2
<1>4. y + charsize * n < Deepest(L) /\ Deepest(L) \in Nat
  <2>1. L <= L
    OBVIOUS
  <2>2. Deepest(L) \in Nat /\ Room(L)
    BY <2>1, DeepestIs, Zenon
  <2> QED
    BY <1>3, <2>2 DEF Room
<1>5. charsize * n \in Nat
  BY <1>1
<1> QED
  BY <1>1, <1>2, <1>4, <1>5

LEMMA TriggerHolds ==
  ASSUME PanicInv, NEW panicType, NEW info, Trigger(panicType, info),
         IsText(info), Deepest(Len(info)) < Word, HexBuffer(hexBuffer')
  PROVE  PanicInv'
<1>1. /\ stage = "running" /\ stage' = "header" /\ message' = info /\ rest' = info
      /\ y' = 20 /\ framebuffer' = framebuffer /\ lines' = lines /\ at' = at
  BY DEF Trigger
<1>2. at = 0 /\ lines = <<>> /\ framebuffer \in Screens
  BY <1>1 DEF PanicInv, PageHolds
<1>3. LinesHold'
  <2>1. lines' = <<>>
    BY <1>1, <1>2
  <2> QED
    BY <1>1, <2>1, EmptyIs DEF LinesHold
<1>4. MessageHolds'
  <2>1. Len(info) <= Len(info)
    BY DEF IsText
  <2> QED
    BY <1>1, <2>1 DEF MessageHolds
<1>5. PageHolds'
  <2>1. at' \in 0 .. 26 /\ y' <= 20 + at' * (charsize + 2)
    <3>1. charsize \in Nat
      BY PanicAssumption
    <3> QED
      BY <1>1, <1>2, <3>1
  <2> QED
    BY <1>1, <2>1 DEF PageHolds
<1> QED
  BY <1>1, <1>2, <1>3, <1>4, <1>5 DEF PanicInv

(* The messages of the fault handlers are not too long.                    *)
LEMMA FaultMessagesHold ==
  /\ IsText(GPFaultMessage) /\ Deepest(Len(GPFaultMessage)) < Word
  /\ IsText(DoubleFaultMessage) /\ Deepest(Len(DoubleFaultMessage)) < Word
  /\ \A buffer : IsText(CString(buffer)) /\ Len(CString(buffer)) <= HexDigits + 4
       => /\ IsText(PageFaultMessage(buffer))
          /\ Deepest(Len(PageFaultMessage(buffer))) < Word
<1>1. HexDigits \in Nat /\ Word \in Nat /\ Deepest(HexDigits + 96) < Word
  BY PanicAssumption, MessagesAssumption
<1>2. PICK n \in Nat : n = HexDigits + 96
  BY <1>1
<1>3. ASSUME NEW text, IsText(text), Len(text) <= HexDigits + 96
      PROVE  Deepest(Len(text)) < Word
  <2>1. PICK m \in Nat : m = Len(text)
    BY <1>3 DEF IsText
  <2>2. /\ Deepest(n) \in Nat /\ Deepest(m) <= Deepest(n)
    BY <1>2, <1>3, <2>1, DeepestIs
  <2>3. Deepest(m) \in Nat
    BY <2>1, DeepestIs
  <2> QED
    BY <1>1, <1>2, <2>1, <2>2, <2>3
<1>4. PICK end : end = <<"\n">>
  OBVIOUS
<1>5. IsText(end) /\ Len(end) = 1
  <2>1. end \in Seq({"\n"}) /\ Len(end) = 1
    BY <1>4
  <2> QED
    BY <2>1 DEF IsText
<1>6. ASSUME NEW m \in Nat, m <= 73
      PROVE  /\ IsText(Glyphs(m) \o end) /\ Len(Glyphs(m) \o end) = m + 1
             /\ Deepest(Len(Glyphs(m) \o end)) < Word
  <2>1. PICK glyphs : glyphs = Glyphs(m)
    OBVIOUS
  <2>2. IsText(glyphs) /\ Len(glyphs) = m
    BY <2>1, GlyphsIs
  <2>3. PICK text : text = glyphs \o end
    OBVIOUS
  <2>4. IsText(text) /\ Len(text) = Len(glyphs) + Len(end)
    BY <1>5, <2>2, <2>3, JoinIs, Zenon
  <2>5. Len(text) = m + 1 /\ Len(text) <= HexDigits + 96
    BY <1>1, <1>5, <1>6, <2>2, <2>4
  <2>6. Deepest(Len(text)) < Word
    BY <1>3, <2>4, <2>5
  <2> QED
    BY <2>1, <2>3, <2>4, <2>5, <2>6
<1>7. IsText(GPFaultMessage) /\ Deepest(Len(GPFaultMessage)) < Word
  <2>1. 58 \in Nat /\ 58 <= 73
    OBVIOUS
  <2>2. IsText(Glyphs(58) \o end) /\ Deepest(Len(Glyphs(58) \o end)) < Word
    BY <1>6, <2>1
  <2> QED
    BY <1>4, <2>2 DEF GPFaultMessage
<1>8. IsText(DoubleFaultMessage) /\ Deepest(Len(DoubleFaultMessage)) < Word
  <2>1. 68 \in Nat /\ 67 <= 73
    OBVIOUS
  <2>2. IsText(Glyphs(68) \o end) /\ Deepest(Len(Glyphs(68) \o end)) < Word
    BY <1>6, <2>1
  <2> QED
    BY <1>4, <2>2 DEF DoubleFaultMessage
<1>9. ASSUME NEW buffer, IsText(CString(buffer)),
             Len(CString(buffer)) <= HexDigits + 4
      PROVE  /\ IsText(PageFaultMessage(buffer))
             /\ Deepest(Len(PageFaultMessage(buffer))) < Word
  <2>1. PICK digits : digits = CString(buffer)
    OBVIOUS
  <2>2. IsText(digits) /\ Len(digits) <= HexDigits + 4 /\ Len(digits) \in Nat
    BY <1>9, <2>1 DEF IsText
  <2>3. PICK a : a = Glyphs(73) \o end
    OBVIOUS
  <2>4. IsText(a) /\ Len(a) = 74
    <3>1. 73 \in Nat /\ 73 <= 73 /\ 73 + 1 = 74
      OBVIOUS
    <3>2. IsText(Glyphs(73) \o end) /\ Len(Glyphs(73) \o end) = 73 + 1
      BY <1>6, <3>1
    <3> QED
      BY <2>3, <3>1, <3>2
  <2>5. PICK glyphs : glyphs = Glyphs(18)
    OBVIOUS
  <2>6. IsText(glyphs) /\ Len(glyphs) = 18
    BY <2>5, GlyphsIs
  <2>7. PICK b : b = a \o glyphs
    OBVIOUS
  <2>8. IsText(b) /\ Len(b) = Len(a) + Len(glyphs)
    <3>1. IsText(a)
      BY <2>4
    <3>2. IsText(glyphs)
      BY <2>6
    <3> QED
      BY <2>7, <3>1, <3>2, JoinIs, Zenon
  <2>9. PICK c : c = b \o digits
    OBVIOUS
  <2>10. IsText(c) /\ Len(c) = Len(b) + Len(digits)
    BY <2>2, <2>8, <2>9, JoinIs, Zenon
  <2>11. Len(c) <= HexDigits + 96
    BY <1>1, <2>2, <2>4, <2>6, <2>8, <2>10
  <2>12. PageFaultMessage(buffer) = c
    BY <1>4, <2>1, <2>3, <2>5, <2>7, <2>9 DEF PageFaultMessage
  <2> QED
    BY <1>3, <2>10, <2>11, <2>12
<1> QED
  BY <1>7, <1>8, <1>9

LEMMA HeldShort ==
  ASSUME NEW text, IsText(text), Len(text) < LineSize
  PROVE  Held(text)
<1>1. Len(text) \in Nat /\ DOMAIN text = 1 .. Len(text)
  BY DEF IsText
<1>2. LineSize \in Nat
  BY PanicAssumption
<1>3. \A i \in BlanksOf(text) : i < LineSize
  BY <1>1, <1>2 DEF BlanksOf
<1> QED
  BY <1>3 DEF Held

LEMMA PrintHeaderHolds ==
  ASSUME PanicInv, PrintHeader
  PROVE  PanicInv'
<1>1. /\ stage = "header" /\ at' = at + 1
      /\ stage' = IF at + 1 = Len(Page) THEN "message" ELSE "header"
      /\ framebuffer' = framebuffer /\ hexBuffer' = hexBuffer
      /\ message' = message /\ rest' = rest
  BY DEF PrintHeader
<1>2. /\ at \in 0 .. 26 /\ y <= 20 + at * (charsize + 2) /\ y \in Nat
      /\ framebuffer \in Screens /\ LinesHold /\ MessageHolds
  BY <1>1 DEF PanicInv, PageHolds, LinesHold
<1>3. charsize \in Nat \ {0} /\ LineSize \in Nat
  BY PanicAssumption
<1>4. PICK entry : entry = Page[at + 1]
  OBVIOUS
<1>5. Len(Page) = 27 /\ (entry = Gap \/ entry \in 0 .. 83)
  <2>1. at + 1 \in 1 .. 27
    BY <1>2
  <2> QED
    BY <1>4, <2>1, PageIs
<1>6. /\ LinesHold' /\ y' \in Nat /\ y' <= y + charsize + 2
  <2>1. CASE entry = Gap
    <3>1. y' = y + charsize /\ lines' = lines
      BY <1>4, <2>1 DEF PrintHeader
    <3>2. \A l : LineHolds(l) => LineHolds(l)'
      BY <1>1 DEF LineHolds, Stride
    <3>3. /\ IsText(lines)
          /\ \A n \in DOMAIN lines :
               LineHolds(lines[n]) /\ lines[n].y + charsize + 2 <= y
          /\ \A n \in DOMAIN lines : \A m \in 1 .. n - 1 :
               lines[m].y + charsize + 2 <= lines[n].y
      BY <1>2 DEF LinesHold
    <3>4. \A n \in DOMAIN lines : LineHolds(lines[n])'
      <4> SUFFICES ASSUME NEW n \in DOMAIN lines
                   PROVE  LineHolds(lines[n])'
        OBVIOUS
      <4>1. PICK l : l = lines[n]
        OBVIOUS
      <4>2. LineHolds(l)'
        BY <3>2, <3>3, <4>1
      <4> QED
        BY <3>1, <4>1, <4>2 DEF LineHolds
    <3>5. \A n \in DOMAIN lines : lines[n].y + charsize + 2 <= y + charsize
      <4> SUFFICES ASSUME NEW n \in DOMAIN lines
                   PROVE  lines[n].y + charsize + 2 <= y + charsize
        OBVIOUS
      <4>1. lines[n].y \in Nat /\ lines[n].y + charsize + 2 <= y
        BY <3>3 DEF LineHolds
      <4> QED
        BY <1>2, <1>3, <4>1
    <3>6. y' \in Nat /\ y' <= y + charsize + 2
      BY <1>2, <1>3, <3>1
    <3> QED
      BY <3>1, <3>3, <3>4, <3>5, <3>6 DEF LinesHold
  <2>2. CASE entry # Gap
    <3>1. PICK n \in Nat : n = entry /\ n <= 83
      BY <1>5, <2>2
    <3>2. printlnCentered(Glyphs(n))
      BY <1>4, <2>2, <3>1 DEF PrintHeader
    <3>3. /\ IsText(Glyphs(n)) /\ Len(Glyphs(n)) = n
          /\ BlanksOf(Glyphs(n)) = {}
          /\ \A i \in DOMAIN Glyphs(n) : Glyphs(n)[i] # "\n"
      BY GlyphsIs
    <3>4. Held(Glyphs(n))
      BY <3>3 DEF Held
    <3>5. y + charsize * n < Word
      <4>1. Len(message) \in Nat
        BY <1>2 DEF MessageHolds, IsText
      <4>2. at \in Nat /\ at <= 27 + Len(message) /\ n <= LineSize + 90
        BY <1>2, <1>3, <3>1, <4>1
      <4> QED
        BY <1>2, <4>2, RoomBelow
    <3>6. LinesHold'
      BY <1>1, <1>2, <3>2, <3>3, <3>4, <3>5, PrintlnHolds
    <3>7. y' = y + charsize + 2
      BY <3>2 DEF printlnCentered
    <3> QED
      BY <1>2, <1>3, <3>6, <3>7
  <2> QED
    BY <2>1, <2>2
<1>7. y' <= 20 + (at + 1) * (charsize + 2)
  <2>1. PICK c \in Nat : c = charsize + 2
    BY <1>3
  <2>2. PICK k \in Nat : k = at
    BY <1>2
  <2>3. (k + 1) * c = k * c + c /\ k * c \in Nat
    BY <2>1, <2>2
  <2>4. y <= 20 + k * c /\ y' <= y + c
    BY <1>2, <1>3, <1>6, <2>1, <2>2
  <2>5. PICK kc \in Nat : kc = k * c
    BY <2>3
  <2>6. y' <= 20 + kc + c
    BY <1>2, <1>6, <2>1, <2>4, <2>5
  <2> QED
    BY <2>1, <2>2, <2>3, <2>5, <2>6
<1>8. PageHolds'
  <2>1. CASE at + 1 = 27
    <3>1. stage' = "message"
      BY <1>1, <1>5, <2>1
    <3>2. PICK L \in Nat : L = Len(message) /\ Len(rest) <= L /\ Len(rest) \in Nat
      BY <1>2 DEF MessageHolds, IsText
    <3>3. PICK c \in Nat : c = charsize + 2
      BY <1>3
    <3>4. PICK d \in Nat : d = L - Len(rest)
      BY <3>2
    <3>5. (27 + d) * c = 27 * c + d * c /\ d * c \in Nat
      BY <3>3, <3>4
    <3>6. 27 + L - Len(rest) = 27 + d
      BY <3>2, <3>4
    <3>7. y' <= 20 + 27 * c
      BY <1>7, <2>1, <3>3
    <3>8. y' <= 20 + (27 + d) * c
      BY <1>6, <3>3, <3>5, <3>7
    <3>9. y' <= 20 + (27 + Len(message)' - Len(rest)') * (charsize + 2)
      BY <1>1, <3>2, <3>3, <3>6, <3>8
    <3> QED
      BY <3>1, <3>9 DEF PageHolds
  <2>2. CASE at + 1 # 27
    <3>1. stage' = "header" /\ at' \in 0 .. 26
      BY <1>1, <1>2, <1>5, <2>2
    <3> QED
      BY <1>1, <1>7, <3>1 DEF PageHolds
  <2> QED
    BY <2>1, <2>2
<1>9. MessageHolds'
  BY <1>1, <1>2 DEF MessageHolds
<1>10. HexBuffer(hexBuffer')
  BY <1>1 DEF PanicInv
<1> QED
  BY <1>1, <1>2, <1>6, <1>8, <1>9, <1>10 DEF PanicInv

LEMMA PrefixIs ==
  ASSUME NEW chars, NEW s \in Seq(chars), NEW w \in Nat, w <= Len(s),
         NEW text, text = SubSeq(s, 1, w)
  PROVE  /\ text \in Seq(chars) /\ Len(text) = w /\ DOMAIN text = 1 .. w
         /\ \A i \in 1 .. w : text[i] = s[i]
  OBVIOUS

LEMMA PrintMessageLineHolds ==
  ASSUME PanicInv, PrintMessageLine
  PROVE  PanicInv'
<1>1. /\ stage = "message"
      /\ rest' = SubSeq(rest, LineEnd + 1, Len(rest))
      /\ stage' = IF LineEnd > Len(rest) THEN "halted" ELSE "message"
      /\ printlnCentered(SubSeq(rest, 1, Min({LineEnd, LineSize}) - 1))
      /\ framebuffer' = framebuffer /\ hexBuffer' = hexBuffer
      /\ message' = message
  BY DEF PrintMessageLine
<1>2. /\ framebuffer \in Screens /\ LinesHold /\ MessageHolds /\ y \in Nat
      /\ y <= 20 + (27 + Len(message) - Len(rest)) * (charsize + 2)
      /\ HexBuffer(hexBuffer)
  BY <1>1 DEF PanicInv, PageHolds, LinesHold
<1>3. charsize \in Nat \ {0} /\ LineSize \in Nat \ {0}
  BY PanicAssumption
<1>4. IsText(rest) /\ IsText(message) /\ Len(rest) <= Len(message)
  BY <1>2 DEF MessageHolds
<1>5. PICK n \in Nat : n = Len(rest)
  BY <1>4 DEF IsText
<1>6. PICK d \in Nat : Len(message) = n + d
  <2>1. PICK L \in Nat : L = Len(message)
    BY <1>4 DEF IsText
  <2>2. L - n \in Nat /\ L = n + (L - n)
    BY <1>4, <1>5, <2>1
  <2> QED
    BY <2>1, <2>2
<1>7. PICK end \in 1 .. n + 1 : end = LineEnd
  BY <1>4, <1>5, LineEndIs
<1>8. PICK w \in Nat :
        /\ w = Min({LineEnd, LineSize}) - 1
        /\ w < end /\ w < LineSize /\ w <= n
  <2>1. PICK a \in Nat \ {0} : a = end
    BY <1>5, <1>7
  <2>2. Min({a, LineSize}) = IF a <= LineSize THEN a ELSE LineSize
    BY <1>3, <2>1, MinOfTwo
  <2>3. PICK b : b = Min({a, LineSize})
    OBVIOUS
  <2>4. b \in Nat \ {0} /\ b <= a /\ b <= LineSize
    BY <1>3, <2>1, <2>2, <2>3
  <2>5. b = Min({LineEnd, LineSize})
    BY <1>7, <2>1, <2>3
  <2>6. PICK c \in Nat : c = b - 1
    BY <2>4
  <2>7. c < end /\ c < LineSize /\ c <= n
    BY <1>3, <1>5, <1>7, <2>1, <2>4, <2>6
  <2> QED
    BY <2>5, <2>6, <2>7
<1>9. PICK text : text = SubSeq(rest, 1, w)
  OBVIOUS
<1>10. /\ IsText(text) /\ Len(text) = w
       /\ \A i \in DOMAIN text : text[i] # "\n"
  <2>1. PICK chars : rest \in Seq(chars)
    BY <1>4 DEF IsText
  <2>2. /\ text \in Seq(chars) /\ Len(text) = w /\ DOMAIN text = 1 .. w
        /\ \A i \in 1 .. w : text[i] = rest[i]
    <3>1. w \in Nat /\ w <= Len(rest)
      BY <1>5, <1>8
    <3> QED
      BY <1>9, <2>1, <3>1, PrefixIs
  <2>3. DOMAIN rest = 1 .. n
    BY <1>5, <2>1
  <2>4. \A i \in 1 .. w : i \in DOMAIN rest /\ i < end
    BY <1>5, <1>7, <1>8, <2>3
  <2>5. \A i \in 1 .. w : rest[i] # "\n"
    <3>1. \A k \in DOMAIN rest : k < LineEnd => rest[k] # "\n"
      BY <1>4, LineEndIs
    <3> QED
      BY <1>7, <2>4, <3>1
  <2> QED
    BY <2>2, <2>5 DEF IsText
<1>11. Held(text)
  BY <1>8, <1>10, HeldShort
<1>12. y + charsize * Len(text) < Word
  <2>1. PICK k \in Nat : k = 27 + d
    OBVIOUS
  <2>2. y <= 20 + k * (charsize + 2)
    <3>1. 27 + Len(message) - Len(rest) = k
      BY <1>5, <1>6, <2>1
    <3> QED
      BY <1>2, <3>1
  <2>3. k <= 27 + Len(message)
    BY <1>5, <1>6, <2>1
  <2>4. w <= LineSize + 90
    BY <1>3, <1>8
  <2>5. y + charsize * w < Word
    BY <1>2, <2>2, <2>3, <2>4, RoomBelow
  <2> QED
    BY <1>10, <2>5
<1>13. printlnCentered(text)
  BY <1>1, <1>8, <1>9
<1>14. LinesHold'
  BY <1>1, <1>2, <1>10, <1>11, <1>12, <1>13, PrintlnHolds
<1>15. y' = y + charsize + 2
  BY <1>13 DEF printlnCentered
<1>16. PICK left : left = rest'
  OBVIOUS
<1>17. /\ IsText(left)
       /\ Len(left) = n - (end + 1) + 1 \/ Len(left) = 0
  <2>1. CASE end <= n
    <3>1. /\ end + 1 \in Int /\ n \in Int /\ 1 <= end + 1 /\ end + 1 <= n + 1
          /\ n <= Len(rest)
      BY <1>5, <1>7, <2>1
    <3>2. IsText(SubSeq(rest, end + 1, n))
          /\ Len(SubSeq(rest, end + 1, n)) = n - (end + 1) + 1
      BY <1>4, <3>1, SubText
    <3> QED
      <4>1. left = SubSeq(rest, end + 1, n)
        BY <1>1, <1>5, <1>7, <1>16
      <4> QED
        BY <3>2, <4>1, Zenon
  <2>2. CASE end = n + 1
    <3>1. PICK chars : rest \in Seq(chars)
      BY <1>4 DEF IsText
    <3>2. left = SubSeq(rest, end + 1, n)
      BY <1>1, <1>5, <1>7, <1>16
    <3>3. left \in Seq(chars) /\ Len(left) = 0
      BY <1>5, <1>7, <2>2, <3>1, <3>2
    <3> QED
      BY <3>3 DEF IsText
  <2> QED
    BY <1>5, <1>7, <2>1, <2>2
<1>18. Len(left) \in Nat /\ Len(left) <= n
  BY <1>5, <1>7, <1>17
<1>19. MessageHolds'
  <2>1. IsText(rest')
    BY <1>16, <1>17
  <2>2. Len(rest') <= Len(message')
    <3>1. Len(message') = n + d
      BY <1>1, <1>6
    <3>2. Len(rest') \in Nat /\ Len(rest') <= n
      BY <1>16, <1>18
    <3> QED
      BY <3>1, <3>2
  <2>3. IsText(message') /\ Deepest(Len(message')) < Word
    BY <1>1, <1>2 DEF MessageHolds
  <2> QED
    BY <2>1, <2>2, <2>3 DEF MessageHolds
<1>20. PageHolds'
  <2>1. CASE end > n
    <3>1. stage' = "halted"
      BY <1>1, <1>5, <1>7, <2>1
    <3> QED
      BY <3>1 DEF PageHolds
  <2>2. CASE ~ end > n
    <3>1. stage' = "message"
      BY <1>1, <1>5, <1>7, <2>2
    <3>2. Len(left) = n - end
      BY <1>1, <1>5, <1>7, <1>16, <1>17, <2>2
    <3>3. PICK c \in Nat : c = charsize + 2
      BY <1>3
    <3>4. PICK e \in Nat : e = end - 1
      BY <1>5, <1>7
    <3>5. 27 + Len(message) - Len(left) = 27 + d + e + 1
      BY <1>5, <1>6, <1>7, <3>2, <3>4
    <3>6. (27 + d + e + 1) * c = (27 + d) * c + e * c + c
          /\ e * c \in Nat /\ (27 + d) * c \in Nat
      BY <3>3, <3>4
    <3>7. 27 + Len(message) - Len(rest) = 27 + d
      BY <1>5, <1>6
    <3>8. y <= 20 + (27 + d) * c
      BY <1>2, <3>3, <3>7
    <3>9. y + c <= 20 + (27 + d + e + 1) * c
      <4>1. PICK a \in Nat : a = (27 + d) * c
        BY <3>6
      <4>2. PICK b \in Nat : b = e * c
        BY <3>6
      <4>3. PICK f : f = (27 + d + e + 1) * c
        OBVIOUS
      <4>4. f = a + b + c /\ y <= 20 + a
        BY <3>6, <3>8, <4>1, <4>2, <4>3
      <4>5. y \in Nat
        BY <1>2
      <4>6. y + c <= 20 + f
        BY <4>4, <4>5
      <4> QED
        BY <4>3, <4>6
    <3>10. y' <= 20 + (27 + Len(message') - Len(rest')) * (charsize + 2)
      <4>1. y' = y + c
        BY <1>2, <1>3, <1>15, <3>3
      <4>2. 27 + Len(message') - Len(rest') = 27 + d + e + 1
        BY <1>1, <1>16, <3>5
      <4> QED
        BY <3>3, <3>9, <4>1, <4>2
    <3> QED
      BY <3>1, <3>10 DEF PageHolds
  <2> QED
    BY <2>1, <2>2
<1> QED
  BY <1>1, <1>2, <1>14, <1>19, <1>20 DEF PanicInv

LEMMA PrintNoInfoHolds ==
  ASSUME PanicInv, PrintNoInfo
  PROVE  PanicInv'
<1>1. /\ stage = "message" /\ stage' = "halted"
      /\ printlnCentered(Glyphs(NoInfo))
      /\ framebuffer' = framebuffer /\ hexBuffer' = hexBuffer
      /\ message' = message /\ rest' = rest
  BY DEF PrintNoInfo
<1>2. /\ framebuffer \in Screens /\ LinesHold /\ MessageHolds /\ y \in Nat
      /\ y <= 20 + (27 + Len(message) - Len(rest)) * (charsize + 2)
      /\ HexBuffer(hexBuffer)
  BY <1>1 DEF PanicInv, PageHolds, LinesHold
<1>3. /\ Held(Glyphs(NoInfo)) /\ Len(Glyphs(NoInfo)) = 22
      /\ \A i \in DOMAIN Glyphs(NoInfo) : Glyphs(NoInfo)[i] # "\n"
  <2>1. NoInfo \in Nat /\ NoInfo = 22
    BY DEF NoInfo
  <2>2. /\ IsText(Glyphs(NoInfo)) /\ Len(Glyphs(NoInfo)) = NoInfo
        /\ BlanksOf(Glyphs(NoInfo)) = {}
        /\ \A i \in DOMAIN Glyphs(NoInfo) : Glyphs(NoInfo)[i] # "\n"
    BY <2>1, GlyphsIs
  <2> QED
    BY <2>1, <2>2 DEF Held
<1>4. y + charsize * 22 < Word
  <2>1. PICK L \in Nat : L = Len(message) /\ Len(rest) <= L /\ Len(rest) \in Nat
    BY <1>2 DEF MessageHolds, IsText
  <2>2. PICK k \in Nat : k = 27 + Len(message) - Len(rest)
    BY <2>1
  <2>3. y <= 20 + k * (charsize + 2) /\ k <= 27 + Len(message)
    BY <1>2, <2>1, <2>2
  <2>4. 22 \in Nat /\ 22 <= LineSize + 90
    BY PanicAssumption
  <2> QED
    BY <1>2, <2>3, <2>4, RoomBelow
<1>5. LinesHold'
  <2>1. y + charsize * Len(Glyphs(NoInfo)) < Word
    BY <1>3, <1>4
  <2> QED
    BY <1>1, <1>2, <1>3, <2>1, PrintlnHolds
<1>6. MessageHolds'
  BY <1>1, <1>2 DEF MessageHolds
<1>7. PageHolds'
  BY <1>1 DEF PageHolds
<1> QED
  BY <1>1, <1>2, <1>5, <1>6, <1>7 DEF PanicInv

LEMMA StutterHolds ==
  ASSUME PanicInv, UNCHANGED vars
  PROVE  PanicInv'
<1>1. /\ framebuffer' = framebuffer /\ hexBuffer' = hexBuffer
      /\ message' = message /\ rest' = rest /\ at' = at /\ y' = y
      /\ lines' = lines /\ stage' = stage
  BY DEF vars
<1>2. LinesHold'
  <2>1. LinesHold
    BY DEF PanicInv
  <2>2. \A l : LineHolds(l) => LineHolds(l)'
    BY <1>1 DEF LineHolds, Stride
  <2>3. \A n \in DOMAIN lines : LineHolds(lines[n])'
    <3> SUFFICES ASSUME NEW n \in DOMAIN lines
                 PROVE  LineHolds(lines[n])'
      OBVIOUS
    <3>1. PICK l : l = lines[n]
      OBVIOUS
    <3>2. LineHolds(l)'
      BY <2>1, <2>2, <3>1 DEF LinesHold
    <3> QED
      BY <1>1, <3>1, <3>2 DEF LineHolds
  <2> QED
    BY <1>1, <2>1, <2>3 DEF LinesHold
<1>3. MessageHolds'
  BY <1>1 DEF PanicInv, MessageHolds
<1>4. PageHolds'
  BY <1>1 DEF PanicInv, PageHolds
<1> QED
  BY <1>1, <1>2, <1>3, <1>4 DEF PanicInv

(* What is put into the buffer before a panic leaves its page alone.       *)
LEMMA NameByHexHolds ==
  ASSUME PanicInv, NEW value \in Numbers, NameByHex(value)
  PROVE  PanicInv'
<1>1. /\ framebuffer' = framebuffer /\ hexBuffer' = toHexString(hexBuffer, value)
      /\ message' = message /\ rest' = rest /\ at' = at /\ y' = y
      /\ lines' = lines /\ stage' = stage
  BY DEF NameByHex
<1>2. HexBuffer(hexBuffer')
  <2>1. HexBuffer(hexBuffer)
    BY DEF PanicInv
  <2> QED
    BY <1>1, <2>1, HexStringIs
<1>3. LinesHold'
  <2>1. LinesHold
    BY DEF PanicInv
  <2>2. \A l : LineHolds(l) => LineHolds(l)'
    BY <1>1 DEF LineHolds, Stride
  <2>3. \A n \in DOMAIN lines : LineHolds(lines[n])'
    <3> SUFFICES ASSUME NEW n \in DOMAIN lines
                 PROVE  LineHolds(lines[n])'
      OBVIOUS
    <3>1. PICK l : l = lines[n]
      OBVIOUS
    <3>2. LineHolds(l)'
      BY <2>1, <2>2, <3>1 DEF LinesHold
    <3> QED
      BY <1>1, <3>1, <3>2 DEF LineHolds
  <2> QED
    BY <1>1, <2>1, <2>3 DEF LinesHold
<1>4. MessageHolds'
  BY <1>1 DEF PanicInv, MessageHolds
<1>5. PageHolds'
  BY <1>1 DEF PanicInv, PageHolds
<1> QED
  BY <1>1, <1>2, <1>3, <1>4, <1>5 DEF PanicInv

LEMMA PageFaultHolds ==
  ASSUME PanicInv, NEW faultingAddress \in Numbers,
         PageFault_handler(faultingAddress)
  PROVE  PanicInv'
<1>1. PICK buffer : buffer = toHexString(hexBuffer, faultingAddress)
  OBVIOUS
<1>2. Trigger("PageFault", PageFaultMessage(buffer)) /\ hexBuffer' = buffer
  BY <1>1 DEF PageFault_handler
<1>3. HexBuffer(buffer) /\ HexString(buffer, faultingAddress)
  <2>1. HexBuffer(hexBuffer)
    BY DEF PanicInv
  <2> QED
    BY <1>1, <2>1, HexStringIs
<1>4. IsText(CString(buffer)) /\ Len(CString(buffer)) <= HexDigits + 4
  BY <1>3, CStringIs
<1>5. /\ IsText(PageFaultMessage(buffer))
      /\ Deepest(Len(PageFaultMessage(buffer))) < Word
  BY <1>4, FaultMessagesHold
<1> QED
  BY <1>2, <1>3, <1>5, TriggerHolds

LEMMA NextHolds == PanicInv /\ [Next]_vars => PanicInv'
<1> SUFFICES ASSUME PanicInv, [Next]_vars
             PROVE  PanicInv'
  OBVIOUS
<1>1. HexBuffer(hexBuffer)
  BY DEF PanicInv
<1>2. ASSUME NEW value \in Numbers, NameByHex(value)
      PROVE  PanicInv'
  BY <1>2, NameByHexHolds
<1>3. ASSUME NEW value \in Numbers, PageFault_handler(value)
      PROVE  PanicInv'
  BY <1>3, PageFaultHolds
<1>4. CASE GPFault_handler
  <2>1. Trigger("GeneralProtectionFault", GPFaultMessage) /\ hexBuffer' = hexBuffer
    BY <1>4 DEF GPFault_handler
  <2> QED
    BY <1>1, <2>1, FaultMessagesHold, TriggerHolds
<1>5. CASE DoubleFault_handler
  <2>1. Trigger("DoubleFault", DoubleFaultMessage) /\ hexBuffer' = hexBuffer
    BY <1>5 DEF DoubleFault_handler
  <2> QED
    BY <1>1, <2>1, FaultMessagesHold, TriggerHolds
<1>6. ASSUME NEW info \in Messages, OtherTrigger(info)
      PROVE  PanicInv'
  <2>1. Trigger("other", info) /\ hexBuffer' = hexBuffer
    BY <1>6 DEF OtherTrigger
  <2>2. IsText(info) /\ Deepest(Len(info)) < Word
    BY MessagesAssumption DEF IsText
  <2> QED
    BY <1>1, <2>1, <2>2, TriggerHolds
<1>7. CASE PrintHeader
  BY <1>7, PrintHeaderHolds
<1>8. CASE PrintMessageLine
  BY <1>8, PrintMessageLineHolds
<1>9. CASE PrintNoInfo
  BY <1>9, PrintNoInfoHolds
<1>10. CASE Halted
  BY <1>10, StutterHolds DEF Halted
<1>11. CASE UNCHANGED vars
  BY <1>11, StutterHolds
<1> QED
  BY <1>2, <1>3, <1>4, <1>5, <1>6, <1>7, <1>8, <1>9, <1>10, <1>11 DEF Next

(* What the theorems below rest on: each line starts far from the end of   *)
(* the number range and far enough below the one before.                   *)
LEMMA PanicHolds == Spec => []PanicInv
<1> QED
  BY InitHolds, NextHolds, PTL DEF Spec

LEMMA LineDraws ==
  ASSUME framebuffer \in Screens, NEW line, LineHolds(line)
  PROVE  \A row \in RowsOf(line) :
           /\ Inside(row) /\ row.y \in Nat /\ line.y <= row.y
           /\ FitsWidth(line.text) => row.y = line.y
<1>1. /\ line.x \in Nat /\ line.x <= Half /\ line.y \in Nat
      /\ Held(line.text)
      /\ line.y + charsize * Len(line.text) < Word
  BY DEF LineHolds
<1>2. RowsOf(line) = prints([x |-> line.x, y |-> line.y], line.text)
  BY DEF RowsOf
<1>3. PICK fits \in BOOLEAN : fits <=> FitsWidth(line.text)
  OBVIOUS
<1>4. ASSUME fits
      PROVE  line.x + 8 * Len(line.text) <= Stride /\ Narrowly(line.text)
  <2>1. Plain(line.text) /\ 8 * Len(line.text) <= Stride
    BY <1>3, <1>4, ScreenIs DEF FitsWidth, Stride
  <2>2. line.x + 8 * Len(line.text) <= Stride
    BY <2>1 DEF LineHolds
  <2>3. \A i \in BlanksOf(line.text) : line.text[i] = " "
    <3> SUFFICES ASSUME NEW i \in BlanksOf(line.text)
                 PROVE  line.text[i] = " "
      OBVIOUS
    <3>1. i \in DOMAIN line.text /\ line.text[i] \in Blanks
      BY DEF BlanksOf
    <3>2. line.text[i] # "\n"
      BY <3>1 DEF LineHolds
    <3>3. line.text[i] \notin {"\t", "\r"}
      BY <2>1, <3>1 DEF Plain
    <3> QED
      BY <3>1, <3>2, <3>3 DEF Blanks
  <2> QED
    BY <2>2, <2>3 DEF Narrowly, Narrow
<1>5. \A row \in prints([x |-> line.x, y |-> line.y], line.text) :
        /\ Inside(row) /\ row.y \in Nat /\ line.y <= row.y
        /\ fits => row.y = line.y
  <2>1. PICK x0 \in Nat : x0 = line.x
    BY <1>1
  <2>2. PICK top \in Nat : top = line.y
    BY <1>1
  <2>3. PICK text : text = line.text
    OBVIOUS
  <2>4. x0 <= Half /\ Held(text) /\ top + charsize * Len(text) < Word
    BY <1>1, <2>1, <2>2, <2>3
  <2>5. fits => x0 + 8 * Len(text) <= Stride
    BY <1>4, <2>1, <2>3
  <2>6. fits => Narrowly(text)
    BY <1>4, <2>3
  <2>7. \A row \in prints([x |-> x0, y |-> top], text) :
          /\ Inside(row) /\ row.y \in Nat /\ top <= row.y
          /\ fits => row.y = top
    BY <2>4, <2>5, <2>6, LineRows
  <2> QED
    BY <2>1, <2>2, <2>3, <2>7
<1> QED
  BY <1>2, <1>3, <1>5

(* No glyph of a panic is written outside the framebuffer or over the end  *)
(* of a row of pixels, whatever is printed on whatever screen, though the  *)
(* x of a wide text is a difference below zero without a sign (printc).    *)
THEOREM GlyphsStayInside == Spec => []InsideFramebuffer
<1>1. PanicInv => InsideFramebuffer
  <2> SUFFICES ASSUME PanicInv, lines # <<>>, NEW row \in RowsOf(Last(lines))
               PROVE  /\ row.x + FONT_WIDTH * Len(row.text)
                           <= framebuffer.PixelsPerScanLine
                      /\ row.y + charsize <= framebuffer.Height
    BY DEF InsideFramebuffer
  <2>1. Len(lines) \in DOMAIN lines /\ Last(lines) = lines[Len(lines)]
    BY DEF PanicInv, LinesHold, IsText, Last
  <2>2. LineHolds(Last(lines)) /\ framebuffer \in Screens
    BY <2>1 DEF PanicInv, LinesHold
  <2>3. Inside(row)
    BY <2>2, LineDraws
  <2> QED
    BY <2>3 DEF Inside, Stride
<1> QED
  BY <1>1, PanicHolds, PTL

(* A line that is not wider than the screen is never drawn over by a line  *)
(* that Trigger prints later, for any message, however it is cut.          *)
THEOREM LinesStayReadable == Spec => []NeverDrawnOver
<1>1. PanicInv => NeverDrawnOver
  <2> SUFFICES ASSUME PanicInv, NEW n \in DOMAIN lines,
                      FitsWidth(lines[n].text), NEW row \in RowsOf(lines[n]),
                      NEW later \in n + 1 .. Len(lines),
                      NEW over \in RowsOf(lines[later])
               PROVE  row.y + charsize <= over.y
    BY DEF NeverDrawnOver
  <2>1. framebuffer \in Screens /\ DOMAIN lines = 1 .. Len(lines)
    BY DEF PanicInv, LinesHold, IsText
  <2>2. later \in DOMAIN lines /\ n \in 1 .. later - 1
    BY <2>1
  <2>3. /\ LineHolds(lines[n]) /\ LineHolds(lines[later])
        /\ lines[n].y + charsize + 2 <= lines[later].y
    BY <2>2 DEF PanicInv, LinesHold
  <2>4. row.y = lines[n].y /\ row.y \in Nat
    BY <2>1, <2>3, LineDraws
  <2>5. over.y \in Nat /\ lines[later].y <= over.y /\ lines[later].y \in Nat
    BY <2>1, <2>3, LineDraws DEF LineHolds
  <2>6. charsize \in Nat
    BY PanicAssumption
  <2> QED
    BY <2>3, <2>4, <2>5, <2>6
<1> QED
  BY <1>1, PanicHolds, PTL

-----------------------------------------------------------------------------
(* The number in a message *)

(* Two texts one after the other: what comes after the first is the second.*)
LEMMA AfterFirst ==
  ASSUME NEW a, IsText(a), NEW b, IsText(b)
  PROVE  SubSeq(a \o b, Len(a) + 1, Len(a \o b)) = b
<1>1. PICK A : a \in Seq(A)
  BY DEF IsText
<1>2. PICK B : b \in Seq(B)
  BY DEF IsText
<1>3. a \in Seq(A \cup B) /\ b \in Seq(A \cup B)
  BY <1>1, <1>2
<1>4. PICK m \in Nat : m = Len(a)
  BY <1>1
<1>5. PICK n \in Nat : n = Len(b)
  BY <1>2
<1>6. PICK c : c = a \o b
  OBVIOUS
<1>7. c \in Seq(A \cup B) /\ Len(c) = m + n
  BY <1>3, <1>4, <1>5, <1>6
<1>8. \A i \in 1 .. n : c[m + i] = b[i]
  <2> SUFFICES ASSUME NEW i \in 1 .. n
               PROVE  c[m + i] = b[i]
    OBVIOUS
  <2>1. m + i \in 1 .. m + n /\ ~ m + i <= m /\ (m + i) - m = i
    OBVIOUS
  <2> QED
    BY <1>3, <1>4, <1>5, <1>6, <2>1
<1>9. PICK d : d = SubSeq(c, m + 1, m + n)
  OBVIOUS
<1>10. d = [i \in 1 .. n |-> b[i]]
  <2>1. d \in Seq(A \cup B) /\ Len(d) = n
    BY <1>7, <1>9
  <2>2. \A i \in 1 .. n : d[i] = c[m + i]
    BY <1>7, <1>9
  <2> QED
    BY <1>8, <2>1, <2>2
<1>11. b = [i \in 1 .. n |-> b[i]]
  BY <1>2, <1>5
<1> QED
  BY <1>4, <1>6, <1>7, <1>9, <1>10, <1>11

LEMMA FaultNumber ==
  ASSUME NEW buffer, IsText(CString(buffer))
  PROVE  SubSeq(PageFaultMessage(buffer), 73 + 1 + 18 + 1,
                Len(PageFaultMessage(buffer))) = CString(buffer)
<1>1. PICK end : end = <<"\n">>
  OBVIOUS
<1>2. IsText(end) /\ Len(end) = 1
  <2>1. end \in Seq({"\n"}) /\ Len(end) = 1
    BY <1>1
  <2> QED
    BY <2>1 DEF IsText
<1>3. PICK long : long = Glyphs(73)
  OBVIOUS
<1>4. IsText(long) /\ Len(long) = 73
  BY <1>3, GlyphsIs
<1>5. PICK first : first = long \o end
  OBVIOUS
<1>6. IsText(first) /\ Len(first) = 74
  <2>1. IsText(first) /\ Len(first) = Len(long) + Len(end)
    <3>1. IsText(long)
      BY <1>4
    <3>2. IsText(end)
      BY <1>2
    <3> QED
      BY <1>5, <3>1, <3>2, JoinIs, Zenon
  <2> QED
    BY <1>2, <1>4, <2>1
<1>7. PICK short : short = Glyphs(18)
  OBVIOUS
<1>8. IsText(short) /\ Len(short) = 18
  BY <1>7, GlyphsIs
<1>9. PICK a : a = first \o short
  OBVIOUS
<1>10. IsText(a) /\ Len(a) = 92
  <2>1. IsText(a) /\ Len(a) = Len(first) + Len(short)
    <3>1. IsText(first)
      BY <1>6
    <3>2. IsText(short)
      BY <1>8
    <3> QED
      BY <1>9, <3>1, <3>2, JoinIs, Zenon
  <2> QED
    BY <1>6, <1>8, <2>1
<1>11. PICK number : number = CString(buffer)
  OBVIOUS
<1>12. PageFaultMessage(buffer) = a \o number
  BY <1>1, <1>3, <1>5, <1>7, <1>9, <1>11 DEF PageFaultMessage
<1>13. SubSeq(a \o number, Len(a) + 1, Len(a \o number)) = number
  BY <1>10, <1>11, AfterFirst
<1>14. Len(a) + 1 = 73 + 1 + 18 + 1
  BY <1>10
<1> QED
  BY <1>11, <1>12, <1>13, <1>14

(* What toHexString has put in its buffer is read as the number it had.    *)
LEMMA NumberIs ==
  ASSUME NEW buffer, HexBuffer(buffer), NEW value \in Numbers,
         HexString(buffer, value)
  PROVE  ValueOf(CString(buffer)) = value
<1>1. PICK text : text = CString(buffer)
  OBVIOUS
<1>2. PICK n \in Nat \ {0} : n = Turns(value)
  BY TurnsIs
<1>3. text = [k \in 1 .. n + 2 |-> buffer[k - 1]]
  BY <1>1, <1>2, CStringIs
<1> DEFINE digits == SubSeq(text, 3, Len(text))
           Value(c) == CHOOSE v \in 0 .. 15 : HexChars[v + 1] = c
           g == CHOOSE h : ReadOf(h, digits)
<1>4. digits = [i \in 1 .. Turns(value) |-> Digit(value, i)]
  <2>1. PICK chars : text \in Seq(chars)
    BY <1>1, CStringIs DEF IsText
  <2>2. Len(text) = n + 2
    BY <1>2, <1>3
  <2>3. PICK d : d = SubSeq(text, 3, n + 2)
    OBVIOUS
  <2>4. d \in Seq(chars) /\ Len(d) = n
    BY <2>1, <2>2, <2>3
  <2>5. \A i \in 1 .. n : d[i] = text[i + 2]
    BY <2>1, <2>2, <2>3
  <2>6. \A i \in 1 .. n : text[i + 2] = buffer[i + 1]
    BY <1>3
  <2>7. \A i \in 1 .. n : buffer[i + 1] = Digit(value, i)
    BY <1>2 DEF HexString
  <2>8. d = [i \in 1 .. n |-> Digit(value, i)]
    BY <2>4, <2>5, <2>6, <2>7
  <2> QED
    BY <1>2, <2>2, <2>3, <2>8
<1> HIDE DEF digits
<1>5. DOMAIN digits = 1 .. n /\ Len(digits) = n
  BY <1>2, <1>4
<1>6. ~ \E i \in DOMAIN digits : \A v \in DOMAIN HexChars : HexChars[v] # digits[i]
  <2> SUFFICES ASSUME NEW i \in 1 .. n
               PROVE  \E v \in DOMAIN HexChars : HexChars[v] = digits[i]
    BY <1>5
  <2>1. i \in 1 .. Turns(value)
    BY <1>2
  <2>2. PICK d \in 0 .. 15 : d = LeftOf(value)[Turns(value) - i] % 16
    BY <2>1, DigitIs
  <2>3. digits[i] = HexChars[d + 1]
    BY <1>4, <2>1, <2>2 DEF Digit
  <2>4. d + 1 \in DOMAIN HexChars
    BY HexCharsAre
  <2> QED
    BY <2>3, <2>4
<1>7. ReadOf(g, digits) /\ g[Len(digits)] = value
  <2>1. /\ \E h : ReadOf(h, digits)
        /\ \A h : ReadOf(h, digits) => h[Len(digits)] = value
    BY <1>4, ReadsBack
  <2>2. ReadOf(g, digits)
    BY <2>1
  <2> QED
    BY <2>1, <2>2
<1>8. ValueOf(text) = g[Len(digits)]
  BY <1>6, Zenon DEF ValueOf, ReadOf, digits
<1> QED
  BY <1>1, <1>7, <1>8

(* The number that toHexString is given is the one its text says, and the  *)
(* message of a page fault ends in it, for every number of a uint64_t and  *)
(* whatever is left in the buffer.                                         *)
THEOREM NumbersReadCorrect == Spec => NumbersReadBack
<1>1. ASSUME PanicInv, [Next]_vars
      PROVE  [\A value \in Numbers :
                /\ NameByHex(value) \/ PageFault_handler(value)
                     => ValueOf(CString(hexBuffer')) = value
                /\ PageFault_handler(value)
                     => ValueOf(SubSeq(message', 73 + 1 + 18 + 1,
                                       Len(message'))) = value]_vars
  <2> SUFFICES ASSUME NEW value \in Numbers,
                      NameByHex(value) \/ PageFault_handler(value)
               PROVE  /\ ValueOf(CString(hexBuffer')) = value
                      /\ PageFault_handler(value)
                           => ValueOf(SubSeq(message', 73 + 1 + 18 + 1,
                                             Len(message'))) = value
    OBVIOUS
  <2>1. PICK buffer : buffer = toHexString(hexBuffer, value)
    OBVIOUS
  <2>2. hexBuffer' = buffer
    BY <2>1 DEF NameByHex, PageFault_handler
  <2>3. HexBuffer(buffer) /\ HexString(buffer, value)
    <3>1. HexBuffer(hexBuffer)
      BY <1>1 DEF PanicInv
    <3> QED
      BY <2>1, <3>1, HexStringIs
  <2>4. ValueOf(CString(buffer)) = value
    BY <2>3, NumberIs
  <2>5. ASSUME PageFault_handler(value)
        PROVE  ValueOf(SubSeq(message', 73 + 1 + 18 + 1, Len(message'))) = value
    <3>1. message' = PageFaultMessage(buffer)
      BY <2>1, <2>5 DEF PageFault_handler, Trigger
    <3>2. IsText(CString(buffer))
      BY <2>3, CStringIs
    <3>3. SubSeq(PageFaultMessage(buffer), 73 + 1 + 18 + 1,
                 Len(PageFaultMessage(buffer))) = CString(buffer)
      BY <3>2, FaultNumber
    <3> QED
      BY <2>4, <3>1, <3>3
  <2> QED
    BY <2>2, <2>4, <2>5
<1> QED
  BY <1>1, PanicHolds, PTL DEF Spec, NumbersReadBack

-----------------------------------------------------------------------------
(* The message on the screen *)

(* A run that fits beside its print point is drawn there in one row.       *)
WholeRun(paper, x, top, run, rows) ==
  printc(paper, run)
    = [point |-> [x |-> x + 8 * Len(run), y |-> top],
       rows |-> rows \cup {[x |-> x, y |-> top, text |-> run]}]

LEMMA RunIsWhole ==
  ASSUME framebuffer \in Screens, NEW x \in Nat, NEW top \in Nat,
         top + charsize <= framebuffer.Height, top < Word,
         NEW run, IsText(run), run # <<>>, x + 8 * Len(run) <= Stride, NEW rows,
         NEW paper, paper = [point |-> [x |-> x, y |-> top], rows |-> rows]
  PROVE  WholeRun(paper, x, top, run, rows)
<1> DEFINE beside == IF (paper.point.x + FONT_WIDTH) % Word > Stride THEN 0
                     ELSE (Stride - paper.point.x) \div FONT_WIDTH
           inRow == Stride \div FONT_WIDTH
           First(r) == IF r = 0 THEN 1 ELSE beside + (r - 1) * inRow + 1
           LastOf(r) == Min({beside + r * inRow, Len(run)})
           Left(r) == IF r = 0 THEN paper.point.x ELSE 0
           Top(r) == (paper.point.y + r * charsize) % Word
           reached == (IF beside = 0 THEN 1 ELSE 0) .. Rows(Len(run) - beside, inRow)
           drawn == {r \in reached : Top(r) <= LowestTop}
           stop == Min((reached \ drawn) \cup {Max(reached)})
           new == {[x |-> Left(r), y |-> Top(r),
                    text |-> SubSeq(run, First(r), LastOf(r))] : r \in drawn}
           px == Left(stop) + (IF stop \in drawn
                               THEN FONT_WIDTH * (LastOf(stop) - First(stop) + 1)
                               ELSE 0)
           py == Top(stop)
<1>1. /\ Stride \in Nat /\ FONT_WIDTH = 8 /\ 8 <= Stride /\ 2 * Stride < Word
      /\ Word \in Nat /\ charsize \in Nat \ {0} /\ framebuffer.Height \in Nat
  BY ScreenIs
<1>2. paper.point.x = x /\ paper.point.y = top /\ paper.rows = rows
  OBVIOUS
<1>3. PICK n \in Nat \ {0} : n = Len(run)
  BY DEF IsText
<1>4. printc(paper, run)
        = [point |-> [x |-> px, y |-> py], rows |-> paper.rows \cup new]
  BY Zenon DEF printc, Stride
<1>5. beside \in Nat /\ n <= beside
  <2>1. x + 8 < Word
    BY <1>1, <1>3
  <2>2. /\ beside \in Nat
        /\ \A m \in Nat \ {0} : x + 8 * m <= Stride => m <= beside
    BY <1>2, <2>1, BesideIs
  <2> QED
    BY <1>3, <2>2
<1>6. inRow \in Nat \ {0}
  <2>1. inRow = Stride \div 8
    BY <1>1
  <2>2. inRow \in Nat /\ Stride < 8 * inRow + 8
    BY <1>1, <2>1, DivideIs
  <2> QED
    BY <1>1, <2>2
<1> HIDE DEF beside, inRow
<1>7. Rows(Len(run) - beside, inRow) = 0
  <2>1. PICK b \in Nat : b = beside /\ n <= b
    BY <1>5
  <2>2. PICK m \in Int : m = n - b
    OBVIOUS
  <2>3. m <= 0
    BY <2>1, <2>2
  <2>4. m = Len(run) - beside
    BY <1>3, <2>1, <2>2
  <2> QED
    BY <1>6, <2>2, <2>3, <2>4, RowsIs
<1>8. reached = {0}
  BY <1>3, <1>5, <1>7
<1>9. Top(0) = top
  <2>1. (top + 0 * charsize) = top
    BY <1>1
  <2>2. top % Word = top
    BY ModBelow
  <2> QED
    BY <1>2, <2>1, <2>2
<1>10. drawn = {0}
  <2>1. top <= LowestTop
    BY <1>1 DEF LowestTop
  <2> HIDE DEF Top, reached
  <2> QED
    BY <1>8, <1>9, <2>1
<1>11. stop = 0
  <2>1. Max({0}) = 0
    BY DEF Max
  <2>2. Min({0}) = 0
    BY DEF Min
  <2>3. (reached \ drawn) \cup {Max(reached)} = {0}
    <3> HIDE DEF reached, drawn
    <3> QED
      BY <1>8, <1>10, <2>1
  <2> HIDE DEF reached, drawn
  <2> QED
    BY <2>2, <2>3
<1>12. First(0) = 1 /\ Left(0) = x
  BY <1>2
<1>13. LastOf(0) = n
  <2>1. PICK b \in Int : b = beside /\ n <= b
    BY <1>5
  <2>2. beside + 0 * inRow = b
    BY <1>6, <2>1
  <2>3. LastOf(0) = Min({b, n})
    BY <1>3, <2>2
  <2>4. Min({b, n}) = IF b <= n THEN b ELSE n
    BY MinOfTwo
  <2> QED
    BY <2>1, <2>3, <2>4
<1> HIDE DEF stop, reached, drawn, Top, First, LastOf, Left
<1>14. px = x + 8 * n /\ py = top
  BY <1>1, <1>9, <1>10, <1>11, <1>12, <1>13
<1>15. SubSeq(run, 1, n) = run
  <2>1. PICK chars : run \in Seq(chars)
    BY DEF IsText
  <2> QED
    BY <1>3, <2>1
<1>16. new = {[x |-> x, y |-> top, text |-> run]}
  BY <1>9, <1>10, <1>12, <1>13, <1>15
<1> HIDE DEF px, py, new
<1> QED
  BY <1>2, <1>3, <1>4, <1>14, <1>16 DEF WholeRun

(* What the line has drawn when its first i characters are done.           *)
IsBlank(c) == c \in Blanks

DrawnUpTo(rows, x, top, text, i) ==
  \A k \in 1 .. i :
    IsBlank(text[k]) \/ GlyphAt(rows, x + 8 * (k - 1), top, text[k])

Shown(paper, x, top, text, i) ==
  \E rows :
    /\ DrawnUpTo(rows, x, top, text, i)
    /\ paper = [point |-> [x |-> x + 8 * i, y |-> top], rows |-> rows]

(* A line that has its place: inside the screen, plain.                    *)
Placed(x, top, text) ==
  /\ x \in Nat /\ top \in Nat /\ IsText(text)
  /\ top + charsize <= framebuffer.Height /\ top < Word
  /\ x + 8 * Len(text) <= Stride

LEMMA RunShown ==
  ASSUME framebuffer \in Screens, NEW x, NEW top, NEW text, Placed(x, top, text),
         NEW i \in Nat, NEW j \in Nat, i <= j, j <= Len(text),
         NEW paper, Shown(paper, x, top, text, i)
  PROVE  Shown(printc(paper, SubSeq(text, i + 1, j)), x, top, text, j)
<1>1. /\ x \in Nat /\ top \in Nat /\ IsText(text)
      /\ top + charsize <= framebuffer.Height /\ top < Word
      /\ x + 8 * Len(text) <= Stride
  BY DEF Placed
<1>2. PICK n \in Nat : n = Len(text) /\ DOMAIN text = 1 .. n
  BY <1>1 DEF IsText
<1>3. Stride \in Nat /\ FONT_WIDTH = 8
  BY ScreenIs
<1>4. PICK rows :
        /\ DrawnUpTo(rows, x, top, text, i)
        /\ paper = [point |-> [x |-> x + 8 * i, y |-> top], rows |-> rows]
  BY DEF Shown
<1>5. PICK run : run = SubSeq(text, i + 1, j)
  OBVIOUS
<1>6. PICK m \in Nat : m = j - i
  OBVIOUS
<1>7. /\ IsText(run) /\ Len(run) = m /\ DOMAIN run = 1 .. m
      /\ \A k \in 1 .. m : run[k] = text[i + k]
  <2>1. PICK chars : text \in Seq(chars)
    BY <1>1 DEF IsText
  <2>2. run \in Seq(chars) /\ Len(run) = m
    BY <1>2, <1>5, <1>6, <2>1
  <2>3. \A k \in 1 .. m : run[k] = text[i + k]
    BY <1>2, <1>5, <1>6, <2>1, <2>2
  <2> QED
    BY <2>2, <2>3 DEF IsText
<1>8. CASE run = <<>>
  <2>1. m = 0 /\ i = j
    BY <1>6, <1>7, <1>8
  <2>2. printc(paper, run) = paper
    BY <1>8 DEF printc
  <2> QED
    BY <1>5, <2>1, <2>2
<1>9. CASE run # <<>>
  <2>1. PICK start \in Nat : start = x + 8 * i
    BY <1>1
  <2>2. start + 8 * Len(run) <= Stride
    BY <1>1, <1>2, <1>3, <1>6, <1>7, <2>1
  <2>3. PICK row : row = [x |-> start, y |-> top, text |-> run]
    OBVIOUS
  <2>4. WholeRun(paper, start, top, run, rows)
    <3>1. paper = [point |-> [x |-> start, y |-> top], rows |-> rows]
      BY <1>4, <2>1
    <3>2. top \in Nat /\ top + charsize <= framebuffer.Height /\ top < Word
      BY <1>1
    <3>3. IsText(run) /\ run # <<>>
      BY <1>7, <1>9
    <3> QED
      BY <2>2, <3>1, <3>2, <3>3, RunIsWhole
  <2>5. printc(paper, run)
          = [point |-> [x |-> start + 8 * m, y |-> top], rows |-> rows \cup {row}]
    BY <1>7, <2>3, <2>4 DEF WholeRun
  <2>6. start + 8 * m = x + 8 * j
    BY <1>1, <1>6, <2>1
  <2>7. ASSUME NEW k \in 1 .. j
        PROVE  IsBlank(text[k])
                 \/ GlyphAt(rows \cup {row}, x + 8 * (k - 1), top, text[k])
    <3>1. CASE k <= i
      <4>1. k \in 1 .. i
        BY <3>1
      <4>2. IsBlank(text[k]) \/ GlyphAt(rows, x + 8 * (k - 1), top, text[k])
        BY <1>4, <4>1 DEF DrawnUpTo
      <4> QED
        BY <4>2 DEF GlyphAt
    <3>2. CASE ~ k <= i
      <4>1. PICK h \in 1 .. m : k = i + h
        <5>1. k - i \in 1 .. m /\ k = i + (k - i)
          BY <1>6, <3>2
        <5> QED
          BY <5>1
      <4>2. row.y = top /\ h \in DOMAIN row.text /\ row.text[h] = text[k]
        BY <1>7, <2>3, <4>1
      <4>3. row.x + FONT_WIDTH * (h - 1) = x + 8 * (k - 1)
        <5>1. row.x = start
          BY <2>3
        <5> QED
          BY <1>1, <1>3, <2>1, <4>1, <5>1
      <4> QED
        BY <4>2, <4>3 DEF GlyphAt
    <3> QED
      BY <3>1, <3>2
  <2>8. DrawnUpTo(rows \cup {row}, x, top, text, j)
    BY <2>7 DEF DrawnUpTo
  <2> QED
    BY <1>5, <2>5, <2>6, <2>8 DEF Shown
<1> QED
  BY <1>8, <1>9

LEMMA BlankShown ==
  ASSUME framebuffer \in Screens, NEW x, NEW top, NEW text, Placed(x, top, text),
         NEW i \in Nat, i + 1 <= Len(text), Narrow(text[i + 1]),
         NEW paper, Shown(paper, x, top, text, i)
  PROVE  Shown([paper EXCEPT !.point = Blank(@, text[i + 1])],
               x, top, text, i + 1)
<1>1. x \in Nat /\ IsText(text) /\ x + 8 * Len(text) <= Stride
  BY DEF Placed
<1>2. PICK n \in Nat : n = Len(text)
  BY <1>1 DEF IsText
<1>3. Stride \in Nat /\ 2 * Stride < Word /\ Word \in Nat
  BY ScreenIs
<1>4. PICK rows :
        /\ DrawnUpTo(rows, x, top, text, i)
        /\ paper = [point |-> [x |-> x + 8 * i, y |-> top], rows |-> rows]
  BY DEF Shown
<1>5. PICK point : point = [x |-> x + 8 * i, y |-> top]
  OBVIOUS
<1>6. PICK c : c = text[i + 1]
  OBVIOUS
<1>7. Narrow(c) /\ IsBlank(c)
  BY <1>6 DEF Narrow, IsBlank, Blanks
<1>8. Blank(point, c) = [point EXCEPT !.x = (point.x + 8) % Word]
  BY <1>7 DEF Blank, Narrow
<1>9. PICK a \in Nat : a = x + 8 * (i + 1) /\ a = (x + 8 * i) + 8 /\ a < Word
  BY <1>1, <1>2, <1>3
<1>10. a % Word = a
  BY <1>9, ModBelow
<1>11. Blank(point, c) = [x |-> a, y |-> top]
  BY <1>5, <1>8, <1>9, <1>10
<1>12. [paper EXCEPT !.point = Blank(@, c)]
         = [point |-> [x |-> a, y |-> top], rows |-> rows]
  BY <1>4, <1>5, <1>11
<1>13. DrawnUpTo(rows, x, top, text, i + 1)
  <2> SUFFICES ASSUME NEW k \in 1 .. i + 1
               PROVE  IsBlank(text[k])
                        \/ GlyphAt(rows, x + 8 * (k - 1), top, text[k])
    BY DEF DrawnUpTo
  <2>1. CASE k = i + 1
    BY <1>6, <1>7, <2>1
  <2>2. CASE k # i + 1
    <3>1. k \in 1 .. i
      BY <2>2
    <3> QED
      BY <1>4, <3>1 DEF DrawnUpTo
  <2> QED
    BY <2>1, <2>2
<1> QED
  BY <1>6, <1>9, <1>12, <1>13 DEF Shown

(* After each blank of the line, and before the first, that is so.         *)
LEMMA BlanksShown ==
  ASSUME framebuffer \in Screens, NEW x, NEW top, NEW text, Placed(x, top, text),
         Narrowly(text),
         NEW f, After(f, {0} \cup BlanksOf(text), [x |-> x, y |-> top], text)
  PROVE  \A i \in {0} \cup BlanksOf(text) : Shown(f[i], x, top, text, i)
<1>1. /\ IsText(text) /\ DOMAIN text = 1 .. Len(text) /\ Len(text) \in Nat
      /\ x \in Nat
  BY DEF Placed, IsText
<1> DEFINE D == {0} \cup BlanksOf(text)
           T == {i \in D : ~ Shown(f[i], x, top, text, i)}
<1>2. D \subseteq Nat
  BY <1>1 DEF BlanksOf
<1>3. ASSUME NEW i \in D
      PROVE  f[i] = AfterBlank(f, [x |-> x, y |-> top], text, i)
  BY Zenon DEF After
<1>4. T = {}
  <2> SUFFICES ASSUME T # {}
               PROVE  FALSE
    OBVIOUS
  <2>1. T \in SUBSET Nat /\ T \subseteq D
    BY <1>2
  <2>2. PICK i \in T : \A k \in T : i <= k
    <3> HIDE DEF T
    <3> QED
      BY <2>1, Least
  <2>3. i \in D /\ i \in Nat
    BY <2>1, <2>2
  <2>4. ~ Shown(f[i], x, top, text, i)
    BY <2>2
  <2>5. \A k \in D : k < i => Shown(f[k], x, top, text, k)
    <3> SUFFICES ASSUME NEW k \in D, k < i, ~ Shown(f[k], x, top, text, k)
                 PROVE  FALSE
      OBVIOUS
    <3>1. k \in T
      OBVIOUS
    <3>2. i <= k /\ k \in Nat
      BY <1>2, <2>2, <3>1
    <3> QED
      BY <2>3, <3>2
  <2> HIDE DEF T
  <2>6. CASE i = 0
    <3>1. f[i] = [point |-> [x |-> x, y |-> top], rows |-> {}]
      BY <1>3, <2>3, <2>6 DEF AfterBlank
    <3>2. DrawnUpTo({}, x, top, text, 0)
      BY DEF DrawnUpTo
    <3>3. x + 8 * 0 = x
      BY <1>1
    <3> QED
      BY <2>4, <2>6, <3>1, <3>2, <3>3 DEF Shown
  <2>7. CASE i # 0
    <3>1. i \in Nat \ {0} /\ i \in BlanksOf(text) /\ i \in 1 .. Len(text)
      BY <1>1, <2>3, <2>7 DEF BlanksOf
    <3>2. PICK before : before = Before(text, i)
      OBVIOUS
    <3>3. /\ before \in D /\ before \in Nat /\ before < i
      BY <1>1, <3>1, <3>2, BeforeIs
    <3>4. Shown(f[before], x, top, text, before)
      BY <2>5, <3>3
    <3>5. PICK k \in Nat : k = i - 1
      BY <3>1
    <3>6. k + 1 = i /\ before <= k /\ k <= Len(text) /\ k + 1 <= Len(text)
      BY <1>1, <3>1, <3>3, <3>5
    <3>7. PICK paper : paper = printc(f[before], SubSeq(text, before + 1, k))
      OBVIOUS
    <3>8. Shown(paper, x, top, text, k)
      BY <3>3, <3>4, <3>6, <3>7, RunShown
    <3>9. Narrow(text[k + 1])
      BY <3>1, <3>6 DEF Narrowly
    <3>10. Shown([paper EXCEPT !.point = Blank(@, text[k + 1])], x, top, text, k + 1)
      BY <3>6, <3>8, <3>9, BlankShown
    <3>11. f[i] = [paper EXCEPT !.point = Blank(@, text[i])]
      BY <1>3, <2>3, <2>7, <3>2, <3>5, <3>7 DEF AfterBlank
    <3> QED
      BY <2>4, <3>6, <3>10, <3>11
  <2> QED
    BY <2>6, <2>7
<1> QED
  BY <1>4

LEMMA LineShown ==
  ASSUME framebuffer \in Screens, NEW x, NEW top, NEW text, Placed(x, top, text),
         Narrowly(text), NEW i \in DOMAIN text, ~ IsBlank(text[i])
  PROVE  GlyphAt(prints([x |-> x, y |-> top], text), x + 8 * (i - 1), top, text[i])
<1>1. /\ IsText(text) /\ DOMAIN text = 1 .. Len(text) /\ Len(text) \in Nat
  BY DEF Placed, IsText
<1>2. PICK f, last :
        /\ After(f, {0} \cup BlanksOf(text), [x |-> x, y |-> top], text)
        /\ last = Before(text, Len(text) + 1)
        /\ prints([x |-> x, y |-> top], text)
             = printc(f[last], SubSeq(text, last + 1, Len(text))).rows
  BY <1>1, PrintsIs
<1>3. last \in {0} \cup BlanksOf(text) /\ last \in Nat /\ last <= Len(text)
  <2>1. PICK k \in Nat \ {0} : k = Len(text) + 1
    BY <1>1
  <2>2. /\ Before(text, k) \in {0} \cup BlanksOf(text)
        /\ Before(text, k) \in Nat /\ Before(text, k) <= Len(text)
    BY <1>1, <2>1, BeforeIs
  <2> QED
    BY <1>2, <2>1, <2>2
<1>4. Shown(f[last], x, top, text, last)
  <2>1. \A k \in {0} \cup BlanksOf(text) : Shown(f[k], x, top, text, k)
    BY <1>2, BlanksShown
  <2> QED
    BY <1>3, <2>1
<1>5. PICK n \in Nat : n = Len(text) /\ last <= n /\ n <= Len(text)
  <2>1. PICK m \in Nat : m = Len(text)
    BY <1>1
  <2>2. last <= m
    BY <1>3, <2>1
  <2> QED
    BY <2>1, <2>2
<1>6. Shown(printc(f[last], SubSeq(text, last + 1, n)), x, top, text, n)
  BY <1>3, <1>4, <1>5, RunShown
<1>7. PICK rows :
        /\ DrawnUpTo(rows, x, top, text, n)
        /\ printc(f[last], SubSeq(text, last + 1, n))
             = [point |-> [x |-> x + 8 * n, y |-> top], rows |-> rows]
  BY <1>6 DEF Shown
<1>8. prints([x |-> x, y |-> top], text) = rows
  BY <1>2, <1>5, <1>7
<1> QED
  BY <1>1, <1>5, <1>7, <1>8 DEF DrawnUpTo

-----------------------------------------------------------------------------
(* The lines of the message *)

Newline(c) == c = "\n"

LEMMA StartsAre ==
  ASSUME IsText(message), NEW n \in Nat, n = Len(message)
  PROVE  /\ \A s : s \in Starts <=>
              s = 1 \/ \E k \in 1 .. n : Newline(message[k]) /\ s = k + 1
         /\ Starts \subseteq 1 .. n + 1
         /\ \A s \in Starts : Above(s) \in Nat
         /\ \A s \in Starts, later \in Starts :
              s < later /\ (\A t \in Starts : t <= s \/ later <= t)
              => Above(later) = Above(s) + 1
         /\ Above(1) = 0
<1>1. DOMAIN message = 1 .. n
  BY DEF IsText
<1>2. \A s : s \in Starts <=>
        s = 1 \/ \E k \in 1 .. n : Newline(message[k]) /\ s = k + 1
  BY <1>1 DEF Starts, Newline
<1>3. Starts \subseteq 1 .. n + 1
  BY <1>2
<1>4. ASSUME NEW s
      PROVE  IsFiniteSet({t \in Starts : t < s})
  <2>1. IsFiniteSet(1 .. n + 1)
    <3>1. 1 \in Int /\ n + 1 \in Int
      OBVIOUS
    <3> QED
      BY <3>1, FS_Interval
  <2>2. {t \in Starts : t < s} \subseteq 1 .. n + 1
    BY <1>3
  <2> QED
    BY <2>1, <2>2, FS_Subset
<1>5. \A s \in Starts : Above(s) \in Nat
  BY <1>4, FS_CardinalityType DEF Above
<1>6. ASSUME NEW s \in Starts, NEW later \in Starts, s < later,
             \A t \in Starts : t <= s \/ later <= t
      PROVE  Above(later) = Above(s) + 1
  <2>1. PICK S : S = {t \in Starts : t < s}
    OBVIOUS
  <2>2. s \in Nat /\ later \in Nat /\ \A t \in Starts : t \in Nat
    BY <1>3
  <2>3. {t \in Starts : t < later} = S \cup {s}
    <3>1. \A t \in Starts : t < later <=> t < s \/ t = s
      BY <1>6, <2>2
    <3> QED
      BY <2>1, <3>1
  <2>4. s \notin S /\ IsFiniteSet(S)
    BY <1>4, <2>1, <2>2
  <2>5. Cardinality(S \cup {s}) = Cardinality(S) + 1
    BY <2>4, FS_AddElement
  <2> QED
    BY <2>1, <2>3, <2>5 DEF Above
<1>7. Above(1) = 0
  <2>1. {t \in Starts : t < 1} = {}
    <3>1. \A t \in Starts : ~ t < 1
      BY <1>3
    <3> QED
      BY <3>1
  <2> QED
    BY <2>1, FS_EmptySet DEF Above
<1> QED
  BY <1>2, <1>3, <1>5, <1>6, <1>7

LEMMA LineEnds ==
  ASSUME IsText(rest), NEW n \in Nat, n = Len(rest)
  PROVE  /\ LineEnd \in 1 .. n + 1
         /\ \A k \in 1 .. n : k < LineEnd => ~ Newline(rest[k])
         /\ LineEnd <= n => Newline(rest[LineEnd])
<1>1. DOMAIN rest = 1 .. n
  BY DEF IsText
<1>2. LineEnd \in 1 .. n + 1
  BY LineEndIs
<1>3. \A k \in 1 .. n : k < LineEnd => ~ Newline(rest[k])
  BY <1>1, LineEndIs DEF Newline
<1>4. ASSUME LineEnd <= n
      PROVE  Newline(rest[LineEnd])
  <2> DEFINE T == {k \in DOMAIN rest : rest[k] = "\n"} \cup {Len(rest) + 1}
  <2>1. T \in SUBSET Nat /\ T # {}
    BY <1>1
  <2>2. LineEnd = Min(T)
    BY DEF LineEnd
  <2>3. \A k \in T : k = n + 1 \/ Newline(rest[k])
    BY DEF Newline
  <2> HIDE DEF T
  <2>4. LineEnd \in T
    BY <2>1, <2>2, MinIs
  <2>5. LineEnd # n + 1
    BY <1>2, <1>4
  <2> QED
    BY <2>3, <2>4, <2>5
<1> QED
  BY <1>2, <1>3, <1>4

LEMMA PartIs ==
  ASSUME NEW chars, NEW s \in Seq(chars), NEW k \in Nat, NEW m \in Nat,
         k + m <= Len(s), NEW part, part = SubSeq(s, k + 1, k + m)
  PROVE  /\ part \in Seq(chars) /\ Len(part) = m
         /\ \A j \in 1 .. m : part[j] = s[k + j]
<1>1. part \in Seq(chars) /\ Len(part) = m
  OBVIOUS
<1>2. PICK p \in Nat : p = k + 1
  OBVIOUS
<1>3. PICK q \in Nat : q = k + m
  OBVIOUS
<1>4. part = SubSeq(s, p, q)
  BY <1>2, <1>3
<1>5. \A j \in 1 .. m : part[j] = s[p + j - 1]
  <2> SUFFICES ASSUME NEW j \in 1 .. m
               PROVE  SubSeq(s, p, q)[j] = s[p + j - 1]
    BY <1>4
  <2>1. PICK n \in Nat : n = Len(s)
    OBVIOUS
  <2>2. 1 <= p /\ q <= n /\ j \in 1 .. q - p + 1
    BY <1>2, <1>3, <2>1
  <2> QED
    BY <2>1, <2>2
<1>6. \A j \in 1 .. m : p + j - 1 = k + j
  BY <1>2
<1> QED
  BY <1>1, <1>5, <1>6

(* What is printed and what is left when the line that starts there is     *)
(* taken off the message.                                                  *)
LEMMA LineTaken ==
  ASSUME IsText(message), NEW M \in Nat, M = Len(message), NEW start \in Starts,
         rest = SubSeq(message, start, M)
  PROVE  /\ IsText(rest) /\ Len(rest) = M - start + 1
         /\ LineEnd \in 1 .. (M - start + 1) + 1
         /\ \A s \in Starts : s <= start \/ start + LineEnd <= s
         /\ LineEnd > Len(rest) => \A s \in Starts : s <= start
         /\ LineEnd <= Len(rest) =>
              /\ start + LineEnd \in Starts
              /\ Above(start + LineEnd) = Above(start) + 1
              /\ SubSeq(rest, LineEnd + 1, Len(rest))
                   = SubSeq(message, start + LineEnd, M)
<1>1. start \in 1 .. M + 1 /\ Starts \subseteq 1 .. M + 1
  BY StartsAre
<1>2. PICK chars : message \in Seq(chars)
  BY DEF IsText
<1>3. PICK n \in Nat : n = M - start + 1
  BY <1>1
<1>4. /\ rest \in Seq(chars) /\ Len(rest) = n
      /\ \A k \in 1 .. n : rest[k] = message[start + k - 1]
  <2>1. PICK left : left = SubSeq(message, start, M)
    OBVIOUS
  <2>2. left \in Seq(chars) /\ Len(left) = n
    BY <1>1, <1>2, <1>3, <2>1
  <2>3. \A k \in 1 .. n : left[k] = message[start + k - 1]
    BY <1>1, <1>2, <1>3, <2>1, <2>2
  <2> QED
    BY <2>1, <2>2, <2>3
<1>5. IsText(rest)
  BY <1>4 DEF IsText
<1>6. PICK end \in 1 .. n + 1 :
        /\ end = LineEnd
        /\ \A k \in 1 .. n : k < end => ~ Newline(rest[k])
        /\ end <= n => Newline(rest[end])
  BY <1>4, <1>5, LineEnds
<1>7. ASSUME NEW s \in Starts, ~ s <= start
      PROVE  start + end <= s
  <2>1. PICK k \in 1 .. M : Newline(message[k]) /\ s = k + 1
    <3>1. s # 1
      BY <1>1, <1>7
    <3> QED
      BY <3>1, StartsAre
  <2>2. PICK h \in 1 .. n : k = start + h - 1
    <3>1. /\ k - start + 1 \in 1 .. n
          /\ k = start + (k - start + 1) - 1
      BY <1>1, <1>3, <1>7, <2>1
    <3> QED
      BY <3>1
  <2>3. Newline(rest[h])
    BY <1>4, <2>1, <2>2
  <2>4. ~ h < end
    BY <1>6, <2>3
  <2> QED
    BY <1>1, <1>3, <1>6, <2>1, <2>2, <2>4
<1>8. ASSUME end > n, NEW s \in Starts
      PROVE  s <= start
  <2> SUFFICES ASSUME ~ s <= start
               PROVE  FALSE
    OBVIOUS
  <2>1. start + end <= s
    BY <1>7
  <2> QED
    BY <1>1, <1>3, <1>6, <1>8, <2>1
<1>9. ASSUME end <= n
      PROVE  /\ start + end \in Starts
             /\ Above(start + end) = Above(start) + 1
             /\ SubSeq(rest, end + 1, n) = SubSeq(message, start + end, M)
  <2>1. PICK k \in 1 .. M : k = start + end - 1 /\ start + end = k + 1
    <3>1. start + end - 1 \in 1 .. M /\ start + end = (start + end - 1) + 1
      BY <1>1, <1>3, <1>6, <1>9
    <3> QED
      BY <3>1
  <2>2. Newline(message[k])
    <3>1. end \in 1 .. n
      BY <1>3, <1>6, <1>9
    <3> QED
      BY <1>4, <1>6, <1>9, <2>1, <3>1
  <2>3. start + end \in Starts
    BY <2>1, <2>2, StartsAre
  <2>4. start < start + end
    BY <1>1, <1>6
  <2>5. \A t \in Starts : t <= start \/ start + end <= t
    BY <1>7
  <2>6. Above(start + end) = Above(start) + 1
    BY <2>3, <2>4, <2>5, StartsAre
  <2>7. PICK a : a = SubSeq(rest, end + 1, n)
    OBVIOUS
  <2>8. PICK b : b = SubSeq(message, start + end, M)
    OBVIOUS
  <2>9. PICK m \in Nat : m = n - end
    BY <1>3, <1>6, <1>9
  <2>10. /\ a \in Seq(chars) /\ Len(a) = m
         /\ \A j \in 1 .. m : a[j] = rest[end + j]
    <3>1. end + 1 \in Nat \ {0} /\ end + m = n
      BY <1>6, <2>9
    <3>2. a = SubSeq(rest, end + 1, end + m)
      BY <2>7, <3>1
    <3>3. end \in Nat /\ end + m <= Len(rest)
      BY <1>4, <1>6, <3>1
    <3> QED
      BY <1>4, <3>2, <3>3, PartIs
  <2>11. /\ b \in Seq(chars) /\ Len(b) = m
         /\ \A j \in 1 .. m : b[j] = message[start + end + j - 1]
    <3>1. PICK k0 \in Nat : k0 = start + end - 1 /\ start + end = k0 + 1
      BY <2>1
    <3>2. k0 + m = M
      BY <1>1, <1>3, <2>9, <3>1
    <3>3. b = SubSeq(message, k0 + 1, k0 + m)
      BY <2>8, <3>1, <3>2
    <3>4. k0 + m <= Len(message)
      BY <3>2
    <3>5. /\ b \in Seq(chars) /\ Len(b) = m
          /\ \A j \in 1 .. m : b[j] = message[k0 + j]
      <4>1. PICK whole : whole = message
        OBVIOUS
      <4>2. /\ whole \in Seq(chars) /\ k0 \in Nat /\ m \in Nat
            /\ k0 + m <= Len(whole) /\ b = SubSeq(whole, k0 + 1, k0 + m)
        BY <1>2, <3>3, <3>4, <4>1
      <4>3. /\ b \in Seq(chars) /\ Len(b) = m
            /\ \A j \in 1 .. m : b[j] = whole[k0 + j]
        BY <4>2, PartIs
      <4> QED
        BY <4>1, <4>3
    <3>6. \A j \in 1 .. m : k0 + j = start + end + j - 1
      BY <1>1, <1>6, <3>1
    <3> QED
      BY <3>5, <3>6
  <2>12. ASSUME NEW j \in 1 .. m
         PROVE  a[j] = b[j]
    <3>1. PICK h \in 1 .. n : h = end + j
      <4>1. end + j \in 1 .. n
        BY <1>3, <1>6, <1>9, <2>9
      <4> QED
        BY <4>1
    <3>2. rest[h] = message[start + h - 1]
      BY <1>4
    <3>3. start + h - 1 = start + end + j - 1
      BY <1>1, <1>6, <3>1
    <3> QED
      BY <2>10, <2>11, <3>1, <3>2, <3>3
  <2>13. a = b
    <3>1. a = [j \in 1 .. m |-> a[j]] /\ b = [j \in 1 .. m |-> b[j]]
      BY <2>10, <2>11
    <3> QED
      BY <2>12, <3>1
  <2> QED
    BY <2>3, <2>6, <2>7, <2>8, <2>13
<1> QED
  BY <1>3, <1>4, <1>5, <1>6, <1>7, <1>8, <1>9

(* The part of it that is printed is the line, cut to the line buffer.     *)
LEMMA TextTaken ==
  ASSUME IsText(message), NEW M \in Nat, M = Len(message), NEW start \in Starts,
         rest = SubSeq(message, start, M)
  PROVE  /\ SubSeq(rest, 1, Min({LineEnd, LineSize}) - 1) = LineAt(start)
         /\ IsText(LineAt(start))
<1>1. start \in 1 .. M + 1
  BY StartsAre
<1>2. PICK chars : message \in Seq(chars)
  BY DEF IsText
<1>3. PICK n \in Nat : n = M - start + 1
  BY <1>1
<1>4. PICK left : left = rest
  OBVIOUS
<1>5. /\ left \in Seq(chars) /\ Len(left) = n
      /\ \A k \in 1 .. n : left[k] = message[start + k - 1]
  <2>1. PICK p \in Nat : p = start - 1 /\ start = p + 1 /\ M = p + n
    <3>1. start - 1 \in Nat /\ start = (start - 1) + 1 /\ M = (start - 1) + n
      BY <1>1, <1>3
    <3> QED
      BY <3>1
  <2>2. PICK whole : whole = message
    OBVIOUS
  <2>3. whole \in Seq(chars)
    BY <1>2, <2>2
  <2>4. /\ left \in Seq(chars) /\ Len(left) = n
        /\ \A k \in 1 .. n : left[k] = whole[p + k]
    <3>1. left = SubSeq(whole, p + 1, p + n)
      <4>1. left = SubSeq(whole, start, M)
        BY <1>4, <2>2
      <4> QED
        BY <2>1, <4>1
    <3>2. PICK e : e = p + n
      OBVIOUS
    <3>3. e <= M /\ e \in Nat
      BY <2>1, <3>2
    <3>4. M = Len(whole)
      BY <2>2
    <3>5. p + n <= Len(whole)
      BY <3>2, <3>3, <3>4, Zenon
    <3> QED
      BY <2>3, <3>1, <3>5, PartIs
  <2>5. \A k \in 1 .. n : p + k = start + k - 1
    BY <1>1, <2>1
  <2> QED
    BY <2>2, <2>4, <2>5
<1>6. PICK end \in 1 .. n + 1 :
        /\ end = LineEnd
        /\ \A k \in 1 .. n : k < end => ~ Newline(left[k])
        /\ end <= n => Newline(left[end])
  <2>1. IsText(rest)
    BY <1>4, <1>5 DEF IsText
  <2> QED
    BY <1>4, <1>5, <2>1, LineEnds
<1>7. LineSize \in Nat \ {0}
  BY PanicAssumption
<1>8. PICK w \in Nat :
        /\ w = Min({LineEnd, LineSize}) - 1
        /\ w < end /\ w < LineSize /\ w <= n
        /\ \A k \in Nat : k < end /\ k < LineSize => k <= w
  <2>1. PICK a \in Nat \ {0} : a = end
    BY <1>6
  <2>2. Min({a, LineSize}) = IF a <= LineSize THEN a ELSE LineSize
    BY <1>7, <2>1, MinOfTwo
  <2>3. PICK b : b = Min({a, LineSize})
    OBVIOUS
  <2>4. b \in Nat \ {0} /\ b <= a /\ b <= LineSize /\ (b = a \/ b = LineSize)
    BY <1>7, <2>1, <2>2, <2>3
  <2>5. b = Min({LineEnd, LineSize})
    BY <1>6, <2>1, <2>3
  <2>6. PICK c \in Nat : c = b - 1
    BY <2>4
  <2>7. /\ c < end /\ c < LineSize /\ c <= n
        /\ \A k \in Nat : k < end /\ k < LineSize => k <= c
    BY <1>3, <1>6, <1>7, <2>1, <2>4, <2>6
  <2> QED
    BY <2>5, <2>6, <2>7
<1> DEFINE In(k) == /\ start + k - 1 \in DOMAIN message
                    /\ ~ \E b \in start .. start + k - 1 : Newline(message[b])
           K == {k \in 1 .. LineSize - 1 : In(k)}
<1>9. LineAt(start) = [k \in K |-> message[start + k - 1]]
  BY DEF LineAt, Newline
<1>10. DOMAIN message = 1 .. M
  BY <1>2
<1>11. ASSUME NEW k \in 1 .. w
       PROVE  k \in K
  <2>1. k \in 1 .. LineSize - 1 /\ start + k - 1 \in DOMAIN message
    BY <1>1, <1>3, <1>7, <1>8, <1>10
  <2>2. ASSUME NEW b \in start .. start + k - 1
        PROVE  ~ Newline(message[b])
    <3>1. PICK h \in 1 .. n : b = start + h - 1 /\ h < end
      <4>1. /\ b - start + 1 \in 1 .. n /\ b = start + (b - start + 1) - 1
            /\ b - start + 1 < end
        BY <1>1, <1>3, <1>6, <1>8
      <4> QED
        BY <4>1
    <3> QED
      BY <1>5, <1>6, <3>1
  <2> QED
    BY <2>1, <2>2
<1>12. ASSUME NEW k \in K
       PROVE  k \in 1 .. w
  <2>1. k \in 1 .. LineSize - 1 /\ In(k)
    OBVIOUS
  <2>2. k \in 1 .. n
    BY <1>1, <1>3, <1>7, <1>10, <2>1
  <2>3. k < end
    <3> SUFFICES ASSUME ~ k < end
                 PROVE  FALSE
      OBVIOUS
    <3>1. end \in 1 .. n /\ end <= k
      BY <1>6, <2>2
    <3>2. Newline(message[start + end - 1])
      <4>1. Newline(left[end])
        BY <1>6, <3>1
      <4> QED
        BY <1>5, <3>1, <4>1
    <3>3. start + end - 1 \in start .. start + k - 1
      BY <1>1, <2>2, <3>1
    <3> QED
      BY <2>1, <3>2, <3>3
  <2>4. k \in Nat /\ 1 <= k /\ k < LineSize
    BY <1>7, <2>1
  <2>5. k <= w
    BY <1>8, <2>3, <2>4
  <2> QED
    BY <2>4, <2>5
<1>13. K = 1 .. w
  <2> HIDE DEF K
  <2>1. K \subseteq 1 .. w
    BY <1>12
  <2>2. 1 .. w \subseteq K
    BY <1>11
  <2> QED
    BY <2>1, <2>2
<1> HIDE DEF K, In
<1>14. LineAt(start) = [k \in 1 .. w |-> message[start + k - 1]]
  BY <1>9, <1>13
<1>15. PICK text : text = SubSeq(left, 1, w)
  OBVIOUS
<1>16. /\ text \in Seq(chars) /\ Len(text) = w
       /\ \A k \in 1 .. w : text[k] = left[k]
  <2>1. w <= Len(left)
    BY <1>5, <1>8
  <2> QED
    BY <1>5, <1>15, <2>1, PrefixIs
<1>17. text = [k \in 1 .. w |-> message[start + k - 1]]
  <2>1. text = [k \in 1 .. w |-> text[k]]
    BY <1>16
  <2>2. \A k \in 1 .. w : k \in 1 .. n
    BY <1>3, <1>8
  <2>3. \A k \in 1 .. w : text[k] = message[start + k - 1]
    BY <1>5, <1>16, <2>2
  <2> QED
    BY <2>1, <2>3
<1>18. LineAt(start) = text
  BY <1>14, <1>17
<1> QED
  BY <1>4, <1>8, <1>15, <1>16, <1>18 DEF IsText

(* How far down an entry leads.                                            *)
EntryIsGap(k) == Page[k] = Gap

LEMMA PageTopIs ==
  /\ PageTop(0) = 20
  /\ \A k \in Nat : PageTop(k) \in Nat
  /\ \A k \in Nat :
       PageTop(k + 1) = PageTop(k) + (IF EntryIsGap(k + 1) THEN charsize
                                      ELSE charsize + 2)
<1>1. charsize \in Nat
  BY PanicAssumption
<1> DEFINE Printing(k) == {j \in 1 .. k : ~ EntryIsGap(j)}
           Count(k) == Cardinality(Printing(k))
<1>2. ASSUME NEW k \in Nat
      PROVE  /\ IsFiniteSet(Printing(k)) /\ Count(k) \in Nat /\ Count(k) <= k
             /\ PageTop(k) = 20 + Count(k) * (charsize + 2)
                                + (k - Count(k)) * charsize
  <2>1. IsFiniteSet(1 .. k) /\ Cardinality(1 .. k) = k
    <3>1. 1 \in Int /\ k \in Int /\ k - 1 + 1 = k /\ (1 > k => k = 0)
      OBVIOUS
    <3>2. /\ IsFiniteSet(1 .. k)
          /\ Cardinality(1 .. k) = IF 1 > k THEN 0 ELSE k - 1 + 1
      BY <3>1, FS_Interval
    <3> QED
      BY <3>1, <3>2
  <2>2. Printing(k) \subseteq 1 .. k
    OBVIOUS
  <2>3. /\ IsFiniteSet(Printing(k)) /\ Count(k) <= k
    BY <2>1, <2>2, FS_Subset
  <2>4. Count(k) \in Nat
    BY <2>3, FS_CardinalityType
  <2>5. PageTop(k) = 20 + Count(k) * (charsize + 2) + (k - Count(k)) * charsize
    BY DEF PageTop, EntryIsGap
  <2> QED
    BY <2>3, <2>4, <2>5
<1>3. PageTop(0) = 20
  <2>1. Printing(0) = {}
    OBVIOUS
  <2>2. Count(0) = 0
    BY <2>1, FS_EmptySet
  <2> HIDE DEF Count
  <2>3. PageTop(0) = 20 + Count(0) * (charsize + 2) + (0 - Count(0)) * charsize
    BY <1>2
  <2> QED
    BY <1>1, <2>2, <2>3
<1>4. ASSUME NEW k \in Nat
      PROVE  PageTop(k) \in Nat
  <2>1. PICK c \in Nat : c = Count(k) /\ c <= k
    BY <1>2
  <2>2. PICK d \in Nat : d = k - c
    BY <2>1
  <2>3. c * (charsize + 2) \in Nat /\ d * charsize \in Nat
    BY <1>1
  <2>4. PageTop(k) = 20 + c * (charsize + 2) + d * charsize
    BY <1>2, <2>1, <2>2
  <2> QED
    BY <2>3, <2>4
<1>5. ASSUME NEW k \in Nat
      PROVE  PageTop(k + 1) = PageTop(k) + (IF EntryIsGap(k + 1) THEN charsize
                                            ELSE charsize + 2)
  <2>1. PICK c \in Nat : c = Count(k) /\ c <= k
    BY <1>2
  <2>2. PICK d \in Nat : d = k - c
    BY <2>1
  <2>3. PageTop(k) = 20 + c * (charsize + 2) + d * charsize
    BY <1>2, <2>1, <2>2
  <2>4. k + 1 \in Nat
    OBVIOUS
  <2>5. PICK e \in Nat : e = Count(k + 1)
    BY <1>2, <2>4
  <2>6. PageTop(k + 1) = 20 + e * (charsize + 2) + (k + 1 - e) * charsize
    BY <1>2, <2>4, <2>5
  <2>7. CASE EntryIsGap(k + 1)
    <3>1. Printing(k + 1) = Printing(k)
      BY <2>7
    <3>2. e = c /\ k + 1 - e = d + 1
      BY <2>1, <2>2, <2>5, <3>1
    <3>3. PageTop(k + 1) = 20 + c * (charsize + 2) + (d + 1) * charsize
      BY <2>6, <3>2
    <3>4. (d + 1) * charsize = d * charsize + charsize
      BY <1>1
    <3>5. PICK a \in Nat : a = c * (charsize + 2)
      BY <1>1
    <3>6. PICK b \in Nat : b = d * charsize
      BY <1>1
    <3> QED
      BY <1>1, <2>3, <2>7, <3>3, <3>4, <3>5, <3>6
  <2>8. CASE ~ EntryIsGap(k + 1)
    <3>1. Printing(k + 1) = Printing(k) \cup {k + 1} /\ k + 1 \notin Printing(k)
      BY <2>8
    <3>2. e = c + 1
      <4>1. IsFiniteSet(Printing(k))
        BY <1>2
      <4>2. Cardinality(Printing(k) \cup {k + 1}) = Cardinality(Printing(k)) + 1
        BY <3>1, <4>1, FS_AddElement
      <4> QED
        BY <2>1, <2>5, <3>1, <4>2
    <3>3. k + 1 - e = d
      BY <2>1, <2>2, <3>2
    <3>4. PageTop(k + 1) = 20 + (c + 1) * (charsize + 2) + d * charsize
      BY <2>6, <3>2, <3>3
    <3>5. (c + 1) * (charsize + 2) = c * (charsize + 2) + charsize + 2
      BY <1>1
    <3>6. PICK a \in Nat : a = c * (charsize + 2)
      BY <1>1
    <3>7. PICK b \in Nat : b = d * charsize
      BY <1>1
    <3> QED
      BY <1>1, <2>3, <2>8, <3>4, <3>5, <3>6, <3>7
  <2> QED
    BY <2>7, <2>8
<1> QED
  BY <1>3, <1>4, <1>5

(* A line that Trigger has given to println.                               *)
StandsAt(text, top) ==
  \E n \in DOMAIN lines :
    lines[n] = [x |-> centerX(text), y |-> top, text |-> text]

LineTop(start) == PageTop(27) + Above(start) * (charsize + 2)

Stands(start) == StandsAt(LineAt(start), LineTop(start))

(* The message is printed up to there.                                     *)
PrintedTo(start) ==
  /\ rest = SubSeq(message, start, Len(message))
  /\ y = LineTop(start)
  /\ \A s \in Starts : s < start => Stands(s)

ShownInv ==
  /\ stage = "header" => rest = message /\ y = PageTop(at)
  /\ stage = "message" /\ message # <<>> => \E start \in Starts : PrintedTo(start)
  /\ stage = "halted" /\ message # <<>> => \A s \in Starts : Stands(s)

LEMMA SamePage ==
  ASSUME framebuffer' = framebuffer, message' = message, type' = type
  PROVE  /\ Starts' = Starts
         /\ \A k : PageTop(k)' = PageTop(k)
         /\ \A s : LineAt(s)' = LineAt(s)
         /\ \A s : LineTop(s)' = LineTop(s)
         /\ \A text : centerX(text)' = centerX(text)
<1>1. Page' = Page
  BY DEF Page
<1>2. \A k : PageTop(k)' = PageTop(k)
  BY <1>1 DEF PageTop
<1>3. Starts' = Starts
  BY DEF Starts
<1>4. \A s : Above(s)' = Above(s)
  BY <1>3 DEF Above
<1>5. \A s : LineAt(s)' = LineAt(s)
  BY DEF LineAt
<1>6. \A s : LineTop(s)' = LineTop(s)
  BY <1>2, <1>4 DEF LineTop
<1>7. \A text : centerX(text)' = centerX(text)
  BY DEF centerX
<1> QED
  BY <1>2, <1>3, <1>5, <1>6, <1>7

LEMMA StandsOn ==
  ASSUME framebuffer' = framebuffer, message' = message, type' = type,
         IsText(lines), NEW line, lines' = Append(lines, line)
  PROVE  /\ \A s : Stands(s) => Stands(s)'
         /\ \A s : line = [x |-> centerX(LineAt(s)), y |-> LineTop(s),
                           text |-> LineAt(s)] => Stands(s)'
<1>1. PICK all : all = lines'
  OBVIOUS
<1>2. PICK n \in Nat : n = Len(lines)
  BY AddIs
<1>3. /\ DOMAIN all = 1 .. n + 1 /\ DOMAIN lines = 1 .. n
      /\ \A k \in 1 .. n : all[k] = lines[k]
      /\ all[n + 1] = line
  BY <1>1, <1>2, AddIs
<1>4. \A s : LineAt(s)' = LineAt(s) /\ LineTop(s)' = LineTop(s)
  BY SamePage
<1>5. \A text : centerX(text)' = centerX(text)
  BY SamePage
<1>6. \A text, top : StandsAt(text, top) => StandsAt(text, top)'
  <2> SUFFICES ASSUME NEW text, NEW top, StandsAt(text, top)
               PROVE  StandsAt(text, top)'
    OBVIOUS
  <2>1. PICK k \in DOMAIN lines :
          lines[k] = [x |-> centerX(text), y |-> top, text |-> text]
    BY DEF StandsAt
  <2>2. k \in DOMAIN all /\ all[k] = lines[k]
    BY <1>3, <2>1
  <2> QED
    BY <1>1, <1>5, <2>1, <2>2 DEF StandsAt
<1>7. \A text, top : line = [x |-> centerX(text), y |-> top, text |-> text]
                       => StandsAt(text, top)'
  <2>1. n + 1 \in DOMAIN all
    BY <1>3
  <2> QED
    BY <1>1, <1>3, <1>5, <2>1 DEF StandsAt
<1>8. ASSUME NEW s, Stands(s)
      PROVE  Stands(s)'
  <2>1. PICK text : text = LineAt(s)
    OBVIOUS
  <2>2. PICK top : top = LineTop(s)
    OBVIOUS
  <2>3. StandsAt(text, top)'
    BY <1>6, <1>8, <2>1, <2>2 DEF Stands
  <2>4. LineAt(s)' = text /\ LineTop(s)' = top
    BY <1>4, <2>1, <2>2
  <2> QED
    BY <2>3, <2>4 DEF Stands, StandsAt, centerX
<1>9. ASSUME NEW s, line = [x |-> centerX(LineAt(s)), y |-> LineTop(s),
                            text |-> LineAt(s)]
      PROVE  Stands(s)'
  <2>1. PICK text : text = LineAt(s)
    OBVIOUS
  <2>2. PICK top : top = LineTop(s)
    OBVIOUS
  <2>3. StandsAt(text, top)'
    BY <1>7, <1>9, <2>1, <2>2
  <2>4. LineAt(s)' = text /\ LineTop(s)' = top
    BY <1>4, <2>1, <2>2
  <2> QED
    BY <2>3, <2>4 DEF Stands, StandsAt, centerX
<1> QED
  BY <1>8, <1>9

LEMMA TriggerShows ==
  ASSUME PanicInv, NEW panicType, NEW info, Trigger(panicType, info)
  PROVE  ShownInv'
<1>1. /\ stage = "running" /\ stage' = "header" /\ message' = info /\ rest' = info
      /\ y' = 20 /\ at' = at
  BY DEF Trigger
<1>2. at' = 0
  BY <1>1 DEF PanicInv, PageHolds
<1>3. PageTop(0)' = 20
  <2>1. {k \in 1 .. 0 : Page[k] # Gap}' = {}
    OBVIOUS
  <2>2. charsize \in Nat /\ 0 * (charsize + 2) = 0 /\ (0 - 0) * charsize = 0
    BY PanicAssumption
  <2>3. PageTop(0)' = 20 + 0 * (charsize + 2) + (0 - 0) * charsize
    BY <2>1, FS_EmptySet DEF PageTop
  <2> QED
    BY <2>2, <2>3
<1>4. PageTop(at)' = 20
  BY <1>2, <1>3 DEF PageTop
<1> QED
  BY <1>1, <1>4 DEF ShownInv

LEMMA PrintHeaderShows ==
  ASSUME PanicInv, ShownInv, PrintHeader
  PROVE  ShownInv'
<1>1. /\ stage = "header" /\ at' = at + 1
      /\ stage' = IF at + 1 = Len(Page) THEN "message" ELSE "header"
      /\ framebuffer' = framebuffer /\ message' = message /\ rest' = rest
      /\ type' = type
      /\ y' = y + (IF EntryIsGap(at + 1) THEN charsize ELSE charsize + 2)
  <2>1. y \in Nat /\ charsize \in Nat
    BY PanicAssumption DEF PanicInv, LinesHold
  <2>2. y' = IF EntryIsGap(at + 1) THEN y + charsize ELSE y + charsize + 2
    BY DEF PrintHeader, EntryIsGap, printlnCentered
  <2>3. y' = y + (IF EntryIsGap(at + 1) THEN charsize ELSE charsize + 2)
    BY <2>1, <2>2
  <2> QED
    BY <2>3 DEF PrintHeader
<1>2. at \in 0 .. 26 /\ rest = message /\ y = PageTop(at)
  BY <1>1 DEF PanicInv, PageHolds, ShownInv
<1>3. y' = PageTop(at + 1)
  <2>1. PICK k \in Nat : k = at
    BY <1>2
  <2>2. y' = PageTop(k) + (IF EntryIsGap(k + 1) THEN charsize ELSE charsize + 2)
    BY <1>1, <1>2, <2>1
  <2>3. PageTop(k + 1)
          = PageTop(k) + (IF EntryIsGap(k + 1) THEN charsize ELSE charsize + 2)
    BY PageTopIs
  <2> QED
    BY <2>1, <2>2, <2>3
<1>4. Starts' = Starts /\ \A k : PageTop(k)' = PageTop(k)
  BY <1>1, SamePage
<1>5. y' = PageTop(at)'
  <2>1. PICK k : k = at + 1
    OBVIOUS
  <2>2. PageTop(k)' = PageTop(k)
    BY <1>4
  <2> QED
    BY <1>1, <1>3, <2>1, <2>2 DEF PageTop
<1>6. CASE at + 1 = 27
  <2>1. stage' = "message"
    BY <1>1, <1>6, PageIs
  <2>2. IsText(message)
    BY DEF PanicInv, MessageHolds
  <2>3. PICK n \in Nat : n = Len(message)
    BY <2>2 DEF IsText
  <2>4. 1 \in Starts /\ Above(1) = 0 /\ Starts \subseteq 1 .. n + 1
    BY <2>2, <2>3, StartsAre
  <2>5. y' = LineTop(1)
    <3>1. y' = PageTop(27) /\ PageTop(27) \in Nat
      BY <1>3, <1>6, PageTopIs
    <3>2. charsize \in Nat
      BY PanicAssumption
    <3>3. 0 * (charsize + 2) = 0
      BY <3>2
    <3> QED
      BY <2>4, <3>1, <3>3 DEF LineTop
  <2>6. SubSeq(message, 1, n) = message
    <3>1. PICK chars : message \in Seq(chars)
      BY <2>2 DEF IsText
    <3>2. PICK whole : whole = message
      OBVIOUS
    <3>3. whole \in Seq(chars) /\ Len(whole) = n
      BY <2>3, <3>1, <3>2
    <3>4. SubSeq(whole, 1, n) = whole
      BY <3>3
    <3> QED
      BY <3>2, <3>4
  <2>7. rest' = SubSeq(message, 1, Len(message))'
    BY <1>1, <1>2, <2>3, <2>6
  <2>8. \A s \in Starts : ~ s < 1
    BY <2>4
  <2>9. LineTop(1)' = LineTop(1)
    BY <1>1, SamePage
  <2>10. PrintedTo(1)'
    BY <1>4, <2>5, <2>7, <2>8, <2>9 DEF PrintedTo
  <2> QED
    BY <1>4, <2>1, <2>4, <2>10 DEF ShownInv
<1>7. CASE at + 1 # 27
  <2>1. stage' = "header"
    BY <1>1, <1>7, PageIs
  <2> QED
    BY <1>1, <1>2, <1>5, <2>1 DEF ShownInv
<1> QED
  BY <1>6, <1>7

LEMMA PrintMessageLineShows ==
  ASSUME PanicInv, ShownInv, PrintMessageLine
  PROVE  ShownInv'
<1>1. /\ stage = "message" /\ message # <<>>
      /\ rest' = SubSeq(rest, LineEnd + 1, Len(rest))
      /\ stage' = IF LineEnd > Len(rest) THEN "halted" ELSE "message"
      /\ framebuffer' = framebuffer /\ message' = message /\ type' = type
  BY DEF PrintMessageLine
<1>2. IsText(message) /\ IsText(lines) /\ y \in Nat /\ charsize \in Nat
  BY PanicAssumption DEF PanicInv, MessageHolds, LinesHold
<1>3. PICK M \in Nat : M = Len(message)
  BY <1>2 DEF IsText
<1>4. PICK start \in Starts : PrintedTo(start)
  BY <1>1 DEF ShownInv
<1>5. /\ rest = SubSeq(message, start, M)
      /\ y = LineTop(start)
      /\ \A s \in Starts : s < start => Stands(s)
  BY <1>3, <1>4 DEF PrintedTo
<1>6. PICK text : text = LineAt(start)
  OBVIOUS
<1>7. SubSeq(rest, 1, Min({LineEnd, LineSize}) - 1) = text
  BY <1>2, <1>3, <1>5, <1>6, TextTaken
<1>8. PICK line : line = [x |-> centerX(text), y |-> y, text |-> text]
  OBVIOUS
<1>9. lines' = Append(lines, line) /\ y' = y + charsize + 2
  BY <1>7, <1>8 DEF PrintMessageLine, printlnCentered
<1>10. Stands(start)'
  <2>1. line = [x |-> centerX(LineAt(start)), y |-> LineTop(start),
                text |-> LineAt(start)]
    BY <1>5, <1>6, <1>8
  <2> QED
    BY <1>1, <1>2, <1>9, <2>1, StandsOn
<1>11. \A s \in Starts : s < start => Stands(s)'
  BY <1>1, <1>2, <1>5, <1>9, StandsOn
<1>12. \A s \in Starts : s <= start => Stands(s)'
  <2> SUFFICES ASSUME NEW s \in Starts, s <= start
               PROVE  Stands(s)'
    OBVIOUS
  <2>1. s \in Nat /\ start \in Nat
    BY <1>2, <1>3, StartsAre
  <2>2. s = start \/ s < start
    BY <2>1
  <2> QED
    BY <1>10, <1>11, <2>2
<1>13. PICK end : end = LineEnd
  OBVIOUS
<1>14. /\ Len(rest) = M - start + 1
       /\ end \in 1 .. (M - start + 1) + 1
       /\ \A s \in Starts : s <= start \/ start + end <= s
       /\ end > Len(rest) => \A s \in Starts : s <= start
       /\ end <= Len(rest) =>
            /\ start + end \in Starts
            /\ Above(start + end) = Above(start) + 1
            /\ SubSeq(rest, end + 1, Len(rest)) = SubSeq(message, start + end, M)
  BY <1>2, <1>3, <1>5, <1>13, LineTaken
<1>15. start \in 1 .. M + 1
  BY <1>2, <1>3, StartsAre
<1>16. Starts' = Starts /\ \A s : LineTop(s)' = LineTop(s)
  BY <1>1, SamePage
<1>17. CASE end > Len(rest)
  <2>1. stage' = "halted"
    BY <1>1, <1>13, <1>17
  <2>2. \A s \in Starts' : Stands(s)'
    BY <1>12, <1>14, <1>16, <1>17
  <2> QED
    BY <2>1, <2>2 DEF ShownInv
<1>18. CASE ~ end > Len(rest)
  <2>1. stage' = "message"
    BY <1>1, <1>13, <1>18
  <2>2. end <= Len(rest)
    BY <1>14, <1>15, <1>18
  <2>3. PICK next : next = start + end
    OBVIOUS
  <2>4. next \in Starts /\ Above(next) = Above(start) + 1
    BY <1>14, <2>2, <2>3
  <2>5. rest' = SubSeq(message, next, M)
    BY <1>1, <1>13, <1>14, <2>2, <2>3
  <2>6. LineTop(next) = LineTop(start) + charsize + 2
    <3>1. PICK a \in Nat : a = Above(start)
      BY <1>2, <1>3, StartsAre
    <3>2. PICK b \in Nat : b = PageTop(27)
      BY PageTopIs
    <3>3. LineTop(next) = b + (a + 1) * (charsize + 2)
      BY <2>4, <3>1, <3>2 DEF LineTop
    <3>4. LineTop(start) = b + a * (charsize + 2)
      BY <3>1, <3>2 DEF LineTop
    <3>5. (a + 1) * (charsize + 2) = a * (charsize + 2) + charsize + 2
      BY <1>2
    <3>6. PICK d \in Nat : d = a * (charsize + 2)
      BY <1>2
    <3> QED
      BY <1>2, <3>3, <3>4, <3>5, <3>6
  <2>7. y' = LineTop(next)
    BY <1>5, <1>9, <2>6
  <2>8. \A s \in Starts : s < next => Stands(s)'
    <3> SUFFICES ASSUME NEW s \in Starts, s < next
                 PROVE  Stands(s)'
      OBVIOUS
    <3>1. s \in Nat /\ next \in Nat
      BY <1>2, <1>3, <2>4, StartsAre
    <3>2. ~ next <= s
      BY <3>1
    <3>3. s <= start \/ next <= s
      BY <1>14, <2>3
    <3>4. s <= start
      BY <3>2, <3>3
    <3> QED
      BY <1>12, <3>4
  <2>9. PrintedTo(next)'
    <3>1. rest' = SubSeq(message, next, Len(message))'
      BY <1>1, <1>3, <2>5
    <3>2. LineTop(next)' = LineTop(next)
      BY <1>16
    <3> QED
      BY <1>16, <2>7, <2>8, <3>1, <3>2 DEF PrintedTo
  <2> QED
    BY <1>16, <2>1, <2>4, <2>9 DEF ShownInv
<1> QED
  BY <1>17, <1>18

LEMMA StutterShows ==
  ASSUME ShownInv, UNCHANGED vars
  PROVE  ShownInv'
<1>1. /\ framebuffer' = framebuffer /\ message' = message /\ type' = type
      /\ rest' = rest /\ at' = at /\ y' = y /\ lines' = lines /\ stage' = stage
  BY DEF vars
<1>2. /\ Starts' = Starts
      /\ \A k : PageTop(k)' = PageTop(k)
      /\ \A s : LineAt(s)' = LineAt(s)
      /\ \A s : LineTop(s)' = LineTop(s)
      /\ \A text : centerX(text)' = centerX(text)
  BY <1>1, SamePage
<1>3. \A s : Stands(s)' <=> Stands(s)
  BY <1>1, <1>2 DEF Stands, StandsAt, centerX
<1>4. \A s : PrintedTo(s)' <=> PrintedTo(s)
  BY <1>1, <1>2, <1>3 DEF PrintedTo
<1>5. PageTop(at)' = PageTop(at)
  BY <1>1, <1>2 DEF PageTop, Page
<1> QED
  BY <1>1, <1>2, <1>3, <1>4, <1>5 DEF ShownInv

LEMMA NextShows == PanicInv /\ ShownInv /\ [Next]_vars => ShownInv'
<1> SUFFICES ASSUME PanicInv, ShownInv, [Next]_vars
             PROVE  ShownInv'
  OBVIOUS
<1>1. ASSUME NEW value \in Numbers, NameByHex(value)
      PROVE  ShownInv'
  BY <1>1 DEF NameByHex, ShownInv
<1>2. ASSUME NEW value \in Numbers, PageFault_handler(value)
      PROVE  ShownInv'
  BY <1>2, TriggerShows DEF PageFault_handler
<1>3. CASE GPFault_handler
  BY <1>3, TriggerShows DEF GPFault_handler
<1>4. CASE DoubleFault_handler
  BY <1>4, TriggerShows DEF DoubleFault_handler
<1>5. ASSUME NEW info \in Messages, OtherTrigger(info)
      PROVE  ShownInv'
  BY <1>5, TriggerShows DEF OtherTrigger
<1>6. CASE PrintHeader
  BY <1>6, PrintHeaderShows
<1>7. CASE PrintMessageLine
  BY <1>7, PrintMessageLineShows
<1>8. CASE PrintNoInfo
  BY <1>8 DEF PrintNoInfo, ShownInv
<1>9. CASE Halted
  BY <1>9, StutterShows DEF Halted
<1>10. CASE UNCHANGED vars
  BY <1>10, StutterShows
<1> QED
  BY <1>1, <1>2, <1>3, <1>4, <1>5, <1>6, <1>7, <1>8, <1>9, <1>10 DEF Next

(* Where a text that fits is put, no difference is below zero.             *)
LEMMA CenterFits ==
  ASSUME framebuffer \in Screens, NEW text, IsText(text), 8 * Len(text) <= Stride
  PROVE  centerX(text) = (Stride - 8 * Len(text)) \div 2
<1>1. /\ Stride \in Nat /\ FONT_WIDTH = 8 /\ 2 * Stride < Word /\ Word \in Nat
  BY ScreenIs
<1>2. PICK n \in Nat : n = Len(text)
  BY DEF IsText
<1>3. PICK a \in Nat : a = Stride - 8 * n /\ a = Stride - n * 8 /\ a < Word
  <2>1. PICK m \in Nat : m = 8 * n /\ m = n * 8
    BY <1>2
  <2>2. m <= Stride
    BY <1>2, <2>1
  <2>3. Stride - m \in Nat /\ Stride - m < Word
    BY <1>1, <2>1, <2>2
  <2> QED
    BY <2>1, <2>3
<1>4. a % Word = a
  BY <1>3, ModBelow
<1>5. centerX(text) = (a % Word) \div 2
  BY <1>1, <1>2, <1>3 DEF centerX, Stride
<1> QED
  BY <1>2, <1>3, <1>4, <1>5

(* A line that fits and is high enough is on the screen, glyph by glyph.   *)
LEMMA LineOnScreen ==
  ASSUME framebuffer \in Screens, NEW line, LineHolds(line), FitsWidth(line.text),
         line.y + charsize <= framebuffer.Height,
         NEW i \in DOMAIN line.text, ~ Narrow(line.text[i])
  PROVE  GlyphAt(RowsOf(line), line.x + 8 * (i - 1), line.y, line.text[i])
<1>1. /\ line.x \in Nat /\ line.y \in Nat /\ Held(line.text)
      /\ line.y + charsize * Len(line.text) < Word
      /\ 8 * Len(line.text) <= Stride => line.x + 8 * Len(line.text) <= Stride
  BY DEF LineHolds
<1>2. \A k \in DOMAIN line.text : line.text[k] # "\n"
  BY DEF LineHolds
<1>3. \A k \in DOMAIN line.text : line.text[k] \notin {"\t", "\r"}
  BY DEF FitsWidth, Plain
<1>4. \A k \in DOMAIN line.text : IsBlank(line.text[k]) => line.text[k] = " "
  BY <1>2, <1>3 DEF IsBlank, Blanks
<1>5. Narrowly(line.text)
  BY <1>4 DEF Narrowly, Narrow, BlanksOf, IsBlank
<1>6. ~ IsBlank(line.text[i])
  BY <1>4 DEF Narrow
<1>7. line.x + 8 * Len(line.text) <= Stride
  <2>1. 8 * Len(line.text) <= Stride
    BY ScreenIs DEF FitsWidth, Stride
  <2> QED
    BY <1>1, <2>1
<1>8. line.y < Word
  <2>1. PICK a \in Nat : a = charsize * Len(line.text)
    <3>1. PICK n \in Nat : n = Len(line.text)
      BY <1>1 DEF Held, IsText
    <3>2. charsize * n \in Nat
      BY ScreenIs
    <3> QED
      BY <3>1, <3>2
  <2>2. Word \in Nat
    BY ScreenIs
  <2> QED
    BY <1>1, <2>1, <2>2
<1>9. PICK text : text = line.text
  OBVIOUS
<1>10. PICK x0 : x0 = line.x
  OBVIOUS
<1>11. PICK top : top = line.y
  OBVIOUS
<1>12. Placed(x0, top, text)
  BY <1>1, <1>7, <1>8, <1>9, <1>10, <1>11 DEF Placed, Held
<1>13. Narrowly(text) /\ i \in DOMAIN text /\ ~ IsBlank(text[i])
  BY <1>5, <1>6, <1>9
<1>14. GlyphAt(prints([x |-> x0, y |-> top], text), x0 + 8 * (i - 1), top, text[i])
  BY <1>12, <1>13, LineShown
<1>15. RowsOf(line) = prints([x |-> x0, y |-> top], text)
  BY <1>9, <1>10, <1>11 DEF RowsOf
<1> QED
  BY <1>9, <1>10, <1>11, <1>14, <1>15

(* Lines are far enough apart: a line below draws below, and one above     *)
(* that fits draws above.                                                  *)
LEMMA AloneInItsPlace ==
  ASSUME PanicInv, NEW k \in DOMAIN lines, NEW top, lines[k].y = top,
         \A n \in DOMAIN lines : lines[n].y < top => FitsWidth(lines[n].text)
  PROVE  StandsAlone(top)
<1> SUFFICES ASSUME NEW n \in DOMAIN lines \ {k}, NEW row \in RowsOf(lines[n])
             PROVE  row.y + charsize <= top \/ top + charsize <= row.y
  BY DEF StandsAlone
<1>1. framebuffer \in Screens /\ DOMAIN lines = 1 .. Len(lines) /\ Len(lines) \in Nat
  BY DEF PanicInv, LinesHold, IsText
<1>2. charsize \in Nat
  BY PanicAssumption
<1>3. PICK a : a = lines[n]
  OBVIOUS
<1>4. LineHolds(a) /\ LineHolds(lines[k])
  BY <1>3 DEF PanicInv, LinesHold
<1>5. a.y \in Nat /\ top \in Nat
  BY <1>4 DEF LineHolds
<1>6. /\ row.y \in Nat /\ a.y <= row.y
      /\ FitsWidth(a.text) => row.y = a.y
  BY <1>1, <1>3, <1>4, LineDraws
<1>7. CASE n < k
  <2>1. a.y + charsize + 2 <= top
    <3>1. n \in 1 .. k - 1
      BY <1>1, <1>7
    <3> QED
      BY <1>3, <3>1 DEF PanicInv, LinesHold
  <2>2. a.y < top
    BY <1>2, <1>5, <2>1
  <2>3. row.y = a.y
    BY <1>3, <1>6, <2>2
  <2> QED
    BY <1>2, <1>5, <2>1, <2>3
<1>8. CASE k < n
  <2>1. top + charsize + 2 <= a.y
    <3>1. k \in 1 .. n - 1
      BY <1>1, <1>8
    <3> QED
      BY <1>3, <3>1 DEF PanicInv, LinesHold
  <2> QED
    BY <1>2, <1>5, <1>6, <2>1
<1> QED
  BY <1>1, <1>7, <1>8

(* When a panic has halted, its whole message is on the screen: each line  *)
(* that has its place stands there glyph by glyph, whatever the message,   *)
(* the font, the screen and the size of the line buffer, and when no line  *)
(* further up is wider than the screen nothing else is drawn into it.      *)
THEOREM MessageStandsThere == Spec => [](stage = "halted" => MessageShown)
<1>1. Init => ShownInv
  BY DEF Init, ShownInv
<1>2. PanicInv /\ ShownInv /\ stage = "halted" => MessageShown
  <2> SUFFICES ASSUME PanicInv, ShownInv, stage = "halted", message # <<>>,
                      NEW start \in Starts, FitsWidth(LineAt(start)),
                      PageTop(Len(Page)) + Above(start) * (charsize + 2) + charsize
                        <= framebuffer.Height
               PROVE  /\ \A i \in DOMAIN LineAt(start) : ~ Narrow(LineAt(start)[i]) =>
                           GlyphAt(UNION {RowsOf(lines[k]) : k \in DOMAIN lines},
                              ((framebuffer.PixelsPerScanLine
                                  - FONT_WIDTH * Len(LineAt(start))) \div 2)
                                + FONT_WIDTH * (i - 1),
                              PageTop(Len(Page)) + Above(start) * (charsize + 2),
                              LineAt(start)[i])
                      /\ (\A n \in DOMAIN lines :
                            lines[n].y < PageTop(Len(Page))
                                           + Above(start) * (charsize + 2)
                              => FitsWidth(lines[n].text))
                           => StandsAlone(PageTop(Len(Page))
                                            + Above(start) * (charsize + 2))
    BY Zenon DEF MessageShown, Narrow
  <2>1. PICK text : text = LineAt(start)
    OBVIOUS
  <2>2. PICK top : top = LineTop(start)
    OBVIOUS
  <2>3. PageTop(Len(Page)) + Above(start) * (charsize + 2) = top
    BY <2>2, PageIs DEF LineTop
  <2>4. PICK k \in DOMAIN lines :
          lines[k] = [x |-> centerX(text), y |-> top, text |-> text]
    BY <2>1, <2>2 DEF ShownInv, Stands, StandsAt
  <2>5. PICK line : line = lines[k]
    OBVIOUS
  <2>6. line.x = centerX(text) /\ line.y = top /\ line.text = text
    BY <2>4, <2>5
  <2>7. LineHolds(line) /\ framebuffer \in Screens
    BY <2>5 DEF PanicInv, LinesHold
  <2>8. FitsWidth(text)
    BY <2>1
  <2>9. top + charsize <= framebuffer.Height
    BY <2>3
  <2>10. centerX(text)
           = (framebuffer.PixelsPerScanLine - FONT_WIDTH * Len(text)) \div 2
    <3>1. IsText(text) /\ FONT_WIDTH = 8
      BY <2>6, <2>7, ScreenIs DEF LineHolds, Held
    <3>2. 8 * Len(text) <= Stride
      BY <2>8, <3>1 DEF FitsWidth, Stride
    <3>3. centerX(text) = (Stride - 8 * Len(text)) \div 2
      BY <2>7, <3>1, <3>2, CenterFits
    <3> QED
      BY <3>1, <3>3 DEF Stride
  <2>11. ASSUME NEW i \in DOMAIN text, ~ Narrow(text[i])
         PROVE  GlyphAt(UNION {RowsOf(lines[n]) : n \in DOMAIN lines},
                        centerX(text) + FONT_WIDTH * (i - 1), top, text[i])
    <3>1. FitsWidth(line.text) /\ line.y + charsize <= framebuffer.Height
      BY <2>6, <2>8, <2>9
    <3>2. i \in DOMAIN line.text /\ ~ Narrow(line.text[i])
      BY <2>6, <2>11
    <3>3. GlyphAt(RowsOf(line), line.x + 8 * (i - 1), line.y, line.text[i])
      BY <2>7, <3>1, <3>2, LineOnScreen
    <3>4. GlyphAt(RowsOf(line), centerX(text) + 8 * (i - 1), top, text[i])
      BY <2>6, <3>3
    <3>5. RowsOf(line) \subseteq UNION {RowsOf(lines[n]) : n \in DOMAIN lines}
      BY <2>5
    <3>6. GlyphAt(UNION {RowsOf(lines[n]) : n \in DOMAIN lines},
                  centerX(text) + 8 * (i - 1), top, text[i])
      BY <3>4, <3>5, Zenon DEF GlyphAt
    <3> QED
      BY <3>6 DEF FONT_WIDTH
  <2>12. (\A n \in DOMAIN lines : lines[n].y < top => FitsWidth(lines[n].text))
           => StandsAlone(top)
    <3>1. lines[k].y = top
      BY <2>5, <2>6
    <3> QED
      BY <3>1, AloneInItsPlace
  <2>13. \A i \in DOMAIN text : ~ Narrow(text[i]) =>
           GlyphAt(UNION {RowsOf(lines[n]) : n \in DOMAIN lines},
                   ((framebuffer.PixelsPerScanLine
                       - FONT_WIDTH * Len(text)) \div 2) + FONT_WIDTH * (i - 1),
                   top, text[i])
    BY <2>10, <2>11
  <2> QED
    BY <2>1, <2>3, <2>12, <2>13
<1> QED
  BY <1>1, <1>2, NextShows, PanicHolds, PTL DEF Spec
===============================================================================
