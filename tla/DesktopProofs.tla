---------------------------- MODULE DesktopProofs ----------------------------
(***************************************************************************)
(* Machine-checked proofs about Desktop for every screen, font, cursor,    *)
(* text and number of interrupts.                                          *)
(***************************************************************************)
EXTENDS Desktop, FiniteSetTheorems, WellFoundedInduction, TLAPS

-----------------------------------------------------------------------------
(* Folds: prints goes through its text by FoldLeft, a recursive function   *)
(* on the sets of positions that are left.                                 *)

(* A set of natural numbers that is not empty has a least element.         *)
LEMMA Least ==
  ASSUME NEW T \in SUBSET Nat, T # {}
  PROVE  \E x \in T : \A y \in T : x <= y
<1> DEFINE less == {ss \in Nat \X Nat : ss[1] < ss[2]}
<1>1. IsWellFoundedOn(less, Nat)
  BY NatLessThanWellFounded DEF OpToRel
<1>2. PICK x \in T : \A y \in T : ~ (<<y, x>> \in less)
  <2> HIDE DEF less
  <2> QED
    BY <1>1, WFMin
<1>3. ASSUME NEW y \in T
      PROVE  x <= y
  <2>1. x \in Nat /\ y \in Nat
    OBVIOUS
  <2>2. ~ (y < x)
    BY <1>2, <2>1
  <2> QED
    BY <2>1, <2>2
<1> QED
  BY <1>3

(* The greatest of the numbers up to n in a nonempty set.                  *)
LEMMA MaxUpTo ==
  ASSUME NEW n \in Nat, NEW S \in SUBSET (1 .. n), S # {}
  PROVE  Max(S) \in S
<1> DEFINE T == {n - x : x \in S}
<1>1. T \in SUBSET Nat /\ T # {}
  <2>1. \A x \in S : n - x \in Nat
    OBVIOUS
  <2> QED
    BY <2>1
<1>2. PICK t \in T : \A y \in T : t <= y
  <2> HIDE DEF T
  <2> QED
    BY <1>1, Least
<1>3. PICK x \in S : t = n - x
  BY <1>2
<1>4. \A y \in S : x >= y
  <2> SUFFICES ASSUME NEW y \in S
               PROVE  x >= y
    OBVIOUS
  <2>1. n - y \in T /\ n - y \in Nat /\ t \in Nat
    BY <1>1
  <2>2. t <= n - y
    BY <1>2, <2>1
  <2>3. x \in Nat /\ y \in Nat
    OBVIOUS
  <2> HIDE DEF T
  <2> QED
    BY <1>3, <2>1, <2>2, <2>3
<1> QED
  BY <1>3, <1>4 DEF Max

(* What prints makes of one character.                                     *)
Character(g, text, i, covered) ==
  IF text[i] = "space" THEN [g EXCEPT !.printPoint.x = @ + CharWidth]
  ELSE Printc(g, covered)

(* f says what is printed when the characters at a set of positions are,   *)
(* for the sets in S.                                                      *)
PrintsBy(S, f, g, text, covered) ==
  f = [s \in S |->
         IF s = {} THEN g
         ELSE Character(f[s \ {Max(s)}], text, Max(s), covered)]

UpTo(k, text) == {s \in SUBSET DOMAIN text : Cardinality(s) <= k}

LEMMA Smaller ==
  ASSUME NEW text, text \in Seq({"letter", "space"}),
         NEW s \in SUBSET DOMAIN text, s # {}
  PROVE  /\ s \ {Max(s)} \in SUBSET DOMAIN text
         /\ Cardinality(s) \in Nat \ {0}
         /\ Cardinality(s \ {Max(s)}) = Cardinality(s) - 1
         /\ Cardinality(s) <= Len(text)
<1> DEFINE n == Len(text)
<1>1. n \in Nat /\ DOMAIN text = 1 .. n
  OBVIOUS
<1> HIDE DEF n
<1>2. Max(s) \in s
  BY <1>1, MaxUpTo
<1>3. IsFiniteSet(1 .. n) /\ Cardinality(1 .. n) = n
  <2>1. Cardinality(1 .. n) = IF 1 > n THEN 0 ELSE n - 1 + 1
    BY <1>1, FS_Interval
  <2> QED
    BY <1>1, <2>1, FS_Interval
<1>4. IsFiniteSet(s) /\ Cardinality(s) <= n
  BY <1>1, <1>3, FS_Subset
<1>5. Cardinality(s) \in Nat /\ Cardinality(s) # 0
  BY <1>4, FS_CardinalityType, FS_EmptySet
<1>6. Cardinality(s \ {Max(s)}) = Cardinality(s) - 1
  BY <1>2, <1>4, FS_RemoveElement
<1> QED
  BY <1>4, <1>5, <1>6 DEF n

LEMMA PrintsNext ==
  ASSUME NEW text, text \in Seq({"letter", "space"}), NEW g, NEW covered,
         NEW k \in Nat, NEW f, PrintsBy(UpTo(k, text), f, g, text, covered)
  PROVE  \E h : PrintsBy(UpTo(k + 1, text), h, g, text, covered)
<1> DEFINE D == UpTo(k + 1, text)
           h == [s \in D |->
                   IF s = {} THEN g
                   ELSE Character(f[s \ {Max(s)}], text, Max(s), covered)]
           H == [s \in D |->
                   IF s = {} THEN g
                   ELSE Character(h[s \ {Max(s)}], text, Max(s), covered)]
<1>1. ASSUME NEW s \in UpTo(k, text)
      PROVE  f[s] = IF s = {} THEN g
                    ELSE Character(f[s \ {Max(s)}], text, Max(s), covered)
  BY DEF PrintsBy
<1>2. ASSUME NEW s \in D, Cardinality(s) <= k
      PROVE  h[s] = f[s]
  <2>1. s \in UpTo(k, text)
    BY <1>2 DEF UpTo
  <2> QED
    BY <1>1, <2>1
<1>3. ASSUME NEW s \in D
      PROVE  h[s] = H[s]
  <2>1. CASE s = {}
    BY <2>1
  <2>2. CASE s # {}
    <3>1. /\ s \ {Max(s)} \in SUBSET DOMAIN text
          /\ Cardinality(s) \in Nat
          /\ Cardinality(s \ {Max(s)}) = Cardinality(s) - 1
      BY <2>2, Smaller DEF UpTo
    <3>2. Cardinality(s) <= k + 1
      BY DEF UpTo
    <3>3. Cardinality(s \ {Max(s)}) <= k
      BY <3>1, <3>2
    <3>4. s \ {Max(s)} \in D
      BY <3>1, <3>2 DEF UpTo
    <3>5. h[s \ {Max(s)}] = f[s \ {Max(s)}]
      <4> HIDE DEF D, h
      <4> QED
        BY <1>2, <3>3, <3>4
    <3>6. h[s] = Character(f[s \ {Max(s)}], text, Max(s), covered)
      BY <2>2
    <3>7. H[s] = Character(h[s \ {Max(s)}], text, Max(s), covered)
      <4> HIDE DEF h
      <4> QED
        BY <2>2
    <3> HIDE DEF D, h, H
    <3> QED
      BY <3>5, <3>6, <3>7
  <2> QED
    BY <2>1, <2>2
<1>4. h = H
  <2>1. h = [s \in D |-> h[s]] /\ H = [s \in D |-> H[s]]
    OBVIOUS
  <2> HIDE DEF h, H, D
  <2> QED
    BY <1>3, <2>1
<1>5. PrintsBy(UpTo(k + 1, text), h, g, text, covered)
  <2>1. h = H
    BY <1>4
  <2> HIDE DEF h
  <2> QED
    BY <2>1 DEF PrintsBy
<1> QED
  BY <1>5

(* The recursion of FoldLeft has a solution, on however long a text.       *)
LEMMA PrintsExists ==
  ASSUME NEW text, text \in Seq({"letter", "space"}), NEW g, NEW covered
  PROVE  \E f : PrintsBy(SUBSET DOMAIN text, f, g, text, covered)
<1> DEFINE T == {k \in Nat : ~ \E f : PrintsBy(UpTo(k, text), f, g, text, covered)}
<1>1. 0 \notin T
  <2> DEFINE f == [s \in {{}} |-> g]
             F == [s \in {{}} |->
                     IF s = {} THEN g
                     ELSE Character(f[s \ {Max(s)}], text, Max(s), covered)]
  <2>1. UpTo(0, text) = {{}}
    <3>1. ASSUME NEW s \in SUBSET DOMAIN text, Cardinality(s) <= 0
          PROVE  s = {}
      <4>1. s # {} => Cardinality(s) \in Nat \ {0}
        BY Smaller
      <4> QED
        BY <3>1, <4>1
    <3>2. Cardinality({}) = 0
      BY FS_EmptySet
    <3> DEFINE D == DOMAIN text
    <3>3. {} \in SUBSET D /\ Cardinality({}) <= 0
      BY <3>2
    <3>4. UpTo(0, text) = {s \in SUBSET D : Cardinality(s) <= 0}
      BY DEF UpTo
    <3>5. \A s \in SUBSET D : Cardinality(s) <= 0 => s = {}
      BY <3>1
    <3> HIDE DEF D
    <3> QED
      BY <3>3, <3>4, <3>5
  <2>2. f = F
    <3>1. F = [s \in {{}} |-> F[s]] /\ f = [s \in {{}} |-> f[s]]
      OBVIOUS
    <3>2. f[{}] = g /\ F[{}] = g
      OBVIOUS
    <3> HIDE DEF f, F
    <3> QED
      BY <3>1, <3>2
  <2>3. PrintsBy(UpTo(0, text), f, g, text, covered)
    <3>1. f = F
      BY <2>2
    <3> HIDE DEF f
    <3> QED
      BY <2>1, <3>1 DEF PrintsBy
  <2> QED
    BY <2>3
<1>2. T = {}
  <2> SUFFICES ASSUME T # {}
               PROVE  FALSE
    OBVIOUS
  <2>1. PICK k \in T : \A y \in T : k <= y
    <3>1. T \in SUBSET Nat
      OBVIOUS
    <3> HIDE DEF T
    <3> QED
      BY <3>1, Least
  <2>2. k \in Nat /\ k # 0
    <3>1. k \in Nat
      OBVIOUS
    <3> HIDE DEF T
    <3> QED
      BY <1>1, <3>1
  <2>3. k - 1 \in Nat /\ k - 1 \notin T
    <3> HIDE DEF T
    <3> QED
      BY <2>1, <2>2
  <2>4. \E f : PrintsBy(UpTo(k - 1, text), f, g, text, covered)
    BY <2>3
  <2> HIDE DEF T
  <2>5. PICK f : PrintsBy(UpTo(k - 1, text), f, g, text, covered)
    BY <2>4
  <2>6. \E h : PrintsBy(UpTo(k - 1 + 1, text), h, g, text, covered)
    BY <2>3, <2>5, PrintsNext
  <2>7. k - 1 + 1 = k
    BY <2>2
  <2>8. \E h : PrintsBy(UpTo(k, text), h, g, text, covered)
    BY <2>6, <2>7
  <2> QED
    BY <2>8 DEF T
<1> DEFINE n == Len(text)
<1>3. n \in Nat
  OBVIOUS
<1>4. \E f : PrintsBy(UpTo(n, text), f, g, text, covered)
  BY <1>2, <1>3
<1>5. UpTo(n, text) = SUBSET DOMAIN text
  <2> DEFINE D == DOMAIN text
  <2>1. ASSUME NEW s \in SUBSET D
        PROVE  Cardinality(s) <= n
    <3>1. s # {} => Cardinality(s) <= n
      BY Smaller
    <3>2. Cardinality({}) <= n
      BY <1>3, FS_EmptySet
    <3> QED
      BY <3>1, <3>2
  <2>2. UpTo(n, text) = {s \in SUBSET D : Cardinality(s) <= n}
    BY DEF UpTo
  <2> HIDE DEF D, n
  <2>3. {s \in SUBSET D : Cardinality(s) <= n} = SUBSET D
    BY <2>1
  <2> QED
    BY <2>2, <2>3 DEF D
<1> QED
  BY <1>4, <1>5

(* So that is what prints does.                                            *)
LEMMA PrintsIs ==
  ASSUME NEW text, text \in Seq({"letter", "space"}), NEW g, NEW covered
  PROVE  \E f : /\ PrintsBy(SUBSET DOMAIN text, f, g, text, covered)
                /\ Prints(g, text, covered) = f[DOMAIN text]
<1>1. \E f : PrintsBy(SUBSET DOMAIN text, f, g, text, covered)
  BY PrintsExists
<1>2. Prints(g, text, covered) =
        (CHOOSE f : PrintsBy(SUBSET DOMAIN text, f, g, text, covered))[DOMAIN text]
  BY Zenon DEF PrintsBy, Character, Prints, FoldLeft, MapThenFoldSet
<1> QED
  BY <1>1, <1>2, Zenon

-----------------------------------------------------------------------------
(* Drawing and printing *)

GL ==
  [screen : [Screen -> Colour], ideal : [Screen -> Colour \ {"cursor"}],
   stale : SUBSET Screen, outside : BOOLEAN, printPoint : [x : Nat, y : Nat]]

(* Each pixel of h is that of g or has been drawn on the screen and on the *)
(* ideal alike, and is stale then exactly if it was covered.               *)
Drawn(g, h, covered) ==
  \A p \in Screen :
    \/ /\ h.screen[p] = g.screen[p]
       /\ h.ideal[p] = g.ideal[p]
       /\ p \in h.stale <=> p \in g.stale
    \/ /\ h.screen[p] = h.ideal[p]
       /\ p \in h.stale <=> p \in covered

(* The print point never moves back.                                       *)
MovesOn(from, to) ==
  \/ to.y > from.y
  \/ to.y = from.y /\ to.x >= from.x

(* What printing does without interruption.                                *)
Printed(g, h, covered) ==
  /\ h \in GL
  /\ Drawn(g, h, covered)
  /\ h.outside = g.outside
  /\ MovesOn(g.printPoint, h.printPoint)

LEMMA DrawDraws ==
  ASSUME NEW g \in GL, NEW pixels, NEW colour \in Colour \ {"cursor"}, NEW covered
  PROVE  LET h == Draw(g, pixels, colour, covered)
         IN  /\ h \in GL
             /\ Drawn(g, h, covered)
             /\ h.outside = g.outside
             /\ h.printPoint = g.printPoint
<1> DEFINE on == pixels \cap Screen
           h == Draw(g, pixels, colour, covered)
           screen == [p \in Screen |-> IF p \in on THEN colour ELSE g.screen[p]]
           ideal == [p \in Screen |-> IF p \in on THEN colour ELSE g.ideal[p]]
           stale == (g.stale \ on) \cup (on \cap covered)
<1>1. /\ g.screen \in [Screen -> Colour]
      /\ g.ideal \in [Screen -> Colour \ {"cursor"}]
      /\ g.stale \in SUBSET Screen
      /\ g.outside \in BOOLEAN
      /\ g.printPoint \in [x : Nat, y : Nat]
  BY DEF GL
<1>2. h = [screen |-> screen, ideal |-> ideal, stale |-> stale,
           outside |-> g.outside, printPoint |-> g.printPoint]
  <2>1. h = [g EXCEPT !.screen = screen, !.ideal = ideal, !.stale = stale]
    BY DEF Draw
  <2> HIDE DEF screen, ideal, stale, h
  <2> QED
    BY <2>1 DEF GL
<1>3. /\ screen \in [Screen -> Colour]
      /\ ideal \in [Screen -> Colour \ {"cursor"}]
      /\ stale \in SUBSET Screen
  BY <1>1
<1>4. \A p \in Screen :
        \/ /\ screen[p] = g.screen[p]
           /\ ideal[p] = g.ideal[p]
           /\ p \in stale <=> p \in g.stale
        \/ /\ screen[p] = ideal[p]
           /\ p \in stale <=> p \in covered
  BY <1>1
<1> HIDE DEF screen, ideal, stale, h
<1>5. h \in GL
  BY <1>1, <1>2, <1>3 DEF GL
<1>6. Drawn(g, h, covered)
  BY <1>2, <1>4 DEF Drawn
<1> QED
  BY <1>2, <1>5, <1>6 DEF h

LEMMA DrawnTwice ==
  ASSUME NEW g, NEW h, NEW k, NEW covered, Drawn(g, h, covered), Drawn(h, k, covered)
  PROVE  Drawn(g, k, covered)
  BY DEF Drawn

LEMMA PrintedTwice ==
  ASSUME NEW g \in GL, NEW h, NEW k, NEW covered,
         Printed(g, h, covered), Printed(h, k, covered)
  PROVE  Printed(g, k, covered)
<1>1. Drawn(g, k, covered)
  BY DrawnTwice DEF Printed
<1>2. /\ g.printPoint \in [x : Nat, y : Nat]
      /\ h.printPoint \in [x : Nat, y : Nat]
      /\ k.printPoint \in [x : Nat, y : Nat]
  BY DEF Printed, GL
<1>3. MovesOn(g.printPoint, k.printPoint)
  BY <1>2 DEF Printed, MovesOn
<1> QED
  BY <1>1, <1>3 DEF Printed

(* Moving the print point on prints nothing.                               *)
LEMMA PointPrinted ==
  ASSUME NEW g \in GL, NEW point \in [x : Nat, y : Nat],
         MovesOn(g.printPoint, point), NEW covered
  PROVE  Printed(g, [g EXCEPT !.printPoint = point], covered)
  BY DEF Printed, Drawn, GL

LEMMA NothingPrinted ==
  ASSUME NEW g \in GL, NEW covered
  PROVE  Printed(g, g, covered)
  BY DEF Printed, Drawn, GL, MovesOn

(* A glyph that fits, and does not wrap, lies on the screen.               *)
LEMMA BoxOnScreen ==
  ASSUME NEW point \in [x : Nat, y : Nat],
         point.x + CharWidth <= Width, Fits(point)
  PROVE  {PixelPointer(p[1], p[2]) : p \in Box(point)} \subseteq Screen
<1> SUFFICES ASSUME NEW p \in Box(point)
             PROVE  PixelPointer(p[1], p[2]) \in Screen
  OBVIOUS
<1> DEFINE a == p[1]
           b == p[2]
<1>1. /\ Width \in Nat \ {0} /\ Height \in Nat \ {0}
      /\ CharWidth \in Nat \ {0} /\ CharSize \in Nat \ {0}
      /\ point.x \in Nat /\ point.y \in Nat
  BY DesktopAssumption
<1>2. /\ a \in point.x .. point.x + CharWidth - 1
      /\ b \in point.y .. point.y + CharSize - 1
  BY DEF Box
<1>3. point.y <= Height - CharSize
  BY DEF Fits
<1> HIDE DEF a, b
<1>4. a \in 0 .. Width - 1 /\ b \in 0 .. Height - 1
  BY <1>1, <1>2, <1>3
<1>5. (a + b * Width) % Width = a /\ (a + b * Width) \div Width = b
  <2> DEFINE w == Width
             m == b * w
             s == a + m
  <2>1. m \in Nat /\ s \in Nat /\ w \in Nat \ {0}
    BY <1>1, <1>4
  <2>2. s = w * (s \div w) + (s % w) /\ s \div w \in Nat /\ s % w \in 0 .. w - 1
    <3> HIDE DEF s, w
    <3> QED
      BY <2>1, SMT
  <2> DEFINE q == s \div w
             r == s % w
  <2>3. w * (q - b) = a - r
    <3>1. w * (q - b) = w * q - w * b /\ w * b = b * w /\ w * q \in Int
      <4> HIDE DEF q, w
      <4>1. q \in Int /\ b \in Int /\ w \in Int
        BY <1>4, <2>1, <2>2 DEF q
      <4> QED
        BY <4>1, SMT
    <3> HIDE DEF q, r
    <3>2. s = w * q + r /\ r \in Int
      BY <2>2 DEF q, r
    <3> HIDE DEF w
    <3> QED
      BY <1>4, <2>1, <3>1, <3>2
  <2>4. q \in Int /\ r \in 0 .. w - 1 /\ a \in 0 .. w - 1
    BY <1>4, <2>2
  <2> HIDE DEF q, r, w
  <2>5. q - b <= 0
    <3>1. q - b >= 1 => w * (q - b) >= w
      BY <1>4, <2>1, <2>4, SMT
    <3> QED
      BY <1>4, <2>1, <2>3, <2>4, <3>1
  <2>6. q - b >= 0
    <3>1. q - b <= -1 => w * (q - b) <= -w
      BY <1>4, <2>1, <2>4, SMT
    <3> QED
      BY <1>4, <2>1, <2>3, <2>4, <3>1
  <2>7. q = b
    BY <1>4, <2>4, <2>5, <2>6
  <2>8. r = a
    <3>1. w * (q - b) = 0
      BY <1>4, <2>1, <2>7
    <3> QED
      BY <2>3, <2>4, <3>1
  <2> QED
    BY <2>7, <2>8 DEF q, r, w
<1> QED
  BY <1>4, <1>5 DEF PixelPointer, Screen, a, b

(* printc goes to a place where its glyph fits the line, and draws it only *)
(* where it fits the screen.                                               *)
LEMMA WrappedFits ==
  ASSUME NEW point \in [x : Nat, y : Nat]
  PROVE  /\ Wrapped(point) \in [x : Nat, y : Nat]
         /\ Wrapped(point).x + CharWidth <= Width
         /\ MovesOn(point, Wrapped(point))
<1>1. /\ Width \in Nat /\ CharWidth \in Nat /\ CharSize \in Nat \ {0}
      /\ CharWidth <= Width
  BY DesktopAssumption
<1>2. CASE point.x + CharWidth > Width
  <2> DEFINE w == [x |-> 0, y |-> point.y + CharSize]
  <2>1. Wrapped(point) = w
    BY <1>2 DEF Wrapped
  <2>2. w \in [x : Nat, y : Nat] /\ w.x + CharWidth <= Width /\ MovesOn(point, w)
    BY <1>1 DEF MovesOn
  <2> HIDE DEF w
  <2> QED
    BY <2>1, <2>2
<1>3. CASE ~ (point.x + CharWidth > Width)
  <2>1. Wrapped(point) = point
    BY <1>3 DEF Wrapped
  <2> QED
    BY <1>1, <1>3, <2>1 DEF MovesOn
<1> QED
  BY <1>2, <1>3

LEMMA PrintcPrints ==
  ASSUME NEW g \in GL, NEW covered
  PROVE  Printed(g, Printc(g, covered), covered)
<1> DEFINE point == Wrapped(g.printPoint)
           written == {PixelPointer(p[1], p[2]) : p \in Box(point)}
           h == Draw(g, written, "ink", covered)
           on == [x |-> point.x + CharWidth, y |-> point.y]
<1>1. /\ g.printPoint \in [x : Nat, y : Nat]
      /\ g.outside \in BOOLEAN
      /\ CharWidth \in Nat
  BY DesktopAssumption DEF GL
<1>2. /\ point \in [x : Nat, y : Nat]
      /\ point.x + CharWidth <= Width
      /\ MovesOn(g.printPoint, point)
  BY <1>1, WrappedFits
<1> HIDE DEF point
<1>3. CASE Fits(point)
  <2>1. written \subseteq Screen
    BY <1>2, <1>3, BoxOnScreen
  <2>2. /\ h \in GL /\ Drawn(g, h, covered)
        /\ h.outside = g.outside /\ h.printPoint = g.printPoint
    <3>1. "ink" \in Colour \ {"cursor"}
      BY DEF Colour
    <3> QED
      BY <3>1, DrawDraws
  <2>3. Printc(g, covered) = [[h EXCEPT !.outside = @ \/ ~(written \subseteq Screen)]
                                EXCEPT !.printPoint = [point EXCEPT !.x = @ + CharWidth]]
    BY <1>3 DEF Printc, point
  <2> HIDE DEF h, written
  <2>4. on \in [x : Nat, y : Nat] /\ MovesOn(g.printPoint, on)
    BY <1>1, <1>2 DEF MovesOn
  <2>5. [point EXCEPT !.x = @ + CharWidth] = on
    BY <1>2
  <2>6. [h EXCEPT !.outside = @ \/ ~(written \subseteq Screen)] = h
    <3>1. (h.outside \/ ~(written \subseteq Screen)) = h.outside
      BY <1>1, <2>1, <2>2
    <3>2. [h EXCEPT !.outside = h.outside] = h
      BY <2>2 DEF GL
    <3> QED
      BY <3>1, <3>2
  <2>7. Printc(g, covered) = [h EXCEPT !.printPoint = on]
    BY <2>3, <2>5, <2>6
  <2> HIDE DEF on
  <2>8. Printed(h, [h EXCEPT !.printPoint = on], covered)
    BY <2>2, <2>4, PointPrinted
  <2>9. Printed(g, h, covered)
    BY <1>1, <2>2 DEF Printed, MovesOn
  <2> QED
    BY <2>7, <2>8, <2>9, PrintedTwice
<1>4. CASE ~ Fits(point)
  <2>1. Printc(g, covered) = [g EXCEPT !.printPoint = point]
    BY <1>4 DEF Printc, point
  <2> QED
    BY <1>2, <2>1, PointPrinted
<1> QED
  BY <1>3, <1>4

LEMMA CharacterPrints ==
  ASSUME NEW g \in GL, NEW covered, NEW text, NEW i
  PROVE  Printed(g, Character(g, text, i, covered), covered)
<1>1. CASE text[i] = "space"
  <2> DEFINE on == [x |-> g.printPoint.x + CharWidth, y |-> g.printPoint.y]
  <2>1. g.printPoint \in [x : Nat, y : Nat] /\ CharWidth \in Nat
    BY DesktopAssumption DEF GL
  <2>2. Character(g, text, i, covered) = [g EXCEPT !.printPoint = on]
    <3>1. Character(g, text, i, covered)
            = [g EXCEPT !.printPoint.x = @ + CharWidth]
      BY <1>1 DEF Character
    <3> QED
      BY <2>1, <3>1 DEF GL
  <2>3. on \in [x : Nat, y : Nat] /\ MovesOn(g.printPoint, on)
    BY <2>1 DEF MovesOn
  <2> QED
    BY <2>2, <2>3, PointPrinted
<1>2. CASE text[i] # "space"
  BY <1>2, PrintcPrints DEF Character
<1> QED
  BY <1>1, <1>2

LEMMA PrintsPrints ==
  ASSUME NEW text, text \in Seq({"letter", "space"}), NEW g \in GL, NEW covered
  PROVE  Printed(g, Prints(g, text, covered), covered)
<1> DEFINE D == DOMAIN text
<1>1. PICK f : /\ PrintsBy(SUBSET D, f, g, text, covered)
               /\ Prints(g, text, covered) = f[D]
  BY PrintsIs
<1>2. ASSUME NEW s \in SUBSET D
      PROVE  f[s] = IF s = {} THEN g
                    ELSE Character(f[s \ {Max(s)}], text, Max(s), covered)
  BY <1>1 DEF PrintsBy
<1> DEFINE Wrong == {s \in SUBSET D : ~ Printed(g, f[s], covered)}
           T == {Cardinality(s) : s \in Wrong}
<1>3. {} \notin Wrong
  BY <1>2, NothingPrinted
<1>4. T \subseteq Nat
  <2>1. ASSUME NEW s \in Wrong
        PROVE  Cardinality(s) \in Nat
    BY <1>3, Smaller
  <2> QED
    BY <2>1
<1>5. Wrong = {}
  <2> SUFFICES ASSUME Wrong # {}
               PROVE  FALSE
    OBVIOUS
  <2>1. PICK n \in T : \A m \in T : n <= m
    <3>1. T # {}
      OBVIOUS
    <3> HIDE DEF T
    <3> QED
      BY <1>4, <3>1, Least
  <2>2. PICK s \in Wrong : n = Cardinality(s)
    BY <2>1
  <2>3. s \in SUBSET D /\ s # {} /\ ~ Printed(g, f[s], covered)
    BY <1>3
  <2> DEFINE r == s \ {Max(s)}
  <2>4. /\ r \in SUBSET D
        /\ n \in Nat
        /\ Cardinality(r) = n - 1
    BY <2>2, <2>3, Smaller
  <2>5. r \notin Wrong
    <3> SUFFICES ASSUME r \in Wrong
                 PROVE  FALSE
      OBVIOUS
    <3>1. Cardinality(r) \in T
      OBVIOUS
    <3> HIDE DEF T, r, Wrong
    <3>2. n <= n - 1
      BY <2>1, <2>4, <3>1
    <3> QED
      BY <2>4, <3>2
  <2>6. Printed(g, f[r], covered)
    BY <2>4, <2>5
  <2>7. f[s] = Character(f[r], text, Max(s), covered)
    BY <1>2, <2>3
  <2> HIDE DEF r, Wrong, T
  <2>8. Printed(f[r], f[s], covered)
    BY <2>6, <2>7, CharacterPrints DEF Printed
  <2> QED
    BY <2>3, <2>6, <2>8, PrintedTwice
<1> QED
  BY <1>1, <1>5

(* Whatever handlers print leaves traces only where the cursor covers it,  *)
(* stays on the screen, and moves the print point on.                      *)
LEMMA PrintlnPrints ==
  ASSUME NEW text, text \in Seq({"letter", "space"}), NEW g \in GL, NEW covered
  PROVE  Printed(g, Println(g, text, covered), covered)
<1> DEFINE h == Prints(g, text, covered)
           down == [x |-> 0, y |-> h.printPoint.y + CharSize]
<1>1. Printed(g, h, covered) /\ h \in GL
  BY PrintsPrints DEF Printed
<1>2. Println(g, text, covered)
        = [h EXCEPT !.printPoint.x = 0, !.printPoint.y = @ + CharSize]
  BY DEF Println
<1> HIDE DEF h
<1>3. h.printPoint \in [x : Nat, y : Nat] /\ CharSize \in Nat \ {0}
  BY <1>1, DesktopAssumption DEF GL
<1>4. [h EXCEPT !.printPoint.x = 0, !.printPoint.y = @ + CharSize]
        = [h EXCEPT !.printPoint = down]
  <2> DEFINE left == [x |-> 0, y |-> h.printPoint.y]
             k == [h EXCEPT !.printPoint = left]
  <2>1. [h EXCEPT !.printPoint.x = 0] = k
    BY <1>1, <1>3 DEF GL
  <2>2. [h EXCEPT !.printPoint.x = 0, !.printPoint.y = @ + CharSize]
          = [[h EXCEPT !.printPoint.x = 0] EXCEPT !.printPoint.y = @ + CharSize]
    OBVIOUS
  <2>3. k \in GL /\ k.printPoint = left
    BY <1>1, <1>3 DEF GL
  <2>4. [k EXCEPT !.printPoint.y = @ + CharSize] = [k EXCEPT !.printPoint = down]
    <3> HIDE DEF k
    <3> QED
      BY <1>3, <2>3 DEF GL
  <2>5. [k EXCEPT !.printPoint = down] = [h EXCEPT !.printPoint = down]
    <3> HIDE DEF down, left
    <3> QED
      BY <1>1 DEF GL
  <2> HIDE DEF k, down
  <2> QED
    BY <2>1, <2>2, <2>4, <2>5
<1>5. down \in [x : Nat, y : Nat] /\ MovesOn(h.printPoint, down)
  BY <1>3 DEF MovesOn
<1>6. Printed(h, [h EXCEPT !.printPoint = down], covered)
  BY <1>1, <1>5, PointPrinted
<1> QED
  BY <1>1, <1>2, <1>4, <1>6, PrintedTwice

-----------------------------------------------------------------------------
(* The inductive invariant: the two invariants about the cursor with the   *)
(* types, the loop variables of onStart's rectangles among them.           *)

Whats ==
  DOMAIN Fill \cup {"home", "save", "centre", "printc", "glyph", "restore", "update"}

DesktopInv ==
  /\ TypeOK
  /\ step \in [what : Whats, x : Nat, y : Nat]
  /\ OnlySavedPixelsComeBack
  /\ TracesOnlyWhereCovered

LEMMA Sizes ==
  /\ Width \in Nat \ {0} /\ Height \in Nat \ {0}
  /\ CharWidth \in Nat \ {0} /\ CharSize \in Nat \ {0}
  /\ CharWidth <= TaskbarHeight /\ CharSize <= Height
  /\ TaskbarHeight \in Nat \ {0} /\ TaskbarHeight <= Height
  /\ Top \in Nat /\ IconWidth \in Nat
  /\ ClickText \in Seq({"letter", "space"})
  /\ SaveText \in Seq({"letter", "space"})
  /\ MaxInterrupts \in Nat
  BY DesktopAssumption DEF Top, IconWidth

LEMMA Offsets ==
  /\ CursorBox \subseteq Nat \X Nat /\ CursorShape \subseteq CursorBox
  /\ Places \subseteq (0 .. Width - 1) \X (0 .. Height - 1)
  BY DesktopAssumption

LEMMA Fills ==
  /\ DOMAIN Fill = {"clear", "bar", "icon", "edge"}
  /\ DOMAIN After = DOMAIN Fill
  /\ \A what \in DOMAIN Fill :
       /\ Fill[what].x \in Nat /\ Fill[what].y \in Nat
       /\ Fill[what].colour \in Colour \ {"cursor"}
       /\ After[what] \in Whats
  BY Sizes DEF Fill, After, Colour, Whats

LEMMA Started ==
  ASSUME NEW what \in Whats
  PROVE  /\ what \in DOMAIN Fill => Start(what) \in [what : Whats, x : Nat, y : Nat]
         /\ Doing(what) \in [what : Whats, x : Nat, y : Nat]
<1>1. what \in DOMAIN Fill => Fill[what].x \in Nat /\ Fill[what].y \in Nat
  BY Fills
<1> QED
  BY <1>1 DEF Start, Doing

LEMMA NextPixelType ==
  ASSUME NEW s \in [what : Whats, x : Nat, y : Nat], s.what \in DOMAIN Fill
  PROVE  NextPixel(s) \in [what : Whats, x : Nat, y : Nat]
<1>1. CASE s.x + 1 < Fill[s.what].width
  <2>1. NextPixel(s) = [s EXCEPT !.x = @ + 1]
    BY <1>1 DEF NextPixel
  <2> QED
    BY <2>1
<1>2. CASE ~ (s.x + 1 < Fill[s.what].width) /\ s.y + 1 < Height
  <2>1. NextPixel(s) = [s EXCEPT !.x = 0, !.y = @ + 1]
    BY <1>2 DEF NextPixel
  <2>2. NextPixel(s) = [what |-> s.what, x |-> 0, y |-> s.y + 1]
    BY <2>1
  <2> QED
    BY <2>2
<1>3. CASE ~ (s.x + 1 < Fill[s.what].width) /\ ~ (s.y + 1 < Height)
  <2>1. After[s.what] \in Whats
    BY Fills
  <2>2. NextPixel(s) = IF After[s.what] \in DOMAIN Fill THEN Start(After[s.what])
                       ELSE Doing(After[s.what])
    BY <1>3 DEF NextPixel
  <2> QED
    BY <2>1, <2>2, Started
<1> QED
  BY <1>1, <1>2, <1>3

(* Drawing that is stale where it is covered keeps the cursor's promise.   *)
LEMMA DrawingKeeps ==
  ASSUME TracesOnlyWhereCovered, Drawn(gl, gl', CoveredNow),
         UNCHANGED <<cursorInitialized, savedPixels, oldMousePacket>>
  PROVE  TracesOnlyWhereCovered'
<1>1. CoveredNow' = CoveredNow /\ CursorPixels(oldMousePacket)' = CursorPixels(oldMousePacket)
  BY DEF CoveredNow, CursorPixels, Covered
<1> SUFFICES ASSUME NEW p \in Screen, p \notin gl'.stale
             PROVE  IF p \in CoveredNow
                    THEN /\ savedPixels[<<p[1] - oldMousePacket.x,
                                          p[2] - oldMousePacket.y>>].colour = gl'.ideal[p]
                         /\ gl'.screen[p] = IF p \in CursorPixels(oldMousePacket)
                                            THEN "cursor" ELSE gl'.ideal[p]
                    ELSE gl'.screen[p] = gl'.ideal[p]
  BY <1>1 DEF TracesOnlyWhereCovered
<1>2. \/ /\ gl'.screen[p] = gl.screen[p]
         /\ gl'.ideal[p] = gl.ideal[p]
         /\ p \notin gl.stale
      \/ gl'.screen[p] = gl'.ideal[p] /\ p \notin CoveredNow
  BY DEF Drawn
<1> QED
  BY <1>2 DEF TracesOnlyWhereCovered

(* The cursor and its pixels stay what they are while the program draws.   *)
LEMMA DrawingStep ==
  ASSUME DesktopInv, gl' \in GL, Drawn(gl, gl', CoveredNow),
         glyph' \in [x : Nat, y : Nat], OldPoint' \in [x : Nat, y : Nat],
         step' \in [what : Whats, x : Nat, y : Nat],
         interrupts' \in 0 .. MaxInterrupts,
         UNCHANGED <<cursorInitialized, savedPixels, oldMousePacket>>
  PROVE  DesktopInv'
<1>1. TypeOK'
  BY DEF DesktopInv, TypeOK, GL, Whats
<1>2. OnlySavedPixelsComeBack'
  BY DEF DesktopInv, OnlySavedPixelsComeBack
<1>3. TracesOnlyWhereCovered'
  BY DrawingKeeps DEF DesktopInv
<1> QED
  BY <1>1, <1>2, <1>3 DEF DesktopInv

LEMMA Unchanged ==
  ASSUME DesktopInv
  PROVE  /\ gl \in GL
         /\ gl.printPoint \in [x : Nat, y : Nat]
         /\ Drawn(gl, gl, CoveredNow)
         /\ \A point : Drawn(gl, [gl EXCEPT !.printPoint = point], CoveredNow)
         /\ \A point \in [x : Nat, y : Nat] : [gl EXCEPT !.printPoint = point] \in GL
         /\ glyph \in [x : Nat, y : Nat] /\ OldPoint \in [x : Nat, y : Nat]
         /\ step \in [what : Whats, x : Nat, y : Nat]
         /\ interrupts \in 0 .. MaxInterrupts
         /\ {"home", "save", "centre", "printc", "glyph", "restore", "update"}
              \subseteq Whats
<1>1. gl \in GL
  BY DEF DesktopInv, TypeOK, GL
<1>2. gl.printPoint \in [x : Nat, y : Nat]
  BY <1>1 DEF GL
<1>3. \A point : Drawn(gl, [gl EXCEPT !.printPoint = point], CoveredNow)
  BY <1>1 DEF Drawn, GL
<1>4. \A point \in [x : Nat, y : Nat] : [gl EXCEPT !.printPoint = point] \in GL
  BY <1>1 DEF GL
<1> QED
  BY <1>1, <1>2, <1>3, <1>4 DEF DesktopInv, TypeOK, Drawn, Whats

-----------------------------------------------------------------------------
(* onStart *)

LEMMA FillPixelStep ==
  ASSUME DesktopInv, FillPixel
  PROVE  DesktopInv'
<1>1. gl' \in GL /\ Drawn(gl, gl', CoveredNow)
  <2>1. CASE gl' = gl
    BY <2>1, Unchanged
  <2>2. CASE gl' = Draw(gl, {<<step.x, step.y>>}, Fill[step.what].colour, CoveredNow)
    <3>1. Fill[step.what].colour \in Colour \ {"cursor"}
      BY Fills DEF FillPixel
    <3> QED
      BY <2>2, <3>1, DrawDraws, Unchanged
  <2> QED
    BY <2>1, <2>2 DEF FillPixel
<1>2. step' \in [what : Whats, x : Nat, y : Nat]
  BY NextPixelType, Unchanged DEF FillPixel
<1> QED
  BY <1>1, <1>2, DrawingStep, Unchanged DEF FillPixel

(* Centring does not leave the screen on its upper or left side.           *)
LEMMA CentreType == Centre \in [x : Nat, y : Nat]
<1>1. TaskbarHeight \div 2 - CharWidth \div 2 \in Nat
  BY Sizes
<1>2. Top + TaskbarHeight \div 2 - CharSize \div 2 \in Nat
  BY Sizes DEF Top
<1> QED
  BY <1>1, <1>2 DEF Centre

LEMMA PrintPointStep ==
  ASSUME DesktopInv,
         HomePrintPoint \/ SavePrintPoint \/ MovePrintPoint \/ RestorePrintPoint
  PROVE  DesktopInv'
<1>1. Origin \in [x : Nat, y : Nat]
  BY DEF Origin
<1>2. "bar" \in Whats /\ "bar" \in DOMAIN Fill
  BY Fills DEF Whats
<1>3. \A what \in Whats : Doing(what) \in [what : Whats, x : Nat, y : Nat]
  BY Started
<1>4. CASE HomePrintPoint
  BY <1>1, <1>2, <1>4, DrawingStep, Unchanged, Started DEF HomePrintPoint
<1>5. CASE SavePrintPoint
  BY <1>3, <1>5, DrawingStep, Unchanged DEF SavePrintPoint
<1>6. CASE MovePrintPoint
  BY <1>3, <1>6, CentreType, DrawingStep, Unchanged DEF MovePrintPoint
<1>7. CASE RestorePrintPoint
  BY <1>3, <1>7, DrawingStep, Unchanged DEF RestorePrintPoint
<1> QED
  BY <1>4, <1>5, <1>6, <1>7

LEMMA BeginGlyphStep ==
  ASSUME DesktopInv, BeginGlyph
  PROVE  DesktopInv'
<1> DEFINE point == Wrapped(gl.printPoint)
<1>1. point \in [x : Nat, y : Nat]
  BY Unchanged, WrappedFits
<1>2. /\ gl' = [gl EXCEPT !.printPoint = point]
      /\ glyph' = [x |-> point.x, y |-> point.y]
      /\ step' = Doing(IF Fits(point) THEN "glyph" ELSE "restore")
      /\ UNCHANGED <<OldPoint, cursorInitialized, savedPixels, oldMousePacket, interrupts>>
  BY DEF BeginGlyph
<1> HIDE DEF point
<1>3. step' \in [what : Whats, x : Nat, y : Nat]
  BY <1>2, Started, Unchanged
<1>4. glyph' \in [x : Nat, y : Nat]
  BY <1>1, <1>2
<1> QED
  BY <1>1, <1>2, <1>3, <1>4, DrawingStep, Unchanged

LEMMA GlyphStep ==
  ASSUME DesktopInv, GlyphPixel \/ GlyphRow \/ EndGlyph
  PROVE  DesktopInv'
<1>1. glyph \in [x : Nat, y : Nat] /\ gl.printPoint \in [x : Nat, y : Nat]
  BY Unchanged
<1>2. CASE GlyphPixel
  <2> DEFINE pixel == PixelPointer(glyph.x, glyph.y)
             h == Draw(gl, {pixel}, "ink", CoveredNow)
  <2>1. "ink" \in Colour \ {"cursor"}
    BY DEF Colour
  <2>2. h \in GL /\ Drawn(gl, h, CoveredNow) /\ h.outside = gl.outside
    BY <2>1, DrawDraws, Unchanged
  <2>3. \/ gl' = gl
        \/ gl' = [h EXCEPT !.outside = @ \/ pixel \notin Screen]
    BY <1>2 DEF GlyphPixel
  <2> HIDE DEF h, pixel
  <2>4. gl' \in GL /\ Drawn(gl, gl', CoveredNow)
    <3>1. CASE gl' = gl
      BY <3>1, Unchanged
    <3>2. CASE gl' = [h EXCEPT !.outside = @ \/ pixel \notin Screen]
      <4>1. (h.outside \/ pixel \notin Screen) \in BOOLEAN
        OBVIOUS
      <4>2. gl' = [screen |-> h.screen, ideal |-> h.ideal, stale |-> h.stale,
                   outside |-> (h.outside \/ pixel \notin Screen),
                   printPoint |-> h.printPoint]
        BY <2>2, <3>2 DEF GL
      <4>3. gl' \in GL
        BY <2>2, <4>1, <4>2 DEF GL
      <4>4. Drawn(gl, gl', CoveredNow)
        BY <2>2, <4>2 DEF Drawn
      <4> QED
        BY <4>3, <4>4
    <3> QED
      BY <2>3, <3>1, <3>2
  <2>5. glyph' \in [x : Nat, y : Nat]
    BY <1>1, <1>2 DEF GlyphPixel
  <2> QED
    BY <1>2, <2>4, <2>5, DrawingStep, Unchanged DEF GlyphPixel
<1>3. CASE GlyphRow
  <2>1. glyph' \in [x : Nat, y : Nat]
    BY <1>1, <1>3 DEF GlyphRow
  <2> QED
    BY <1>3, <2>1, DrawingStep, Unchanged DEF GlyphRow
<1>4. CASE EndGlyph
  <2> DEFINE on == [x |-> gl.printPoint.x + CharWidth, y |-> gl.printPoint.y]
  <2>1. on \in [x : Nat, y : Nat]
    BY <1>1, Sizes
  <2>2. gl' = [gl EXCEPT !.printPoint = on]
    <3>1. gl' = [gl EXCEPT !.printPoint.x = @ + CharWidth]
      BY <1>4 DEF EndGlyph
    <3>2. gl \in GL
      BY Unchanged
    <3> QED
      BY <1>1, <3>1, <3>2 DEF GL
  <2>3. step' \in [what : Whats, x : Nat, y : Nat]
    BY <1>4, Started, Unchanged DEF EndGlyph
  <2> HIDE DEF on
  <2> QED
    BY <1>4, <2>1, <2>2, <2>3, DrawingStep, Unchanged DEF EndGlyph
<1> QED
  BY <1>2, <1>3, <1>4

LEMMA OnStartStep ==
  ASSUME DesktopInv, onStart
  PROVE  DesktopInv'
  BY FillPixelStep, PrintPointStep, BeginGlyphStep, GlyphStep DEF onStart

-----------------------------------------------------------------------------
(* The handlers *)

LEMMA Typing ==
  ASSUME DesktopInv, NEW save \in BOOLEAN, onInputKeyboard(save)
  PROVE  Printed(gl, gl', CoveredNow)
<1> DEFINE typed == Printc(gl, CoveredNow)
<1>1. gl \in GL
  BY Unchanged
<1>2. Printed(gl, typed, CoveredNow) /\ typed \in GL
  BY <1>1, PrintcPrints DEF Printed
<1>3. gl' = IF save THEN Println(typed, SaveText, CoveredNow) ELSE typed
  BY DEF onInputKeyboard
<1> HIDE DEF typed
<1>4. Printed(typed, Println(typed, SaveText, CoveredNow), CoveredNow)
  BY <1>2, PrintlnPrints, Sizes
<1> QED
  BY <1>1, <1>2, <1>3, <1>4, PrintedTwice

LEMMA Clicking ==
  ASSUME DesktopInv, NEW packet
  PROVE  Printed(gl, Clicked(packet), CoveredNow)
  BY Unchanged, NothingPrinted, PrintlnPrints, Sizes DEF Clicked

LEMMA onInputKeyboardStep ==
  ASSUME DesktopInv, NEW save \in BOOLEAN, onInputKeyboard(save)
  PROVE  DesktopInv'
<1>1. gl' \in GL /\ Drawn(gl, gl', CoveredNow)
  BY Typing DEF Printed
<1>2. interrupts' \in 0 .. MaxInterrupts
  <2>1. interrupts < MaxInterrupts /\ interrupts' = interrupts + 1
    BY DEF onInputKeyboard
  <2>2. MaxInterrupts \in Nat
    BY Sizes
  <2>3. interrupts \in 0 .. MaxInterrupts
    BY Unchanged
  <2> QED
    BY <2>1, <2>2, <2>3
<1> QED
  BY <1>1, <1>2, DrawingStep, Unchanged DEF onInputKeyboard

LEMMA MousePacketType ==
  ASSUME NEW packet \in MousePackets
  PROVE  packet \in [x : 0 .. Width - 1, y : 0 .. Height - 1, button1 : BOOLEAN]
  BY Offsets DEF MousePackets

(* The offset a pixel was saved at, and the pixel of an offset.            *)
LEMMA OffsetOf ==
  ASSUME NEW x \in Nat, NEW y \in Nat, NEW o \in CursorBox
  PROVE  /\ At(x, y, o) = <<x + o[1], y + o[2]>>
         /\ <<At(x, y, o)[1] - x, At(x, y, o)[2] - y>> = o
<1>1. o \in Nat \X Nat
  BY Offsets
<1> QED
  BY <1>1 DEF At

LEMMA CoveredOffset ==
  ASSUME NEW packet \in [x : 0 .. Width - 1, y : 0 .. Height - 1, button1 : BOOLEAN],
         NEW p \in Covered(packet)
  PROVE  /\ <<p[1] - packet.x, p[2] - packet.y>> \in CursorBox
         /\ At(packet.x, packet.y, <<p[1] - packet.x, p[2] - packet.y>>) = p
         /\ p \in Screen
<1>1. PICK o \in CursorBox : p = At(packet.x, packet.y, o)
  BY DEF Covered
<1>2. packet.x \in Nat /\ packet.y \in Nat
  BY Sizes
<1>3. <<p[1] - packet.x, p[2] - packet.y>> = o
  BY <1>1, <1>2, OffsetOf
<1> QED
  BY <1>1, <1>3 DEF Covered

(* What ClearMouseCursor leaves on a pixel that is not stale is what the   *)
(* program drew there last.                                                *)
LEMMA ClearedIsIdeal ==
  ASSUME DesktopInv, NEW g \in GL, Drawn(gl, g, CoveredNow),
         NEW p \in Screen, p \notin g.stale
  PROVE  ClearMouseCursor(g.screen, oldMousePacket)[p] = g.ideal[p]
<1>1. \/ /\ g.screen[p] = gl.screen[p]
         /\ g.ideal[p] = gl.ideal[p]
         /\ p \notin gl.stale
      \/ g.screen[p] = g.ideal[p] /\ p \notin CoveredNow
  BY DEF Drawn
<1>2. ClearMouseCursor(g.screen, oldMousePacket)[p] =
        IF cursorInitialized /\ p \in Covered(oldMousePacket)
        THEN savedPixels[<<p[1] - oldMousePacket.x, p[2] - oldMousePacket.y>>].colour
        ELSE g.screen[p]
  BY DEF ClearMouseCursor
<1>3. p \in CoveredNow <=> cursorInitialized /\ p \in Covered(oldMousePacket)
  BY DEF CoveredNow
<1>4. p \notin gl.stale =>
        IF p \in CoveredNow
        THEN savedPixels[<<p[1] - oldMousePacket.x,
                           p[2] - oldMousePacket.y>>].colour = gl.ideal[p]
        ELSE gl.screen[p] = gl.ideal[p]
  BY DEF DesktopInv, TracesOnlyWhereCovered
<1> QED
  BY <1>1, <1>2, <1>3, <1>4

LEMMA ClearedType ==
  ASSUME DesktopInv, NEW g \in GL
  PROVE  ClearMouseCursor(g.screen, oldMousePacket) \in [Screen -> Colour]
<1>1. /\ savedPixels \in [CursorBox -> [colour : Colour, from : Screen \cup {Nowhere}]]
      /\ oldMousePacket \in [x : 0 .. Width - 1, y : 0 .. Height - 1, button1 : BOOLEAN]
  BY DEF DesktopInv, TypeOK
<1>2. \A p \in Covered(oldMousePacket) :
        savedPixels[<<p[1] - oldMousePacket.x, p[2] - oldMousePacket.y>>].colour \in Colour
  BY <1>1, CoveredOffset
<1>3. \A p \in Screen : g.screen[p] \in Colour
  BY DEF GL
<1> QED
  BY <1>2, <1>3 DEF ClearMouseCursor

LEMMA onInputMouseStep ==
  ASSUME DesktopInv, NEW packet \in MousePackets, onInputMouse(packet)
  PROVE  DesktopInv'
<1> DEFINE g == Clicked(packet)
           cleared == ClearMouseCursor(g.screen, oldMousePacket)
<1>1. /\ gl' = [g EXCEPT !.screen = DrawMouseCursor(cleared, packet)]
      /\ savedPixels' = SavePixelsBehindCursor(cleared, packet.x, packet.y)
      /\ cursorInitialized' = TRUE
      /\ oldMousePacket' = packet
      /\ interrupts < MaxInterrupts
      /\ interrupts' = interrupts + 1
      /\ UNCHANGED <<step, glyph, OldPoint>>
  BY DEF onInputMouse
<1>2. g \in GL /\ Drawn(gl, g, CoveredNow)
  BY Clicking DEF Printed
<1> HIDE DEF g
<1>3. /\ cleared \in [Screen -> Colour]
      /\ \A p \in Screen : p \notin g.stale => cleared[p] = g.ideal[p]
  BY <1>2, ClearedType, ClearedIsIdeal
<1> HIDE DEF cleared
<1>4. /\ packet \in [x : 0 .. Width - 1, y : 0 .. Height - 1, button1 : BOOLEAN]
      /\ packet.x \in Nat /\ packet.y \in Nat
  BY MousePacketType, Sizes
<1>5. /\ gl'.screen = DrawMouseCursor(cleared, packet)
      /\ gl'.ideal = g.ideal /\ gl'.stale = g.stale
      /\ gl' \in GL
  <2>1. DrawMouseCursor(cleared, packet) \in [Screen -> Colour]
    BY <1>3 DEF DrawMouseCursor, Colour
  <2> QED
    BY <1>1, <1>2, <2>1 DEF GL
<1>6. savedPixels' \in [CursorBox -> [colour : Colour, from : Screen \cup {Nowhere}]]
  <2>1. savedPixels \in [CursorBox -> [colour : Colour, from : Screen \cup {Nowhere}]]
    BY DEF DesktopInv, TypeOK
  <2> QED
    BY <1>1, <1>3, <2>1 DEF SavePixelsBehindCursor
<1>7. TypeOK'
  <2>1. interrupts' \in 0 .. MaxInterrupts
    <3>1. MaxInterrupts \in Nat
      BY Sizes
    <3>2. interrupts \in 0 .. MaxInterrupts
      BY Unchanged
    <3>3. interrupts < MaxInterrupts /\ interrupts' = interrupts + 1
      BY <1>1
    <3> QED
      BY <3>1, <3>2, <3>3
  <2> QED
    BY <1>1, <1>4, <1>5, <1>6, <2>1 DEF DesktopInv, TypeOK, GL
<1>8. \A o \in CursorBox : At(packet.x, packet.y, o) \in Screen =>
        savedPixels'[o] = [colour |-> cleared[At(packet.x, packet.y, o)],
                           from |-> At(packet.x, packet.y, o)]
  BY <1>1 DEF SavePixelsBehindCursor
<1>9. OnlySavedPixelsComeBack'
  <2> SUFFICES ASSUME NEW o \in CursorBox, At(packet.x, packet.y, o) \in Screen
               PROVE  savedPixels'[o].from = At(packet.x, packet.y, o)
    BY <1>1 DEF OnlySavedPixelsComeBack, At
  <2>1. savedPixels'[o] = [colour |-> cleared[At(packet.x, packet.y, o)],
                           from |-> At(packet.x, packet.y, o)]
    BY <1>8, Zenon
  <2> QED
    BY <2>1
<1>10. TracesOnlyWhereCovered'
  <2>1. CoveredNow' = Covered(packet)
    BY <1>1 DEF CoveredNow, Covered
  <2>2. CursorPixels(oldMousePacket)' = CursorPixels(packet)
    BY <1>1 DEF CursorPixels
  <2>3. CursorPixels(packet) \subseteq Covered(packet)
    BY Offsets DEF CursorPixels, Covered
  <2>4. ASSUME NEW p \in Screen, p \notin g.stale
        PROVE  IF p \in Covered(packet)
               THEN /\ savedPixels'[<<p[1] - packet.x, p[2] - packet.y>>].colour = g.ideal[p]
                    /\ gl'.screen[p] = IF p \in CursorPixels(packet) THEN "cursor"
                                       ELSE g.ideal[p]
               ELSE gl'.screen[p] = g.ideal[p]
    <3>1. cleared[p] = g.ideal[p]
      BY <1>3, <2>4
    <3>2. gl'.screen[p] = IF p \in CursorPixels(packet) THEN "cursor" ELSE g.ideal[p]
      BY <1>5, <3>1 DEF DrawMouseCursor
    <3>3. ASSUME p \in Covered(packet)
          PROVE  savedPixels'[<<p[1] - packet.x, p[2] - packet.y>>].colour = g.ideal[p]
      <4> DEFINE o == <<p[1] - packet.x, p[2] - packet.y>>
      <4>1. o \in CursorBox /\ At(packet.x, packet.y, o) = p
        BY <1>4, <3>3, CoveredOffset
      <4> HIDE DEF o
      <4>2. savedPixels'[o] = [colour |-> cleared[p], from |-> p]
        BY <1>8, <4>1
      <4>3. savedPixels'[o].colour = g.ideal[p]
        BY <3>1, <4>2
      <4> QED
        BY <4>3 DEF o
    <3> QED
      BY <2>3, <3>2, <3>3
  <2> QED
    BY <1>1, <1>5, <2>1, <2>2, <2>4 DEF TracesOnlyWhereCovered
<1> QED
  BY <1>1, <1>7, <1>9, <1>10 DEF DesktopInv

-----------------------------------------------------------------------------
(* The theorems *)

LEMMA InitDesktopInv == Init => DesktopInv
<1> SUFFICES ASSUME Init
             PROVE  DesktopInv
  OBVIOUS
<1>1. /\ gl = [screen |-> [p \in Screen |-> "black"],
               ideal |-> [p \in Screen |-> "black"],
               stale |-> {}, outside |-> FALSE, printPoint |-> Origin]
      /\ step = [what |-> "clear", x |-> 0, y |-> 0]
      /\ glyph = Origin /\ OldPoint = Origin /\ interrupts = 0
      /\ oldMousePacket = [x |-> 0, y |-> 0, button1 |-> FALSE]
      /\ cursorInitialized = FALSE
      /\ savedPixels = [o \in CursorBox |-> [colour |-> "black", from |-> Nowhere]]
  BY DEF Init
<1>2. "clear" \in DOMAIN Fill
  BY Fills
<1>3. Origin \in [x : Nat, y : Nat] /\ "black" \in Colour \ {"cursor"}
  BY DEF Origin, Colour
<1>4. gl \in GL
  BY <1>1, <1>3 DEF GL
<1>5. /\ savedPixels \in [CursorBox -> [colour : Colour, from : Screen \cup {Nowhere}]]
      /\ oldMousePacket \in [x : 0 .. Width - 1, y : 0 .. Height - 1, button1 : BOOLEAN]
      /\ interrupts \in 0 .. MaxInterrupts
      /\ step \in [what : Whats, x : Nat, y : Nat]
  BY <1>1, <1>2, <1>3, Sizes DEF Whats
<1>6. TypeOK
  BY <1>1, <1>2, <1>3, <1>4, <1>5 DEF TypeOK, GL
<1>7. OnlySavedPixelsComeBack
  BY <1>1 DEF OnlySavedPixelsComeBack
<1>8. TracesOnlyWhereCovered
  BY <1>1 DEF TracesOnlyWhereCovered, CoveredNow
<1> QED
  BY <1>5, <1>6, <1>7, <1>8 DEF DesktopInv

LEMMA NextDesktopInv == DesktopInv /\ [Next]_vars => DesktopInv'
<1> SUFFICES ASSUME DesktopInv, [Next]_vars
             PROVE  DesktopInv'
  OBVIOUS
<1>1. CASE onStart
  BY <1>1, OnStartStep
<1>2. ASSUME NEW packet \in MousePackets, onInputMouse(packet)
      PROVE  DesktopInv'
  BY <1>2, onInputMouseStep
<1>3. ASSUME NEW save \in BOOLEAN, onInputKeyboard(save)
      PROVE  DesktopInv'
  BY <1>3, onInputKeyboardStep
<1>4. CASE UNCHANGED vars
  BY <1>4, DrawingStep, Unchanged DEF vars
<1> QED
  BY <1>1, <1>2, <1>3, <1>4 DEF Next

(* The state keeps its type, whatever is typed and clicked and wherever    *)
(* onStart is interrupted.                                                 *)
THEOREM DesktopTypeCorrect == Spec => []TypeOK
<1>1. DesktopInv => TypeOK
  BY DEF DesktopInv
<1> QED
  BY <1>1, InitDesktopInv, NextDesktopInv, PTL DEF Spec

(* RestorePixelsBehindCursor puts back only pixels saved from where they   *)
(* go: no black box, at the edges of the screen either.                    *)
THEOREM RestoresWhatWasSaved == Spec => []OnlySavedPixelsComeBack
<1>1. DesktopInv => OnlySavedPixelsComeBack
  BY DEF DesktopInv
<1> QED
  BY <1>1, InitDesktopInv, NextDesktopInv, PTL DEF Spec

(* The cursor leaves no trace but on pixels that the program drew while    *)
(* the cursor covered them.                                                *)
THEOREM CursorLeavesNoTrace == Spec => []TracesOnlyWhereCovered
<1>1. DesktopInv => TracesOnlyWhereCovered
  BY DEF DesktopInv
<1> QED
  BY <1>1, InitDesktopInv, NextDesktopInv, PTL DEF Spec

(* A step that is not onStart's is a handler's, which prints.              *)
LEMMA HandlersPrint ==
  ASSUME DesktopInv, [Next]_vars
  PROVE  \/ onStart
         \/ /\ gl'.outside = gl.outside
            /\ MovesOn(gl.printPoint, gl'.printPoint)
<1>1. gl \in GL
  BY Unchanged
<1>2. ASSUME NEW packet \in MousePackets, onInputMouse(packet)
      PROVE  gl'.outside = gl.outside /\ MovesOn(gl.printPoint, gl'.printPoint)
  <2> DEFINE g == Clicked(packet)
             screen == DrawMouseCursor(ClearMouseCursor(g.screen, oldMousePacket), packet)
  <2>1. Printed(gl, g, CoveredNow)
    BY Clicking
  <2>2. gl' = [g EXCEPT !.screen = screen]
    BY <1>2 DEF onInputMouse
  <2> HIDE DEF g, screen
  <2>3. gl'.outside = g.outside /\ gl'.printPoint = g.printPoint
    BY <2>1, <2>2 DEF Printed, GL
  <2> QED
    BY <2>1, <2>3 DEF Printed
<1>3. ASSUME NEW save \in BOOLEAN, onInputKeyboard(save)
      PROVE  gl'.outside = gl.outside /\ MovesOn(gl.printPoint, gl'.printPoint)
  BY <1>3, Typing DEF Printed
<1>4. CASE UNCHANGED vars
  BY <1>1, <1>4, NothingPrinted DEF vars, Printed
<1> QED
  BY <1>2, <1>3, <1>4 DEF Next

(* Once onStart is over the print point never moves back: no text is drawn *)
(* over earlier text.                                                      *)
THEOREM TextNeverMovesBack == Spec => TextMovesOn
<1>1. DesktopInv /\ [Next]_vars =>
        [step.what = "update" =>
           \/ gl'.printPoint.y > gl.printPoint.y
           \/ /\ gl'.printPoint.y = gl.printPoint.y
              /\ gl'.printPoint.x >= gl.printPoint.x]_vars
  <2> SUFFICES ASSUME DesktopInv, [Next]_vars, step.what = "update"
               PROVE  MovesOn(gl.printPoint, gl'.printPoint)
    BY DEF MovesOn
  <2>1. ~ onStart
    BY Fills DEF onStart, FillPixel, HomePrintPoint, SavePrintPoint, MovePrintPoint,
                 BeginGlyph, GlyphPixel, GlyphRow, EndGlyph, RestorePrintPoint
  <2> QED
    BY <2>1, HandlersPrint
<1> QED
  BY <1>1, InitDesktopInv, NextDesktopInv, PTL DEF Spec, TextMovesOn

(* The handlers never write past the framebuffer, whatever has been typed  *)
(* and clicked and wherever onStart left the print point.                  *)
THEOREM HandlersStayInside == Spec => HandlersPrintInside
<1>1. DesktopInv /\ [Next]_vars => [~onStart => gl'.outside = gl.outside]_vars
  <2> SUFFICES ASSUME DesktopInv, [Next]_vars, ~onStart
               PROVE  gl'.outside = gl.outside
    OBVIOUS
  <2> QED
    BY HandlersPrint
<1> QED
  BY <1>1, InitDesktopInv, NextDesktopInv, PTL DEF Spec, HandlersPrintInside
===============================================================================
