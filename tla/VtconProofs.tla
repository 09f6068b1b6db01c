---------------------------- MODULE VtconProofs ----------------------------
(***************************************************************************)
(* What the virtual console guarantees for every size of the screen, every *)
(* number of terminals, and all that is typed and printed.                 *)
(***************************************************************************)
EXTENDS Vtcon, WellFoundedInduction, TLAPS

----------------------------------------------------------------------------
(* Induction *)

\* A set of natural numbers has a least element.
LEMMA LeastNatural ==
  ASSUME NEW A, A \subseteq Nat, A # {}
  PROVE  \E x \in A : \A y \in A : x <= y
<1> DEFINE R == OpToRel(<, Nat)
<1>1. IsWellFoundedOn(R, Nat)
  BY NatLessThanWellFounded
<1>2. \A x, y \in Nat : x < y => <<x, y>> \in R
  BY DEF OpToRel
<1> HIDE DEF R
<1>3. \E x \in A : \A y \in A : ~(<<y, x>> \in R)
  BY <1>1, WFMin
<1>4. PICK x \in A : \A y \in A : ~(<<y, x>> \in R)
  BY <1>3
<1>5. ASSUME NEW y \in A PROVE x <= y
  <2>1. x \in Nat /\ y \in Nat /\ ~(y < x)
    BY <1>2, <1>4
  <2> QED BY <2>1
<1> QED BY <1>5

\* Induction, with the set of the numbers that have the property.
LEMMA InductionSet ==
  ASSUME NEW S, 0 \in S, \A n \in Nat : n \in S => n + 1 \in S
  PROVE  Nat \subseteq S
<1> SUFFICES ASSUME Nat \ S # {} PROVE FALSE
  OBVIOUS
<1>1. PICK x \in Nat \ S : \A y \in Nat \ S : x <= y
  BY LeastNatural
<1>2. x # 0 /\ x - 1 \in Nat /\ x - 1 \in S
  BY <1>1
<1>3. (x - 1) + 1 \in S
  BY <1>2
<1> QED BY <1>1, <1>3

----------------------------------------------------------------------------
(* The state of the console *)

Terms == 0 .. Contexts - 1

\* A terminal whose cursor is in the text, and whose buffer holds a screen
CtxFit(x) ==
  /\ x \in [cx : 0 .. Cols - 1, cy : 0 .. Rows - 2, mods : {x.mods}, buffer : {x.buffer}]
  /\ Len(x.buffer) = Size

\* A console with the keyboard only when it has the framebuffer, all of whose
\* terminals have their cursor in the text
Fit(s) ==
  /\ s \in [fb : {s.fb}, cursor : {s.cursor}, cur : Terms, con_fb : BOOLEAN,
            con_kbd : BOOLEAN, ctx : {s.ctx}]
  /\ s.con_kbd => s.con_fb
  /\ s.ctx = [c \in Terms |-> s.ctx[c]]
  /\ \A c \in Terms : CtxFit(s.ctx[c])

\* The screen and the cursor show the console as it is.
InStep(s) ==
  /\ s.cursor = Cy(s) * Cols + Cx(s)
  /\ \A i \in 1 .. Cols : s.fb[Cols * (Rows - 1) + i] = Status(s.cur)

\* Only the framebuffer and the hardware cursor differ.
SameTerminals(s, t) ==
  /\ t.cur = s.cur /\ t.con_fb = s.con_fb /\ t.con_kbd = s.con_kbd /\ t.ctx = s.ctx

\* What is printed goes to the terminal that is shown.
Prints(s, t) ==
  /\ Fit(t)
  /\ t.cur = s.cur /\ t.con_fb = s.con_fb /\ t.con_kbd = s.con_kbd
  /\ t.ctx[s.cur].mods = s.ctx[s.cur].mods
  /\ \A c \in Terms \ {s.cur} : t.ctx[c] = s.ctx[c]

\* The bar is the last row of the framebuffer, and the text is not empty.
LEMMA Geometry ==
  /\ Cols \in Nat \ {0} /\ Rows \in Nat /\ Rows > 1 /\ Contexts \in Nat \ {0} /\ TabStop \in Nat \ {0}
  /\ Cols * (Rows - 1) \in Nat /\ Cols * (Rows - 2) \in Nat /\ Size \in Nat
  /\ Size = Cols * (Rows - 1) + Cols /\ Cols * (Rows - 1) < Size
<1>1. Cols \in Nat \ {0} /\ Rows \in Nat /\ Rows > 1 /\ Contexts \in Nat \ {0} /\ TabStop \in Nat \ {0}
  BY VtconAssumption
<1>2. Cols * (Rows - 1) \in Nat /\ Cols * (Rows - 2) \in Nat
  BY <1>1
<1>3. Size = Cols * (Rows - 1) + Cols
  BY <1>1 DEF Size
<1> QED BY <1>1, <1>2, <1>3

\* The fields of a console after each kind of change
LEMMA SetFb ==
  ASSUME NEW s, Fit(s), NEW f
  PROVE  LET t == [s EXCEPT !.fb = f] IN Fit(t) /\ SameTerminals(s, t) /\ t.fb = f /\ t.cursor = s.cursor
  BY DEF Fit, SameTerminals

LEMMA SetCursor ==
  ASSUME NEW s, Fit(s), NEW f
  PROVE  LET t == [s EXCEPT !.cursor = f] IN Fit(t) /\ SameTerminals(s, t) /\ t.cursor = f /\ t.fb = s.fb
  BY DEF Fit, SameTerminals

LEMMA SetCtx ==
  ASSUME NEW s, Fit(s), NEW x, CtxFit(x)
  PROVE  LET t == [s EXCEPT !.ctx[s.cur] = x]
         IN  /\ Fit(t) /\ t.cur = s.cur /\ t.con_fb = s.con_fb /\ t.con_kbd = s.con_kbd
             /\ t.fb = s.fb /\ t.cursor = s.cursor /\ t.ctx[s.cur] = x
             /\ \A c \in Terms \ {s.cur} : t.ctx[c] = s.ctx[c]
<1> DEFINE t == [s EXCEPT !.ctx[s.cur] = x]
           ctx == [s.ctx EXCEPT ![s.cur] = x]
<1>1. t = [s EXCEPT !.ctx = ctx]
  BY DEF Fit
<1>2. s.cur \in Terms /\ s.ctx = [c \in Terms |-> s.ctx[c]] /\ \A c \in Terms : CtxFit(s.ctx[c])
  BY DEF Fit
<1>3. /\ ctx = [c \in Terms |-> ctx[c]] /\ ctx[s.cur] = x
      /\ \A c \in Terms \ {s.cur} : ctx[c] = s.ctx[c]
      /\ \A c \in Terms : CtxFit(ctx[c])
  BY <1>2
<1> HIDE DEF ctx
<1>4. t = [fb |-> s.fb, cursor |-> s.cursor, cur |-> s.cur, con_fb |-> s.con_fb,
           con_kbd |-> s.con_kbd, ctx |-> ctx]
  BY <1>1 DEF Fit
<1> HIDE DEF t
<1>5. /\ t.cur = s.cur /\ t.con_fb = s.con_fb /\ t.con_kbd = s.con_kbd
      /\ t.fb = s.fb /\ t.cursor = s.cursor /\ t.ctx = ctx
  BY <1>4
<1>6. Fit(t)
  BY <1>3, <1>4, <1>5 DEF Fit
<1> QED BY <1>3, <1>5, <1>6 DEF t

----------------------------------------------------------------------------
(* Drawing *)

\* A console prints what it is, and what it prints in two steps.
LEMMA PrintsTrans ==
  /\ \A s : Fit(s) => Prints(s, s)
  /\ \A s, t : Fit(s) /\ Fit(t) /\ SameTerminals(s, t) => Prints(s, t)
  /\ \A s, t, u : Fit(s) /\ Prints(s, t) /\ Prints(t, u) => Prints(s, u)
<1>1. \A s : Fit(s) => Prints(s, s)
  BY DEF Prints
<1>2. \A s, t : Fit(s) /\ Fit(t) /\ SameTerminals(s, t) => Prints(s, t)
  BY DEF Prints, SameTerminals
<1>3. \A s, t, u : Fit(s) /\ Prints(s, t) /\ Prints(t, u) => Prints(s, u)
  BY DEF Prints
<1> QED BY <1>1, <1>2, <1>3

\* vgafb_write draws and does nothing else.
LEMMA WriteFb ==
  ASSUME NEW s, Fit(s), NEW offt, NEW cells
  PROVE  LET t == vgafb_write(s, offt, cells)
         IN  /\ Fit(t) /\ SameTerminals(s, t) /\ t.cursor = s.cursor
             /\ s.con_fb /\ offt < Size =>
                  t.fb = [i \in 1 .. Size |-> IF i \in offt + 1 .. offt + Len(cells)
                                              THEN cells[i - offt] ELSE s.fb[i]]
<1> DEFINE f == [i \in 1 .. Size |-> IF i \in offt + 1 .. offt + Len(cells)
                                     THEN cells[i - offt] ELSE s.fb[i]]
           t == vgafb_write(s, offt, cells)
<1>1. CASE s.con_fb /\ offt < Size
  <2>1. t = [s EXCEPT !.fb = f]
    BY <1>1 DEF vgafb_write
  <2> HIDE DEF f, t
  <2>2. Fit(t) /\ SameTerminals(s, t) /\ t.fb = f /\ t.cursor = s.cursor
    BY <2>1, SetFb
  <2> QED BY <2>2 DEF f, t
<1>2. CASE ~(s.con_fb /\ offt < Size)
  <2>1. t = s
    BY <1>2 DEF vgafb_write
  <2> HIDE DEF f, t
  <2>2. Fit(t) /\ SameTerminals(s, t) /\ t.cursor = s.cursor
    BY <2>1 DEF SameTerminals
  <2> QED BY <1>2, <2>2 DEF t
<1> QED BY <1>1, <1>2

\* drawstatus writes the bar, all of it, and not the text.
LEMMA DrawStatus ==
  ASSUME NEW s, Fit(s)
  PROVE  LET t == drawstatus(s)
         IN  /\ Fit(t) /\ SameTerminals(s, t) /\ t.cursor = s.cursor
             /\ s.con_fb => \A i \in 1 .. Cols : t.fb[Cols * (Rows - 1) + i] = Status(s.cur)
             /\ \A i \in 1 .. Cols * (Rows - 1) : t.fb[i] = s.fb[i]
<1> DEFINE m == Cols * (Rows - 1)
           r == Row(Status(s.cur))
           t == drawstatus(s)
<1>1. /\ m \in Nat /\ Size = m + Cols /\ m < Size /\ Cols \in Nat /\ Size \in Nat
      /\ Len(r) = Cols /\ \A i \in 1 .. Cols : r[i] = Status(s.cur)
  BY Geometry DEF Row
<1>2. t = vgafb_write(s, m, r)
  BY DEF drawstatus
<1> HIDE DEF m, r, t
<1>3. /\ Fit(t) /\ SameTerminals(s, t) /\ t.cursor = s.cursor
      /\ s.con_fb /\ m < Size =>
           t.fb = [i \in 1 .. Size |-> IF i \in m + 1 .. m + Len(r) THEN r[i - m] ELSE s.fb[i]]
  BY <1>2, WriteFb
<1>4. CASE s.con_fb
  <2>1. \A i \in 1 .. Size : t.fb[i] = IF i \in m + 1 .. m + Len(r) THEN r[i - m] ELSE s.fb[i]
    BY <1>1, <1>3, <1>4
  <2>2. ASSUME NEW i \in 1 .. Cols PROVE t.fb[m + i] = Status(s.cur)
    <3>1. m + i \in 1 .. Size /\ m + i \in m + 1 .. m + Len(r) /\ (m + i) - m = i
      BY <1>1
    <3> QED BY <1>1, <2>1, <3>1
  <2>3. ASSUME NEW i \in 1 .. m PROVE t.fb[i] = s.fb[i]
    <3>1. i \in 1 .. Size /\ i \notin m + 1 .. m + Len(r)
      BY <1>1
    <3> QED BY <2>1, <3>1
  <2> QED BY <1>3, <2>2, <2>3 DEF m, t
<1>5. CASE ~s.con_fb
  <2>1. t = s
    BY <1>2, <1>5 DEF vgafb_write
  <2> QED BY <1>3, <1>5, <2>1 DEF m, t
<1> QED BY <1>4, <1>5, <1>3 DEF Fit

\* syncfbcursor moves the hardware cursor and does nothing else.
LEMMA SyncCursor ==
  ASSUME NEW s, Fit(s)
  PROVE  LET t == syncfbcursor(s)
         IN  /\ Fit(t) /\ SameTerminals(s, t) /\ t.fb = s.fb
             /\ s.con_fb => t.cursor = Cy(s) * Cols + Cx(s)
<1> DEFINE p == Cy(s) * Cols + Cx(s)
           t == syncfbcursor(s)
<1>1. CASE s.con_fb
  <2>1. t = [s EXCEPT !.cursor = p]
    BY <1>1 DEF syncfbcursor
  <2> HIDE DEF p, t
  <2>2. Fit(t) /\ SameTerminals(s, t) /\ t.cursor = p /\ t.fb = s.fb
    BY <2>1, SetCursor
  <2> QED BY <2>2 DEF p, t
<1>2. CASE ~s.con_fb
  <2>1. t = s
    BY <1>2 DEF syncfbcursor
  <2> HIDE DEF t
  <2> QED BY <1>2, <2>1 DEF SameTerminals, t
<1> QED BY <1>1, <1>2

\* The end of putchar, clearscreen and switchcontext brings the screen in step and
\* leaves the text.
LEMMA RefreshShows ==
  ASSUME NEW s, Fit(s)
  PROVE  LET t == Refresh(s)
         IN  /\ Fit(t) /\ SameTerminals(s, t) /\ Prints(s, t)
             /\ s.con_fb => InStep(t)
             /\ \A i \in 1 .. Cols * (Rows - 1) : t.fb[i] = s.fb[i]
<1> DEFINE d == drawstatus(s)
           t == Refresh(s)
<1>1. /\ Fit(d) /\ SameTerminals(s, d)
      /\ s.con_fb => \A i \in 1 .. Cols : d.fb[Cols * (Rows - 1) + i] = Status(s.cur)
      /\ \A i \in 1 .. Cols * (Rows - 1) : d.fb[i] = s.fb[i]
  BY DrawStatus
<1>2. t = syncfbcursor(d)
  BY DEF Refresh
<1> HIDE DEF d, t
<1>3. /\ Fit(t) /\ SameTerminals(d, t) /\ t.fb = d.fb
      /\ d.con_fb => t.cursor = Cy(d) * Cols + Cx(d)
  BY <1>1, <1>2, SyncCursor
<1>4. SameTerminals(s, t)
  BY <1>1, <1>3 DEF SameTerminals
<1>5. s.con_fb => InStep(t)
  BY <1>1, <1>3 DEF SameTerminals, InStep, Cx, Cy
<1> QED BY <1>1, <1>3, <1>4, <1>5, PrintsTrans DEF t

\* The cursor goes to a place in the text.
LEMMA AtPlace ==
  ASSUME NEW s, Fit(s), NEW x \in 0 .. Cols - 1, NEW y \in 0 .. Rows - 2
  PROVE  LET t == At(s, x, y)
         IN  Prints(s, t) /\ Fit(t) /\ t.fb = s.fb /\ Cx(t) = x /\ Cy(t) = y
<1> DEFINE o == s.ctx[s.cur]
           n == [o EXCEPT !.cx = x, !.cy = y]
           t == At(s, x, y)
<1>1. CtxFit(o)
  BY DEF Fit
<1>2. t = [s EXCEPT !.ctx[s.cur] = n]
  BY DEF At
<1> HIDE DEF o, t
<1>3. n.cx = x /\ n.cy = y /\ n.mods = o.mods /\ CtxFit(n)
  BY <1>1 DEF CtxFit
<1> HIDE DEF n
<1>4. /\ Fit(t) /\ t.cur = s.cur /\ t.con_fb = s.con_fb /\ t.con_kbd = s.con_kbd
      /\ t.fb = s.fb /\ t.ctx[s.cur] = n
      /\ \A c \in Terms \ {s.cur} : t.ctx[c] = s.ctx[c]
  BY <1>2, <1>3, SetCtx
<1> QED BY <1>3, <1>4 DEF Prints, Cx, Cy, o, t

----------------------------------------------------------------------------
(* Printing *)

\* The cursor of the shown terminal is in the text.
LEMMA CursorType ==
  ASSUME NEW s, Fit(s)
  PROVE  /\ Cx(s) \in 0 .. Cols - 1 /\ Cy(s) \in 0 .. Rows - 2 /\ Cx(s) \in Nat /\ Cy(s) \in Nat
         /\ s.con_fb \in BOOLEAN /\ s.cur \in Terms
<1>1. s.cur \in Terms /\ CtxFit(s.ctx[s.cur]) /\ s.con_fb \in BOOLEAN
  BY DEF Fit
<1>2. Cx(s) \in 0 .. Cols - 1 /\ Cy(s) \in 0 .. Rows - 2
  BY <1>1 DEF CtxFit, Cx, Cy
<1> QED BY <1>1, <1>2, Geometry

\* moveline takes the cursor a line down, or scrolls.
LEMMA MoveLine ==
  ASSUME NEW s, Fit(s)
  PROVE  Prints(s, moveline(s)) /\ Fit(moveline(s))
<1>1. Cx(s) \in 0 .. Cols - 1 /\ Cy(s) \in 0 .. Rows - 2 /\ Cy(s) \in Nat
  BY CursorType
<1>2. Rows \in Nat /\ Rows > 1 /\ Rows - 2 \in 0 .. Rows - 2
  BY Geometry
<1>3. CASE Cy(s) + 1 = Rows - 1
  <2> DEFINE u == Scroll(s)
  <2>1. moveline(s) = At(u, Cx(s), Rows - 2)
    BY <1>3 DEF moveline
  <2>2. Fit(u) /\ SameTerminals(s, u)
    BY WriteFb DEF Scroll
  <2> HIDE DEF u
  <2>3. Prints(u, moveline(s)) /\ Fit(moveline(s))
    BY <1>1, <1>2, <2>1, <2>2, AtPlace
  <2>4. Prints(s, u)
    BY <2>2, PrintsTrans
  <2> QED BY <2>3, <2>4, PrintsTrans
<1>4. CASE Cy(s) + 1 # Rows - 1
  <2>1. moveline(s) = At(s, Cx(s), Cy(s) + 1)
    BY <1>4 DEF moveline
  <2>2. Cy(s) + 1 \in 0 .. Rows - 2
    BY <1>1, <1>2, <1>4
  <2> QED BY <1>1, <2>1, <2>2, AtPlace
<1> QED BY <1>3, <1>4

\* A line down from the first column
LEMMA NewLine ==
  ASSUME NEW s, Fit(s)
  PROVE  Prints(s, moveline(At(s, 0, Cy(s))))
<1> DEFINE u == At(s, 0, Cy(s))
<1>1. 0 \in 0 .. Cols - 1 /\ Cy(s) \in 0 .. Rows - 2
  BY CursorType, Geometry
<1>2. Prints(s, u) /\ Fit(u)
  BY <1>1, AtPlace
<1> HIDE DEF u
<1>3. Prints(u, moveline(u))
  BY <1>2, MoveLine
<1>4. Prints(s, moveline(u))
  BY <1>2, <1>3, PrintsTrans
<1> QED BY <1>4 DEF u

\* movecursor takes the cursor to the next place of the text.
LEMMA MoveCursor ==
  ASSUME NEW s, Fit(s)
  PROVE  Prints(s, movecursor(s))
<1>1. Cx(s) \in 0 .. Cols - 1 /\ Cy(s) \in 0 .. Rows - 2 /\ Cx(s) \in Nat /\ Cols \in Nat
  BY CursorType, Geometry
<1>2. CASE Cx(s) + 1 = Cols
  BY <1>2, NewLine DEF movecursor
<1>3. CASE Cx(s) + 1 # Cols
  <2>1. movecursor(s) = At(s, Cx(s) + 1, Cy(s))
    BY <1>3 DEF movecursor
  <2>2. Cx(s) + 1 \in 0 .. Cols - 1
    BY <1>1, <1>3
  <2> QED BY <1>1, <2>1, <2>2, AtPlace
<1> QED BY <1>2, <1>3

\* putchar before it brings the screen in step
Put(s, ch) ==
  CASE ch = VK_BS -> IF Cx(s) > 0 THEN At(s, Cx(s) - 1, Cy(s)) ELSE s
    [] ch = VK_HT -> IF NextStop(Cx(s)) >= Cols THEN moveline(At(s, 0, Cy(s)))
                     ELSE At(s, NextStop(Cx(s)), Cy(s))
    [] ch = VK_LF -> LET t == moveline(s) IN At(t, 0, Cy(t))
    [] ch = VK_CR -> At(s, 0, Cy(s))
    [] OTHER -> movecursor(vgafb_write(s, Cy(s) * Cols + Cx(s), <<ch>>))

\* putchar prints on the shown terminal and brings the screen in step.
LEMMA PutChar ==
  ASSUME NEW s, Fit(s), NEW ch
  PROVE  Prints(s, putchar(s, ch)) /\ Fit(putchar(s, ch)) /\ (s.con_fb => InStep(putchar(s, ch)))
<1>1. /\ Cx(s) \in 0 .. Cols - 1 /\ Cy(s) \in 0 .. Rows - 2 /\ Cx(s) \in Nat
      /\ Cols \in Nat \ {0} /\ 0 \in 0 .. Cols - 1 /\ TabStop \in Nat \ {0}
  BY CursorType, Geometry
<1> DEFINE u == Put(s, ch)
<1>2. Prints(s, u)
  <2>1. CASE ch = VK_BS
    <3>1. u = IF Cx(s) > 0 THEN At(s, Cx(s) - 1, Cy(s)) ELSE s
      BY <2>1 DEF Put, VK_BS, VK_HT, VK_LF, VK_CR
    <3>2. CASE Cx(s) > 0
      <4>1. Cx(s) - 1 \in 0 .. Cols - 1
        BY <1>1, <3>2
      <4> QED BY <1>1, <3>1, <3>2, <4>1, AtPlace
    <3>3. CASE ~(Cx(s) > 0)
      BY <3>1, <3>3, PrintsTrans
    <3> QED BY <3>2, <3>3
  <2>2. CASE ch = VK_HT
    <3>1. u = IF NextStop(Cx(s)) >= Cols THEN moveline(At(s, 0, Cy(s)))
              ELSE At(s, NextStop(Cx(s)), Cy(s))
      BY <2>2 DEF Put, VK_BS, VK_HT, VK_LF, VK_CR
    <3>2. NextStop(Cx(s)) \in Nat
      <4>1. Cx(s) \div TabStop \in Nat
        BY <1>1
      <4>2. (Cx(s) \div TabStop + 1) * TabStop \in Nat
        BY <1>1, <4>1
      <4> QED BY <4>2 DEF NextStop
    <3>3. CASE NextStop(Cx(s)) >= Cols
      BY <3>1, <3>3, NewLine
    <3>4. CASE ~(NextStop(Cx(s)) >= Cols)
      <4>1. NextStop(Cx(s)) \in 0 .. Cols - 1
        BY <1>1, <3>2, <3>4
      <4> QED BY <1>1, <3>1, <3>4, <4>1, AtPlace
    <3> QED BY <3>3, <3>4
  <2>3. CASE ch = VK_LF
    <3> DEFINE v == moveline(s)
    <3>1. u = At(v, 0, Cy(v))
      BY <2>3 DEF Put, VK_BS, VK_HT, VK_LF, VK_CR
    <3>2. Prints(s, v) /\ Fit(v)
      BY MoveLine
    <3> HIDE DEF v, u
    <3>3. Cy(v) \in 0 .. Rows - 2
      BY <3>2, CursorType
    <3>4. Prints(v, u)
      BY <1>1, <3>1, <3>2, <3>3, AtPlace
    <3> QED BY <3>2, <3>4, PrintsTrans
  <2>4. CASE ch = VK_CR
    <3>1. u = At(s, 0, Cy(s))
      BY <2>4 DEF Put, VK_BS, VK_HT, VK_LF, VK_CR
    <3> QED BY <1>1, <3>1, AtPlace
  <2>5. CASE ch # VK_BS /\ ch # VK_HT /\ ch # VK_LF /\ ch # VK_CR
    <3> DEFINE v == vgafb_write(s, Cy(s) * Cols + Cx(s), <<ch>>)
    <3>1. u = movecursor(v)
      BY <2>5 DEF Put
    <3>2. Fit(v) /\ SameTerminals(s, v)
      BY WriteFb
    <3> HIDE DEF v, u
    <3>3. Prints(s, v) /\ Prints(v, u)
      BY <3>1, <3>2, MoveCursor, PrintsTrans
    <3> QED BY <3>3, PrintsTrans
  <2> QED BY <2>1, <2>2, <2>3, <2>4, <2>5
<1>3. putchar(s, ch) = Refresh(u)
  BY DEF putchar, Put
<1> HIDE DEF u
<1>4. Fit(u) /\ u.con_fb = s.con_fb
  BY <1>2 DEF Prints
<1>5. Prints(u, putchar(s, ch)) /\ Fit(putchar(s, ch)) /\ (u.con_fb => InStep(putchar(s, ch)))
  BY <1>3, <1>4, RefreshShows
<1>6. Prints(s, putchar(s, ch))
  BY <1>2, <1>5, PrintsTrans
<1> QED BY <1>4, <1>5, <1>6

\* clearscreen brings the screen in step.
LEMMA ClearScreen ==
  ASSUME NEW s, Fit(s)
  PROVE  Prints(s, clearscreen(s)) /\ (s.con_fb => InStep(clearscreen(s)))
<1> DEFINE v == vgafb_write(s, 0, Screen(Blank))
           u == At(v, 0, 0)
<1>1. Fit(v) /\ SameTerminals(s, v)
  BY WriteFb
<1>2. 0 \in 0 .. Cols - 1 /\ 0 \in 0 .. Rows - 2
  BY Geometry
<1>3. clearscreen(s) = Refresh(u)
  BY DEF clearscreen
<1> HIDE DEF v
<1>4. Prints(s, v) /\ Prints(v, u)
  BY <1>1, <1>2, AtPlace, PrintsTrans
<1> HIDE DEF u
<1>5. Prints(s, u) /\ Fit(u) /\ u.con_fb = s.con_fb
  <2>1. Prints(s, u)
    BY <1>4, PrintsTrans
  <2> QED BY <2>1 DEF Prints
<1>6. Prints(u, clearscreen(s)) /\ (u.con_fb => InStep(clearscreen(s)))
  BY <1>3, <1>5, RefreshShows
<1> QED BY <1>5, <1>6, PrintsTrans

----------------------------------------------------------------------------
(* Strings *)

\* putstr puts one character after the other.
LEMMA PutStr ==
  ASSUME NEW s, Fit(s), NEW str, Len(str) \in Nat
  PROVE  /\ Prints(s, putstr(s, str)) /\ Fit(putstr(s, str))
         /\ s.con_fb /\ InStep(s) => InStep(putstr(s, str))
<1> DEFINE N == Len(str)
           D(w) == [i \in 0 .. N |-> IF i = 0 THEN s ELSE putchar(w[i - 1], str[i])]
           G(n, w) == /\ w = [i \in 0 .. n |-> w[i]] /\ w[0] = s
                      /\ \A i \in 1 .. n : w[i] = putchar(w[i - 1], str[i])
           S == {n \in Nat : \E w : G(n, w)}
           after == CHOOSE u : u = D(u)
<1>1. 0 \in S
  <2>1. G(0, [i \in 0 .. 0 |-> s])
    OBVIOUS
  <2> QED BY <2>1
<1>2. ASSUME NEW n \in Nat, n \in S PROVE n + 1 \in S
  <2>1. PICK w : G(n, w)
    BY <1>2
  <2> DEFINE v == [i \in 0 .. n + 1 |-> IF i = n + 1 THEN putchar(w[n], str[n + 1]) ELSE w[i]]
  <2>2. v = [i \in 0 .. n + 1 |-> v[i]] /\ v[0] = s
    BY <2>1
  <2>3. ASSUME NEW i \in 1 .. n + 1 PROVE v[i] = putchar(v[i - 1], str[i])
    <3>1. CASE i = n + 1
      BY <3>1
    <3>2. CASE i # n + 1
      <4>1. i \in 0 .. n + 1 /\ i - 1 \in 0 .. n + 1 /\ i - 1 # n + 1 /\ i \in 1 .. n
        BY <3>2
      <4>2. v[i] = w[i] /\ v[i - 1] = w[i - 1]
        BY <3>2, <4>1
      <4> HIDE DEF v
      <4> QED BY <2>1, <4>1, <4>2
    <3> QED BY <3>1, <3>2
  <2>4. G(n + 1, v)
    BY <2>2, <2>3
  <2> HIDE DEF G, v
  <2>5. \E u : G(n + 1, u)
    BY <2>4
  <2> QED BY <2>5
<1>3. PICK w : G(N, w)
  <2> HIDE DEF G
  <2>1. Nat \subseteq S
    <3> HIDE DEF S
    <3> QED BY <1>1, <1>2, InductionSet
  <2> QED BY <2>1
<1>4. w = D(w)
  BY <1>3
<1>5. after = D(after)
  <2> HIDE DEF D
  <2> QED BY <1>4
<1>6. putstr(s, str) = after[N]
  BY DEF putstr
<1> HIDE DEF after
<1>7. after[0] = s /\ \A i \in 1 .. N : after[i] = putchar(after[i - 1], str[i])
  <2>1. \A i \in 0 .. N : after[i] = IF i = 0 THEN s ELSE putchar(after[i - 1], str[i])
    BY <1>5
  <2> QED BY <2>1
<1> DEFINE Good(t) == Prints(s, t) /\ Fit(t) /\ (s.con_fb /\ InStep(s) => InStep(t))
           P == {n \in Nat : n <= N => Good(after[n])}
<1>8. Nat \subseteq P
  <2>1. 0 \in P
    BY <1>7, PrintsTrans
  <2>2. ASSUME NEW n \in Nat, n \in P PROVE n + 1 \in P
    <3> SUFFICES ASSUME n + 1 <= N PROVE Good(after[n + 1])
      OBVIOUS
    <3> DEFINE a == after[n]
               b == after[n + 1]
    <3>1. Good(a)
      BY <2>2
    <3>2. b = putchar(a, str[n + 1])
      BY <1>7
    <3> HIDE DEF a, b
    <3>3. Prints(a, b) /\ Fit(b) /\ (a.con_fb => InStep(b))
      BY <3>1, <3>2, PutChar
    <3>4. a.con_fb = s.con_fb
      BY <3>1 DEF Prints
    <3>5. Prints(s, b)
      BY <3>1, <3>3, PrintsTrans
    <3>6. Good(b)
      BY <3>3, <3>4, <3>5
    <3> QED BY <3>6 DEF b
  <2> HIDE DEF P
  <2> QED BY <2>1, <2>2, InductionSet
<1>9. Good(after[N])
  BY <1>8
<1> QED BY <1>6, <1>9

----------------------------------------------------------------------------
(* Switching *)

\* The text of terminal c, as the terminals' specification sees it
TextOf(s, c) == Text(IF c = s.cur THEN s.fb ELSE s.ctx[c].buffer)

\* Terminal to is shown; the text, the place and the modifiers of all of them
\* are as before.
Switches(s, t, to) ==
  /\ Fit(t) /\ t.cur = to /\ t.con_fb = s.con_fb /\ t.con_kbd = s.con_kbd
  /\ \A c \in Terms : /\ t.ctx[c].cx = s.ctx[c].cx /\ t.ctx[c].cy = s.ctx[c].cy
                      /\ t.ctx[c].mods = s.ctx[c].mods
                      /\ TextOf(t, c) = TextOf(s, c)

\* Texts are the same when their cells are.
LEMMA SameText ==
  ASSUME NEW a, NEW b, \A i \in 1 .. Cols * (Rows - 1) : a[i] = b[i]
  PROVE  Text(a) = Text(b)
  BY DEF Text

\* savecontext keeps what the screen shows in the terminal's buffer.
LEMMA SaveContext ==
  ASSUME NEW s, Fit(s), s.con_fb
  PROVE  LET t == savecontext(s)
         IN  /\ Fit(t) /\ t.cur = s.cur /\ t.con_fb = s.con_fb /\ t.con_kbd = s.con_kbd
             /\ t.fb = s.fb
             /\ \A c \in Terms : /\ t.ctx[c].cx = s.ctx[c].cx /\ t.ctx[c].cy = s.ctx[c].cy
                                 /\ t.ctx[c].mods = s.ctx[c].mods
                                 /\ Text(t.ctx[c].buffer) = TextOf(s, c)
<1> DEFINE m == Cols * (Rows - 1)
           B == vgafb_read(s, 0, Size)
           o == s.ctx[s.cur]
           n == [o EXCEPT !.buffer = B]
           t == savecontext(s)
<1>0. m \in Nat /\ Size \in Nat /\ m < Size
  BY Geometry
<1>1. B = [i \in 1 .. Size |-> s.fb[i]]
  <2>1. (IF 0 + Size < Size THEN Size ELSE Size - 0) = Size
    BY <1>0
  <2>2. B = [i \in 1 .. Size |-> s.fb[0 + i]]
    BY <2>1 DEF vgafb_read
  <2>3. \A i \in 1 .. Size : 0 + i = i
    BY <1>0
  <2> QED BY <2>2, <2>3
<1>2. Len(B) = Size /\ \A i \in 1 .. m : B[i] = s.fb[i]
  BY <1>0, <1>1
<1>3. CtxFit(o) /\ s.cur \in Terms
  BY DEF Fit
<1>4. t = [s EXCEPT !.ctx[s.cur] = n]
  BY DEF savecontext, Fit
<1> HIDE DEF B, o, t
<1>5. n.cx = o.cx /\ n.cy = o.cy /\ n.mods = o.mods /\ n.buffer = B /\ CtxFit(n)
  BY <1>2, <1>3 DEF CtxFit
<1> HIDE DEF n, m
<1>51. CtxFit(n)
  BY <1>5
<1>6. /\ Fit(t) /\ t.cur = s.cur /\ t.con_fb = s.con_fb /\ t.con_kbd = s.con_kbd
      /\ t.fb = s.fb /\ t.ctx[s.cur] = n
      /\ \A c \in Terms \ {s.cur} : t.ctx[c] = s.ctx[c]
  BY ONLY Fit(s), <1>4, <1>51, SetCtx
<1>7. Text(B) = Text(s.fb)
  BY <1>2, SameText DEF m
<1>8. ASSUME NEW c \in Terms
      PROVE  /\ t.ctx[c].cx = s.ctx[c].cx /\ t.ctx[c].cy = s.ctx[c].cy
             /\ t.ctx[c].mods = s.ctx[c].mods /\ Text(t.ctx[c].buffer) = TextOf(s, c)
  <2>1. CASE c = s.cur
    BY <1>5, <1>6, <1>7, <2>1 DEF o, TextOf
  <2>2. CASE c # s.cur
    BY <1>6, <2>2 DEF TextOf
  <2> QED BY <2>1, <2>2
<1> QED BY <1>6, <1>8 DEF t

\* switchcontext brings back the terminal that it shows and keeps the other.
LEMMA SwitchContext ==
  ASSUME NEW s, Fit(s), s.con_fb, NEW to \in Terms
  PROVE  Switches(s, switchcontext(s, to), to) /\ InStep(switchcontext(s, to))
<1> DEFINE m == Cols * (Rows - 1)
           v == savecontext(s)
           w == [v EXCEPT !.cur = to]
           b == w.ctx[to].buffer
           x == vgafb_write(w, 0, b)
           t == switchcontext(s, to)
<1>0. m \in Nat /\ Size \in Nat /\ m < Size /\ 0 < Size /\ to < Contexts
  BY Geometry DEF Terms
<1>1. t = Refresh(x)
  BY <1>0 DEF switchcontext
<1>2. /\ Fit(v) /\ v.con_fb = s.con_fb /\ v.con_kbd = s.con_kbd
      /\ \A c \in Terms : /\ v.ctx[c].cx = s.ctx[c].cx /\ v.ctx[c].cy = s.ctx[c].cy
                          /\ v.ctx[c].mods = s.ctx[c].mods
                          /\ Text(v.ctx[c].buffer) = TextOf(s, c)
  BY SaveContext
<1> HIDE DEF v
<1>3. /\ Fit(w) /\ w.cur = to /\ w.con_fb = s.con_fb /\ w.con_kbd = s.con_kbd
      /\ w.ctx = v.ctx
  BY <1>2 DEF Fit
<1> HIDE DEF w
<1>4. Len(b) = Size
  BY <1>3 DEF Fit, CtxFit
<1> HIDE DEF b
<1>5. /\ Fit(x) /\ SameTerminals(w, x)
      /\ x.fb = [i \in 1 .. Size |-> IF i \in 0 + 1 .. 0 + Len(b) THEN b[i - 0] ELSE w.fb[i]]
  <2> DEFINE k == 0
  <2>0. x = vgafb_write(w, k, b) /\ Fit(w)
    BY <1>3
  <2> HIDE DEF k, x
  <2>1. /\ Fit(x) /\ SameTerminals(w, x)
        /\ w.con_fb /\ k < Size =>
             x.fb = [i \in 1 .. Size |-> IF i \in k + 1 .. k + Len(b) THEN b[i - k] ELSE w.fb[i]]
    BY ONLY <2>0, WriteFb
  <2> QED BY <1>0, <1>3, <2>1 DEF k
<1> HIDE DEF x, t
<1>6. \A i \in 1 .. m : x.fb[i] = b[i]
  <2> TAKE i \in 1 .. m
  <2>1. i \in 1 .. Size /\ i \in 0 + 1 .. 0 + Len(b) /\ i - 0 = i
    BY <1>0, <1>4
  <2> QED BY <1>5, <2>1
<1>7. /\ Fit(t) /\ SameTerminals(x, t) /\ (x.con_fb => InStep(t))
      /\ \A i \in 1 .. m : t.fb[i] = x.fb[i]
  BY <1>1, <1>5, RefreshShows DEF m
<1>8. /\ t.cur = to /\ t.con_fb = s.con_fb /\ t.con_kbd = s.con_kbd /\ t.ctx = v.ctx
      /\ InStep(t)
  BY <1>3, <1>5, <1>7 DEF SameTerminals
<1>9. Text(t.fb) = Text(b)
  <2>1. \A i \in 1 .. m : t.fb[i] = b[i]
    BY <1>6, <1>7
  <2> QED BY <2>1, SameText DEF m
<1>10. ASSUME NEW c \in Terms PROVE TextOf(t, c) = TextOf(s, c)
  <2>1. CASE c = to
    BY <1>2, <1>3, <1>8, <1>9, <2>1 DEF TextOf, b
  <2>2. CASE c # to
    BY <1>2, <1>8, <2>2 DEF TextOf
  <2> QED BY <2>1, <2>2
<1>11. Switches(s, t, to)
  BY ONLY <1>2, <1>7, <1>8, <1>10, Zenon DEF Switches
<1> QED BY ONLY <1>8, <1>11, Zenon DEF t

\* echo_scancode prints on the terminal that is shown, or shows another.
LEMMA Echo ==
  ASSUME NEW s, Fit(s), s.con_fb, NEW vk, NEW text \in KeyTexts
  PROVE  LET t == echo_scancode(s, vk, text)
         IN  /\ Prints(s, t) \/ \E to \in Terms : Switches(s, t, to)
             /\ vk \notin VK_F1 .. VK_F8 => Prints(s, t)
             /\ Fit(t) /\ t.con_fb = s.con_fb /\ t.con_kbd = s.con_kbd
             /\ InStep(s) => InStep(t)
<1> DEFINE t == echo_scancode(s, vk, text)
           A == vk \in {VK_BS, VK_HT, VK_LF, VK_CR} \cup 32 .. 126
           F == vk \in VK_F1 .. VK_F8
           Goal(u) == /\ Prints(s, u) \/ \E to \in Terms : Switches(s, u, to)
                      /\ ~F => Prints(s, u)
                      /\ Fit(u) /\ u.con_fb = s.con_fb /\ u.con_kbd = s.con_kbd
                      /\ InStep(s) => InStep(u)
<1>1. \A u : Prints(s, u) /\ (InStep(s) => InStep(u)) => Goal(u)
  BY DEF Prints
<1>2. Goal(putchar(s, vk))
  BY <1>1, PutChar
<1>3. Goal(clearscreen(s))
  BY <1>1, ClearScreen
<1>4. Goal(putstr(s, text))
  <2>1. Len(text) \in Nat
    BY VtconAssumption
  <2>2. Prints(s, putstr(s, text)) /\ (InStep(s) => InStep(putstr(s, text)))
    BY <2>1, PutStr
  <2> QED BY <1>1, <2>2
<1>5. ASSUME F PROVE Goal(switchcontext(s, vk - VK_F1))
  <2> DEFINE to == vk - VK_F1
  <2>1. to \in Nat /\ Contexts \in Nat
    BY <1>5, Geometry DEF VK_F1, VK_F8
  <2> HIDE DEF to
  <2>2. CASE to < Contexts
    <3>1. to \in Terms
      BY <2>1, <2>2 DEF Terms
    <3>2. Switches(s, switchcontext(s, to), to) /\ InStep(switchcontext(s, to))
      BY <3>1, SwitchContext
    <3>3. Goal(switchcontext(s, to))
      BY <1>5, <3>1, <3>2 DEF Switches
    <3> QED BY <3>3 DEF to
  <2>3. CASE ~(to < Contexts)
    <3>1. switchcontext(s, to) = s
      BY <2>3 DEF switchcontext
    <3>2. Goal(s)
      BY <1>1, PrintsTrans
    <3> QED BY <3>1, <3>2 DEF to
  <2> QED BY <2>2, <2>3
<1> HIDE DEF Goal
<1>6. \/ t = putchar(s, vk) \/ t = clearscreen(s) \/ (F /\ t = switchcontext(s, vk - VK_F1))
      \/ t = putstr(s, text)
  <2> HIDE DEF A, F
  <2>1. t = CASE A -> putchar(s, vk)
              [] vk = VK_FF -> clearscreen(s)
              [] F -> switchcontext(s, vk - VK_F1)
              [] OTHER -> putstr(s, text)
    BY DEF echo_scancode, A, F
  <2> QED BY <2>1
<1>7. Goal(t)
  BY <1>2, <1>3, <1>4, <1>5, <1>6
<1> QED BY <1>7 DEF Goal

----------------------------------------------------------------------------
(* The steps of the console *)

\* The console is sound; while it is open it has the framebuffer, and its screen is in
\* step.
ConsoleInv ==
  /\ Fit(vt)
  /\ session => vt.con_fb /\ InStep(vt)

SamePlace(s, t, c) == t.ctx[c].cx = s.ctx[c].cx /\ t.ctx[c].cy = s.ctx[c].cy

\* What a step may do to the terminals
Outputs(s, t) ==
  /\ t.cur = s.cur
  /\ \A c \in Terms \ {s.cur} : SamePlace(s, t, c) /\ TextOf(t, c) = TextOf(s, c)

Shows(s, t) == t.cur \in Terms /\ \A c \in Terms : SamePlace(s, t, c) /\ TextOf(t, c) = TextOf(s, c)

Resets(s, t) ==
  /\ t.cur = s.cur
  /\ \A c \in Terms : /\ t.ctx[c].cx = 0 /\ t.ctx[c].cy = 0
                      /\ TextOf(t, c) = IF c = s.cur THEN TextOf(s, c) ELSE Text(Screen(Blank))

\* The same terminal is shown, and every one has its modifiers.
ModsKept(s, t) == t.cur = s.cur /\ \A c \in Terms : t.ctx[c].mods = s.ctx[c].mods

\* What is printed is output.
LEMMA PrintsOutputs ==
  ASSUME NEW s, NEW t, Prints(s, t)
  PROVE  Outputs(s, t) /\ ModsKept(s, t)
  BY DEF Prints, Outputs, SamePlace, TextOf, ModsKept

\* The state that decode_scancode leaves: the modifiers of the terminal shown
WithMods(s, m) == [s EXCEPT !.ctx[s.cur].mods = m]

\* The modifiers of the shown terminal are not on the screen.
LEMMA SetMods ==
  ASSUME NEW s, NEW t, NEW m, Fit(s), t = WithMods(s, m)
  PROVE  /\ Fit(t) /\ t.cur = s.cur /\ t.con_fb = s.con_fb /\ t.con_kbd = s.con_kbd
         /\ \A c \in Terms : SamePlace(s, t, c) /\ TextOf(t, c) = TextOf(s, c)
         /\ t.ctx[s.cur].mods = m
         /\ \A c \in Terms \ {s.cur} : t.ctx[c].mods = s.ctx[c].mods
         /\ InStep(s) => InStep(t)
<1> DEFINE o == s.ctx[s.cur]
           n == [o EXCEPT !.mods = m]
<1>1. CtxFit(o) /\ s.cur \in Terms
  BY DEF Fit
<1>2. t = [s EXCEPT !.ctx[s.cur] = n]
  BY DEF Fit, WithMods
<1> HIDE DEF o
<1>3. n.cx = o.cx /\ n.cy = o.cy /\ n.buffer = o.buffer /\ n.mods = m
  BY <1>1 DEF CtxFit
<1>4. CtxFit(n)
  BY <1>1, <1>3 DEF CtxFit
<1> HIDE DEF n
<1>5. /\ Fit(t) /\ t.cur = s.cur /\ t.con_fb = s.con_fb /\ t.con_kbd = s.con_kbd
      /\ t.fb = s.fb /\ t.cursor = s.cursor /\ t.ctx[s.cur] = n
      /\ \A c \in Terms \ {s.cur} : t.ctx[c] = s.ctx[c]
  BY ONLY Fit(s), <1>2, <1>4, SetCtx
<1>6. ASSUME NEW c \in Terms PROVE SamePlace(s, t, c) /\ TextOf(t, c) = TextOf(s, c)
  <2>1. CASE c = s.cur
    BY <1>3, <1>5, <2>1 DEF SamePlace, TextOf, o
  <2>2. CASE c # s.cur
    BY <1>5, <2>2 DEF SamePlace, TextOf
  <2> QED BY <2>1, <2>2
<1>7. InStep(s) => InStep(t)
  BY <1>3, <1>5 DEF InStep, Cx, Cy, o
<1> QED BY <1>3, <1>5, <1>6, <1>7

\* vtcon_close sends every terminal home.
LEMMA ResetContexts ==
  ASSUME NEW s, Fit(s)
  PROVE  LET t == resetcontexts(s)
         IN  Fit(t) /\ t.con_fb = s.con_fb /\ Resets(s, t) /\ ModsKept(s, t)
<1> DEFINE h(c) == [s.ctx[c] EXCEPT !.cx = 0, !.cy = 0, !.buffer = Screen(Blank)]
           ctx == [c \in DOMAIN s.ctx |-> h(c)]
           t == resetcontexts(s)
<1>1. DOMAIN s.ctx = Terms /\ s.cur \in Terms
  BY DEF Fit
<1>2. t = [fb |-> s.fb, cursor |-> s.cursor, cur |-> s.cur, con_fb |-> s.con_fb,
           con_kbd |-> s.con_kbd, ctx |-> ctx]
  <2>1. t = [s EXCEPT !.ctx = ctx]
    BY DEF resetcontexts
  <2> HIDE DEF ctx, t
  <2> QED BY <2>1 DEF Fit
<1>3. Size \in Nat /\ Len(Screen(Blank)) = Size /\ 0 \in 0 .. Cols - 1 /\ 0 \in 0 .. Rows - 2
  BY Geometry DEF Screen
<1>4. ASSUME NEW c \in Terms
      PROVE  /\ h(c).cx = 0 /\ h(c).cy = 0 /\ h(c).buffer = Screen(Blank) /\ CtxFit(h(c))
             /\ h(c).mods = s.ctx[c].mods
  <2> DEFINE o == s.ctx[c]
             n == [o EXCEPT !.cx = 0, !.cy = 0, !.buffer = Screen(Blank)]
  <2>1. CtxFit(o)
    BY DEF Fit
  <2> HIDE DEF o
  <2>2. n.cx = 0 /\ n.cy = 0 /\ n.buffer = Screen(Blank) /\ n.mods = o.mods
    BY <2>1 DEF CtxFit
  <2>3. CtxFit(n)
    BY <1>3, <2>1, <2>2 DEF CtxFit
  <2> QED BY <2>2, <2>3 DEF o
<1> HIDE DEF h
<1>5. ctx = [c \in Terms |-> ctx[c]] /\ \A c \in Terms : ctx[c] = h(c)
  BY <1>1
<1> HIDE DEF ctx, t
<1>6. t.cur = s.cur /\ t.con_fb = s.con_fb /\ t.con_kbd = s.con_kbd /\ t.ctx = ctx /\ t.fb = s.fb
  BY <1>2
<1>7. Fit(t)
  <2>1. \A c \in Terms : CtxFit(t.ctx[c])
    BY <1>4, <1>5, <1>6
  <2>2. t.con_kbd => t.con_fb
    BY <1>6 DEF Fit
  <2>3. s.cur \in Terms /\ s.con_fb \in BOOLEAN /\ s.con_kbd \in BOOLEAN
    BY DEF Fit
  <2> QED BY <1>2, <1>5, <1>6, <2>1, <2>2, <2>3 DEF Fit
<1>8. Resets(s, t)
  BY <1>4, <1>5, <1>6 DEF Resets, TextOf
<1>9. ModsKept(s, t)
  BY <1>4, <1>5, <1>6 DEF ModsKept
<1> QED BY <1>6, <1>7, <1>8, <1>9 DEF t

\* The invariant, and what the step did to the terminals
Good(s, ses) == Fit(s) /\ (ses => s.con_fb /\ InStep(s))

Moves(s, t) == Outputs(s, t) \/ Shows(s, t) \/ Resets(s, t)

\* A step that keeps what the screen needs keeps the invariant.
LEMMA Keeps ==
  ASSUME NEW s, NEW t, NEW ses, Good(s, ses),
         Fit(t), t.con_fb = s.con_fb, s.con_fb /\ InStep(s) => InStep(t)
  PROVE  Good(t, ses)
  BY DEF Good

\* Every step keeps the invariant, and outputs on the shown terminal, shows
\* another or resets them all; only a key that is read changes the modifiers.
LEMMA ConsoleStep ==
  ASSUME ConsoleInv, [Next]_vars
  PROVE  ConsoleInv' /\ Moves(vt, vt') /\ (PollDecodes \/ ModsKept(vt, vt'))
<1>1. Good(vt, session)
  BY DEF ConsoleInv, Good
<1>2. SUFFICES Good(vt', session') /\ Moves(vt, vt') /\ (PollDecodes \/ ModsKept(vt, vt'))
  BY DEF ConsoleInv, Good
<1>3. Fit(vt)
  BY <1>1 DEF Good
<1>4. vt' = vt /\ UNCHANGED session =>
        Good(vt', session') /\ Moves(vt, vt') /\ ModsKept(vt, vt')
  BY <1>1 DEF Moves, Outputs, SamePlace, ModsKept
<1>6. CASE \E n \in Rooms : vtcon_read(n)
  <2>1. vt' = drawstatus(vt) /\ session' = session
    BY <1>6 DEF vtcon_read
  <2>2. /\ Fit(vt') /\ SameTerminals(vt, vt') /\ vt'.cursor = vt.cursor
        /\ vt.con_fb => \A i \in 1 .. Cols : vt'.fb[Cols * (Rows - 1) + i] = Status(vt.cur)
        /\ \A i \in 1 .. Cols * (Rows - 1) : vt'.fb[i] = vt.fb[i]
    BY <1>3, <2>1, DrawStatus
  <2>3. vt.con_fb /\ InStep(vt) => InStep(vt')
    BY <2>2 DEF InStep, SameTerminals, Cx, Cy
  <2>4. Prints(vt, vt') /\ vt'.con_fb = vt.con_fb
    BY <1>3, <2>2, PrintsTrans DEF SameTerminals
  <2>5. Good(vt', session)
    BY <1>1, <2>2, <2>3, <2>4, Keeps
  <2> QED BY <2>1, <2>4, <2>5, PrintsOutputs DEF Moves
<1>7. CASE PollDecodes
  <2>1. PICK junk \in JunkVks, text \in KeyTexts :
          LET d == decode_scancode(Codes(batch), vt.ctx[vt.cur].mods, junk)
              s == [vt EXCEPT !.ctx[vt.cur].mods = d.mods]
          IN vt' = IF d.up THEN s ELSE echo_scancode(s, d.vk, text)
    BY <1>7 DEF PollDecodes
  <2> DEFINE d == decode_scancode(Codes(batch), vt.ctx[vt.cur].mods, junk)
             m == d.mods
             s == [vt EXCEPT !.ctx[vt.cur].mods = m]
             vk == d.vk
  <2>2. vt' = s \/ vt' = echo_scancode(s, vk, text)
    BY <2>1
  <2>3. session' = session /\ vt.con_fb
    BY <1>3, <1>7 DEF PollDecodes, Polled, Polling, Fit
  <2> HIDE DEF d, m
  <2>31. s = WithMods(vt, m)
    BY DEF WithMods
  <2> HIDE DEF s, vk
  <2>4. /\ Fit(s) /\ s.cur = vt.cur /\ s.con_fb = vt.con_fb /\ s.con_kbd = vt.con_kbd
        /\ \A c \in Terms : SamePlace(vt, s, c) /\ TextOf(s, c) = TextOf(vt, c)
        /\ InStep(vt) => InStep(s)
    BY ONLY <1>3, <2>31, SetMods
  <2>5. CASE vt' = s
    <3>1. Good(s, session)
      BY <1>1, <2>4, Keeps
    <3>2. Outputs(vt, s)
      BY <2>4 DEF Outputs
    <3> QED BY <1>7, <2>3, <2>5, <3>1, <3>2 DEF Moves
  <2>6. CASE vt' = echo_scancode(s, vk, text)
    <3>1. s.con_fb
      BY <2>3, <2>4
    <3>2. /\ Prints(s, vt') \/ \E to \in Terms : Switches(s, vt', to)
          /\ Fit(vt') /\ vt'.con_fb = s.con_fb /\ (InStep(s) => InStep(vt'))
      BY ONLY <2>4, <2>6, <3>1, text \in KeyTexts, Echo
    <3>3. Good(vt', session)
      BY <1>1, <2>4, <3>2, Keeps
    <3>4. CASE Prints(s, vt')
      <4>1. Outputs(s, vt')
        BY <3>4, PrintsOutputs
      <4>2. Outputs(vt, vt')
        BY <2>4, <4>1 DEF Outputs, SamePlace
      <4> QED BY <1>7, <2>3, <3>3, <4>2 DEF Moves
    <3>5. CASE \E to \in Terms : Switches(s, vt', to)
      <4>1. Shows(vt, vt')
        BY <2>4, <3>5 DEF Shows, Switches, SamePlace
      <4> QED BY <1>7, <2>3, <3>3, <4>1 DEF Moves
    <3> QED BY <3>2, <3>4, <3>5
  <2> QED BY <2>2, <2>5, <2>6
<1>8. CASE vtcon_open
  <2> DEFINE fb == "fb" \in installed
             kbd == fb /\ "kbd" \in installed
             ok == kbd /\ "clock" \in installed
             s == [vt EXCEPT !.con_fb = fb, !.con_kbd = kbd]
  <2>1. /\ ~vt.con_fb /\ vt' = (IF ok THEN Refresh(s) ELSE s) /\ session' = ok
    BY <1>8 DEF vtcon_open
  <2>3. fb \in BOOLEAN /\ kbd \in BOOLEAN /\ (kbd => fb) /\ ok \in BOOLEAN /\ (ok => fb)
    OBVIOUS
  <2> HIDE DEF fb, kbd, ok
  <2>4. /\ Fit(s) /\ s.cur = vt.cur /\ s.con_fb = fb /\ s.fb = vt.fb /\ s.ctx = vt.ctx
    BY <1>3, <2>3 DEF Fit
  <2> HIDE DEF s
  <2>5. CASE ok
    <3>1. vt' = Refresh(s) /\ session' = ok
      BY <2>1, <2>5
    <3>2. Fit(vt') /\ Prints(s, vt') /\ (s.con_fb => InStep(vt'))
      BY ONLY <2>4, <3>1, RefreshShows
    <3>3. vt'.con_fb /\ InStep(vt')
      BY <2>3, <2>4, <2>5, <3>2 DEF Prints
    <3>4. Outputs(vt, vt') /\ ModsKept(vt, vt')
      <4>1. Outputs(s, vt') /\ ModsKept(s, vt')
        BY <3>2, PrintsOutputs
      <4> QED BY ONLY <2>4, <4>1 DEF Outputs, SamePlace, TextOf, ModsKept
    <3>5. Good(vt', session')
      BY <3>1, <3>2, <3>3 DEF Good
    <3> QED BY <3>4, <3>5 DEF Moves
  <2>6. CASE ~ok
    <3>1. vt' = s /\ session' = ok
      BY <2>1, <2>6
    <3>2. Good(vt', session')
      BY <2>4, <2>6, <3>1 DEF Good
    <3>3. Outputs(vt, vt') /\ ModsKept(vt, vt')
      BY <2>4, <3>1 DEF Outputs, SamePlace, TextOf, ModsKept
    <3> QED BY <3>2, <3>3 DEF Moves
  <2> QED BY <2>5, <2>6
<1>9. CASE \E buf \in Bufs : vtcon_write(buf)
  <2>1. PICK buf \in Bufs : vt' = putstr(vt, buf) /\ session' = session
    BY <1>9 DEF vtcon_write
  <2>2. Len(buf) \in Nat
    BY VtconAssumption
  <2>3. Prints(vt, vt') /\ Fit(vt') /\ (vt.con_fb /\ InStep(vt) => InStep(vt'))
    BY ONLY <1>3, <2>1, <2>2, PutStr
  <2>4. vt'.con_fb = vt.con_fb
    BY <2>3 DEF Prints
  <2>5. Good(vt', session)
    BY <1>1, <2>3, <2>4, Keeps
  <2> QED BY <2>1, <2>3, <2>5, PrintsOutputs DEF Moves
<1>10. CASE vtcon_ioctl
  <2>1. vt' = clearscreen(vt) /\ session' = session
    BY <1>10 DEF vtcon_ioctl
  <2>2. Prints(vt, vt') /\ (vt.con_fb => InStep(vt'))
    BY ONLY <1>3, <2>1, ClearScreen
  <2>3. vt'.con_fb = vt.con_fb /\ Fit(vt')
    BY <2>2 DEF Prints
  <2>4. Good(vt', session)
    BY <1>1, <2>2, <2>3, Keeps
  <2> QED BY <2>1, <2>2, <2>4, PrintsOutputs DEF Moves
<1>11. CASE vtcon_close
  <2>1. vt' = resetcontexts(vt) /\ session' = FALSE
    BY <1>11 DEF vtcon_close
  <2>2. Fit(vt') /\ vt'.con_fb = vt.con_fb /\ Resets(vt, vt') /\ ModsKept(vt, vt')
    BY ONLY <1>3, <2>1, ResetContexts
  <2>3. Good(vt', session')
    BY <1>1, <2>1, <2>2 DEF Good
  <2> QED BY <2>2, <2>3 DEF Moves
<1>12. CASE (\E k \in Keys : Type(k)) \/ Arrive \/ Take \/ TakeTorn \/ PollDrops \/ Return \/ Refused
  <2>1. vt' = vt /\ UNCHANGED session
    BY <1>12 DEF Type, Arrive, Take, TakeTorn, PollDrops, Return, Refused
  <2> QED BY <1>4, <2>1
<1>13. CASE UNCHANGED vars
  BY <1>4, <1>13 DEF vars
<1> QED BY <1>6, <1>7, <1>8, <1>9, <1>10, <1>11, <1>12, <1>13 DEF Next

\* The console starts with every terminal at home.
LEMMA ConsoleInit ==
  ASSUME Init
  PROVE  /\ ConsoleInv
         /\ \A c \in Terms : /\ vt.ctx[c].cx = 0 /\ vt.ctx[c].cy = 0 /\ vt.ctx[c].buffer = Screen(Blank)
                             /\ vt.ctx[c].mods = {}
<1> DEFINE x == [cx |-> 0, cy |-> 0, mods |-> {}, buffer |-> Screen(Blank)]
<1>1. Size \in Nat /\ Len(Screen(Blank)) = Size /\ 0 \in 0 .. Cols - 1 /\ 0 \in 0 .. Rows - 2 /\ 0 \in Terms
  BY Geometry DEF Screen, Terms
<1>2. CtxFit(x) /\ x.cx = 0 /\ x.cy = 0 /\ x.buffer = Screen(Blank) /\ x.mods = {}
  BY <1>1 DEF CtxFit
<1>3. /\ vt = [fb |-> Screen(Empty), cursor |-> 0, cur |-> 0, con_fb |-> FALSE, con_kbd |-> FALSE,
               ctx |-> [c \in Terms |-> x]]
      /\ session = FALSE
  BY DEF Init, Terms
<1> HIDE DEF x
<1>4. vt.cur = 0 /\ ~vt.con_fb /\ vt.con_kbd = FALSE /\ vt.con_fb \in BOOLEAN /\ vt.ctx = [c \in Terms |-> x]
  BY <1>3
<1>5. Fit(vt)
  BY <1>1, <1>2, <1>3, <1>4 DEF Fit
<1>6. ConsoleInv
  BY ONLY <1>3, <1>4, <1>5 DEF ConsoleInv
<1>7. \A c \in Terms : vt.ctx[c] = x
  BY ONLY <1>4
<1> QED BY ONLY <1>2, <1>6, <1>7

----------------------------------------------------------------------------
(* What the scancodes mean *)

\* The modifiers that choose a column of us_scancodes_1
Meanings == {"shift", "ctrl", "alt"}

\* What a scancode does to them: alone, and after 224
KeyBits(key) ==
  IF key = 29 THEN {"ctrl"} ELSE IF key \in {42, 54} THEN {"shift"} ELSE IF key = 56 THEN {"alt"} ELSE {}

BitsOf(codes) == IF Len(codes) = 1 \/ Key(codes) \in {29, 56} THEN KeyBits(Key(codes)) ELSE {}

\* The modifier keys are on the same scancodes in every column.
LEMMA SingleBits ==
  ASSUME NEW key \in 0 .. 127, NEW mods
  PROVE  LET vk == get_single_scancode(key, mods)
         IN  /\ ModBit(vk) = KeyBits(key)
             /\ KeyBits(key) # {} => vk \notin VK_F1 .. VK_F8
<1> USE DEF ModBit, KeyBits, VK_NUL, VK_LCTL, VK_RCTL, VK_LSHF, VK_RSHF, VK_LALT, VK_RALT, VK_F1, VK_F8
<1> DEFINE Right(vk) == ModBit(vk) = KeyBits(key) /\ (KeyBits(key) # {} => vk \notin VK_F1 .. VK_F8)
           m == mods \cap {"shift", "ctrl", "alt"}
<1>1. key > 88 => Right(VK_NUL)
  OBVIOUS
<1>2. key <= 88 => Right(Nomod[key + 1]) /\ Right(Shift[key + 1]) /\ Right(Ctrl[key + 1])
  <2>1. key <= 88 => Right(Nomod[key + 1])
    BY DEF Nomod
  <2>2. key <= 88 => Right(Shift[key + 1])
    BY DEF Shift
  <2>3. key <= 88 => Right(Ctrl[key + 1])
    BY DEF Ctrl
  <2> QED BY <2>1, <2>2, <2>3
<1>3. /\ key = 57 => Right(VK_SP)
      /\ key \in 3 .. 11 => Right(49)
      /\ key = 15 => Right(VK_VT)
      /\ key \in {87, 88} => Right(VK_NUL)
  BY DEF VK_SP, VK_VT
<1> HIDE DEF Right, ModBit, KeyBits
<1>4. key <= 88 => Right(us_scancodes_1(key, m))
  BY <1>2, <1>3 DEF us_scancodes_1
<1>5. Right(get_single_scancode(key, mods))
  BY <1>1, <1>4 DEF get_single_scancode
<1> QED BY <1>5 DEF Right

LEMMA ExtendedBits ==
  ASSUME NEW key \in DOMAIN Extended
  PROVE  /\ ModBit(Extended[key]) = IF key \in {29, 56} THEN KeyBits(key) ELSE {}
         /\ Extended[key] \notin VK_F1 .. VK_F8
<1> DEFINE vk == Extended[key]
<1>1. /\ key = 29 => vk = VK_RCTL
      /\ key = 56 => vk = VK_RALT
      /\ key \notin {29, 56} => vk \in {VK_LF, 47, VK_DEL} \cup 224 .. 232
  BY DEF Extended
<1> HIDE DEF vk
<1>2. vk \notin VK_F1 .. VK_F8
  BY <1>1 DEF VK_RCTL, VK_RALT, VK_LF, VK_DEL, VK_F1, VK_F8
<1>3. ModBit(vk) = IF key = 29 THEN {"ctrl"} ELSE IF key = 56 THEN {"alt"} ELSE {}
  BY <1>1 DEF ModBit, VK_LCTL, VK_RCTL, VK_LSHF, VK_RSHF, VK_LALT, VK_RALT, VK_LF, VK_DEL
<1> QED BY <1>2, <1>3 DEF KeyBits, vk

\* decode_scancode sets or clears what the scancodes mean, and nothing else that
\* chooses a column; a modifier key is not a function key.
LEMMA DecodeMods ==
  ASSUME NEW codes, NEW mods, NEW junk, NEW d, d = decode_scancode(codes, mods, junk),
         Len(codes) \in {1, 2}, Key(codes) \in 0 .. 127
  PROVE  /\ d.mods \cap Meanings = IF IsRelease(codes) THEN (mods \cap Meanings) \ BitsOf(codes)
                                   ELSE (mods \cap Meanings) \cup BitsOf(codes)
         /\ BitsOf(codes) # {} => d.vk \notin VK_F1 .. VK_F8
<1> DEFINE vk == VirtualKey(codes, mods, junk)
           up == IsRelease(codes)
           bits == IF ~Unnamed(codes) THEN ModBit(vk)
                   ELSE IF Key(codes) \in {89, 91} THEN {"meta"} ELSE {}
           toggled == IF Len(codes) = 1 /\ vk = VK_CAPL /\ ~up
                      THEN (mods \ {"caps"}) \cup ({"caps"} \ mods) ELSE mods
<1>1. d.mods = releasebit(toggled, bits, up) /\ d.vk = vk
  BY DEF decode_scancode
<1>2. bits \cap Meanings = BitsOf(codes) /\ (BitsOf(codes) # {} => vk \notin VK_F1 .. VK_F8)
  <2>1. CASE Len(codes) = 1
    <3>1. vk = get_single_scancode(Key(codes), mods) /\ bits = ModBit(vk) /\ BitsOf(codes) = KeyBits(Key(codes))
      BY <2>1 DEF VirtualKey, Unnamed, BitsOf
    <3>2. ModBit(vk) = KeyBits(Key(codes)) /\ (KeyBits(Key(codes)) # {} => vk \notin VK_F1 .. VK_F8)
      BY <3>1, SingleBits
    <3>3. KeyBits(Key(codes)) \subseteq Meanings
      BY DEF KeyBits, Meanings
    <3> QED BY <3>1, <3>2, <3>3
  <2>2. CASE Unnamed(codes)
    <3>1. Key(codes) \notin {29, 56} /\ BitsOf(codes) = {} /\ bits \subseteq {"meta"}
      BY <2>2 DEF Unnamed, Extended, BitsOf
    <3> QED BY <3>1 DEF Meanings
  <2>3. CASE Len(codes) = 2 /\ ~Unnamed(codes)
    <3>1. Key(codes) \in DOMAIN Extended /\ vk = Extended[Key(codes)] /\ bits = ModBit(vk)
      BY <2>3 DEF Unnamed, VirtualKey
    <3>2. BitsOf(codes) = IF Key(codes) \in {29, 56} THEN KeyBits(Key(codes)) ELSE {}
      BY <2>3 DEF BitsOf
    <3>3. BitsOf(codes) \subseteq Meanings
      BY <3>2 DEF KeyBits, Meanings
    <3> QED BY <3>1, <3>2, <3>3, ExtendedBits
  <2> QED BY <2>1, <2>2, <2>3
<1>3. toggled \cap Meanings = mods \cap Meanings
  BY DEF Meanings
<1> HIDE DEF bits, toggled, vk, up
<1>4. releasebit(toggled, bits, up) \cap Meanings = IF up THEN (mods \cap Meanings) \ BitsOf(codes)
                                                    ELSE (mods \cap Meanings) \cup BitsOf(codes)
  <2>1. (toggled \ bits) \cap Meanings = (mods \cap Meanings) \ BitsOf(codes)
    BY <1>2, <1>3
  <2>2. (toggled \cup bits) \cap Meanings = (mods \cap Meanings) \cup BitsOf(codes)
    BY <1>2, <1>3
  <2> QED BY <2>1, <2>2 DEF releasebit
<1> QED BY <1>1, <1>2, <1>4 DEF up

\* The letters of the tables: a capital and a control character under each
LEMMA LetterKey ==
  ASSUME NEW key \in 0 .. 88, Nomod[key + 1] \in 97 .. 122, NEW mods
  PROVE  get_single_scancode(key, mods) =
           IF "ctrl" \in mods THEN Nomod[key + 1] - 96
           ELSE IF "shift" \in mods THEN Nomod[key + 1] - 32 ELSE Nomod[key + 1]
<1> DEFINE m == mods \cap {"shift", "ctrl", "alt"}
<1>1. Ctrl[key + 1] = Nomod[key + 1] - 96 /\ Shift[key + 1] = Nomod[key + 1] - 32
  BY DEF Nomod, Shift, Ctrl
<1>2. key # 57 /\ key \notin 3 .. 11 /\ key # 15 /\ key \notin {87, 88}
  BY DEF Nomod
<1>3. us_scancodes_1(key, m) = IF "ctrl" \in m THEN Ctrl[key + 1]
                               ELSE IF "shift" \in m THEN Shift[key + 1] ELSE Nomod[key + 1]
  BY <1>2 DEF us_scancodes_1
<1>4. get_single_scancode(key, mods) = us_scancodes_1(key, m)
  BY DEF get_single_scancode
<1>5. ("ctrl" \in m <=> "ctrl" \in mods) /\ ("shift" \in m <=> "shift" \in mods)
  OBVIOUS
<1> HIDE DEF m
<1> QED BY <1>1, <1>3, <1>4, <1>5

----------------------------------------------------------------------------
(* The scancodes under way *)

\* A scancode of a keystroke
Entry == {[code |-> k[1], of |-> k] : k \in Keys} \cup {[code |-> Last(k), of |-> k] : k \in Keys}

\* After the first scancode of an extended key comes the second.
Paired(q) ==
  \A i \in 1 .. Len(q) : q[i].code = 224 =>
    i < Len(q) /\ q[i + 1] = [code |-> Last(q[i].of), of |-> q[i].of]

\* A keystroke has one scancode, or 224 and another.
LEMMA KeyShape ==
  ASSUME NEW k \in Keys
  PROVE  \E c \in Scancode : /\ k = <<c>> \/ k = <<224, c>>
                             /\ Last(k) = c /\ c % 128 \in 0 .. 127 /\ IsRelease(k) = (c >= 128)
                             /\ k = <<c>> => Len(k) = 1 /\ k[1] = c /\ KeyOf(k) = <<c % 128>>
                             /\ k = <<224, c>> => Len(k) = 2 /\ k[1] = 224 /\ KeyOf(k) = <<224, c % 128>>
<1>1. PICK c \in Scancode : k = <<c>> \/ k = <<224, c>>
  BY VtconAssumption
<1>2. c \in 0 .. 255 /\ c % 128 \in 0 .. 127
  BY DEF Scancode
<1>3. CASE k = <<c>>
  <2>1. Len(k) = 1 /\ k[1] = c /\ Last(k) = c
    BY <1>3 DEF Last
  <2>2. KeyOf(k) = <<c % 128>>
    BY <1>2, <1>3, <2>1 DEF KeyOf
  <2>3. k # <<224, c>>
    BY <1>3
  <2> QED BY <1>2, <1>3, <2>1, <2>2, <2>3 DEF IsRelease
<1>4. CASE k = <<224, c>>
  <2>1. Len(k) = 2 /\ k[1] = 224 /\ k[2] = c /\ Last(k) = c
    BY <1>4 DEF Last
  <2>2. KeyOf(k) = <<224, c % 128>>
    BY <1>2, <1>4, <2>1 DEF KeyOf
  <2>3. k # <<c>>
    BY <1>4
  <2> QED BY <1>2, <1>4, <2>1, <2>2, <2>3 DEF IsRelease
<1> QED BY <1>1, <1>3, <1>4

\* The modifier keys, by their scancodes
LEMMA ModifierKeys ==
  ASSUME NEW key \in 0 .. 127
  PROVE  /\ <<key>> \in DOMAIN Modifiers <=> key \in {29, 42, 54, 56}
         /\ <<224, key>> \in DOMAIN Modifiers <=> key \in {29, 56}
         /\ <<key>> \in DOMAIN Modifiers => {Modifiers[<<key>>]} = KeyBits(key)
         /\ <<224, key>> \in DOMAIN Modifiers => {Modifiers[<<224, key>>]} = KeyBits(key)
<1> DEFINE D == {<<29>>, <<224, 29>>, <<42>>, <<54>>, <<56>>, <<224, 56>>}
<1>1. /\ DOMAIN Modifiers = D
      /\ \A k \in D : Modifiers[k] = CASE Last(k) = 29 -> "ctrl" [] Last(k) = 56 -> "alt" [] OTHER -> "shift"
  BY DEF Modifiers
<1>2. Last(<<key>>) = key /\ Last(<<224, key>>) = key
  BY DEF Last
<1>3. <<key>> \in D <=> key \in {29, 42, 54, 56}
  OBVIOUS
<1>4. <<224, key>> \in D <=> key \in {29, 56}
  OBVIOUS
<1> HIDE DEF D
<1>5. \A k \in D : k = <<key>> \/ k = <<224, key>> =>
        Modifiers[k] = CASE key = 29 -> "ctrl" [] key = 56 -> "alt" [] OTHER -> "shift"
  BY <1>1, <1>2
<1>6. <<key>> \in D => {Modifiers[<<key>>]} = KeyBits(key)
  BY <1>3, <1>5 DEF KeyBits
<1>7. <<224, key>> \in D => {Modifiers[<<224, key>>]} = KeyBits(key)
  BY <1>4, <1>5 DEF KeyBits
<1> QED BY <1>1, <1>3, <1>4, <1>6, <1>7
\* What is under way, in batch, queue and wire, are scancodes of keystrokes, in the
\* order in which they were sent unless some were lost.
StreamInv ==
  /\ batch \in Seq(Entry) /\ queue \in Seq(Entry) /\ wire \in Seq(Entry)
  /\ ~astray => Paired((batch \o queue) \o wire)

\* The fields of a scancode
LEMMA EntryShape ==
  ASSUME NEW e \in Entry
  PROVE  /\ e.of \in Keys /\ e = [code |-> e.code, of |-> e.of]
         /\ e.code = 224 \/ e.code = Last(e.of)
         /\ e.code = 224 => Len(e.of) = 2
<1>1. PICK k \in Keys : e = [code |-> k[1], of |-> k] \/ e = [code |-> Last(k), of |-> k]
  BY DEF Entry
<1>2. PICK c \in Scancode : /\ k = <<c>> \/ k = <<224, c>>
                            /\ Last(k) = c
                            /\ k = <<c>> => Len(k) = 1 /\ k[1] = c
                            /\ k = <<224, c>> => Len(k) = 2 /\ k[1] = 224
  BY KeyShape
<1>3. c # 224
  BY DEF Scancode
<1>4. e.of = k /\ (e.code = k[1] \/ e.code = c) /\ e = [code |-> e.code, of |-> e.of]
  BY ONLY <1>1, <1>2
<1> QED BY ONLY <1>2, <1>3, <1>4, k \in Keys

\* What comes first in a sequence, and how the scancodes under way are split
LEMMA Begins ==
  \A a, b \in Seq(Entry) : /\ a \o b \in Seq(Entry) /\ Len(a \o b) = Len(a) + Len(b)
                          /\ \A i \in 1 .. Len(a) : (a \o b)[i] = a[i]
  OBVIOUS

LEMMA HeadMoves ==
  \A a, b \in Seq(Entry) : b # <<>> => Append(a, Head(b)) \o Tail(b) = a \o b
  OBVIOUS

LEMMA Regroup ==
  \A a, b, c \in Seq(Entry) : (a \o b) \o c = a \o (b \o c)
  OBVIOUS

LEMMA FromEmpty ==
  \A a \in Seq(Entry) : <<>> \o a = a
  OBVIOUS

\* A poll that took something
LEMMA BatchShape ==
  ASSUME StreamInv, batch # <<>>
  PROVE  /\ Len(batch) \in Nat \ {0} /\ DOMAIN batch = 1 .. Len(batch)
         /\ \A i \in 1 .. Len(batch) : batch[i] \in Entry
         /\ Len(Codes(batch)) = Len(batch)
         /\ \A i \in 1 .. Len(batch) : Codes(batch)[i] = batch[i].code
<1>1. batch \in Seq(Entry)
  BY DEF StreamInv
<1>2. Len(batch) \in Nat \ {0} /\ DOMAIN batch = 1 .. Len(batch)
  BY <1>1
<1>3. \A i \in 1 .. Len(batch) : batch[i] \in Entry
  BY <1>1
<1>4. Len(Codes(batch)) = Len(batch) /\ \A i \in 1 .. Len(batch) : Codes(batch)[i] = batch[i].code
  BY <1>2 DEF Codes
<1> QED BY <1>2, <1>3, <1>4

\* A poll that is no mix of two keystrokes takes a single scancode, the whole of an
\* extended key, or one half of it.
LEMMA BatchCases ==
  ASSUME StreamInv, ~astray, batch # <<>>, Decodable(Codes(batch)), Whole(batch) \/ Half(batch)
  PROVE  LET e == Last(batch)
         IN  /\ e \in Entry
             /\ \/ Len(batch) = 1 /\ Codes(batch) = <<e.code>>
                \/ /\ Len(batch) = 2 /\ Codes(batch) = <<224, e.code>>
                   /\ e.of = <<224, e.code>> /\ e.code = Last(e.of)
<1> DEFINE e == Last(batch)
           codes == Codes(batch)
<1>1. /\ Len(batch) \in Nat \ {0} /\ DOMAIN batch = 1 .. Len(batch)
      /\ \A i \in 1 .. Len(batch) : batch[i] \in Entry
      /\ Len(codes) = Len(batch)
      /\ \A i \in 1 .. Len(batch) : codes[i] = batch[i].code
  BY BatchShape
<1>2. e = batch[Len(batch)] /\ e \in Entry
  BY <1>1 DEF Last
<1>3. codes = [i \in 1 .. Len(batch) |-> batch[i].code]
  BY <1>1 DEF Codes
<1>4. Len(batch) = 1 \/ (Len(batch) = 2 /\ codes[1] = 224)
  BY <1>1 DEF Decodable
<1>5. CASE Len(batch) = 1
  <2>1. codes = <<e.code>>
    BY <1>2, <1>3, <1>5
  <2> QED BY <1>2, <1>5, <2>1
<1>6. CASE Len(batch) = 2 /\ codes[1] = 224
  <2>1. codes = batch[1].of
    BY <1>6 DEF Whole, Half
  <2>2. codes = <<224, e.code>>
    BY <1>1, <1>2, <1>3, <1>6
  <2>3. batch[1].code = 224 /\ e = batch[2]
    BY <1>1, <1>2, <1>6
  <2>4. /\ ((batch \o queue) \o wire)[1] = batch[1] /\ ((batch \o queue) \o wire)[2] = batch[2]
        /\ 1 \in 1 .. Len((batch \o queue) \o wire)
    <3>1. batch \in Seq(Entry) /\ queue \in Seq(Entry) /\ wire \in Seq(Entry)
      BY DEF StreamInv
    <3>2. /\ batch \o queue \in Seq(Entry) /\ Len(batch \o queue) >= 2
          /\ (batch \o queue)[1] = batch[1] /\ (batch \o queue)[2] = batch[2]
      <4>1. Len(batch) = 2
        BY <1>6
      <4>2. Len(queue) \in Nat
        BY <3>1
      <4>3. /\ batch \o queue \in Seq(Entry) /\ Len(batch \o queue) = Len(batch) + Len(queue)
            /\ \A i \in 1 .. Len(batch) : (batch \o queue)[i] = batch[i]
        BY ONLY <3>1, Begins, Zenon
      <4> QED BY ONLY <4>1, <4>2, <4>3
    <3> DEFINE p == batch \o queue
    <3>3. p \in Seq(Entry) /\ Len(p) >= 2 /\ Len(p) \in Nat /\ Len(wire) \in Nat /\ p[1] = batch[1] /\ p[2] = batch[2]
      BY <3>1, <3>2
    <3> HIDE DEF p
    <3>4. Len(p \o wire) = Len(p) + Len(wire) /\ \A i \in 1 .. Len(p) : (p \o wire)[i] = p[i]
      BY ONLY <3>1, <3>3, Begins, Zenon
    <3>5. (p \o wire)[1] = batch[1] /\ (p \o wire)[2] = batch[2] /\ 1 \in 1 .. Len(p \o wire)
      BY ONLY <3>3, <3>4
    <3> QED BY <3>5 DEF p
  <2>5. e = [code |-> Last(batch[1].of), of |-> batch[1].of]
    <3> DEFINE s == (batch \o queue) \o wire
    <3>1. Paired(s)
      BY DEF StreamInv
    <3>2. s[1].code = 224 /\ s[1] = batch[1] /\ s[2] = e /\ 1 \in 1 .. Len(s)
      BY ONLY <2>3, <2>4
    <3> HIDE DEF s
    <3>3. s[1 + 1] = [code |-> Last(s[1].of), of |-> s[1].of]
      BY ONLY <3>1, <3>2 DEF Paired
    <3> HIDE DEF e
    <3> QED BY ONLY <3>2, <3>3
  <2>6. e.of = codes /\ e.code = Last(e.of)
    BY <2>1, <2>5
  <2> QED BY <1>2, <1>6, <2>2, <2>6
<1> QED BY <1>2, <1>4, <1>5, <1>6 DEF e, codes

\* What decode_scancode makes of such a batch is what the modifier key means.
LEMMA BatchBits ==
  ASSUME StreamInv, ~astray, batch # <<>>, Decodable(Codes(batch)), Whole(batch) \/ Half(batch), ~FakesShift(batch)
  PROVE  LET k == Last(batch).of
             codes == Codes(batch)
         IN  /\ Len(codes) \in {1, 2} /\ Key(codes) \in 0 .. 127 /\ IsRelease(codes) \in BOOLEAN
             /\ k \in Keys
             /\ Modifies(batch, k) => BitsOf(codes) = {Modifiers[KeyOf(k)]} /\ IsRelease(codes) = IsRelease(k)
             /\ ~Modifies(batch, k) => BitsOf(codes) = {}
<1> DEFINE e == Last(batch)
           k == e.of
           codes == Codes(batch)
<1>1. /\ e \in Entry
      /\ \/ Len(batch) = 1 /\ codes = <<e.code>>
         \/ /\ Len(batch) = 2 /\ codes = <<224, e.code>>
            /\ e.of = <<224, e.code>> /\ e.code = Last(e.of)
  BY BatchCases
<1>2. /\ k \in Keys /\ e = [code |-> e.code, of |-> k]
      /\ e.code = 224 \/ e.code = Last(k)
      /\ e.code = 224 => Len(k) = 2
  BY <1>1, EntryShape
<1>3. PICK c \in Scancode : /\ k = <<c>> \/ k = <<224, c>>
                            /\ Last(k) = c /\ c % 128 \in 0 .. 127 /\ IsRelease(k) = (c >= 128)
                            /\ k = <<c>> => Len(k) = 1 /\ k[1] = c /\ KeyOf(k) = <<c % 128>>
                            /\ k = <<224, c>> => Len(k) = 2 /\ k[1] = 224 /\ KeyOf(k) = <<224, c % 128>>
  BY <1>2, KeyShape
<1>4. c \in 0 .. 255 /\ c # 224
  BY DEF Scancode
<1>5. Modifies(batch, k) <=> e.code = c /\ KeyOf(k) \in DOMAIN Modifiers
  BY <1>2, <1>3 DEF Modifies
<1>6. /\ <<c % 128>> \in DOMAIN Modifiers <=> c % 128 \in {29, 42, 54, 56}
      /\ <<224, c % 128>> \in DOMAIN Modifiers <=> c % 128 \in {29, 56}
      /\ <<c % 128>> \in DOMAIN Modifiers => {Modifiers[<<c % 128>>]} = KeyBits(c % 128)
      /\ <<224, c % 128>> \in DOMAIN Modifiers => {Modifiers[<<224, c % 128>>]} = KeyBits(c % 128)
  <2> DEFINE key == c % 128
  <2>1. key \in 0 .. 127
    BY ONLY <1>3
  <2> HIDE DEF key
  <2>2. /\ <<key>> \in DOMAIN Modifiers <=> key \in {29, 42, 54, 56}
        /\ <<224, key>> \in DOMAIN Modifiers <=> key \in {29, 56}
        /\ <<key>> \in DOMAIN Modifiers => {Modifiers[<<key>>]} = KeyBits(key)
        /\ <<224, key>> \in DOMAIN Modifiers => {Modifiers[<<224, key>>]} = KeyBits(key)
    BY ONLY <2>1, ModifierKeys
  <2> QED BY ONLY <2>2, Zenon DEF key
<1>7. \A x \in 0 .. 127 : x \notin {29, 42, 54, 56} => KeyBits(x) = {}
  BY DEF KeyBits
<1>8. \A x \in 0 .. 255 : /\ Len(<<x>>) = 1 /\ Key(<<x>>) = x % 128 /\ IsRelease(<<x>>) = (x >= 128)
                          /\ BitsOf(<<x>>) = KeyBits(x % 128)
  <2> SUFFICES ASSUME NEW x \in 0 .. 255
               PROVE  /\ Len(<<x>>) = 1 /\ Key(<<x>>) = x % 128 /\ IsRelease(<<x>>) = (x >= 128)
                      /\ BitsOf(<<x>>) = KeyBits(x % 128)
    OBVIOUS
  <2>1. Len(<<x>>) = 1 /\ Last(<<x>>) = x
    BY DEF Last
  <2> QED BY <2>1 DEF Key, IsRelease, BitsOf
<1> SUFFICES /\ Len(codes) \in {1, 2} /\ Key(codes) \in 0 .. 127 /\ IsRelease(codes) \in BOOLEAN
             /\ k \in Keys
             /\ Modifies(batch, k) => BitsOf(codes) = {Modifiers[KeyOf(k)]} /\ IsRelease(codes) = IsRelease(k)
             /\ ~Modifies(batch, k) => BitsOf(codes) = {}
  OBVIOUS
<1> HIDE DEF e, k, codes
<1>9. CASE codes = <<e.code>> /\ e.code = 224
  <2>1. 224 % 128 = 96 /\ 224 \in 0 .. 255 /\ codes = <<224>>
    BY <1>9
  <2>2. /\ Len(codes) = 1 /\ Key(codes) = 96 /\ IsRelease(codes) \in BOOLEAN
        /\ BitsOf(codes) = KeyBits(96)
    <3>1. Len(codes) = 1 /\ Last(codes) = 224
      BY <2>1 DEF Last
    <3> QED BY <2>1, <3>1 DEF Key, IsRelease, BitsOf
  <2>3. BitsOf(codes) = {}
    BY <1>7, <2>2
  <2>4. ~Modifies(batch, k)
    BY <1>4, <1>5, <1>9
  <2> QED BY <1>2, <2>2, <2>3, <2>4
<1>10. CASE codes = <<e.code>> /\ e.code # 224
  <2>1. e.code = c
    BY <1>2, <1>3, <1>10
  <2>2. /\ Len(codes) = 1 /\ Key(codes) = c % 128 /\ IsRelease(codes) = (c >= 128)
        /\ BitsOf(codes) = KeyBits(c % 128)
    <3>1. codes = <<c>>
      BY ONLY <1>10, <2>1, Zenon
    <3>2. /\ Len(<<c>>) = 1 /\ Key(<<c>>) = c % 128 /\ IsRelease(<<c>>) = (c >= 128)
          /\ BitsOf(<<c>>) = KeyBits(c % 128)
      BY ONLY <1>4, <1>8, Zenon
    <3> QED BY ONLY <3>1, <3>2, Zenon
  <2>3. CASE k = <<c>>
    <3>1. KeyOf(k) = <<c % 128>>
      BY <1>3, <2>3
    <3>2. Modifies(batch, k) => BitsOf(codes) = {Modifiers[KeyOf(k)]} /\ IsRelease(codes) = IsRelease(k)
      <4>1. Modifies(batch, k) => {Modifiers[KeyOf(k)]} = KeyBits(c % 128)
        <5>1. Modifies(batch, k) => KeyOf(k) \in DOMAIN Modifiers
          BY ONLY <1>5, Zenon
        <5>2. KeyOf(k) \in DOMAIN Modifiers => {Modifiers[KeyOf(k)]} = KeyBits(c % 128)
          BY ONLY <1>6, <3>1
        <5> QED BY ONLY <5>1, <5>2, Zenon
      <4>2. IsRelease(codes) = IsRelease(k)
        BY ONLY <1>3, <2>2, Zenon
      <4> QED BY ONLY <2>2, <4>1, <4>2, Zenon
    <3>3. ~Modifies(batch, k) => BitsOf(codes) = {}
      <4>1. ~Modifies(batch, k) => c % 128 \notin {29, 42, 54, 56}
        <5>1. ~Modifies(batch, k) => KeyOf(k) \notin DOMAIN Modifiers
          BY ONLY <1>5, <2>1, Zenon
        <5>2. KeyOf(k) \in DOMAIN Modifiers <=> c % 128 \in {29, 42, 54, 56}
          BY ONLY <1>6, <3>1
        <5> QED BY ONLY <5>1, <5>2
      <4>2. c % 128 \notin {29, 42, 54, 56} => KeyBits(c % 128) = {}
        BY <1>3, <1>7, Zenon
      <4> QED BY <2>2, <4>1, <4>2, Zenon
    <3> QED BY ONLY <1>2, <1>3, <2>2, <3>2, <3>3
  <2>4. CASE k = <<224, c>>
    <3>1. KeyOf(k) = <<224, c % 128>>
      BY <1>3, <2>4
    <3>2. Half(batch)
      <4>1. Len(batch) = 1
        BY <1>1, <2>2, BatchShape DEF codes
      <4>2. batch[1] = e
        BY <4>1 DEF e, Last
      <4>3. codes # k
        BY <1>3, <2>2, <2>4
      <4> QED BY <4>1, <4>2, <4>3 DEF Half, Whole, codes, k
    <3>3. c % 128 \notin {42, 54}
      BY <2>2, <3>2 DEF FakesShift, codes
    <3>4. Modifies(batch, k) => BitsOf(codes) = {Modifiers[KeyOf(k)]} /\ IsRelease(codes) = IsRelease(k)
      <4>1. Modifies(batch, k) => {Modifiers[KeyOf(k)]} = KeyBits(c % 128)
        <5>1. Modifies(batch, k) => KeyOf(k) \in DOMAIN Modifiers
          BY ONLY <1>5, Zenon
        <5>2. KeyOf(k) \in DOMAIN Modifiers => {Modifiers[KeyOf(k)]} = KeyBits(c % 128)
          BY ONLY <1>6, <3>1
        <5> QED BY ONLY <5>1, <5>2, Zenon
      <4>2. IsRelease(codes) = IsRelease(k)
        BY ONLY <1>3, <2>2, Zenon
      <4> QED BY ONLY <2>2, <4>1, <4>2, Zenon
    <3>5. ~Modifies(batch, k) => BitsOf(codes) = {}
      <4>1. ~Modifies(batch, k) => c % 128 \notin {29, 56}
        <5>1. ~Modifies(batch, k) => KeyOf(k) \notin DOMAIN Modifiers
          BY ONLY <1>5, <2>1, Zenon
        <5>2. KeyOf(k) \in DOMAIN Modifiers <=> c % 128 \in {29, 56}
          BY ONLY <1>6, <3>1
        <5> QED BY ONLY <5>1, <5>2
      <4>2. c % 128 \notin {29, 42, 54, 56} => KeyBits(c % 128) = {}
        BY <1>3, <1>7, Zenon
      <4>3. c % 128 \notin {29, 56} => c % 128 \notin {29, 42, 54, 56}
        BY <3>3
      <4> QED BY <2>2, <4>1, <4>2, <4>3, Zenon
    <3> QED BY ONLY <1>2, <1>3, <2>2, <3>4, <3>5
  <2> QED BY <1>3, <2>3, <2>4
<1>11. CASE codes = <<224, e.code>> /\ k = <<224, e.code>> /\ e.code = Last(k)
  <2>1. e.code = c /\ k = <<224, c>> /\ codes = <<224, c>>
    BY <1>3, <1>11
  <2>2. Len(codes) = 2 /\ Last(codes) = c
    BY <2>1 DEF Last
  <2>3. /\ Key(codes) = c % 128 /\ IsRelease(codes) = (c >= 128)
        /\ BitsOf(codes) = IF c % 128 \in {29, 56} THEN KeyBits(c % 128) ELSE {}
    BY <2>2 DEF Key, IsRelease, BitsOf
  <2>4. KeyOf(k) = <<224, c % 128>>
    BY <1>3, <2>1
  <2>5. /\ KeyOf(k) \in DOMAIN Modifiers <=> c % 128 \in {29, 56}
        /\ KeyOf(k) \in DOMAIN Modifiers => {Modifiers[KeyOf(k)]} = KeyBits(c % 128)
    BY ONLY <1>6, <2>4
  <2>6. Modifies(batch, k) <=> KeyOf(k) \in DOMAIN Modifiers
    BY ONLY <1>5, <2>1
  <2>7. BitsOf(codes) = IF Modifies(batch, k) THEN {Modifiers[KeyOf(k)]} ELSE {}
    BY ONLY <2>3, <2>5, <2>6
  <2> QED BY ONLY <1>2, <1>3, <2>2, <2>3, <2>7
<1> QED BY <1>1, <1>9, <1>10, <1>11 DEF k, e, codes
----------------------------------------------------------------------------
(* The keys that are held *)

\* Scancodes arrive in the order in which they were sent, or one is lost.
LEMMA ArriveStream ==
  ASSUME StreamInv, astray \in BOOLEAN, Arrive
  PROVE  StreamInv'
<1>1. /\ batch \in Seq(Entry) /\ queue \in Seq(Entry) /\ wire \in Seq(Entry) /\ wire # <<>>
      /\ batch' = batch /\ wire' = Tail(wire) /\ astray' = (astray \/ Len(queue) = KbdSize)
      /\ queue' = Append(IF Len(queue) = KbdSize THEN Tail(queue) ELSE queue, Head(wire))
  BY DEF StreamInv, Arrive
<1>2. Head(wire) \in Entry /\ Tail(wire) \in Seq(Entry)
  BY <1>1
<1>3. CASE Len(queue) = KbdSize
  <2>1. queue # <<>>
    BY <1>3, VtconAssumption
  <2>2. Tail(queue) \in Seq(Entry)
    BY <1>1, <2>1
  <2>3. queue' \in Seq(Entry)
    BY <1>1, <1>2, <1>3, <2>2
  <2> QED BY <1>1, <1>2, <1>3, <2>3 DEF StreamInv
<1>4. CASE Len(queue) # KbdSize
  <2>1. queue' = Append(queue, Head(wire)) /\ queue' \in Seq(Entry)
    BY <1>1, <1>2, <1>4
  <2>2. queue' \o wire' = queue \o wire
    BY <1>1, <2>1, HeadMoves
  <2>3. (batch' \o queue') \o wire' = batch \o (queue' \o wire')
    <3>1. batch \in Seq(Entry) /\ queue' \in Seq(Entry) /\ wire' \in Seq(Entry) /\ batch' = batch
      BY <1>1, <1>2, <2>1
    <3> QED BY ONLY <3>1, Regroup, Zenon
  <2>4. (batch \o queue) \o wire = batch \o (queue \o wire)
    <3>1. batch \in Seq(Entry) /\ queue \in Seq(Entry) /\ wire \in Seq(Entry)
      BY <1>1
    <3> QED BY ONLY <3>1, Regroup, Zenon
  <2>5. (batch' \o queue') \o wire' = (batch \o queue) \o wire
    BY ONLY <2>2, <2>3, <2>4
  <2>6. ~astray' => Paired((batch' \o queue') \o wire')
    BY <1>1, <2>5, Zenon DEF StreamInv
  <2> QED BY <1>1, <1>2, <2>1, <2>6 DEF StreamInv
<1> QED BY <1>3, <1>4

\* A keystroke follows what was sent before it.
LEMMA TypeStream ==
  ASSUME StreamInv, NEW k \in Keys, Type(k)
  PROVE  StreamInv'
<1> DEFINE sent == batch \o queue
<1>0. /\ batch \in Seq(Entry) /\ queue \in Seq(Entry) /\ wire = <<>> /\ (~astray => Paired(sent \o wire))
      /\ batch' = batch /\ queue' = queue /\ astray' = astray
  BY DEF StreamInv, Type
<1>1. sent \in Seq(Entry)
  BY <1>0
<1>01. wire' = [i \in DOMAIN k |-> [code |-> k[i], of |-> k]]
  BY DEF Type
<1>2. ~astray => Paired(sent)
  <2>1. sent \o wire = sent
    BY <1>0, <1>1
  <2> QED BY <1>0, <2>1
<1>00. ASSUME wire' \in Seq(Entry), ~astray => Paired(sent \o wire') PROVE StreamInv'
  BY <1>0, <1>00 DEF StreamInv
<1> HIDE DEF sent
<1>3. PICK c \in Scancode : /\ k = <<c>> \/ k = <<224, c>>
                            /\ Last(k) = c
                            /\ k = <<c>> => Len(k) = 1 /\ k[1] = c
                            /\ k = <<224, c>> => Len(k) = 2 /\ k[1] = 224
  BY KeyShape
<1>4. c # 224
  BY DEF Scancode
<1> DEFINE e == [code |-> c, of |-> k]
           f == [code |-> 224, of |-> k]
<1>5. e \in Entry
  BY <1>3 DEF Entry
<1>6. k = <<224, c>> => f \in Entry
  BY <1>3 DEF Entry
<1>7. e.code = c /\ e.of = k /\ f.code = 224 /\ f.of = k
  OBVIOUS
<1>8. k = <<c>> => wire' = <<e>>
  BY ONLY <1>01
<1>9. k = <<224, c>> => wire' = <<f, e>>
  BY ONLY <1>01
<1>10. e = [code |-> Last(k), of |-> k]
  BY <1>3
<1> HIDE DEF e, f
<1> DEFINE n == Len(sent)
<1>11. n \in Nat /\ (\A i \in 1 .. n : sent[i] \in Entry)
  BY <1>1
<1>12. CASE k = <<c>>
  <2> DEFINE r == sent \o <<e>>
  <2>1. Len(r) = n + 1 /\ r[n + 1] = e /\ \A i \in 1 .. n : r[i] = sent[i]
    BY <1>1
  <2> HIDE DEF r, n
  <2>2. ASSUME ~astray, NEW i \in 1 .. Len(r), r[i].code = 224
        PROVE  i < Len(r) /\ r[i + 1] = [code |-> Last(r[i].of), of |-> r[i].of]
    <3>1. i # n + 1 /\ i \in 1 .. n
      BY <1>4, <1>7, <1>11, <2>1, <2>2
    <3>2. sent[i].code = 224 /\ r[i] = sent[i]
      BY <2>1, <2>2, <3>1
    <3>3. i < n /\ sent[i + 1] = [code |-> Last(sent[i].of), of |-> sent[i].of]
      BY <1>2, <2>2, <3>1, <3>2 DEF Paired, n
    <3>4. r[i + 1] = sent[i + 1]
      BY <1>11, <2>1, <3>1, <3>3
    <3>5. i < Len(r)
      BY ONLY <1>11, <2>1, <3>3, <3>1
    <3> QED BY ONLY <3>2, <3>3, <3>4, <3>5, Zenon
  <2>3. ~astray => Paired(r)
    BY <2>2 DEF Paired
  <2>4. <<e>> \in Seq(Entry)
    BY <1>5
  <2> QED BY <1>00, <1>8, <1>12, <2>3, <2>4 DEF r
<1>13. CASE k = <<224, c>>
  <2> DEFINE r == sent \o <<f, e>>
  <2>1. Len(r) = n + 2 /\ r[n + 1] = f /\ r[n + 2] = e /\ \A i \in 1 .. n : r[i] = sent[i]
    BY <1>1
  <2> HIDE DEF r, n
  <2>2. ASSUME ~astray, NEW i \in 1 .. Len(r), r[i].code = 224
        PROVE  i < Len(r) /\ r[i + 1] = [code |-> Last(r[i].of), of |-> r[i].of]
    <3>1. i # n + 2 /\ i \in 1 .. n + 1
      BY <1>4, <1>7, <1>11, <2>1, <2>2
    <3>2. CASE i = n + 1
      <4>1. i + 1 = n + 2 /\ i < n + 2
        BY <1>11, <3>2
      <4>2. r[i] = f /\ r[i + 1] = e
        BY ONLY <2>1, <3>2, <4>1
      <4> QED BY ONLY <1>7, <1>10, <2>1, <4>1, <4>2
    <3>3. CASE i \in 1 .. n
      <4>1. sent[i].code = 224 /\ r[i] = sent[i]
        BY <2>1, <2>2, <3>3
      <4>2. i < n /\ sent[i + 1] = [code |-> Last(sent[i].of), of |-> sent[i].of]
        BY <1>2, <2>2, <3>3, <4>1 DEF Paired, n
      <4>3. r[i + 1] = sent[i + 1]
        BY <1>11, <2>1, <3>3, <4>2
      <4> QED BY ONLY <1>11, <2>1, <3>3, <4>1, <4>2, <4>3
    <3> QED BY <1>11, <3>1, <3>2, <3>3
  <2>3. ~astray => Paired(r)
    BY <2>2 DEF Paired
  <2>4. <<f, e>> \in Seq(Entry)
    BY <1>5, <1>6, <1>13
  <2> QED BY <1>00, <1>9, <1>13, <2>3, <2>4 DEF r
<1> QED BY <1>3, <1>12, <1>13

\* A turn of keyboard_read's loop takes the oldest.
LEMMA TakeStream ==
  ASSUME StreamInv, Take
  PROVE  StreamInv'
<1>1. /\ batch \in Seq(Entry) /\ queue \in Seq(Entry) /\ wire \in Seq(Entry) /\ queue # <<>>
      /\ batch' = Append(batch, Head(queue)) /\ queue' = Tail(queue) /\ wire' = wire /\ astray' = astray
  BY DEF StreamInv, Take
<1>2. batch' \in Seq(Entry) /\ queue' \in Seq(Entry)
  BY <1>1
<1>3. batch' \o queue' = batch \o queue
  BY <1>1, HeadMoves
<1> QED BY <1>1, <1>2, <1>3 DEF StreamInv

\* A torn read loses scancodes, and makes none up.
LEMMA TornStream ==
  ASSUME StreamInv, TakeTorn
  PROVE  StreamInv'
<1> DEFINE all == Append(queue, Head(wire))
<1>1. /\ batch \in Seq(Entry) /\ queue \in Seq(Entry) /\ wire \in Seq(Entry) /\ wire # <<>>
      /\ Len(queue) = KbdSize /\ wire' = Tail(wire) /\ astray' = TRUE
  BY DEF StreamInv, TakeTorn
<1>2. PICK code \in {Head(queue), Head(wire)} : batch' = Append(batch, code)
  BY DEF TakeTorn
<1>3. PICK n \in 2 .. KbdSize + 2 : queue' = SubSeq(all, n, KbdSize + 1)
  BY DEF TakeTorn
<1>4. KbdSize \in Nat \ {0}
  BY VtconAssumption
<1>5. Head(queue) \in Entry /\ Head(wire) \in Entry /\ Tail(wire) \in Seq(Entry)
  BY <1>1, <1>4
<1>6. batch' \in Seq(Entry)
  BY <1>1, <1>2, <1>5
<1>7. all \in Seq(Entry) /\ Len(all) = KbdSize + 1
  BY <1>1, <1>4, <1>5
<1> HIDE DEF all
<1>8. SubSeq(all, n, KbdSize + 1) \in Seq(Entry)
  BY <1>4, <1>7
<1> QED BY <1>1, <1>3, <1>5, <1>6, <1>8 DEF StreamInv

\* What follows a part of the scancodes is paired as well.
LEMMA PairedRest ==
  ASSUME NEW a \in Seq(Entry), NEW b \in Seq(Entry), Paired(a \o b)
  PROVE  Paired(b)
<1> DEFINE q == a \o b
           n == Len(a)
<1>1. n \in Nat /\ Len(b) \in Nat /\ Len(q) = n + Len(b)
  OBVIOUS
<1>2. \A i \in 1 .. Len(b) : q[i + n] = b[i] /\ i + n \in 1 .. Len(q)
  OBVIOUS
<1>3. Paired(q)
  OBVIOUS
<1> HIDE DEF q, n
<1>4. ASSUME NEW i \in 1 .. Len(b), b[i].code = 224
      PROVE  i < Len(b) /\ b[i + 1] = [code |-> Last(b[i].of), of |-> b[i].of]
  <2>1. q[i + n] = b[i] /\ i + n \in 1 .. Len(q)
    BY <1>2
  <2>2. i + n < Len(q) /\ q[i + n + 1] = [code |-> Last(q[i + n].of), of |-> q[i + n].of]
    BY <1>3, <1>4, <2>1 DEF Paired
  <2>3. i < Len(b) /\ i + 1 \in 1 .. Len(b) /\ i + n + 1 = (i + 1) + n
    <3>1. i + n < Len(q)
      BY <2>2
    <3> QED BY <1>1, <3>1
  <2>4. b[i + 1] = q[i + n + 1]
    BY <1>2, <2>3
  <2> QED BY <2>1, <2>2, <2>3, <2>4
<1> QED BY <1>4 DEF Paired

\* A poll is done with what it took.
LEMMA PollStream ==
  ASSUME StreamInv, batch' = <<>>, UNCHANGED <<queue, wire>>, ~astray' => ~astray
  PROVE  StreamInv'
<1>1. batch \in Seq(Entry) /\ queue \in Seq(Entry) /\ wire \in Seq(Entry)
  BY DEF StreamInv
<1>2. (batch \o queue) \o wire = batch \o (queue \o wire) /\ queue \o wire \in Seq(Entry) /\ <<>> \o queue = queue
  <2>1. (batch \o queue) \o wire = batch \o (queue \o wire)
    BY ONLY <1>1, Regroup, Zenon
  <2>2. queue \o wire \in Seq(Entry)
    BY ONLY <1>1, Begins, Zenon
  <2>3. <<>> \o queue = queue
    BY ONLY <1>1, FromEmpty, Zenon
  <2> QED BY ONLY <2>1, <2>2, <2>3
<1>3. ASSUME ~astray' PROVE Paired(queue \o wire)
  <2>1. Paired(batch \o (queue \o wire))
    BY <1>2, <1>3 DEF StreamInv
  <2> QED BY <1>1, <1>2, <2>1, PairedRest
<1>4. (batch' \o queue') \o wire' = queue \o wire
  BY <1>2
<1>5. batch' \in Seq(Entry) /\ queue' = queue /\ wire' = wire
  OBVIOUS
<1> QED BY <1>1, <1>3, <1>4, <1>5 DEF StreamInv

\* What the keys in d are held for
Held(d) == {Modifiers[k] : k \in d}

\* The shown terminal has the modifiers of the keys that are held, the others none.
Tracks(s, d) ==
  /\ s.ctx[s.cur].mods \cap Meanings = Held(d)
  /\ \A c \in Terms \ {s.cur} : s.ctx[c].mods \cap Meanings = {}

\* decode_scancode changes the modifiers as the keys go down and up.
LEMMA HeldAfter ==
  ASSUME StreamInv, ~astray, batch # <<>>, Decodable(Codes(batch)), Whole(batch) \/ Half(batch),
         ~Overlaps(batch), ~FakesShift(batch), down \subseteq DOMAIN Modifiers
  PROVE  /\ Held(DownAfter(batch)) = IF IsRelease(Codes(batch)) THEN Held(down) \ BitsOf(Codes(batch))
                                      ELSE Held(down) \cup BitsOf(Codes(batch))
         /\ BitsOf(Codes(batch)) = {} => DownAfter(batch) = down
<1> DEFINE k == Last(batch).of
           codes == Codes(batch)
           M == Modifies(batch, k)
           D == DownAfter(batch)
           key == KeyOf(k)
<1>1. /\ M => BitsOf(codes) = {Modifiers[key]} /\ IsRelease(codes) = IsRelease(k)
      /\ ~M => BitsOf(codes) = {}
  BY BatchBits
<1>2. /\ ~M => D = down
      /\ M /\ IsRelease(k) => D = down \ {key}
      /\ M /\ ~IsRelease(k) => D = down \cup {key}
  BY DEF DownAfter
<1>3. M /\ IsRelease(k) => \A o \in D : Modifiers[o] # Modifiers[key]
  BY DEF Overlaps
<1> HIDE DEF k, codes, M, D, key
<1>4. CASE ~M
  <2>1. Held(down) \ {} = Held(down) /\ Held(down) \cup {} = Held(down)
    OBVIOUS
  <2> QED BY <1>1, <1>2, <1>4, <2>1 DEF codes, D
<1>5. CASE M /\ IsRelease(k)
  <2>1. Held(down) \ {Modifiers[key]} = Held(down \ {key})
    BY <1>2, <1>3, <1>5 DEF Held
  <2> QED BY <1>1, <1>2, <1>5, <2>1 DEF codes, D
<1>6. CASE M /\ ~IsRelease(k)
  <2>1. Held(down) \cup {Modifiers[key]} = Held(down \cup {key})
    BY DEF Held
  <2> QED BY <1>1, <1>2, <1>6, <2>1 DEF codes, D
<1> QED BY <1>4, <1>5, <1>6
\* The console knows the keys that are held, as long as nothing led it astray.
ReadInv ==
  /\ ConsoleInv /\ StreamInv
  /\ down \subseteq DOMAIN Modifiers
  /\ astray \in BOOLEAN
  /\ ~astray => Tracks(vt, down)

LEMMA ReadInit ==
  ASSUME Init
  PROVE  ReadInv
<1>1. ConsoleInv /\ \A c \in Terms : vt.ctx[c].mods = {}
  BY ConsoleInit
<1>2. batch = <<>> /\ queue = <<>> /\ wire = <<>> /\ down = {} /\ astray = FALSE
  BY DEF Init
<1>3. StreamInv
  <2>1. <<>> \in Seq(Entry) /\ <<>> \o <<>> = <<>> /\ Len(<<>>) = 0
    OBVIOUS
  <2>2. Paired(<<>>)
    BY DEF Paired
  <2> QED BY <1>2, <2>1, <2>2, Zenon DEF StreamInv
<1>4. Tracks(vt, down)
  <2>1. vt.cur \in Terms
    BY <1>1 DEF ConsoleInv, Fit
  <2> QED BY <1>1, <1>2, <2>1 DEF Tracks, Held
<1> QED BY <1>1, <1>2, <1>3, <1>4 DEF ReadInv

\* The keys that are held are modifier keys.
LEMMA DownKeys ==
  ASSUME down \subseteq DOMAIN Modifiers
  PROVE  DownAfter(batch) \subseteq DOMAIN Modifiers
  BY DEF DownAfter, Modifies

\* Printing and showing keep the modifiers.
LEMMA TracksKept ==
  ASSUME NEW s, NEW t, NEW d, s.cur \in Terms, Tracks(s, d), ModsKept(s, t)
  PROVE  Tracks(t, d)
  BY DEF Tracks, ModsKept

\* A poll that does not lead astray keeps track of the keys.
LEMMA DecodeTracks ==
  ASSUME ReadInv, PollDecodes, ~astray'
  PROVE  Tracks(vt', down')
<1> DEFINE codes == Codes(batch)
           mods == vt.ctx[vt.cur].mods
<1>1. /\ batch # <<>> /\ Decodable(codes) /\ down' = DownAfter(batch)
      /\ Fit(vt) /\ StreamInv /\ down \subseteq DOMAIN Modifiers /\ vt.con_kbd
  BY DEF PollDecodes, Polled, Polling, ReadInv, ConsoleInv
<1>2. PICK junk \in JunkVks, text \in KeyTexts :
        LET d == decode_scancode(codes, mods, junk)
            s == [vt EXCEPT !.ctx[vt.cur].mods = d.mods]
        IN /\ vt' = IF d.up THEN s ELSE echo_scancode(s, d.vk, text)
           /\ astray' = \/ astray
                        \/ ~Whole(batch) /\ ~Half(batch)
                        \/ Overlaps(batch) \/ FakesShift(batch)
                        \/ vt'.cur # vt.cur /\ down # {}
  BY DEF PollDecodes
<1> DEFINE d == decode_scancode(codes, mods, junk)
           m == d.mods
           vk == d.vk
           s == [vt EXCEPT !.ctx[vt.cur].mods = m]
<1>3. /\ ~astray /\ (Whole(batch) \/ Half(batch)) /\ ~Overlaps(batch) /\ ~FakesShift(batch)
      /\ vt'.cur # vt.cur => down = {}
  BY <1>2, Zenon
<1>4. vt' = s \/ vt' = echo_scancode(s, vk, text)
  BY <1>2, Zenon
<1>5. Len(codes) \in {1, 2} /\ Key(codes) \in 0 .. 127 /\ IsRelease(codes) \in BOOLEAN
  BY <1>1, <1>3, BatchBits
<1>6. /\ m \cap Meanings = IF IsRelease(codes) THEN (mods \cap Meanings) \ BitsOf(codes)
                           ELSE (mods \cap Meanings) \cup BitsOf(codes)
      /\ BitsOf(codes) # {} => vk \notin VK_F1 .. VK_F8
  <2> HIDE DEF codes, mods
  <2>1. d = decode_scancode(codes, mods, junk) /\ Len(codes) \in {1, 2} /\ Key(codes) \in 0 .. 127
    BY <1>5
  <2> HIDE DEF d
  <2> QED BY ONLY <2>1, DecodeMods
<1>7. s = WithMods(vt, m)
  BY DEF WithMods
<1> HIDE DEF d, m, vk, s
<1>8. Tracks(vt, down)
  BY <1>3 DEF ReadInv
<1>9. mods \cap Meanings = Held(down) /\ \A c \in Terms \ {vt.cur} : vt.ctx[c].mods \cap Meanings = {}
  BY <1>8 DEF Tracks
<1> HIDE DEF mods
<1>10. /\ Held(DownAfter(batch)) = IF IsRelease(codes) THEN Held(down) \ BitsOf(codes)
                                    ELSE Held(down) \cup BitsOf(codes)
       /\ BitsOf(codes) = {} => DownAfter(batch) = down
  BY <1>1, <1>3, HeldAfter
<1> HIDE DEF codes
<1>11. m \cap Meanings = Held(down')
  BY <1>1, <1>6, <1>9, <1>10
<1>12. /\ Fit(s) /\ s.cur = vt.cur /\ s.con_fb = vt.con_fb
       /\ s.ctx[vt.cur].mods = m /\ \A c \in Terms \ {vt.cur} : s.ctx[c].mods = vt.ctx[c].mods
  <2>1. Fit(vt)
    BY <1>1
  <2>2. Fit(s) /\ s.cur = vt.cur /\ s.con_fb = vt.con_fb
    BY ONLY <1>7, <2>1, SetMods
  <2>3. s.ctx[vt.cur].mods = m
    BY ONLY <1>7, <2>1, SetMods
  <2>4. \A c \in Terms \ {vt.cur} : s.ctx[c].mods = vt.ctx[c].mods
    BY ONLY <1>7, <2>1, SetMods
  <2> QED BY <2>2, <2>3, <2>4
<1>13. Tracks(s, down') /\ s.cur \in Terms /\ s.con_fb
  <2>1. Tracks(s, down')
    BY <1>9, <1>11, <1>12 DEF Tracks
  <2> QED BY <1>1, <1>12, <2>1 DEF Fit
<1>14. CASE vt' = s
  BY <1>13, <1>14
<1>15. CASE vt' = echo_scancode(s, vk, text)
  <2>1. /\ Prints(s, vt') \/ \E to \in Terms : Switches(s, vt', to)
        /\ vk \notin VK_F1 .. VK_F8 => Prints(s, vt')
    BY ONLY <1>12, <1>13, <1>15, text \in KeyTexts, Echo
  <2>2. CASE Prints(s, vt')
    <3>1. ModsKept(s, vt')
      BY <2>2, PrintsOutputs
    <3> QED BY <1>13, <3>1, TracksKept
  <2>3. CASE ~Prints(s, vt')
    <3>1. PICK to \in Terms : Switches(s, vt', to)
      BY <2>1, <2>3
    <3>2. vt'.cur = to /\ \A c \in Terms : vt'.ctx[c].mods = s.ctx[c].mods
      BY <3>1 DEF Switches
    <3>3. CASE to = vt.cur
      <4>1. ModsKept(s, vt')
        BY <1>12, <3>2, <3>3 DEF ModsKept
      <4> QED BY <1>13, <4>1, TracksKept
    <3>4. CASE to # vt.cur
      <4>1. down = {}
        BY <1>3, <3>2, <3>4
      <4>2. down' = {}
        BY <1>1, <1>6, <1>10, <2>1, <2>3, <4>1
      <4>3. Held(down') = {}
        BY <4>2 DEF Held
      <4>4. \A c \in Terms : s.ctx[c].mods \cap Meanings = {}
        BY <1>13, <4>3 DEF Tracks
      <4> QED BY <3>2, <4>3, <4>4 DEF Tracks
    <3> QED BY <3>3, <3>4
  <2> QED BY <2>2, <2>3
<1> QED BY <1>4, <1>14, <1>15

LEMMA ReadStep ==
  ASSUME ReadInv, [Next]_vars
  PROVE  ReadInv'
<1>1. ConsoleInv' /\ (PollDecodes \/ ModsKept(vt, vt'))
  BY ConsoleStep DEF ReadInv
<1>2. vt.cur \in Terms
  BY DEF ReadInv, ConsoleInv, Fit
<1>3. StreamInv /\ down \subseteq DOMAIN Modifiers /\ astray \in BOOLEAN
  BY DEF ReadInv
<1>4. CASE PollDecodes
  <2>1. StreamInv'
    <3>1. batch' = <<>> /\ UNCHANGED <<queue, wire>> /\ (~astray' => ~astray)
      BY <1>4 DEF PollDecodes
    <3> QED BY <1>3, <3>1, PollStream
  <2>2. down' \subseteq DOMAIN Modifiers
    <3>1. down' = DownAfter(batch)
      BY <1>4 DEF PollDecodes
    <3> QED BY <1>3, <3>1, DownKeys
  <2>3. astray' \in BOOLEAN
    BY <1>4, Zenon DEF PollDecodes
  <2> QED BY <1>1, <1>4, <2>1, <2>2, <2>3, DecodeTracks DEF ReadInv
<1>5. CASE PollDrops
  <2>1. StreamInv'
    <3>1. batch' = <<>> /\ UNCHANGED <<queue, wire>> /\ (~astray' => ~astray)
      BY <1>5 DEF PollDrops
    <3> QED BY <1>3, <3>1, PollStream
  <2>2. down' = down /\ astray' = TRUE
    BY <1>5 DEF PollDrops
  <2> QED BY <1>1, <1>3, <2>1, <2>2 DEF ReadInv
<1>6. ASSUME ModsKept(vt, vt'), down' = down, astray' \in BOOLEAN, ~astray' => ~astray, StreamInv'
      PROVE  ReadInv'
  <2>1. ~astray' => Tracks(vt', down')
    BY <1>2, <1>6, TracksKept DEF ReadInv
  <2> QED BY <1>1, <1>3, <1>6, <2>1 DEF ReadInv
<1>7. CASE \E k \in Keys : Type(k)
  <2>1. PICK k \in Keys : Type(k)
    BY <1>7
  <2>2. StreamInv'
    BY <1>3, <2>1, TypeStream
  <2>3. vt' = vt /\ down' = down /\ astray' = astray
    BY <2>1 DEF Type
  <2>4. ModsKept(vt, vt')
    BY <2>3 DEF ModsKept
  <2> QED BY <1>3, <1>6, <2>2, <2>3, <2>4
<1>8. CASE Arrive \/ Take \/ TakeTorn
  <2>1. vt' = vt /\ down' = down /\ (~astray' => ~astray)
    <3>1. CASE Arrive
      BY <3>1, Zenon DEF Arrive
    <3>2. CASE Take
      BY <3>2, Zenon DEF Take
    <3>3. CASE TakeTorn
      BY <3>3, Zenon DEF TakeTorn
    <3> QED BY <1>8, <3>1, <3>2, <3>3
  <2>2. ModsKept(vt, vt')
    BY <2>1 DEF ModsKept
  <2>3. StreamInv'
    BY <1>3, <1>8, ArriveStream, TakeStream, TornStream
  <2>4. astray' \in BOOLEAN
    BY <1>3, <1>8, Zenon DEF Arrive, Take, TakeTorn
  <2> QED BY <1>6, <2>1, <2>2, <2>3, <2>4
<1>9. ASSUME UNCHANGED <<batch, queue, wire, down, astray>>
      PROVE  ReadInv'
  <2>1. StreamInv'
    BY <1>3, <1>9 DEF StreamInv
  <2> QED BY <1>1, <1>3, <1>4, <1>6, <1>9, <2>1
<1>10. CASE \/ \E n \in Rooms : vtcon_read(n)
            \/ \E buf \in Bufs : vtcon_write(buf)
            \/ Return \/ vtcon_open \/ Refused \/ vtcon_ioctl \/ vtcon_close \/ UNCHANGED vars
  <2>1. UNCHANGED <<batch, queue, wire, down, astray>>
    BY <1>10 DEF vtcon_read, Return, vtcon_open, Refused, vtcon_write, vtcon_ioctl, vtcon_close, Call, vars
  <2> QED BY <1>9, <2>1
<1> QED BY <1>4, <1>5, <1>7, <1>8, <1>10 DEF Next

----------------------------------------------------------------------------
(* Theorems *)

\* The invariant holds for every size of the screen and every sequence of calls.
LEMMA ConsoleSound == Spec => []ConsoleInv
<1>1. Init => ConsoleInv
  BY ConsoleInit
<1>2. ConsoleInv /\ [Next]_vars => ConsoleInv'
  BY ConsoleStep
<1> QED BY <1>1, <1>2, PTL DEF Spec

\* The cursor of every terminal stays in the text, above the status bar, whatever
\* putchar prints and however often moveline scrolls.
THEOREM ConsoleCursorInText == Spec => []CursorInText
<1>1. ConsoleInv => CursorInText
  <2> SUFFICES ASSUME ConsoleInv, NEW c \in DOMAIN vt.ctx
               PROVE  vt.ctx[c].cx < Cols /\ vt.ctx[c].cy < Rows - 1
    BY DEF CursorInText
  <2>1. c \in Terms /\ CtxFit(vt.ctx[c])
    BY DEF ConsoleInv, Fit
  <2>2. vt.ctx[c].cx \in 0 .. Cols - 1 /\ vt.ctx[c].cy \in 0 .. Rows - 2
    BY <2>1 DEF CtxFit
  <2> QED BY <2>2, Geometry
<1> QED BY <1>1, ConsoleSound, PTL

\* While the console is open the hardware cursor is where the shown terminal prints
\* next and the status bar is whole and names it: putchar, clearscreen and
\* switchcontext all end by drawing both.
THEOREM ConsoleScreenInStep == Spec => []ScreenInStep
<1>1. ConsoleInv => ScreenInStep
  <2> SUFFICES ASSUME ConsoleInv, session
               PROVE  /\ vt.cursor = Cy(vt) * Cols + Cx(vt)
                      /\ vgafb_read(vt, Cols * (Rows - 1), Cols) = Row(Status(vt.cur))
    BY DEF ScreenInStep
  <2> DEFINE m == Cols * (Rows - 1)
  <2>1. InStep(vt)
    BY DEF ConsoleInv
  <2>2. (IF m + Cols < Size THEN Cols ELSE Size - m) = Cols
    <3>1. m \in Nat /\ Size = m + Cols /\ Cols \in Nat
      BY Geometry
    <3> HIDE DEF m
    <3> QED BY <3>1
  <2>3. vgafb_read(vt, m, Cols) = [i \in 1 .. Cols |-> vt.fb[m + i]]
    BY <2>2 DEF vgafb_read
  <2> QED BY <2>1, <2>3 DEF InStep, Row
<1> QED BY <1>1, ConsoleSound, PTL

\* The console implements terminals that do not disturb each other: every step
\* prints on the one that is shown, shows another with its text and its place as
\* they were left, or sends them all home (vtcon_close).
THEOREM ConsoleImplementsTerminals == Spec => ImplementsTerminals
<1>1. Init => T!Init
  <2> SUFFICES ASSUME Init PROVE T!Init
    OBVIOUS
  <2>1. /\ Fit(vt)
        /\ \A c \in Terms : /\ vt.ctx[c].cx = 0 /\ vt.ctx[c].cy = 0
                            /\ vt.ctx[c].buffer = Screen(Blank)
    BY ConsoleInit DEF ConsoleInv
  <2>2. DOMAIN vt.ctx = Terms
    BY <2>1 DEF Fit
  <2> QED BY <2>1, <2>2 DEF T!Init, Terms
<1>2. ConsoleInv /\ [Next]_vars => [T!Next]_<<[c \in DOMAIN vt.ctx |-> Text(IF c = vt.cur THEN vt.fb ELSE vt.ctx[c].buffer)],
                                          [c \in DOMAIN vt.ctx |-> <<vt.ctx[c].cx, vt.ctx[c].cy>>], vt.cur>>
  <2> SUFFICES ASSUME ConsoleInv, [Next]_vars PROVE T!Next
    OBVIOUS
  <2>1. Moves(vt, vt') /\ ConsoleInv'
    BY ConsoleStep
  <2>2. DOMAIN vt.ctx = Terms /\ DOMAIN vt'.ctx = Terms
    BY <2>1 DEF ConsoleInv, Fit
  <2>3. CASE Outputs(vt, vt')
    <3>1. T!Output
      BY <2>2, <2>3 DEF T!Output, Outputs, SamePlace, TextOf, Terms
    <3> QED BY <3>1 DEF T!Next
  <2>4. CASE Shows(vt, vt')
    <3>1. T!Show(vt'.cur)
      <4>1. \A c \in Terms : /\ vt'.ctx[c].cx = vt.ctx[c].cx /\ vt'.ctx[c].cy = vt.ctx[c].cy
                            /\ TextOf(vt', c) = TextOf(vt, c)
        BY <2>4 DEF Shows, SamePlace
      <4>2. [c \in Terms |-> TextOf(vt', c)] = [c \in Terms |-> TextOf(vt, c)]
        BY <4>1
      <4>3. [c \in Terms |-> <<vt'.ctx[c].cx, vt'.ctx[c].cy>>]
              = [c \in Terms |-> <<vt.ctx[c].cx, vt.ctx[c].cy>>]
        BY <4>1
      <4> QED BY <2>2, <4>2, <4>3 DEF T!Show, TextOf
    <3>2. vt'.cur \in 0 .. Contexts - 1
      BY <2>4 DEF Shows, Terms
    <3> QED BY <3>1, <3>2 DEF T!Next
  <2>5. CASE Resets(vt, vt')
    <3>1. T!Reset
      BY <2>2, <2>5 DEF T!Reset, Resets, TextOf, Terms
    <3> QED BY <3>1 DEF T!Next
  <2> QED BY <2>1, <2>3, <2>4, <2>5 DEF Moves
<1> QED BY <1>1, <1>2, ConsoleSound, PTL DEF Spec, ImplementsTerminals, T!Spec

\* A letter that is typed is read as that letter, as a capital under a shift key and
\* as a control character under a control key: decode_scancode looks it up under the
\* modifiers of the shown terminal, which are those of the keys that are held,
\* whatever is printed and however the scancodes of the keys arrive.
THEOREM ConsoleTypedIsRead == Spec => TypedIsRead
<1> DEFINE codes == Codes(batch)
           key == Nomod[Key(codes) + 1]
           Typed == /\ pc = "reading" /\ room' # room /\ ~astray /\ ~astray'
                    /\ codes = batch[1].of /\ Len(batch) = 1
                    /\ Key(codes) < Len(Nomod) /\ key \in 97 .. 122
           Seen == event' = [up |-> IsRelease(codes),
                             vk |-> IF "ctrl" \in HeldMods THEN key - 96
                                    ELSE IF "shift" \in HeldMods THEN key - 32 ELSE key]
<1>1. ReadInv /\ [Next]_vars => [Typed => Seen]_vars
  <2> SUFFICES ASSUME ReadInv, [Next]_vars, Typed
               PROVE  Seen
    OBVIOUS
  <2>1. PollDecodes
    BY DEF Next, Type, Arrive, Take, TakeTorn, vtcon_read, PollDrops, Return, vtcon_open, Refused, vtcon_write,
           vtcon_ioctl, vtcon_close, Call, vars
  <2> DEFINE mods == vt.ctx[vt.cur].mods
  <2>2. PICK junk \in JunkVks, text \in KeyTexts :
          LET d == decode_scancode(codes, mods, junk)
          IN  event' = [vk |-> d.vk, up |-> d.up]
    BY <2>1 DEF PollDecodes
  <2>3. /\ StreamInv /\ batch # <<>> /\ Decodable(codes) /\ Whole(batch) /\ Len(codes) = 1
        /\ Tracks(vt, down) /\ ~Half(batch) /\ ~FakesShift(batch)
    <3>1. Whole(batch) /\ StreamInv /\ batch # <<>> /\ Decodable(codes) /\ Tracks(vt, down)
      BY <2>1 DEF PollDecodes, ReadInv, Whole
    <3>2. Len(codes) = 1
      BY <3>1, BatchShape
    <3> QED BY <3>1, <3>2 DEF Half, FakesShift
  <2>4. Key(codes) \in 0 .. 127 /\ IsRelease(codes) \in BOOLEAN
    BY <2>3, BatchBits
  <2>5. mods \cap Meanings = HeldMods
    BY <2>3 DEF Tracks, Held, HeldMods
  <2>6. ("ctrl" \in mods <=> "ctrl" \in HeldMods) /\ ("shift" \in mods <=> "shift" \in HeldMods)
    BY <2>5 DEF Meanings
  <2>7. Key(codes) \in 0 .. 88 /\ key \in 97 .. 122
    <3>1. Len(Nomod) = 89
      BY DEF Nomod
    <3>2. Key(codes) < Len(Nomod) /\ key \in 97 .. 122
      BY Zenon
    <3> HIDE DEF codes, key
    <3> QED BY ONLY <2>4, <3>1, <3>2
  <2> HIDE DEF codes, mods
  <2>8. LET d == decode_scancode(codes, mods, junk)
        IN  d.up = IsRelease(codes) /\ d.vk = VirtualKey(codes, mods, junk)
    BY DEF decode_scancode
  <2>9. VirtualKey(codes, mods, junk) = get_single_scancode(Key(codes), mods)
    BY <2>3 DEF VirtualKey, Unnamed
  <2>10. get_single_scancode(Key(codes), mods) =
           IF "ctrl" \in mods THEN key - 96 ELSE IF "shift" \in mods THEN key - 32 ELSE key
    BY <2>7, LetterKey
  <2> QED BY <2>2, <2>6, <2>8, <2>9, <2>10
<1>2. Init => ReadInv
  BY ReadInit
<1>3. ReadInv /\ [Next]_vars => ReadInv'
  BY ReadStep
<1>4. TypedIsRead <=> [][Typed => Seen]_vars
  BY DEF TypedIsRead
<1> HIDE DEF Typed, Seen
<1> QED BY <1>1, <1>2, <1>3, <1>4, PTL DEF Spec

=============================================================================
