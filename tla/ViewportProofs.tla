--------------------------- MODULE ViewportProofs ---------------------------
(***************************************************************************)
(* The viewer's geometry for every size of window, picture, bar and thumb: *)
(* where the bars are, that the viewport stays within the picture, that    *)
(* clicks are sent as the pixels that are drawn, that a dragged thumb      *)
(* follows the pointer, and when the window can panic.                     *)
(***************************************************************************)
EXTENDS Viewport, TLAPS

Sizes == [w : Nat, h : Nat]
AreSizes(win, pic) == win.w \in Nat /\ win.h \in Nat /\ pic.w \in Nat \ {0} /\ pic.h \in Nat \ {0}

-----------------------------------------------------------------------------
(* Operators.                                                               *)

\* A bar is there exactly when the picture does not fit in the viewport that is
\* left beside the other bar, although view_layout looks at each axis once only.
THEOREM BarsWhereNeeded ==
  ASSUME NEW win, NEW pic, AreSizes(win, pic)
  PROVE  LET lay == view_layout(win, pic)
         IN /\ lay.has_v \in BOOLEAN /\ lay.has_h \in BOOLEAN
            /\ lay.vp_w \in Nat /\ lay.vp_h \in Nat
            /\ lay.dx \in Nat /\ lay.dy \in Nat
            /\ win.w > 0 /\ win.h > 0 => (lay.has_h <=> pic.w > lay.vp_w)
            /\ win.w > 0 /\ win.h > 0 => (lay.has_v <=> pic.h > lay.vp_h)
            /\ lay.has_v \/ lay.has_h => lay.dx = 0 /\ lay.dy = 0
<1> DEFINE room_w == AtLeast1(win.w - SBW)
           room_h == AtLeast1(win.h - SBW)
           wide == pic.w > win.w
           has_v == IF wide THEN pic.h > room_h ELSE pic.h > win.h
           has_h == IF has_v THEN pic.w > room_w ELSE wide
           lay == view_layout(win, pic)
<1>1. /\ room_w \in Nat /\ room_h \in Nat
      /\ win.w > 0 => room_w <= win.w
      /\ win.h > 0 => room_h <= win.h
  BY ViewportAssumption DEF AtLeast1, AreSizes
<1>2. has_v \in BOOLEAN /\ has_h \in BOOLEAN
  <2>1. wide \in BOOLEAN /\ (pic.h > room_h) \in BOOLEAN /\ (pic.h > win.h) \in BOOLEAN
        /\ (pic.w > room_w) \in BOOLEAN
    BY <1>1 DEF AreSizes
  <2> HIDE DEF wide, room_w, room_h
  <2> QED BY <2>1
<1>3. /\ lay.has_v = has_v /\ lay.has_h = has_h
      /\ lay.vp_w = (IF has_v THEN room_w ELSE win.w)
      /\ lay.vp_h = (IF has_h THEN room_h ELSE win.h)
      /\ lay.dx = (IF ~has_v /\ ~has_h THEN (win.w - pic.w) \div 2 ELSE 0)
      /\ lay.dy = (IF ~has_v /\ ~has_h THEN (win.h - pic.h) \div 2 ELSE 0)
  BY DEF view_layout
<1> HIDE DEF lay
<1>4. lay.vp_w \in Nat /\ lay.vp_h \in Nat
  BY <1>1, <1>3 DEF AreSizes
<1> HIDE DEF room_w, room_h
<1>5. lay.dx \in Nat /\ lay.dy \in Nat
  BY <1>3 DEF AreSizes
<1>6. ASSUME win.w > 0, win.h > 0
      PROVE  (lay.has_h <=> pic.w > lay.vp_w) /\ (lay.has_v <=> pic.h > lay.vp_h)
  <2>1. (has_h <=> pic.w > (IF has_v THEN room_w ELSE win.w))
    BY <1>1, <1>6 DEF AreSizes
  <2>2. (has_v <=> pic.h > (IF has_h THEN room_h ELSE win.h))
    BY <1>1, <1>6 DEF AreSizes
  <2> HIDE DEF has_v, has_h
  <2> QED BY <1>2, <1>3, <2>1, <2>2
<1> QED BY <1>2, <1>3, <1>4, <1>5, <1>6 DEF lay

\* clamp_scroll gives an offset at which the viewport lies within the content.
LEMMA ClampScrollRange ==
  ASSUME NEW s \in Int, NEW content \in Nat, NEW vp \in Nat
  PROVE  /\ clamp_scroll(s, content, vp) \in Nat
         /\ content > vp => clamp_scroll(s, content, vp) + vp <= content
         /\ content <= vp => clamp_scroll(s, content, vp) = 0
         /\ clamp_scroll(clamp_scroll(s, content, vp), content, vp) = clamp_scroll(s, content, vp)
  BY DEF clamp_scroll, Clamp

\* The offset of the thumb and what a drag makes of a pointer are whole numbers.
LEMMA ThumbTypes ==
  ASSUME NEW vp \in Nat, NEW content \in Nat \ {0}, NEW n \in Int
  PROVE  thumb_len(vp, content) \in Int /\ thumb_pos(vp, content, n) \in Int
         /\ drag_scroll(n, vp, content) \in Int
<1>1. thumb_len(vp, content) \in Int
  <2>1. (vp * vp) \div content \in Int
    OBVIOUS
  <2> DEFINE ratio == (vp * vp) \div content
  <2>2. ratio \in Int
    BY <2>1
  <2> HIDE DEF ratio
  <2>3. Clamp(ratio, THUMB_MIN, vp) \in Int
    BY <2>2, ViewportAssumption DEF Clamp
  <2> QED BY <2>3 DEF thumb_len, ratio
<1> DEFINE len == thumb_len(vp, content)
<1> HIDE DEF len
<1>2. \A a, b \in Int : b > 0 => a \div b \in Int
  OBVIOUS
<1>3. len \in Int
  BY <1>1 DEF len
<1>4. \A a, b \in Int : a * b \in Int
  OBVIOUS
<1>5. content > vp => (n * (vp - len)) \div (content - vp) \in Int
  <2>1. n * (vp - len) \in Int /\ content - vp \in Int
    BY <1>3, <1>4
  <2> QED BY <2>1, <1>2
<1>6. vp > len => (n * (content - vp)) \div (vp - len) \in Int
  <2>1. n * (content - vp) \in Int /\ vp - len \in Int
    BY <1>3, <1>4
  <2> QED BY <2>1, <1>2, <1>3
<1>7. thumb_pos(vp, content, n) \in Int
  BY <1>5 DEF thumb_pos, len
<1>8. drag_scroll(n, vp, content) \in Int
  BY <1>3, <1>6 DEF drag_scroll, len
<1> QED BY <1>1, <1>7, <1>8

-----------------------------------------------------------------------------
(* The viewport stays within the picture.                                   *)

Offsets == [x : Int, y : Int]
InRange(s, win, pic) == s \in Offsets /\ s = Clamped(s, win, pic)

\* Clamping makes an offset one in range, and setting one axis of an offset in range
\* to something clamped leaves it so.
LEMMA ClampedInRange ==
  ASSUME NEW win, NEW pic, AreSizes(win, pic), NEW s \in Offsets
  PROVE  InRange(Clamped(s, win, pic), win, pic)
<1> DEFINE lay == view_layout(win, pic)
<1>1. lay.vp_w \in Nat /\ lay.vp_h \in Nat
  BY BarsWhereNeeded
<1> HIDE DEF lay
<1>2. s.x \in Int /\ s.y \in Int /\ pic.w \in Nat /\ pic.h \in Nat
  BY DEF Offsets, AreSizes
<1> DEFINE x == clamp_scroll(s.x, pic.w, lay.vp_w)
           y == clamp_scroll(s.y, pic.h, lay.vp_h)
<1>3. x \in Nat /\ clamp_scroll(x, pic.w, lay.vp_w) = x
  BY <1>1, <1>2, ClampScrollRange
<1>4. y \in Nat /\ clamp_scroll(y, pic.h, lay.vp_h) = y
  BY <1>1, <1>2, ClampScrollRange
<1> HIDE DEF x, y
<1>5. Clamped(s, win, pic) = [x |-> x, y |-> y]
  BY DEF Clamped, lay, x, y
<1>6. Clamped([x |-> x, y |-> y], win, pic) = [x |-> x, y |-> y]
  BY <1>3, <1>4 DEF Clamped, lay
<1> QED BY <1>3, <1>4, <1>5, <1>6 DEF InRange, Offsets

LEMMA SetClamped ==
  ASSUME NEW win, NEW pic, AreSizes(win, pic), NEW s, InRange(s, win, pic), NEW n \in Int
  PROVE  /\ InRange([s EXCEPT !.x = clamp_scroll(n, pic.w, view_layout(win, pic).vp_w)], win, pic)
         /\ InRange([s EXCEPT !.y = clamp_scroll(n, pic.h, view_layout(win, pic).vp_h)], win, pic)
<1> DEFINE lay == view_layout(win, pic)
           x == clamp_scroll(n, pic.w, lay.vp_w)
           y == clamp_scroll(n, pic.h, lay.vp_h)
<1>1. lay.vp_w \in Nat /\ lay.vp_h \in Nat
  BY BarsWhereNeeded
<1> HIDE DEF lay
<1>2. x \in Nat /\ clamp_scroll(x, pic.w, lay.vp_w) = x
  BY <1>1, ClampScrollRange DEF AreSizes
<1>3. y \in Nat /\ clamp_scroll(y, pic.h, lay.vp_h) = y
  BY <1>1, ClampScrollRange DEF AreSizes
<1> HIDE DEF x, y
<1>4. /\ s \in Offsets
      /\ clamp_scroll(s.x, pic.w, lay.vp_w) = s.x /\ clamp_scroll(s.y, pic.h, lay.vp_h) = s.y
  <2>1. s = [x |-> clamp_scroll(s.x, pic.w, lay.vp_w), y |-> clamp_scroll(s.y, pic.h, lay.vp_h)]
    BY DEF InRange, Clamped, lay
  <2> QED BY <2>1 DEF InRange
<1>5. [s EXCEPT !.x = x] = [x |-> x, y |-> s.y] /\ [s EXCEPT !.y = y] = [x |-> s.x, y |-> y]
  BY <1>4 DEF Offsets
<1>6. s.x \in Int /\ s.y \in Int
  BY <1>4 DEF Offsets
<1>7. InRange([x |-> x, y |-> s.y], win, pic)
  BY <1>2, <1>4, <1>6 DEF InRange, Clamped, Offsets, lay
<1>8. InRange([x |-> s.x, y |-> y], win, pic)
  BY <1>3, <1>4, <1>6 DEF InRange, Clamped, Offsets, lay
<1> QED BY <1>5, <1>7, <1>8 DEF lay, x, y

\* What a held thumb, a press on a bar and the wheel make of an offset in range is
\* in range.
LEMMA DragInRange ==
  ASSUME NEW win, NEW pic, AreSizes(win, pic), NEW s, InRange(s, win, pic),
         grab.off \in Int, NEW x \in Int, NEW y \in Int
  PROVE  InRange(Drag(view_layout(win, pic), pic, s, x, y), win, pic)
<1> DEFINE lay == view_layout(win, pic)
<1>1. lay.vp_w \in Nat /\ lay.vp_h \in Nat /\ pic.w \in Nat \ {0} /\ pic.h \in Nat \ {0}
  BY BarsWhereNeeded DEF AreSizes
<1> HIDE DEF lay
<1>2. y - grab.off \in Int /\ x - grab.off \in Int
  OBVIOUS
<1>3. drag_scroll(y - grab.off, lay.vp_h, pic.h) \in Int
  BY <1>1, <1>2, ThumbTypes
<1>4. drag_scroll(x - grab.off, lay.vp_w, pic.w) \in Int
  BY <1>1, <1>2, ThumbTypes
<1> QED BY <1>3, <1>4, SetClamped DEF Drag, lay

LEMMA PressInRange ==
  ASSUME NEW win, NEW pic, AreSizes(win, pic), NEW s, InRange(s, win, pic),
         NEW x \in Int, NEW y \in Int
  PROVE  /\ InRange(PressScrolls(view_layout(win, pic), win, pic, s, x, y), win, pic)
         /\ Hold(view_layout(win, pic), win, pic, s, x, y) \in [bar : {"none", "v", "h"}, off : Int]
<1> DEFINE lay == view_layout(win, pic)
           vtp == thumb_pos(lay.vp_h, pic.h, s.y)
           htp == thumb_pos(lay.vp_w, pic.w, s.x)
<1>1. lay.vp_w \in Nat /\ lay.vp_h \in Nat /\ pic.w \in Nat \ {0} /\ pic.h \in Nat \ {0}
  BY BarsWhereNeeded DEF AreSizes
<1>2. s.x \in Int /\ s.y \in Int
  BY DEF InRange, Offsets
<1>3. vtp \in Int /\ htp \in Int
  BY <1>1, <1>2, ThumbTypes
<1> HIDE DEF lay, vtp, htp
<1>4. Hold(lay, win, pic, s, x, y) \in [bar : {"none", "v", "h"}, off : Int]
  BY <1>3 DEF Hold, NoGrab, vtp, htp
<1>5. InRange([s EXCEPT !.y = Page(s.y, y, vtp, pic.h, lay.vp_h)], win, pic)
  <2> DEFINE n == s.y + (IF y < vtp THEN -lay.vp_h ELSE lay.vp_h)
  <2>1. n \in Int
    BY <1>1, <1>2
  <2> HIDE DEF n
  <2>2. Page(s.y, y, vtp, pic.h, lay.vp_h) = clamp_scroll(n, pic.h, lay.vp_h)
    BY DEF Page, n
  <2> QED BY <2>1, <2>2, SetClamped DEF lay
<1>6. InRange([s EXCEPT !.x = Page(s.x, x, htp, pic.w, lay.vp_w)], win, pic)
  <2> DEFINE n == s.x + (IF x < htp THEN -lay.vp_w ELSE lay.vp_w)
  <2>1. n \in Int
    BY <1>1, <1>2
  <2> HIDE DEF n
  <2>2. Page(s.x, x, htp, pic.w, lay.vp_w) = clamp_scroll(n, pic.w, lay.vp_w)
    BY DEF Page, n
  <2> QED BY <2>1, <2>2, SetClamped DEF lay
<1>7. PressScrolls(lay, win, pic, s, x, y)
        \in {s, [s EXCEPT !.y = Page(s.y, y, vtp, pic.h, lay.vp_h)],
             [s EXCEPT !.x = Page(s.x, x, htp, pic.w, lay.vp_w)]}
  BY DEF PressScrolls, vtp, htp
<1>8. InRange(PressScrolls(lay, win, pic, s, x, y), win, pic)
  BY <1>5, <1>6, <1>7
<1> QED BY <1>4, <1>8 DEF lay

LEMMA WheelInRange ==
  ASSUME NEW win, NEW pic, AreSizes(win, pic), NEW s, InRange(s, win, pic),
         NEW v \in Int, NEW h \in Int, NEW shift \in BOOLEAN
  PROVE  InRange(Wheel(view_layout(win, pic), pic, s, v, h, shift), win, pic)
<1> DEFINE lay == view_layout(win, pic)
           across == lay.has_h /\ (shift \/ ~lay.has_v)
           first == CASE across -> [s EXCEPT !.x = clamp_scroll(@ + v * WHEEL_STEP, pic.w, lay.vp_w)]
                      [] ~across /\ lay.has_v ->
                           [s EXCEPT !.y = clamp_scroll(@ + v * WHEEL_STEP, pic.h, lay.vp_h)]
                      [] OTHER -> s
<1> HIDE DEF lay
<1>1. v * WHEEL_STEP \in Int /\ h * WHEEL_STEP \in Int
  <2>1. \A a \in Int, b \in Nat : a * b \in Int
    OBVIOUS
  <2> QED BY <2>1, ViewportAssumption
<1>2. \A r : InRange(r, win, pic) =>
         /\ InRange([r EXCEPT !.x = clamp_scroll(@ + v * WHEEL_STEP, pic.w, lay.vp_w)], win, pic)
         /\ InRange([r EXCEPT !.x = clamp_scroll(@ + h * WHEEL_STEP, pic.w, lay.vp_w)], win, pic)
         /\ InRange([r EXCEPT !.y = clamp_scroll(@ + v * WHEEL_STEP, pic.h, lay.vp_h)], win, pic)
  <2> TAKE r
  <2> HAVE InRange(r, win, pic)
  <2>1. r.x \in Int /\ r.y \in Int
    BY DEF InRange, Offsets
  <2>2. r.x + v * WHEEL_STEP \in Int /\ r.x + h * WHEEL_STEP \in Int /\ r.y + v * WHEEL_STEP \in Int
    BY <1>1, <2>1
  <2> QED BY <2>2, SetClamped DEF lay
<1>3. InRange(first, win, pic)
  BY <1>2
<1> HIDE DEF first
<1>4. Wheel(lay, pic, s, v, h, shift)
        = IF h # 0 /\ lay.has_h
          THEN [first EXCEPT !.x = clamp_scroll(@ + h * WHEEL_STEP, pic.w, lay.vp_w)] ELSE first
  BY DEF Wheel, first
<1> QED BY <1>2, <1>3, <1>4 DEF lay

-----------------------------------------------------------------------------
Inv ==
  /\ window \in Windows /\ picture \in Pictures
  /\ scroll \in Offsets
  /\ grab \in [bar : {"none", "v", "h"}, off : Int]
  /\ viewer = "open" => InRange(scroll, window, picture)

LEMMA Initially == Init => Inv
<1> SUFFICES ASSUME Init PROVE Inv
  OBVIOUS
<1> USE DEF Init
<1>1. AreSizes(window, picture)
  BY ViewportAssumption DEF AreSizes
<1>2. InRange(scroll, window, picture)
  <2> DEFINE lay == view_layout(window, picture)
  <2>1. lay.vp_w \in Nat /\ lay.vp_h \in Nat
    BY <1>1, BarsWhereNeeded
  <2> HIDE DEF lay
  <2>2. clamp_scroll(0, picture.w, lay.vp_w) = 0 /\ clamp_scroll(0, picture.h, lay.vp_h) = 0
    BY <1>1, <2>1 DEF clamp_scroll, Clamp, AreSizes
  <2> QED BY <2>2 DEF InRange, Offsets, Clamped, lay
<1> QED BY <1>2 DEF Inv, NoGrab, InRange

\* Every round of the loop begins with an offset in range of its own sizes.
LEMMA FirstInRange ==
  ASSUME Inv, NEW win \in Windows, NEW pic \in Pictures
  PROVE  AreSizes(win, pic) /\ InRange(FirstScroll(win, pic), win, pic)
<1>1. AreSizes(win, pic)
  BY ViewportAssumption DEF AreSizes
<1>2. (IF pic # picture THEN [x |-> 0, y |-> 0] ELSE scroll) \in Offsets
  BY DEF Inv, Offsets
<1> QED BY <1>1, <1>2, ClampedInRange DEF FirstScroll

LEMMA IterateKeepsInv ==
  ASSUME Inv, NEW win \in Windows, NEW pic \in Pictures, NEW x \in Int, NEW y \in Int,
         NEW down \in BOOLEAN, NEW v \in Int, NEW h \in Int, NEW shift \in BOOLEAN,
         Iterate(win, pic, x, y, down, v, h, shift)
  PROVE  Inv'
<1> DEFINE lay == view_layout(win, pic)
           s == FirstScroll(win, pic)
           dragging == grab # NoGrab /\ down
           pressing == ~dragging /\ down /\ ~left
           moved == IF dragging THEN Drag(lay, pic, s, x, y)
                    ELSE IF pressing THEN PressScrolls(lay, win, pic, s, x, y) ELSE s
<1>1. AreSizes(win, pic) /\ InRange(s, win, pic)
  BY FirstInRange
<1>2. grab.off \in Int
  BY DEF Inv
<1> HIDE DEF s
<1>3. /\ InRange(Drag(lay, pic, s, x, y), win, pic)
      /\ InRange(PressScrolls(lay, win, pic, s, x, y), win, pic)
      /\ Hold(lay, win, pic, s, x, y) \in [bar : {"none", "v", "h"}, off : Int]
  BY <1>1, <1>2, DragInRange, PressInRange
<1>4. InRange(moved, win, pic)
  BY <1>1, <1>3
<1> HIDE DEF moved
<1>5. InRange(Wheel(lay, pic, moved, v, h, shift), win, pic)
  BY <1>1, <1>4, WheelInRange
<1>6. /\ window' = win /\ picture' = pic /\ viewer' = viewer
      /\ scroll' = Wheel(lay, pic, moved, v, h, shift)
      /\ grab' \in {grab, Hold(lay, win, pic, s, x, y), NoGrab}
  BY DEF Iterate, moved, s
<1>7. grab' \in [bar : {"none", "v", "h"}, off : Int]
  BY <1>3, <1>6 DEF Inv, NoGrab
<1>8. scroll' \in Offsets
  BY <1>5, <1>6 DEF InRange
<1> QED BY <1>5, <1>6, <1>7, <1>8 DEF Inv

LEMMA Preserved == Inv /\ [Next]_vars => Inv'
<1> SUFFICES ASSUME Inv, [Next]_vars PROVE Inv'
  OBVIOUS
<1>1. CASE UNCHANGED vars
  BY <1>1 DEF Inv, vars
<1>2. ASSUME NEW win \in Windows, NEW pic \in Pictures, Panic(win, pic)
      PROVE  Inv'
  <2>1. FirstScroll(win, pic) \in Offsets
    BY FirstInRange DEF InRange
  <2> QED BY <1>2, <2>1 DEF Inv, Panic
<1>3. ASSUME NEW win \in Windows, NEW pic \in Pictures, IterateHidden(win, pic)
      PROVE  Inv'
  <2>1. InRange(FirstScroll(win, pic), win, pic)
    BY FirstInRange
  <2>2. FirstScroll(win, pic) \in Offsets
    BY <2>1 DEF InRange
  <2> QED BY <1>3, <2>1, <2>2 DEF Inv, IterateHidden
<1>4. ASSUME NEW win \in Windows, NEW pic \in Pictures, NEW pos \in Pointers(win),
             NEW down \in BOOLEAN, Iterate(win, pic, pos[1], pos[2], down, 0, 0, FALSE)
      PROVE  Inv'
  <2>1. pos[1] \in Int /\ pos[2] \in Int
    BY ViewportAssumption DEF Pointers
  <2>2. 0 \in Int /\ FALSE \in BOOLEAN
    OBVIOUS
  <2> QED BY ZenonT(30), <1>4, <2>1, <2>2, IterateKeepsInv
<1>5. ASSUME NEW win \in Windows, NEW pic \in Pictures, NEW v \in Steps, NEW h \in Steps,
             NEW down \in BOOLEAN, NEW shift \in BOOLEAN,
             Iterate(win, pic, 0, 0, down, v, h, shift)
      PROVE  Inv'
  <2>1. v \in Int /\ h \in Int
    BY DEF Steps
  <2> QED BY <1>5, <2>1, IterateKeepsInv
<1>6. ASSUME NEW win \in Windows, NEW pic \in Pictures,
             \E pos \in Pointers(win), down \in BOOLEAN :
               Iterate(win, pic, pos[1], pos[2], down, 0, 0, FALSE)
      PROVE  Inv'
  BY <1>4, <1>6
<1>7. ASSUME NEW win \in Windows, NEW pic \in Pictures,
             \E v, h \in Steps, down, shift \in BOOLEAN :
               Iterate(win, pic, 0, 0, down, v, h, shift)
      PROVE  Inv'
  BY <1>5, <1>7
<1>8. CASE Next
  <2>1. PICK win \in Windows, pic \in Pictures :
          \/ Panic(win, pic)
          \/ IterateHidden(win, pic)
          \/ \E pos \in Pointers(win), down \in BOOLEAN :
               Iterate(win, pic, pos[1], pos[2], down, 0, 0, FALSE)
          \/ \E v, h \in Steps, down, shift \in BOOLEAN :
               Iterate(win, pic, 0, 0, down, v, h, shift)
    BY <1>8 DEF Next
  <2> QED BY <1>2, <1>3, <1>6, <1>7, <2>1
<1> QED BY <1>1, <1>8

LEMMA Always == Spec => []Inv
<1> QED BY Initially, Preserved, PTL DEF Spec

\* Whatever was dragged, turned, resized or received before, the viewport lies within
\* the picture (view.rs, clamp_scroll), for every bar, thumb, window and picture.
THEOREM ViewportInPicture == Spec => []ScrollInRange
<1>1. Inv => ScrollInRange
  BY DEF Inv, ScrollInRange, InRange
<1> QED BY <1>1, Always, PTL

-----------------------------------------------------------------------------
(* Clicks and pixels.                                                       *)

\* What view_layout gives the viewport beside a bar, and without one.
LEMMA ViewportRoom ==
  ASSUME NEW win, NEW pic, AreSizes(win, pic)
  PROVE  LET lay == view_layout(win, pic)
         IN /\ lay.vp_w = (IF lay.has_v THEN AtLeast1(win.w - SBW) ELSE win.w)
            /\ lay.vp_h = (IF lay.has_h THEN AtLeast1(win.h - SBW) ELSE win.h)
  BY DEF view_layout

\* An offset in range is no further than the picture's end, and 0 where it fits.
LEMMA RangeBounds ==
  ASSUME NEW win, NEW pic, AreSizes(win, pic), NEW s, InRange(s, win, pic)
  PROVE  LET lay == view_layout(win, pic)
         IN /\ s.x \in Nat /\ s.y \in Nat
            /\ pic.w > lay.vp_w => s.x + lay.vp_w <= pic.w
            /\ pic.h > lay.vp_h => s.y + lay.vp_h <= pic.h
            /\ pic.w <= lay.vp_w => s.x = 0
            /\ pic.h <= lay.vp_h => s.y = 0
<1> DEFINE lay == view_layout(win, pic)
<1>1. lay.vp_w \in Nat /\ lay.vp_h \in Nat
  BY BarsWhereNeeded
<1> HIDE DEF lay
<1>2. s.x \in Int /\ s.y \in Int
  BY DEF InRange, Offsets
<1>3. s.x = clamp_scroll(s.x, pic.w, lay.vp_w) /\ s.y = clamp_scroll(s.y, pic.h, lay.vp_h)
  <2>1. s = [x |-> clamp_scroll(s.x, pic.w, lay.vp_w), y |-> clamp_scroll(s.y, pic.h, lay.vp_h)]
    BY DEF InRange, Clamped, lay
  <2> QED BY <2>1
<1>4. ASSUME NEW n \in Int, NEW content \in Nat, NEW vp \in Nat, n = clamp_scroll(n, content, vp)
      PROVE  /\ n \in Nat
             /\ content > vp => n + vp <= content
             /\ content <= vp => n = 0
  BY <1>4 DEF clamp_scroll, Clamp
<1>5. pic.w \in Nat /\ pic.h \in Nat
  BY DEF AreSizes
<1>6. /\ s.x \in Nat
      /\ pic.w > lay.vp_w => s.x + lay.vp_w <= pic.w
      /\ pic.w <= lay.vp_w => s.x = 0
  BY <1>1, <1>2, <1>3, <1>4, <1>5
<1>7. /\ s.y \in Nat
      /\ pic.h > lay.vp_h => s.y + lay.vp_h <= pic.h
      /\ pic.h <= lay.vp_h => s.y = 0
  BY <1>1, <1>2, <1>3, <1>4, <1>5
<1> QED BY <1>6, <1>7 DEF lay

LEMMA SameBesideBars ==
  ASSUME NEW win, NEW pic, AreSizes(win, pic), NEW s, InRange(s, win, pic),
         NEW x \in 0 .. win.w - 1, NEW y \in 0 .. win.h - 1
  PROVE  Sent(win, pic, s, x, y) = Drawn(win, pic, s, x, y)
<1> DEFINE lay == view_layout(win, pic)
<1>1. x \in Int /\ y \in Int /\ win.w > 0 /\ win.h > 0
  BY DEF AreSizes
<1>2. /\ lay.has_v \in BOOLEAN /\ lay.has_h \in BOOLEAN
      /\ lay.vp_w \in Nat /\ lay.vp_h \in Nat /\ lay.dx \in Nat /\ lay.dy \in Nat
      /\ lay.has_h <=> pic.w > lay.vp_w
      /\ lay.has_v <=> pic.h > lay.vp_h
      /\ lay.has_v \/ lay.has_h => lay.dx = 0 /\ lay.dy = 0
  BY <1>1, BarsWhereNeeded
<1>3. /\ lay.vp_w = (IF lay.has_v THEN AtLeast1(win.w - SBW) ELSE win.w)
      /\ lay.vp_h = (IF lay.has_h THEN AtLeast1(win.h - SBW) ELSE win.h)
  BY ViewportRoom
<1>4. /\ s.x \in Nat /\ s.y \in Nat
      /\ pic.w <= lay.vp_w => s.x = 0
      /\ pic.h <= lay.vp_h => s.y = 0
  BY RangeBounds
<1> HIDE DEF lay
<1>5. CASE OnBars(lay, win, x, y)
  BY <1>5 DEF Sent, Drawn, lay
<1>6. CASE ~OnBars(lay, win, x, y) /\ (lay.has_v \/ lay.has_h)
  <2>1. lay.dx = 0 /\ lay.dy = 0
    BY <1>2, <1>6
  <2>2. x < lay.vp_w /\ y < lay.vp_h
    BY <1>1, <1>2, <1>3, <1>6, ViewportAssumption DEF OnBars, InV, InH, InCorner, AtLeast1, AreSizes
  <2>3. x < Cols(lay, pic, s) <=> x - lay.dx + s.x \in 0 .. pic.w - 1
    BY <1>1, <1>2, <1>4, <2>1, <2>2 DEF Cols, Clamp, AreSizes
  <2>4. y < Rows(lay, pic, s) <=> y - lay.dy + s.y \in 0 .. pic.h - 1
    BY <1>1, <1>2, <1>4, <2>1, <2>2 DEF Rows, Clamp, AreSizes
  <2>5. x - lay.dx + s.x = s.x + x /\ y - lay.dy + s.y = s.y + y
    BY <1>1, <1>4, <2>1
  <2> QED BY <1>6, <2>3, <2>4, <2>5 DEF Sent, Drawn, lay
<1>7. CASE ~OnBars(lay, win, x, y) /\ ~lay.has_v /\ ~lay.has_h
  <2>1. s.x = 0 /\ s.y = 0
    BY <1>2, <1>4, <1>7 DEF AreSizes
  <2>2. x - lay.dx + s.x = x - lay.dx /\ y - lay.dy + s.y = y - lay.dy
    BY <1>1, <1>2, <2>1
  <2> QED BY <1>7, <2>2 DEF Sent, Drawn, lay
<1> QED BY <1>2, <1>5, <1>6, <1>7

\* A click is sent as the pixel that is drawn where it was made (view.rs, compose and
\* the frame coordinates), in every state and for all sizes.
THEOREM ClicksAreOneToOne == Spec => []DrawnIsSent
<1>1. Inv => DrawnIsSent
  <2> SUFFICES ASSUME Inv, viewer = "open", NEW pos \in Positions(window)
               PROVE  Sent(window, picture, scroll, pos[1], pos[2])
                        = Drawn(window, picture, scroll, pos[1], pos[2])
    BY DEF DrawnIsSent
  <2>1. AreSizes(window, picture) /\ InRange(scroll, window, picture)
    BY ViewportAssumption DEF Inv, AreSizes
  <2>2. pos[1] \in 0 .. window.w - 1 /\ pos[2] \in 0 .. window.h - 1
    BY DEF Positions
  <2> QED BY <2>1, <2>2, SameBesideBars
<1> QED BY <1>1, Always, PTL

-----------------------------------------------------------------------------
(* Panics.                                                                  *)

LEMMA ProductMonotone ==
  ASSUME NEW a \in Nat, NEW b \in Nat, NEW w \in Nat, a < b
  PROVE  a * w + w <= b * w
<1> DEFINE d == b - a - 1
<1>1. d \in Nat /\ b = a + 1 + d
  OBVIOUS
<1> HIDE DEF d
<1>2. d * w \in Nat /\ b * w = a * w + w + d * w /\ a * w \in Nat
  BY <1>1
<1> QED BY <1>2

\* The rows that compose copies lie in the picture, when the offset is in range.
LEMMA RowsInPicture ==
  ASSUME NEW win, NEW pic, AreSizes(win, pic), NEW s, InRange(s, win, pic),
         Rows(view_layout(win, pic), pic, s) > 0
  PROVE  LET lay == view_layout(win, pic)
         IN (s.y + Rows(lay, pic, s) - 1) * pic.w + s.x + Cols(lay, pic, s) <= pic.w * pic.h
<1> DEFINE lay == view_layout(win, pic)
           drawn == Rows(lay, pic, s)
           cols == Cols(lay, pic, s)
<1>1. lay.vp_w \in Nat /\ lay.vp_h \in Nat
  BY BarsWhereNeeded
<1>2. /\ s.x \in Nat /\ s.y \in Nat
      /\ pic.w > lay.vp_w => s.x + lay.vp_w <= pic.w
      /\ pic.w <= lay.vp_w => s.x = 0
  BY RangeBounds
<1>3. pic.w \in Nat /\ pic.h \in Nat
  BY DEF AreSizes
<1> HIDE DEF lay
<1>4. drawn \in Nat /\ drawn > 0 /\ s.y + drawn <= pic.h
  BY <1>1, <1>2, <1>3 DEF Rows, Clamp, lay
<1>5. cols \in Nat /\ s.x + cols <= pic.w
  BY <1>1, <1>2, <1>3 DEF Cols, Clamp
<1> HIDE DEF drawn, cols
<1> DEFINE a == s.y + drawn - 1
<1>7. a \in Nat /\ a < pic.h
  BY <1>2, <1>3, <1>4
<1> HIDE DEF a
<1>8. a * pic.w + pic.w <= pic.h * pic.w
  BY <1>3, <1>7, ProductMonotone
<1>9. a * pic.w \in Nat /\ pic.h * pic.w = pic.w * pic.h /\ pic.w * pic.h \in Nat
  BY <1>3, <1>7
<1>10. a * pic.w + s.x + cols <= pic.w * pic.h
  BY <1>2, <1>3, <1>5, <1>8, <1>9
<1> QED BY <1>10 DEF a, drawn, cols, lay

\* A window with room for a bar and a thumb is drawn without a panic.
LEMMA RoomyWindowsDoNotPanic ==
  ASSUME NEW win, NEW pic, AreSizes(win, pic), InRange(FirstScroll(win, pic), win, pic),
         win.w >= SBW + THUMB_MIN, win.h >= SBW + THUMB_MIN
  PROVE  ~Panics(win, pic)
<1> DEFINE lay == view_layout(win, pic)
           s == FirstScroll(win, pic)
<1>1. SBW \in Nat /\ THUMB_MIN \in Nat /\ THUMB_MIN > 0
  BY ViewportAssumption
<1>2. /\ lay.vp_w = (IF lay.has_v THEN AtLeast1(win.w - SBW) ELSE win.w)
      /\ lay.vp_h = (IF lay.has_h THEN AtLeast1(win.h - SBW) ELSE win.h)
  BY ViewportRoom
<1>3. s.x \in Nat /\ s.y \in Nat
  BY RangeBounds
<1>4. Rows(lay, pic, s) > 0 =>
        (s.y + Rows(lay, pic, s) - 1) * pic.w + s.x + Cols(lay, pic, s) <= pic.w * pic.h
  BY RowsInPicture
<1> HIDE DEF lay, s
<1>5. lay.vp_w >= THUMB_MIN /\ lay.vp_h >= THUMB_MIN /\ lay.vp_w \in Int /\ lay.vp_h \in Int
  BY <1>1, <1>2 DEF AtLeast1, AreSizes
<1>6. ~thumb_panics(lay.vp_h, pic.h) /\ ~thumb_panics(lay.vp_w, pic.w)
  BY <1>1, <1>5 DEF thumb_panics
<1>7. ~(win.w < SBW) /\ ~(win.h < SBW)
  BY <1>1 DEF AreSizes
<1>8. ~(s.x < 0) /\ ~(s.y < 0)
  BY <1>3
<1>9. /\ Rows(lay, pic, s) \in Int /\ Cols(lay, pic, s) \in Int
      /\ pic.w \in Nat /\ pic.h \in Nat
  BY <1>3, <1>5 DEF Rows, Cols, Clamp, AreSizes
<1>10. Rows(lay, pic, s) > 0 =>
         ~((s.y + Rows(lay, pic, s) - 1) * pic.w + s.x + Cols(lay, pic, s) > pic.w * pic.h)
  <2> DEFINE a == (s.y + Rows(lay, pic, s) - 1) * pic.w + s.x + Cols(lay, pic, s)
             b == pic.w * pic.h
  <2>1. a \in Int /\ b \in Int
    BY <1>3, <1>9
  <2>2. Rows(lay, pic, s) > 0 => a <= b
    BY <1>4
  <2> HIDE DEF a, b
  <2>3. Rows(lay, pic, s) > 0 => ~(a > b)
    BY <2>1, <2>2
  <2> QED BY <2>3 DEF a, b
<1>11. ~compose_panics(win, pic, s)
  BY <1>6, <1>7, <1>8, <1>10 DEF compose_panics, lay
<1> QED BY <1>6, <1>11 DEF Panics, lay, s

\* The viewer panics in a window too low or too narrow for a bar and a thumb and in no
\* other: no sequence of resizing, dragging and new pictures lets compose read beyond
\* the picture or paint beyond the window.
THEOREM RoomyWindowsAreSafe == Spec => []PanicsOnlyInSlivers
<1>1. Init => PanicsOnlyInSlivers
  BY DEF Init, PanicsOnlyInSlivers
<1>2. Inv /\ PanicsOnlyInSlivers /\ [Next]_vars => PanicsOnlyInSlivers'
  <2> SUFFICES ASSUME Inv, PanicsOnlyInSlivers, [Next]_vars PROVE PanicsOnlyInSlivers'
    OBVIOUS
  <2>1. CASE UNCHANGED vars
    BY <2>1 DEF PanicsOnlyInSlivers, vars
  <2>2. ASSUME NEW win \in Windows, NEW pic \in Pictures, Panic(win, pic)
        PROVE  PanicsOnlyInSlivers'
    <3>1. AreSizes(win, pic) /\ InRange(FirstScroll(win, pic), win, pic)
      BY FirstInRange
    <3>2. ~(win.w >= SBW + THUMB_MIN /\ win.h >= SBW + THUMB_MIN)
      BY <2>2, <3>1, RoomyWindowsDoNotPanic DEF Panic
    <3>3. win.w < SBW + THUMB_MIN \/ win.h < SBW + THUMB_MIN
      BY <3>1, <3>2, ViewportAssumption DEF AreSizes
    <3> QED BY <2>2, <3>3 DEF Panic, PanicsOnlyInSlivers
  <2>3. CASE viewer = "open" /\ viewer' = viewer
    BY <2>3 DEF PanicsOnlyInSlivers
  <2>4. ASSUME NEW win \in Windows, NEW pic \in Pictures, IterateHidden(win, pic)
        PROVE  PanicsOnlyInSlivers'
    BY <2>3, <2>4 DEF IterateHidden
  <2>5. ASSUME NEW win, NEW pic, NEW x, NEW y, NEW down, NEW v, NEW h, NEW shift,
               Iterate(win, pic, x, y, down, v, h, shift)
        PROVE  PanicsOnlyInSlivers'
    BY <2>3, <2>5 DEF Iterate
  <2> QED BY <2>1, <2>2, <2>4, <2>5 DEF Next
<1> QED BY <1>1, <1>2, Always, PTL DEF Spec
-----------------------------------------------------------------------------
(* A thumb follows the pointer.                                             *)

\* Division rounds down.
LEMMA Quotient ==
  ASSUME NEW a \in Nat, NEW b \in Nat \ {0}
  PROVE  /\ a \div b \in Nat /\ b * (a \div b) \in Nat
         /\ b * (a \div b) <= a /\ a < b * (a \div b) + b
  OBVIOUS

LEMMA FactorLess ==
  ASSUME NEW b \in Nat \ {0}, NEW m \in Int, NEW n \in Int, b * m < b * n
  PROVE  m < n
<1> SUFFICES ASSUME n <= m PROVE FALSE
  OBVIOUS
<1> DEFINE d == m - n
<1>1. d \in Nat /\ m = n + d
  OBVIOUS
<1> HIDE DEF d
<1>2. b * d \in Nat /\ b * m = b * n + b * d /\ b * n \in Int
  BY <1>1
<1> QED BY <1>2

\* Of a track with r places and a picture with d offsets: the place p is dragged to the
\* offset s, whose own place is q, at most one and an offset's share of the track before p.
LEMMA ThereAndBack ==
  ASSUME NEW r \in Nat \ {0}, NEW d \in Nat \ {0}, NEW p \in 0 .. r
  PROVE  LET s == (p * d) \div r
             q == (s * r) \div d
         IN s \in 0 .. d /\ p - q \in 0 .. 1 + r \div d
<1> DEFINE a == p * d
           s == a \div r
           b == s * r
           q == b \div d
           e == r \div d
<1>1. a \in Nat /\ p \in Nat
  OBVIOUS
<1>2. s \in Nat /\ r * s \in Nat /\ r * s <= a /\ a < r * s + r
  <2> HIDE DEF a
  <2> QED BY <1>1, Quotient
<1> HIDE DEF s
<1>3. b = r * s /\ b \in Nat
  BY <1>2
<1> HIDE DEF b
<1>4. q \in Nat /\ d * q \in Nat /\ d * q <= b /\ b < d * q + d
  BY <1>3, Quotient
<1>5. e \in Nat /\ d * e \in Nat /\ r < d * e + d
  BY Quotient
<1> HIDE DEF q, e
<1>6. a = d * p
  OBVIOUS
<1> HIDE DEF a
<1>7. s <= d
  <2>1. r * s < r * (d + 1)
    <3>1. p * d <= r * d
      <4> DEFINE k == r - p
      <4>1. k \in Nat /\ r = p + k
        BY <1>1
      <4> HIDE DEF k
      <4>2. k * d \in Nat /\ r * d = p * d + k * d /\ p * d \in Nat
        BY <1>1, <4>1
      <4> QED BY <4>2
    <3>2. r * (d + 1) = r * d + r /\ r * d \in Nat /\ p * d \in Nat
      BY <1>1
    <3> QED BY <1>2, <3>1, <3>2 DEF a
  <2>2. s < d + 1
    BY <1>2, <2>1, FactorLess
  <2> QED BY <1>2, <2>2
<1>8. q <= p
  <2>1. d * q < d * (p + 1)
    <3>1. d * (p + 1) = d * p + d /\ d * p \in Nat
      BY <1>1
    <3> QED BY <1>2, <1>3, <1>4, <1>6, <3>1
  <2>2. q < p + 1
    BY <1>1, <1>4, <2>1, FactorLess
  <2> QED BY <1>1, <1>4, <2>2
<1>9. p <= q + 1 + e
  <2>1. d * p < d * (q + e + 2)
    <3>1. d * (q + e + 2) = d * q + d * e + d + d
      BY <1>4, <1>5
    <3> QED BY <1>1, <1>2, <1>3, <1>4, <1>5, <1>6, <3>1
  <2>2. p < q + e + 2
    BY <1>1, <1>4, <1>5, <2>1, FactorLess
  <2> QED BY <1>1, <1>4, <1>5, <2>2
<1>10. s \in 0 .. d /\ p - q \in 0 .. 1 + e
  BY <1>1, <1>2, <1>4, <1>5, <1>7, <1>8, <1>9
<1> QED BY <1>10 DEF s, q, b, e, a

LEMMA FollowsAlways ==
  ASSUME NEW vp \in Nat, NEW content \in Nat
  PROVE  Follows(vp, content)
<1> DEFINE len == thumb_len(vp, content)
           dragged(p) == clamp_scroll(drag_scroll(p, vp, content), content, vp)
           r == vp - len
           d == content - vp
<1> SUFFICES ASSUME content > vp, vp > len
             PROVE  /\ \A p \in 0 .. r : p - thumb_pos(vp, content, dragged(p)) \in 0 .. 1 + r \div d
                    /\ dragged(r) = d /\ dragged(0) = 0
  BY DEF Follows
<1>1. content \in Nat \ {0} /\ len \in Int
  BY ThumbTypes
<1>2. vp # 0
  BY DEF thumb_len
<1>3. r \in Nat \ {0} /\ d \in Nat \ {0} /\ content = vp + d /\ vp = len + r
  BY <1>1
<1>4. \A p : drag_scroll(p, vp, content) = (p * d) \div r
  BY <1>1 DEF drag_scroll
<1>5. \A s : thumb_pos(vp, content, s) = (s * r) \div d
  BY <1>1, <1>2 DEF thumb_pos
<1>6. ASSUME NEW s \in 0 .. d PROVE clamp_scroll(s, content, vp) = s
  BY <1>6 DEF clamp_scroll, Clamp
<1> HIDE DEF len, r, d
<1>7. ASSUME NEW p \in 0 .. r
      PROVE  dragged(p) = (p * d) \div r
  <2>1. (p * d) \div r \in 0 .. d
    BY <1>3, ThereAndBack
  <2> QED BY <1>4, <1>6, <2>1
<1>8. \A p \in 0 .. r : p - thumb_pos(vp, content, dragged(p)) \in 0 .. 1 + r \div d
  <2> TAKE p \in 0 .. r
  <2>1. p - (((p * d) \div r) * r) \div d \in 0 .. 1 + r \div d
    BY <1>3, ThereAndBack
  <2> QED BY <1>5, <1>7, <2>1
<1>9. (r * d) \div r = d /\ (0 * d) \div r = 0
  <2> DEFINE a == r * d
  <2>1. a \in Nat /\ a = r * d
    BY <1>3
  <2> HIDE DEF a
  <2>2. a \div r \in Nat /\ r * (a \div r) <= a /\ a < r * (a \div r) + r
    BY <1>3, <2>1, Quotient
  <2> DEFINE k == a \div r
  <2> HIDE DEF k
  <2>3. k \in Nat /\ r * k <= r * d /\ r * d < r * k + r
    BY <2>1, <2>2 DEF k
  <2>4. r * (k + 1) = r * k + r /\ r * (d + 1) = r * d + r
    BY <1>3, <2>3
  <2>5. d < k + 1 /\ k < d + 1
    <3>1. r * d < r * (k + 1) /\ r * k < r * (d + 1)
      <4>1. r * d \in Nat /\ r * k \in Nat
        BY <1>3, <2>3
      <4> QED BY <1>3, <2>3, <2>4, <4>1
    <3> QED BY <1>3, <2>3, <3>1, FactorLess
  <2>6. k = d
    BY <1>3, <2>3, <2>5
  <2>7. 0 * d = 0 /\ 0 \div r = 0
    BY <1>3
  <2> QED BY <2>6, <2>7 DEF k, a
<1>10. dragged(r) = d /\ dragged(0) = 0
  <2>1. r \in 0 .. r /\ 0 \in 0 .. r
    BY <1>3
  <2> QED BY <1>7, <1>9, <2>1
<1> QED BY <1>8, <1>10

\* A dragged thumb is drawn where it was dragged to, but for an offset's share of the
\* track and one for rounding, for any window, picture, bar and thumb.
THEOREM ThumbFollowsPointer == Spec => []DragFollows
<1>1. Inv => DragFollows
  <2> SUFFICES ASSUME Inv PROVE DragFollows
    OBVIOUS
  <2> DEFINE lay == view_layout(window, picture)
  <2>1. AreSizes(window, picture) /\ picture.w \in Nat /\ picture.h \in Nat
    BY ViewportAssumption DEF AreSizes, Inv
  <2>2. lay.vp_w \in Nat /\ lay.vp_h \in Nat
    BY <2>1, BarsWhereNeeded
  <2> HIDE DEF lay
  <2>3. Follows(lay.vp_h, picture.h) /\ Follows(lay.vp_w, picture.w)
    BY <2>1, <2>2, FollowsAlways
  <2> QED BY <2>3 DEF DragFollows, lay
<1> QED BY <1>1, Always, PTL

=============================================================================
