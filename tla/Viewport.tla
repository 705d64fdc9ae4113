------------------------------ MODULE Viewport ------------------------------
(***************************************************************************)
(* The viewer's window (rcontrol_client/src/view.rs): which part of the    *)
(* picture is drawn where, the scroll bars, and what the mouse does to     *)
(* them. Positions are pixels, counted from 0 at the top left.             *)
(***************************************************************************)
EXTENDS Integers

CONSTANTS
  SBW,         (* width of a scroll bar                                      *)
  THUMB_MIN,   (* least length of a thumb                                    *)
  WHEEL_STEP,  (* pixels per step of the wheel                               *)
  Windows,     (* the sizes of the window: [w, h]                            *)
  Pictures     (* the sizes of the picture: [w, h]                           *)

ASSUME ViewportAssumption ==
  /\ {SBW, THUMB_MIN, WHEEL_STEP} \subseteq Nat \ {0}
  /\ \A w \in Windows : w.w \in Nat /\ w.h \in Nat
  /\ \A p \in Pictures : p.w \in Nat \ {0} /\ p.h \in Nat \ {0}

VARIABLES
  window,      (* cw and ch                                                  *)
  picture,     (* fw and fh                                                  *)
  scroll,      (* offset of the viewport in the picture: [x, y], integers    *)
  grab,        (* the thumb that is held: [bar, off], or NoGrab              *)
  left,        (* mouse_btn[0], a Boolean                                    *)
  viewer       (* "open" or "panicked"                                       *)

vars == <<window, picture, scroll, grab, left, viewer>>

NoGrab == [bar |-> "none", off |-> 0]
AtLeast1(n) == IF n < 1 THEN 1 ELSE n
Clamp(n, lo, hi) == IF n < lo THEN lo ELSE IF n > hi THEN hi ELSE n

-----------------------------------------------------------------------------
(* Geometry.                                                                *)

(* Each bar takes room from the other axis, which may need one for it.      *)
view_layout(win, pic) ==
  LET room_w == AtLeast1(win.w - SBW)
      room_h == AtLeast1(win.h - SBW)
      wide == pic.w > win.w
      has_v == IF wide THEN pic.h > room_h ELSE pic.h > win.h
      has_h == IF has_v THEN pic.w > room_w ELSE wide
      fits == ~has_v /\ ~has_h
  IN [has_v |-> has_v, has_h |-> has_h,
      vp_w |-> IF has_v THEN room_w ELSE win.w,
      vp_h |-> IF has_h THEN room_h ELSE win.h,
      dx |-> IF fits THEN (win.w - pic.w) \div 2 ELSE 0,
      dy |-> IF fits THEN (win.h - pic.h) \div 2 ELSE 0]

clamp_scroll(s, content, vp) ==
  IF content > vp THEN Clamp(s, 0, content - vp) ELSE 0

(* Where the thumb begins and how long it is, on a track as long as the     *)
(* viewport.                                                                *)
thumb_len(vp, content) ==
  IF content <= vp \/ vp <= 0 THEN vp ELSE Clamp((vp * vp) \div content, THUMB_MIN, vp)
thumb_pos(vp, content, s) ==
  IF content <= vp \/ vp <= 0 THEN 0
  ELSE (s * (vp - thumb_len(vp, content))) \div (content - vp)

(* clamp panics when its bounds are the wrong way round.                    *)
thumb_panics(vp, content) == content > vp /\ vp > 0 /\ vp < THUMB_MIN

MutantDragScroll(pos, vp, content) ==
  IF vp <= thumb_len(vp, content) THEN 0 ELSE (pos * (content - vp)) \div vp

drag_scroll(pos, vp, content) ==
  IF vp <= thumb_len(vp, content) THEN 0
  ELSE (pos * (content - vp)) \div (vp - thumb_len(vp, content))

Clamped(s, win, pic) ==
  LET lay == view_layout(win, pic)
  IN [x |-> clamp_scroll(s.x, pic.w, lay.vp_w), y |-> clamp_scroll(s.y, pic.h, lay.vp_h)]

-----------------------------------------------------------------------------
(* What is drawn: compose copies rows of the picture and paints the bars.   *)
Rows(lay, pic, s) == Clamp(pic.h - s.y, 0, lay.vp_h)
MutantCols(lay, pic, s) == lay.vp_w
Cols(lay, pic, s) == Clamp(pic.w - s.x, 0, lay.vp_w)

(* It panics on a bar that does not fit in the window, and on a row that    *)
(* the picture does not have.                                               *)
compose_panics(win, pic, s) ==
  LET lay == view_layout(win, pic)
  IN \/ lay.has_v /\ (win.w < SBW \/ thumb_panics(lay.vp_h, pic.h))
     \/ lay.has_h /\ (win.h < SBW \/ thumb_panics(lay.vp_w, pic.w))
     \/ /\ lay.has_v \/ lay.has_h
        /\ Rows(lay, pic, s) > 0
        /\ \/ s.x < 0 \/ s.y < 0
           \/ (s.y + Rows(lay, pic, s) - 1) * pic.w + s.x + Cols(lay, pic, s) > pic.w * pic.h

(* The parts of the window.                                                 *)
InV(lay, win, x, y) == lay.has_v /\ x >= win.w - SBW /\ y < lay.vp_h
InH(lay, win, x, y) == lay.has_h /\ y >= win.h - SBW /\ x < lay.vp_w
InCorner(lay, win, x, y) == lay.has_v /\ lay.has_h /\ x >= win.w - SBW /\ y >= win.h - SBW
OnBars(lay, win, x, y) ==
  InV(lay, win, x, y) \/ InH(lay, win, x, y) \/ InCorner(lay, win, x, y)

(* The pixel of the picture that is drawn at a position of the window; the   *)
(* bars are painted over it.                                                *)
Background == <<"background">>
Drawn(win, pic, s, x, y) ==
  LET lay == view_layout(win, pic)
      px == x - lay.dx
      py == y - lay.dy
  IN CASE OnBars(lay, win, x, y) -> Background
       [] ~OnBars(lay, win, x, y) /\ (lay.has_v \/ lay.has_h) ->
            IF x < Cols(lay, pic, s) /\ y < Rows(lay, pic, s) THEN <<s.x + x, s.y + y>>
            ELSE Background
       [] OTHER ->
            IF px \in 0 .. pic.w - 1 /\ py \in 0 .. pic.h - 1 THEN <<px, py>> ELSE Background

(* The pixel a click is sent as when it is over the view, Background if it is  *)
(* not sent.                                                                *)
MutantSent(win, pic, s, x, y) ==
  LET lay == view_layout(win, pic)
      fx == x + s.x
      fy == y + s.y
  IN IF /\ ~OnBars(lay, win, x, y)
        /\ fx \in 0 .. pic.w - 1 /\ fy \in 0 .. pic.h - 1
     THEN <<fx, fy>>
     ELSE Background

Sent(win, pic, s, x, y) ==
  LET lay == view_layout(win, pic)
      fx == x - lay.dx + s.x
      fy == y - lay.dy + s.y
  IN IF /\ ~OnBars(lay, win, x, y)
        /\ fx \in 0 .. pic.w - 1 /\ fy \in 0 .. pic.h - 1
     THEN <<fx, fy>>
     ELSE Background

-----------------------------------------------------------------------------
Init ==
  /\ window \in Windows /\ picture \in Pictures
  /\ scroll = [x |-> 0, y |-> 0] /\ grab = NoGrab /\ left = FALSE
  /\ viewer = "open"

(* A thumb that is held follows the pointer.                                *)
Drag(lay, pic, s, x, y) ==
  CASE grab.bar = "v" ->
         [s EXCEPT !.y = clamp_scroll(drag_scroll(y - grab.off, lay.vp_h, pic.h), pic.h, lay.vp_h)]
    [] grab.bar = "h" ->
         [s EXCEPT !.x = clamp_scroll(drag_scroll(x - grab.off, lay.vp_w, pic.w), pic.w, lay.vp_w)]
    [] OTHER -> s

(* A press on a thumb takes hold of it, one beside it turns a page.         *)
OnThumb(at, pos, len) == pos <= at /\ at < pos + len
Page(s, at, pos, content, vp) == clamp_scroll(s + (IF at < pos THEN -vp ELSE vp), content, vp)

Hold(lay, win, pic, s, x, y) ==
  LET vtp == thumb_pos(lay.vp_h, pic.h, s.y)
      htp == thumb_pos(lay.vp_w, pic.w, s.x)
  IN CASE InV(lay, win, x, y) /\ OnThumb(y, vtp, thumb_len(lay.vp_h, pic.h)) ->
            [bar |-> "v", off |-> y - vtp]
       [] ~InV(lay, win, x, y) /\ InH(lay, win, x, y) /\ OnThumb(x, htp, thumb_len(lay.vp_w, pic.w)) ->
            [bar |-> "h", off |-> x - htp]
       [] OTHER -> NoGrab

PressScrolls(lay, win, pic, s, x, y) ==
  LET vtp == thumb_pos(lay.vp_h, pic.h, s.y)
      htp == thumb_pos(lay.vp_w, pic.w, s.x)
  IN CASE Hold(lay, win, pic, s, x, y) # NoGrab -> s
       [] InV(lay, win, x, y) -> [s EXCEPT !.y = Page(s.y, y, vtp, pic.h, lay.vp_h)]
       [] ~InV(lay, win, x, y) /\ InH(lay, win, x, y) ->
            [s EXCEPT !.x = Page(s.x, x, htp, pic.w, lay.vp_w)]
       [] OTHER -> s

(* The wheel moves the picture along the bar there is, with Shift along the *)
(* horizontal one; its sideways steps move horizontally.                    *)
Wheel(lay, pic, s, v, h, shift) ==
  LET across == lay.has_h /\ (shift \/ ~lay.has_v)
      first == CASE across -> [s EXCEPT !.x = clamp_scroll(@ + v * WHEEL_STEP, pic.w, lay.vp_w)]
                 [] ~across /\ lay.has_v ->
                      [s EXCEPT !.y = clamp_scroll(@ + v * WHEEL_STEP, pic.h, lay.vp_h)]
                 [] OTHER -> s
  IN IF h # 0 /\ lay.has_h
     THEN [first EXCEPT !.x = clamp_scroll(@ + h * WHEEL_STEP, pic.w, lay.vp_w)]
     ELSE first

(* One round of the loop on a window of this size, with a picture of this   *)
(* size, the pointer at x, y (NoWheel or wheel steps v, h) and the button   *)
(* down or not. A picture of another size begins at its top left corner.    *)
MutantFirstScroll(win, pic) == IF pic # picture THEN [x |-> 0, y |-> 0] ELSE scroll
FirstScroll(win, pic) ==
  Clamped(IF pic # picture THEN [x |-> 0, y |-> 0] ELSE scroll, win, pic)

Panics(win, pic) ==
  /\ win.w > 0 /\ win.h > 0
  /\ LET lay == view_layout(win, pic)
     IN \/ compose_panics(win, pic, FirstScroll(win, pic))
        \/ thumb_panics(lay.vp_h, pic.h) \/ thumb_panics(lay.vp_w, pic.w)

Panic(win, pic) ==
  /\ viewer = "open" /\ Panics(win, pic)
  /\ viewer' = "panicked" /\ window' = win /\ picture' = pic
  /\ scroll' = FirstScroll(win, pic)
  /\ UNCHANGED <<grab, left>>

(* Nothing is drawn on a window without an area, and no mouse is looked at. *)
IterateHidden(win, pic) ==
  /\ viewer = "open" /\ (win.w = 0 \/ win.h = 0)
  /\ window' = win /\ picture' = pic
  /\ scroll' = FirstScroll(win, pic)
  /\ UNCHANGED <<grab, left, viewer>>

Iterate(win, pic, x, y, down, v, h, shift) ==
  /\ viewer = "open" /\ win.w > 0 /\ win.h > 0 /\ ~Panics(win, pic)
  /\ window' = win /\ picture' = pic
  /\ LET lay == view_layout(win, pic)
         s == FirstScroll(win, pic)
         dragging == grab # NoGrab /\ down
         pressing == ~dragging /\ down /\ ~left
         moved == IF dragging THEN Drag(lay, pic, s, x, y)
                  ELSE IF pressing THEN PressScrolls(lay, win, pic, s, x, y) ELSE s
     IN /\ grab' = (IF dragging THEN grab
                    ELSE IF pressing THEN Hold(lay, win, pic, s, x, y) ELSE NoGrab)
        /\ left' = IF dragging THEN left ELSE down
        /\ scroll' = Wheel(lay, pic, moved, v, h, shift)
  /\ UNCHANGED viewer

Positions(win) == (0 .. win.w - 1) \X (0 .. win.h - 1)
Pointers(win) == (-1 .. win.w) \X (-1 .. win.h)
Steps == {-1, 0, 1}

Next ==
  \E win \in Windows, pic \in Pictures :
    \/ Panic(win, pic)
    \/ IterateHidden(win, pic)
    \/ \E pos \in Pointers(win), down \in BOOLEAN :
         Iterate(win, pic, pos[1], pos[2], down, 0, 0, FALSE)
    \/ \E v, h \in Steps, down, shift \in BOOLEAN :
         Iterate(win, pic, 0, 0, down, v, h, shift)

Spec == Init /\ [][Next]_vars

-----------------------------------------------------------------------------
(* Whatever was dragged, turned, resized or received before, the viewport   *)
(* lies within the picture, or begins where a picture begins that fits.     *)
ScrollInRange ==
  viewer = "open" => scroll = Clamped(scroll, window, picture)

(* The picture is drawn, and clicked, one to one: a click is sent as the    *)
(* pixel that is drawn where it was made, and where none is drawn, in the   *)
(* gaps and on the bars, nothing is sent.                                   *)
DrawnIsSent ==
  viewer = "open" /\ ~Panics(window, picture) =>
    \A pos \in Positions(window) :
      Sent(window, picture, scroll, pos[1], pos[2]) = Drawn(window, picture, scroll, pos[1], pos[2])

(* Only in a window too low or too narrow for a bar and a thumb does the    *)
(* viewer panic: no sequence of resizing, dragging and new pictures makes   *)
(* compose read beyond the picture.                                         *)
PanicsOnlyInSlivers ==
  viewer = "panicked" => window.w < SBW + THUMB_MIN \/ window.h < SBW + THUMB_MIN

(* A dragged thumb follows the pointer: it is drawn where it was dragged    *)
(* to, but for what one pixel of the picture moves it and one for rounding, *)
(* and at the end of the track the end of the picture is seen.              *)
Follows(vp, content) ==
  LET len == thumb_len(vp, content)
      dragged(p) == clamp_scroll(drag_scroll(p, vp, content), content, vp)
  IN content > vp /\ vp > len =>
       /\ \A p \in 0 .. vp - len :
            p - thumb_pos(vp, content, dragged(p)) \in 0 .. 1 + (vp - len) \div (content - vp)
       /\ dragged(vp - len) = content - vp /\ dragged(0) = 0
DragFollows ==
  viewer = "open" /\ ~Panics(window, picture) =>
    LET lay == view_layout(window, picture)
    IN Follows(lay.vp_h, picture.h) /\ Follows(lay.vp_w, picture.w)
=============================================================================
