---------------------------- MODULE ScreenLayout ----------------------------
(***************************************************************************)
(* ScreenLayoutData, src/libretro/screenlayout.cpp: where the two screens  *)
(* of the console lie in the picture, how large the picture is, and which  *)
(* pixel of the touch screen a pointer of the frontend is at.              *)
(*                                                                         *)
(* Every matrix of the code scales by a whole factor k and moves by whole  *)
(* pixels, so it is the record of the three.  The inverses are not kept:   *)
(* they are computed where the matrices are.  A pointer coordinate counts  *)
(* from -PointerReach to PointerReach for the -32767 to 32767 of libretro. *)
(***************************************************************************)
EXTENDS Integers, Sequences, FiniteSetsExt

CONSTANT PointerReach

ASSUME PointerReachAssumption == PointerReach \in Nat \ {0}

Width == 256
Height == 192
MaxHybridRatio == 3
MaxScreenGap == 126
MaxOpenGlScale == 8

HybridTopLayouts == {"HybridTop", "FlippedHybridTop"}
HybridBottomLayouts == {"HybridBottom", "FlippedHybridBottom"}
HybridLayouts == HybridTopLayouts \cup HybridBottomLayouts
TurnedLayouts == {"TurnLeft", "TurnRight", "UpsideDown"}
Layouts == HybridLayouts \cup TurnedLayouts
             \cup {"TopBottom", "BottomTop", "LeftRight", "RightLeft", "TopOnly", "BottomOnly"}

Matrix(k, x, y) == [k |-> k, x |-> x, y |-> y]
Identity == Matrix(1, 0, 0)

NewLayout ==
  [dirty |-> TRUE, scale |-> 0, gap |-> 0, small |-> "One", ratio |-> 2,
   layouts |-> <<"TopBottom">>, index |-> 0, orientation |-> 0, angle |-> 0,
   top |-> Identity, bottom |-> Identity, hybrid |-> Identity, size |-> <<0, 0>>]

Layout(l) == l.layouts[l.index + 1]

-----------------------------------------------------------------------------
(* Matrices by layout: GetTopScreenMatrix and its siblings.                *)
Northwest(l) == Matrix(l.scale, 0, 0)
Southwest(l) == Matrix(l.scale, 0, l.scale * (Height + l.gap))
East(l) == Matrix(l.scale, l.scale * Width, 0)
HybridWest(l) == Matrix(l.scale * l.ratio, 0, 0)
HybridNortheast(l) == Matrix(l.scale, l.scale * l.ratio * Width, 0)
HybridSoutheast(l) ==
  Matrix(l.scale, l.scale * l.ratio * Width, l.scale * Height * (l.ratio - 1))
FlippedHybridEast(l) == Matrix(l.scale * l.ratio, l.scale * Width, 0)
FlippedHybridSouthwest(l) == Matrix(l.scale, 0, l.scale * Height * (l.ratio - 1))

TopScreenMatrix(l) ==
  CASE Layout(l) = "BottomTop" -> Southwest(l)
    [] Layout(l) = "RightLeft" -> East(l)
    [] Layout(l) \in {"HybridTop", "HybridBottom"} -> HybridNortheast(l)
    [] Layout(l) \in {"TopBottom", "TopOnly", "LeftRight", "FlippedHybridTop",
                      "FlippedHybridBottom"} \cup TurnedLayouts -> Northwest(l)
    [] OTHER -> Identity

BottomScreenMatrix(l) ==
  CASE Layout(l) \in {"TopBottom"} \cup TurnedLayouts -> Southwest(l)
    [] Layout(l) \in {"BottomTop", "BottomOnly", "RightLeft"} -> Northwest(l)
    [] Layout(l) = "LeftRight" -> East(l)
    [] Layout(l) \in {"HybridTop", "HybridBottom"} -> HybridSoutheast(l)
    [] Layout(l) \in {"FlippedHybridTop", "FlippedHybridBottom"} -> FlippedHybridSouthwest(l)
    [] OTHER -> Identity

HybridScreenMatrix(l) ==
  CASE Layout(l) \in {"HybridTop", "HybridBottom"} -> HybridWest(l)
    [] Layout(l) \in {"FlippedHybridTop", "FlippedHybridBottom"} -> FlippedHybridEast(l)
    [] OTHER -> Identity

Right(m) == m.x + m.k * Width
Bottom(m) == m.y + m.k * Height

(* Quarter turns to the left of the picture.                               *)
LayoutOrientation(layout) ==
  CASE layout = "TurnLeft" -> 1 [] layout = "UpsideDown" -> 2 [] layout = "TurnRight" -> 3
    [] OTHER -> 0

(* Update: canRotate says whether the frontend can turn the picture.  Its  *)
(* picture is then turned by "orientation", which only a turn it accepted  *)
(* changes; the pointer's matrix is new each time.                         *)
Update(l, canRotate) ==
  LET top == TopScreenMatrix(l)
      bottom == BottomScreenMatrix(l)
      hybrid == HybridScreenMatrix(l)
      turned == LayoutOrientation(Layout(l))
  IN [l EXCEPT !.dirty = FALSE, !.top = top, !.bottom = bottom, !.hybrid = hybrid,
               !.size = <<Max({Right(m) : m \in {top, bottom, hybrid}}),
                          Max({Bottom(m) : m \in {top, bottom, hybrid}})>>,
               !.angle = IF canRotate THEN turned ELSE 0,
               !.orientation = IF canRotate THEN turned ELSE @]

-----------------------------------------------------------------------------
(* Settings.  A setter marks the layout dirty if what it shows changed.    *)
Marked(old, new) == IF Layout(old) # Layout(new) THEN [new EXCEPT !.dirty = TRUE] ELSE new

SetLayouts(l, layouts) ==
  Marked(l, [l EXCEPT !.layouts = layouts,
                      !.index = IF @ >= Len(layouts) THEN Len(layouts) - 1 ELSE @])

NextLayout(l) == Marked(l, [l EXCEPT !.index = (@ + 1) % Len(l.layouts)])

(* Apply: renderMode is the render state's, which a fallback may have      *)
(* changed from the configured one.                                        *)
ApplyLayout(l, config, renderMode, canRotate) ==
  Update([SetLayouts(l, config.layouts) EXCEPT
            !.scale = IF renderMode = "Software" THEN 1 ELSE config.scale,
            !.small = config.small, !.gap = config.gap, !.ratio = config.ratio], canRotate)

MaxSoftwareSize ==
  <<Max({Width * 2, Width * MaxHybridRatio + Width + MaxHybridRatio * 2,
         Height * 2 + MaxScreenGap}),
    Max({Height * 2 + MaxScreenGap, Height * MaxHybridRatio})>>
MaxOpenGlSize ==
  <<Max({Width * MaxOpenGlScale * 2,
         Width * MaxOpenGlScale * (MaxHybridRatio + 1) + MaxHybridRatio * 2,
         MaxOpenGlScale * (Height * 2 + MaxScreenGap)}),
    Max({MaxOpenGlScale * (Height * 2 + MaxScreenGap), MaxOpenGlScale * Height * MaxHybridRatio})>>

Geometry(l, renderer) ==
  [base |-> l.size, max |-> IF renderer = "OpenGl" THEN MaxOpenGlSize ELSE MaxSoftwareSize]

-----------------------------------------------------------------------------
(* The pointer.  A quarter turn takes (x, y) to (-y, x); division rounds   *)
(* towards zero, as the conversion from float does.                        *)
Turn(v, quarters) ==
  CASE quarters = 0 -> v
    [] quarters = 1 -> <<-v[2], v[1]>>
    [] quarters = 2 -> <<-v[1], -v[2]>>
    [] quarters = 3 -> <<v[2], -v[1]>>

Truncated(a, b) == IF a >= 0 THEN a \div b ELSE -((-a) \div b)

Through(l, raw, m) ==
  LET v == Turn(raw, l.angle)
      On(axis, offset) ==
        Truncated(l.size[axis] * (PointerReach + v[axis]) - 2 * PointerReach * offset,
                  2 * PointerReach * m.k)
  IN <<On(1, m.x), On(2, m.y)>>

TransformPointerInput(l, raw) == Through(l, raw, l.bottom)
TransformPointerInputToHybridScreen(l, raw) == Through(l, raw, l.hybrid)

ClampedTo(n, high) == IF n < 0 THEN 0 ELSE IF n > high THEN high ELSE n
OnTouchScreen(v) == <<ClampedTo(v[1], Width - 1), ClampedTo(v[2], Height - 1)>>
=============================================================================
