---------------------------- MODULE RenderState ----------------------------
(***************************************************************************)
(* RenderStateWrapper and the two render states behind it,                 *)
(* src/libretro/render: which renderer draws, whether its OpenGL context   *)
(* is there, and what a picture shows.                                     *)
(*                                                                         *)
(* A picture is a set of screens, each with the matrix it was drawn with;  *)
(* pixels, shaders and the GL objects themselves are left out.  The        *)
(* vertices stand for everything that InitFrameState copies.               *)
(***************************************************************************)
EXTENDS InputState

NewSoftware == [kind |-> "Software", ready |-> TRUE, needsRefresh |-> FALSE,
                vertices |-> {}, scale |-> 0]
NewOpenGl == [NewSoftware EXCEPT !.kind = "OpenGl", !.ready = FALSE]
NoRenderState == [NewOpenGl EXCEPT !.kind = "none"]

(* offers: the frontend takes the request for an OpenGL context.           *)
SetRenderer(r, configured, offers) ==
  CASE configured = r.kind -> r
    [] configured = "OpenGl" /\ r.kind # "OpenGl" /\ offers -> NewOpenGl
    [] OTHER -> IF r.kind = "Software" THEN r ELSE NewSoftware

(* s is [render, renderer]: the render state and the renderer of the       *)
(* console, "soft" or "gl".  built: a GLRenderer can be made.              *)
UpdateRenderer(s, built) ==
  CASE s.render.kind = "Software" -> [s EXCEPT !.renderer = "soft"]
    [] s.render.kind = "OpenGl" /\ s.renderer = "gl" -> s
    [] s.render.kind = "OpenGl" /\ s.renderer = "soft" ->
         IF built THEN [s EXCEPT !.renderer = "gl", !.render.needsRefresh = TRUE]
         ELSE [s EXCEPT !.render = NewSoftware]

(* ContextReset replaces the console's renderer, whose objects died with   *)
(* the old context; without a new one it throws.                           *)
ContextResetUnready(s, config, built) ==  \* mutant of ContextReset: not marked as initialised
  [s EXCEPT !.renderer = IF built THEN "gl" ELSE "soft",
            !.render.needsRefresh = built \/ @, !.render.vertices = IF built THEN {} ELSE @]
ContextReset(s, config, built) ==
  IF s.render.kind # "OpenGl" THEN s
  ELSE IF ~built THEN [s EXCEPT !.renderer = "soft"]
  ELSE [s EXCEPT !.renderer = "gl", !.render.ready = TRUE, !.render.needsRefresh = TRUE,
                 !.render.scale = config.scale]

ContextDestroyed(r) ==
  IF r.kind # "OpenGl" THEN r
  ELSE [r EXCEPT !.ready = FALSE, !.needsRefresh = FALSE, !.vertices = {}]

RequestRefresh(r) == IF r.kind = "OpenGl" THEN [r EXCEPT !.needsRefresh = TRUE] ELSE r

-----------------------------------------------------------------------------
(* Which screens a layout shows, and with which of its matrices.           *)
Shown(l) ==
  LET layout == Layout(l)
      both == l.small = "Both"
      Slot(screen, slot, wanted) == IF wanted THEN {[screen |-> screen, slot |-> slot]} ELSE {}
  IN IF layout \in HybridLayouts
     THEN Slot("top", "hybrid", layout \in HybridTopLayouts)
            \cup Slot("bottom", "hybrid", layout \in HybridBottomLayouts)
            \cup Slot("top", "top", both \/ layout \in HybridBottomLayouts)
            \cup Slot("bottom", "bottom", both \/ layout \in HybridTopLayouts)
     ELSE Slot("top", "top", layout # "BottomOnly")
            \cup Slot("bottom", "bottom", layout # "TopOnly")

MatrixOf(l, slot) ==
  CASE slot = "top" -> l.top [] slot = "bottom" -> l.bottom [] slot = "hybrid" -> l.hybrid

(* The software renderer copies the screens, the hybrid one enlarged by    *)
(* the ratio; OpenGL draws the layout's corners as they are.               *)
CombineScreens(l) ==
  {LET m == MatrixOf(l, shown.slot)
   IN [screen |-> shown.screen,
       at |-> Matrix(IF shown.slot = "hybrid" THEN l.ratio ELSE 1, m.x, m.y)] : shown \in Shown(l)}
InitVertices(l) ==
  {[screen |-> shown.screen, at |-> MatrixOf(l, shown.slot)] : shown \in Shown(l)}

InitFrameState(r, config, l) ==
  [r EXCEPT !.needsRefresh = FALSE, !.scale = config.scale, !.vertices = InitVertices(l)]

(* Render: what OpenGL draws are the vertices of the last refresh, in a    *)
(* picture of the layout's present size.                                   *)
RefreshedByScale(r, config, l) ==  \* mutant of Refreshed: only a new scale counts
  IF r.kind = "OpenGl" /\ (r.scale # config.scale \/ r.vertices = {})
  THEN InitFrameState(r, config, l) ELSE r
Refreshed(r, config, l) ==
  IF r.kind = "OpenGl" /\ (r.needsRefresh \/ r.scale # config.scale)
  THEN InitFrameState(r, config, l) ELSE r

Render(r, l) ==
  [by |-> r.kind, size |-> l.size, turned |-> l.orientation,
   screens |-> IF r.kind = "OpenGl" THEN r.vertices ELSE CombineScreens(l)]
=============================================================================
