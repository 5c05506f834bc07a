------------------------------ MODULE ZoomPan ------------------------------
(***************************************************************************)
(* The diagrams of the documentation's site (docs/site, zoompan.js): each  *)
(* box of a page gets an instance that can be zoomed, panned and shown on  *)
(* the full screen, and whose place is kept in localStorage by timers that *)
(* are started anew with every movement.                                   *)
(***************************************************************************)
EXTENDS Naturals

CONSTANTS
  Box,             \* boxes of the page, by number and id
  MaxActivations,  \* bound: times a page looks for boxes to activate
  MaxPlaces,       \* bound: places a diagram can be moved to
  InitialPlace,    \* initial_zoom_level, of the page's panzoom-data
  NoZoom

ASSUME ZoomAssumption ==
  /\ {MaxActivations, MaxPlaces} \subseteq Nat /\ InitialPlace \in 0..MaxPlaces
  /\ NoZoom \notin [at : 0..MaxPlaces, old : BOOLEAN]

Place == 0..MaxPlaces  \* 0 is the default level, not moved

\* A key is made of the number or of the id of a box.
Key == Box \X {"number", "id"}

VARIABLES
  diagram,      \* of each box
  stored,       \* localStorage, under the keys of this page
  activations,  \* activations to come
  scroll        \* [at, kept]: the page's position, and panzoomScrollPosition

zoomVars == <<diagram, stored, activations, scroll>>

NewDiagram ==
  [drawn |-> FALSE, active |-> FALSE, at |-> 0, full |-> FALSE, info |-> FALSE,
   zoomSave |-> FALSE, panSave |-> FALSE,
   failed |-> FALSE]  \* history: since it moved, its last load or save threw

ZoomTypeOK ==
  /\ diagram \in [Box -> [drawn : BOOLEAN, active : BOOLEAN, at : Place, full : BOOLEAN,
                          info : BOOLEAN, zoomSave : BOOLEAN, panSave : BOOLEAN,
                          failed : BOOLEAN]]
  /\ stored \in [Key -> [at : Place, old : BOOLEAN] \cup {NoZoom}]
  /\ activations \in 0..MaxActivations
  /\ scroll \in [at : 0..1, kept : 0..1]
  /\ \A b \in Box : diagram[b].active => diagram[b].drawn

ZoomInit ==
  /\ diagram = [b \in Box |-> NewDiagram]
  /\ stored = [k \in Key |-> NoZoom]
  /\ activations = MaxActivations /\ scroll = [at |-> 0, kept |-> 0]

\* The page is loaded again: its timers are gone with the rest of it.
LoadPage ==
  /\ diagram' = [b \in Box |-> NewDiagram]
  /\ activations' = MaxActivations /\ scroll' = [at |-> 0, kept |-> 0]
  /\ UNCHANGED stored

\* An element that activate_zoom_pan looks for is there.
Drawn(b) ==
  /\ ~diagram[b].drawn
  /\ diagram' = [diagram EXCEPT ![b].drawn = TRUE]
  /\ UNCHANGED <<stored, activations, scroll>>

\* What is less than thirty days old, and else where the page has it begin.
LoadZoomState(b) ==
  LET saved == stored[<<b, "number">>] IN
  IF saved # NoZoom /\ ~saved.old THEN saved.at ELSE InitialPlace

\* Once a second, for five: the boxes that have no instance yet.  What cannot
\* be read counts as not saved.
Activate ==
  /\ activations > 0 /\ activations' = activations - 1
  /\ \E unread \in SUBSET Box :
       diagram' = [b \in Box |->
         IF diagram[b].drawn /\ ~diagram[b].active
         THEN [diagram[b] EXCEPT !.active = TRUE, !.failed = b \in unread,
                 !.at = IF b \in unread THEN InitialPlace ELSE LoadZoomState(b)]
         ELSE diagram[b]]
  /\ UNCHANGED <<stored, scroll>>

\* A zoom or a pan, which starts its own timer anew.
Moved(b, place, by) ==
  /\ diagram[b].active /\ place # diagram[b].at
  /\ diagram' = [diagram EXCEPT ![b].at = place,
                                ![b].zoomSave = @ \/ by = "zoom",
                                ![b].panSave = @ \/ by = "pan",
                                ![b].failed = FALSE]
  /\ UNCHANGED <<stored, activations, scroll>>

\* localStorage may be full, or denied: the page only warns.
SaveZoomState(b, failed) ==
  stored' = IF failed THEN stored
            ELSE [stored EXCEPT ![<<b, "number">>] = [at |-> diagram[b].at, old |-> FALSE]]

\* A timer fires, and saves the place of that moment.
SaveDue(b, by) ==
  /\ IF by = "zoom" THEN diagram[b].zoomSave ELSE diagram[b].panSave
  /\ \E failed \in BOOLEAN :
       /\ diagram' = [diagram EXCEPT ![b].zoomSave = @ /\ by # "zoom",
                                     ![b].panSave = @ /\ by # "pan",
                                     ![b].failed = failed]
       /\ SaveZoomState(b, failed)
  /\ UNCHANGED <<activations, scroll>>

ThirtyDays ==
  /\ stored' = [k \in Key |-> IF stored[k] = NoZoom THEN NoZoom
                              ELSE [stored[k] EXCEPT !.old = TRUE]]
  /\ UNCHANGED <<diagram, activations, scroll>>

\* Cleared by id, where nothing is ever saved: whether it fails is all one.
ClearZoomState(b) == stored' = [stored EXCEPT ![<<b, "id">>] = NoZoom]

\* Variant: a reset is not followed by the timers of a zoom and a pan.
Rest_quiet(d) == [d EXCEPT !.at = 0, !.failed = FALSE]

\* panzoom_reset moves and zooms, and these are saved like any others.
Rest(d) ==
  [d EXCEPT !.at = 0, !.zoomSave = TRUE, !.panSave = TRUE, !.failed = FALSE]

Reset(b) ==
  /\ diagram[b].active
  /\ ClearZoomState(b)
  /\ diagram' = [diagram EXCEPT ![b] = Rest(@)]
  /\ UNCHANGED <<activations, scroll>>

Maximize(b) ==
  /\ diagram[b].active /\ ~diagram[b].full
  /\ diagram' = [diagram EXCEPT ![b].full = TRUE]
  /\ scroll' = [scroll EXCEPT !.kept = scroll.at]
  /\ UNCHANGED <<stored, activations>>

\* The button of a box on the full screen, or Escape in any box: the page is
\* scrolled to where a diagram was last maximized.
Minimize(b) ==
  /\ diagram[b].active
  /\ ClearZoomState(b)
  /\ diagram' = [diagram EXCEPT ![b] = [Rest(@) EXCEPT !.full = FALSE]]
  /\ scroll' = [scroll EXCEPT !.at = scroll.kept]
  /\ UNCHANGED activations

Scrolled(y) ==
  /\ \A b \in Box : ~diagram[b].full
  /\ y # scroll.at /\ scroll' = [scroll EXCEPT !.at = y]
  /\ UNCHANGED <<diagram, stored, activations>>

ToggleInfo(b) ==
  /\ diagram[b].active
  /\ diagram' = [diagram EXCEPT ![b].info = ~@]
  /\ UNCHANGED <<stored, activations, scroll>>

ZoomNext ==
  \/ LoadPage \/ Activate \/ ThirtyDays
  \/ \E b \in Box :
       \/ Drawn(b) \/ Reset(b) \/ Maximize(b) \/ Minimize(b) \/ ToggleInfo(b)
       \/ \E by \in {"zoom", "pan"} :
            SaveDue(b, by) \/ \E place \in Place : Moved(b, place, by)
  \/ \E y \in 0..1 : Scrolled(y)

(***************************************************************************)
(* Once the timers of a diagram have fired, a page that is loaded again    *)
(* shows it in the place it has, however zooms, pans, resets and the full  *)
(* screen have followed each other (unless thirty days have passed, or     *)
(* localStorage failed the last time it was asked for this diagram, which  *)
(* saveZoomState and loadZoomState only warn of): the reset relies on      *)
(* this, since the state it clears is not the one saved.                   *)
(***************************************************************************)
ZoomRemembered ==
  \A b \in Box :
    LET d == diagram[b] IN
    d.active /\ ~d.zoomSave /\ ~d.panSave /\ ~d.failed =>
      \/ LoadZoomState(b) = d.at
      \/ stored[<<b, "number">>] # NoZoom /\ stored[<<b, "number">>].old
=============================================================================
