------------------------------ MODULE FluxViews ------------------------------
(***************************************************************************)
(* What a tab shows of a board: the address bar and the open card, the     *)
(* cards of the list and the ticked ones, and the places of cards.  The    *)
(* three share the lens and no variable; a behaviour lets one of them run. *)
(***************************************************************************)
EXTENDS FluxNavigation, FluxList, FluxPlacement

VARIABLE part
viewsVars == <<part, navigationVars, listVars, placementVars>>

ViewsInit ==
  /\ part \in {"address", "list", "placement"}
  /\ NavigationInit /\ ListInit /\ PlacementInit

ViewsNext ==
  \/ part = "address" /\ NavigationNext /\ UNCHANGED <<part, listVars, placementVars>>
  \/ part = "list" /\ ListNext /\ UNCHANGED <<part, navigationVars, placementVars>>
  \/ part = "placement" /\ PlacementNext /\ UNCHANGED <<part, navigationVars, listVars>>

ViewsSpec == ViewsInit /\ [][ViewsNext]_viewsVars

\* Although the payload leaves archived cards out, what the browser makes of it
\* is right: the order it guesses is the one the server arrives at, undo at once
\* puts every card back, and a card renders as blocked exactly if it is
\* (optimisticPatch, undoableInverse, blocked, BrowserBoard).
PayloadSuffices ==
  part = "placement" => BrowserAgrees /\ UndoRestoresPlacement /\ BlockedIsKnown

\* A card lands next to the card it was dropped on, among those shown
\* (cardDropZones, columnDropZones, moveCommand).
DropsLand == part = "placement" => DropsLandWhereShown
=============================================================================
