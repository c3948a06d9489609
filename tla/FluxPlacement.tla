---------------------------- MODULE FluxPlacement ----------------------------
(***************************************************************************)
(* Where a card goes: the browser makes a command of a drop or a menu      *)
(* entry from the cards it shows, guesses the board that will come of it   *)
(* and its inverse, and the server applies the command to all cards        *)
(* (view-board.js, card-menu.js, drag.js, commands.js; model.go and        *)
(* archive.go for the server).                                             *)
(*                                                                         *)
(* The browser holds the board of its revision, or the command is refused  *)
(* and the guess rolled back: that is FluxClient's.  Here both sides start *)
(* from the same revision, and every command is accepted or does nothing.  *)
(***************************************************************************)
EXTENDS FluxSequences

CONSTANTS
  Cards, Columns,
  Limits,        \* the WIP limit of each column; 0 is none
  DoneColumns,   \* the columns of the category done
  Dependencies,  \* the cards each card depends on
  Scoped,        \* the cards in the scope of a closed sprint
  End            \* the place after the last

ASSUME PlacementAssumption ==
  /\ IsFiniteSet(Cards) /\ IsFiniteSet(Columns)
  /\ Limits \in [Columns -> Nat] /\ Dependencies \in [Cards -> SUBSET Cards]
  /\ DoneColumns \subseteq Columns /\ Scoped \subseteq Cards /\ End \notin Cards \cup Columns

VARIABLES
  server,  \* the cards in order, their columns, the archived ones, the columns' order
  hidden,  \* the cards the filters of the browser leave out
  closed   \* whether it shows the scope of a closed sprint

placementVars == <<server, hidden, closed>>

Orders(S) == {o \in [1 .. Cardinality(S) -> S] : IsInjective(o)}
Position(seq, x) == CHOOSE i \in DOMAIN seq : seq[i] = x

-----------------------------------------------------------------------------
(* The server.                                                             *)

Live(s) == Cards \ s.archived
Load(s, column) == Cardinality({c \in Live(s) : s.column[c] = column})
WithinLimits(s) == \A column \in Columns : Limits[column] > 0 => Load(s, column) <= Limits[column]

\* A bug: the place is looked up before the card is taken out.
ReorderedByOldPlace(seq, x, before) ==
  LET rest == Only(seq, ToSet(seq) \ {x})
  IN  IF before = End THEN Append(rest, x) ELSE InsertAt(rest, Position(seq, before), x)
Reordered(seq, x, before) ==
  LET rest == Only(seq, ToSet(seq) \ {x})
  IN  IF before = End THEN Append(rest, x) ELSE InsertAt(rest, Position(rest, before), x)

\* What apply makes of a command, before Validate.
AppliedTo(s, command) ==
  CASE command.kind = "item.move" ->
         [s EXCEPT !.column[command.target] = command.destination,
                   !.items = Reordered(@, command.target, command.before)]
    [] command.kind = "item.archive" -> [s EXCEPT !.archived = @ \cup {command.target}]
    [] command.kind = "item.restore" -> [s EXCEPT !.archived = @ \ {command.target}]
    [] command.kind = "column.rank" ->
         [s EXCEPT !.columns = Reordered(@, command.target, command.before)]

Accepts(s, command) ==
  /\ command.kind = "item.move" => command.target \notin s.archived
  /\ command.target # command.before
  /\ WithinLimits(AppliedTo(s, command))

\* BrowserBoard: what is archived is left out unless a closed sprint lists it
\* or a card of the payload depends on it.
Retained(s) ==
  {c \in Cards :
     \A kept \in SUBSET Cards :
       Live(s) \cup Scoped \subseteq kept /\ (\A k \in kept : Dependencies[k] \subseteq kept)
         => c \in kept}
Payload(s) == LET kept == Retained(s) IN Only(s.items, kept)

-----------------------------------------------------------------------------
(* The browser.                                                            *)

\* filteredItems: the scope of a closed sprint has its archived cards.
InView(s) == (IF closed THEN Scoped ELSE Live(s)) \ hidden
Peers(s, column) == Only(Payload(s), {c \in InView(s) : s.column[c] = column})

Move(c, column, before) ==
  [kind |-> "item.move", target |-> c, destination |-> column, before |-> before]
Archiving(c) == [kind |-> "item.archive", target |-> c, before |-> End]
Restoring(c) == [kind |-> "item.restore", target |-> c, before |-> End]
RankColumn(column, before) == [kind |-> "column.rank", target |-> column, before |-> before]

\* The element after x, or none.
After(seq, x) == IF Position(seq, x) < Len(seq) THEN seq[Position(seq, x) + 1] ELSE End

\* cardDropZones.
CardDrop(s, dragged, card, after) ==
  Move(dragged, s.column[card],
       IF after THEN After(Peers(s, s.column[card]), card) ELSE card)

\* columnDropZones.
ColumnDrop(s, dragged, column, after) ==
  RankColumn(dragged, IF after THEN After(s.columns, column) ELSE column)

\* moveColumnLeft, of a list that is not the first.
LeftMove(s, column) == RankColumn(column, s.columns[Position(s.columns, column) - 1])

\* moveCommand.
MenuMove(s, c, column, end) ==
  LET peers == Only(Peers(s, column), Cards \ {c})
  IN  Move(c, column, IF end = "top" /\ peers # <<>> THEN Head(peers) ELSE End)

\* selectMoveTargets, from the cards of the payload.
Full(s, column) ==
  /\ Limits[column] > 0
  /\ Len(Only(Payload(s), {c \in Live(s) : s.column[c] = column})) >= Limits[column]

\* optimisticPatch: the order of the payload it guesses.
Guess(s, command) ==
  IF command.kind = "item.archive" THEN Only(Payload(s), Cards \ {command.target})
  ELSE Reordered(Payload(s), command.target, command.before)
\* It guesses nothing for a restored card, and gives up on an unknown anchor.
Guesses(s, command) ==
  /\ command.kind \in {"item.move", "item.archive"}
  /\ command.before \in ToSet(Payload(s)) \cup {End}

\* A bug: the anchor is the card the moved one came after.
InverseByPrevious(s, command) ==
  LET at == Position(Payload(s), command.target) IN
  IF command.kind = "item.archive" THEN Restoring(command.target)
  ELSE IF command.kind = "item.restore" THEN Archiving(command.target)
  ELSE Move(command.target, s.column[command.target], IF at = 1 THEN End ELSE Payload(s)[at - 1])

\* undoableInverse, read before the command is sent.
UndoableInverse(s, command) ==
  CASE command.kind = "item.archive" -> Restoring(command.target)
    [] command.kind = "item.restore" -> Archiving(command.target)
    [] command.kind = "item.move" ->
         Move(command.target, s.column[command.target], After(Payload(s), command.target))

\* blocked: dependencies that are not in the payload are passed over.
Blocked(s, c) ==
  \E d \in Dependencies[c] \cap Retained(s) : s.column[d] \notin DoneColumns

-----------------------------------------------------------------------------
(* Actions.                                                                *)

PlacementInit ==
  /\ server \in [items : Orders(Cards), column : [Cards -> Columns],
                 archived : SUBSET Cards, columns : Orders(Columns)]
  /\ WithinLimits(server)
  /\ hidden = {} /\ closed = FALSE

\* quick, accepted.
Sent(command) ==
  /\ Accepts(server, command)
  /\ server' = AppliedTo(server, command) /\ UNCHANGED <<hidden, closed>>

\* An archived card is shown, but it is not moved, and nothing is dropped on it.
ShownCards == UNION {ToSet(Peers(server, column)) : column \in Columns}
LiveShown == ShownCards \ server.archived

DropOnCard(dragged, card, after) ==
  /\ {dragged, card} \subseteq LiveShown
  /\ Sent(CardDrop(server, dragged, card, after))

DropOnColumn(dragged, column) ==
  /\ dragged \in LiveShown
  /\ Sent(Move(dragged, column, End))

DropList(dragged, column, after) == Sent(ColumnDrop(server, dragged, column, after))

MoveByMenu(c, column, end) ==
  /\ c \in LiveShown /\ column # server.column[c] /\ ~Full(server, column)
  /\ Sent(MenuMove(server, c, column, end))

\* BoardSetupDialog.
MoveListLeft(column) ==
  /\ Position(server.columns, column) > 1
  /\ Sent(LeftMove(server, column))

ArchiveCard(c) == c \in LiveShown /\ Sent(Archiving(c))
RestoreCard(c) == c \in server.archived /\ Sent(Restoring(c))

\* An offer to undo outlives other changes, so it can be any move back.
RunUndo(c, column, before) ==
  /\ c \in ToSet(Payload(server)) /\ Sent(Move(c, column, before))

FilterCards(cards) == cards # hidden /\ hidden' = cards /\ UNCHANGED <<server, closed>>
ChooseScope == closed' = ~closed /\ UNCHANGED <<server, hidden>>

PlacementNext ==
  \/ \E c \in Cards, d \in Cards, after \in BOOLEAN : DropOnCard(c, d, after)
  \/ \E c \in Cards, column \in Columns :
       \/ DropOnColumn(c, column)
       \/ \E end \in {"top", "bottom"} : MoveByMenu(c, column, end)
       \/ \E before \in Cards \cup {End} : RunUndo(c, column, before)
  \/ \E c \in Columns, d \in Columns, after \in BOOLEAN : DropList(c, d, after)
  \/ \E c \in Columns : MoveListLeft(c)
  \/ \E c \in Cards : ArchiveCard(c) \/ RestoreCard(c)
  \/ ChooseScope \/ \E cards \in SUBSET Cards : FilterCards(cards)

-----------------------------------------------------------------------------
(* Properties.                                                             *)

\* What the browser can send from here.
Offered ==
  {CardDrop(server, c, d, after) : c \in LiveShown, d \in LiveShown, after \in BOOLEAN}
    \cup {MenuMove(server, c, column, end) :
            c \in LiveShown, column \in Columns, end \in {"top", "bottom"}}
    \cup {Archiving(c) : c \in LiveShown} \cup {Restoring(c) : c \in server.archived}

Ordered(seq, s) == Only(seq, Live(s))

\* The order guessed is the one the server arrives at, for every card of the
\* payload, with the archived cards it does not know between them
\* (optimisticPatch: `reordered locally before the write is acknowledged').
BrowserAgrees ==
  \A command \in Offered :
    Accepts(server, command) /\ Guesses(server, command) =>
      LET next == AppliedTo(server, command)
      IN  Ordered(Guess(server, command), next) = Ordered(Payload(next), next)

\* Undo at once is accepted, whatever the limits, and puts every card of the
\* payload back in its place (undoableInverse).
UndoRestoresPlacement ==
  \A command \in Offered :
    Accepts(server, command) =>
      LET next == AppliedTo(server, command)
          undo == UndoableInverse(server, command)
          back == AppliedTo(next, undo)
      IN  /\ Accepts(next, undo)
          /\ Payload(back) = Payload(server)
          /\ \A c \in Live(server) : back.column[c] = server.column[c]

\* A card renders as blocked exactly if one of all the cards, in the payload
\* or not, blocks it: the payload keeps what live cards depend on (blocked,
\* BrowserBoard).
Blocking(s, c) == {d \in Dependencies[c] : s.column[d] \notin DoneColumns}
BlockedIsKnown ==
  \A c \in Live(server) : Blocked(server, c) <=> Blocking(server, c) # {}

\* A card dropped lands next to the card it was dropped on, on the side of the
\* drop and among the cards shown, those a closed sprint keeps of the archive
\* included; on a column it lands last; by the menu it
\* lands at the end it names; a list lands next to the list (cardDropZones,
\* columnDropZones, moveCommand: `as dropping on the upper half of that card
\* would').
NextTo(seq, x, y, after) ==
  Position(seq, x) = IF after THEN Position(seq, y) + 1 ELSE Position(seq, y) - 1
Lands(command, column, Where(_)) ==
  Accepts(server, command) => Where(Peers(AppliedTo(server, command), column))
DropsLandWhereShown ==
  /\ \A c \in LiveShown : \A d \in LiveShown \ {c}, after \in BOOLEAN :
       Lands(CardDrop(server, c, d, after), server.column[d], LAMBDA seq : NextTo(seq, c, d, after))
  /\ \A c \in LiveShown, column \in Columns :
       /\ Lands(Move(c, column, End), column, LAMBDA seq : Last(seq) = c)
       /\ Lands(MenuMove(server, c, column, "top"), column, LAMBDA seq : Head(seq) = c)
       /\ Lands(MenuMove(server, c, column, "bottom"), column, LAMBDA seq : Last(seq) = c)
  /\ \A c \in Columns : \A d \in Columns \ {c}, after \in BOOLEAN :
       LET command == ColumnDrop(server, c, d, after)
       IN  Accepts(server, command) => NextTo(AppliedTo(server, command).columns, c, d, after)
=============================================================================
