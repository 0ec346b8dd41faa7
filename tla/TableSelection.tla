--------------------------- MODULE TableSelection ---------------------------
(***************************************************************************)
(* Which row of the TUI's table a key acts on (ui/ui.go, ui/group.go,      *)
(* ui/panefocus.go).  Scan results, sorting, pinning, filtering and        *)
(* grouping rebuild the lines under a numeric cursor while dialogs, menus  *)
(* and the detail pane wait for the user's next key.                       *)
(*                                                                         *)
(* A listener is what selection looks at: its PID, its start time (0 when  *)
(* it is not known), its command and whether that is a full command line,  *)
(* its owner, its port, and whether le offers to stop it.  Scrolling is    *)
(* left out: any line of the list may be clicked.                          *)
(***************************************************************************)
EXTENDS Integers, Sequences, FiniteSets

CONSTANTS
    Scans,     \* sets of listeners that a scan may return
    Fields(_), \* number of actionable fields in the pane of a listener
    Hits(_),   \* whether a listener matches the filter text
    NoRow,
    MaxPins    \* bound: ports pinned at a time

Listeners == UNION Scans
Owners == {r.owner : r \in Listeners}
Ports == {r.port : r \in Listeners}

ASSUME SelectionAssumption ==
    /\ \A S \in Scans : IsFiniteSet(S) /\ \A a, b \in S : a.pid = b.pid => a = b
    /\ \A r \in Listeners : r.pid \in Int /\ Fields(r) \in Nat \ {0}
    /\ NoRow \notin Listeners
    /\ MaxPins \in Nat

VARIABLES
    all, query, asc, favs, grouped, collapsed,   \* what the lines are made of
    items,                                       \* the lines
    cursor, selectionLost,                       \* the selection (1 is the top line)
    paneFocus, paneIdx,                          \* focus in the detail pane
    filtering, confirm, actionMenu, copyMenu,    \* what captures the next key
    confirmed, actionRow, copyRow,               \* the rows pinned for it
    picked      \* observation: the row under the key or click that opened what is open

sourceVars == <<all, query, asc, favs, grouped, collapsed>>
dataVars  == <<sourceVars, items>>
selVars   == <<cursor, selectionLost, paneFocus, paneIdx>>
modalVars == <<filtering, confirm, actionMenu, copyMenu, confirmed, actionRow, copyRow>>
tableVars == <<dataVars, selVars, modalVars, picked>>

-----------------------------------------------------------------------------
(* The lines: applyFilter, sortView, buildItems *)

Matching(rows, q) == IF q = "" THEN rows ELSE {r \in rows : Hits(r)}

\* One column and its direction, pinned ports first.  PIDs are distinct, so
\* the order is total.
Before(a, b, up, pins) ==
    \/ a.port \in pins /\ b.port \notin pins
    \/ (a.port \in pins <=> b.port \in pins) /\ (IF up THEN a.pid < b.pid ELSE b.pid < a.pid)

\* isCollapsed and defaultCollapsed, for the rows that a group holds.
Folded(group, q, pins, fold) ==
    /\ q = ""
    /\ \A r \in group : r.port \notin pins
    /\ fold = "folded" \/ (fold = "unset" /\ Cardinality(group) >= 3
                            /\ \A r \in group : ~r.stoppable)

Header(owner) == [header |-> TRUE, owner |-> owner, row |-> NoRow]
Line(r) == [header |-> FALSE, owner |-> "", row |-> r]
NoLine == [header |-> FALSE, owner |-> "", row |-> NoRow]

GroupOf(rows, owner) == {r \in rows : r.owner = owner}

OwnerOf(line) == IF line.header THEN line.owner ELSE line.row.owner

\* What is shown: every row, or a header for each owner and the rows of those
\* groups that are not folded.
Shown(view, q, pins, group, fold) ==
    {Line(r) : r \in {s \in view :
        ~group \/ ~Folded(GroupOf(view, s.owner), q, pins, fold[s.owner])}}
    \cup {Header(r.owner) : r \in {s \in view : group}}

\* buildItems: groups come in the order in which their owners first appear.
OwnerBefore(o, p, view, up, pins) ==
    \E r \in GroupOf(view, o) : \A s \in GroupOf(view, p) : Before(r, s, up, pins)

LineBefore(a, b, view, up, pins, group) ==
    IF group /\ OwnerOf(a) # OwnerOf(b) THEN OwnerBefore(OwnerOf(a), OwnerOf(b), view, up, pins)
    ELSE ~b.header /\ (a.header \/ Before(a.row, b.row, up, pins))

\* The elements of S in the order in which below[x] are those before x.
InOrder(S, below) ==
    [i \in 1 .. Cardinality(S) |-> CHOOSE x \in S : Cardinality(below[x]) = i - 1]

LinesOf(rows, q, up, pins, group, fold) ==
    LET view  == Matching(rows, q)
        lines == Shown(view, q, pins, group, fold)
    IN  InOrder(lines, [x \in lines |->
                            {y \in lines : LineBefore(y, x, view, up, pins, group)}])

\* selected and selectedGroup: the line that keys act on, if any.
At(lines, c, lost) == IF lost \/ c \notin DOMAIN lines THEN NoLine ELSE lines[c]
Highlight == At(items, cursor, selectionLost)
IsRow(line) == line.row # NoRow

-----------------------------------------------------------------------------
(* The selection: sameProcess, restoreSelection, clamp *)

SameProcess(a, b) ==
    /\ a.pid = b.pid
    /\ IF a.start # 0 \/ b.start # 0 THEN a.start # 0 /\ a.start = b.start
       ELSE a.full /\ b.full /\ a.line = b.line

SameLine(a, b) ==
    IF IsRow(a) THEN IsRow(b) /\ SameProcess(a.row, b.row) ELSE a.header /\ a = b

Max2(a, b) == IF a < b THEN b ELSE a
Min2(a, b) == IF a < b THEN a ELSE b

\* clamp, after the lines, the cursor, the lost mark and the pane focus are set.
Clamp(lines, c, lost, pane) ==
    /\ items' = lines
    /\ cursor' = Max2(1, Min2(c, Len(lines)))
    /\ selectionLost' = lost
    /\ paneFocus' = (pane /\ IsRow(At(lines, c, lost)))

\* restoreSelection(held), then clamp.  A selection that was lost stays lost;
\* one that was empty is left alone; one that is not found again is lost.
Restore(lines, held, wasLost) ==
    LET found == {i \in DOMAIN lines : SameLine(held, lines[i])} IN
    IF wasLost THEN Clamp(lines, cursor, TRUE, FALSE)
    ELSE IF held = NoLine THEN Clamp(lines, cursor, FALSE, paneFocus)
    ELSE IF found # {}
    THEN Clamp(lines, CHOOSE i \in found : \A j \in found : i <= j, FALSE, paneFocus)
    ELSE Clamp(lines, cursor, TRUE, FALSE)

TableTypeOK ==
    /\ all \in Scans \cup {{}} /\ query \in {"", "text"} /\ asc \in BOOLEAN
    /\ favs \subseteq Ports /\ grouped \in BOOLEAN
    /\ collapsed \in [Owners -> {"unset", "open", "folded"}]
    /\ cursor \in 1 .. Max2(1, Len(items)) /\ selectionLost \in BOOLEAN
    /\ paneFocus \in BOOLEAN /\ paneIdx \in Nat
    /\ filtering \in BOOLEAN /\ confirm \in BOOLEAN
    /\ actionMenu \in BOOLEAN /\ copyMenu \in BOOLEAN
    /\ {confirmed, actionRow, copyRow, picked} \subseteq Listeners \cup {NoRow}

TableInit ==
    /\ all = {} /\ query = "" /\ asc = TRUE /\ favs = {} /\ grouped \in BOOLEAN
    /\ items = <<>>
    /\ collapsed = [o \in Owners |-> "unset"]
    /\ cursor = 1 /\ selectionLost = FALSE /\ paneFocus = FALSE /\ paneIdx = 0
    /\ filtering = FALSE /\ confirm = FALSE /\ actionMenu = FALSE /\ copyMenu = FALSE
    /\ confirmed = NoRow /\ actionRow = NoRow /\ copyRow = NoRow
    /\ picked = NoRow

-----------------------------------------------------------------------------
(* Messages and keys.  The dialog, then the menus, then the filter input    *)
(* capture a key before the pane and the table see it.                      *)

Free == ~confirm /\ ~actionMenu /\ ~copyMenu /\ ~filtering

\* A slip: the cursor keeps its line number through a refresh.
SlipKeepLine(S) ==
    /\ all' = S
    /\ Clamp(LinesOf(S, query, asc, favs, grouped, collapsed), cursor, selectionLost, paneFocus)
    /\ UNCHANGED <<query, asc, favs, grouped, collapsed, paneIdx, modalVars, picked>>

\* scannedMsg with rows that are shown; it comes whatever the user is doing.
ShowScan(S) ==
    /\ all' = S
    /\ Restore(LinesOf(S, query, asc, favs, grouped, collapsed), Highlight, selectionLost)
    /\ UNCHANGED <<query, asc, favs, grouped, collapsed, paneIdx, modalVars, picked>>

\* Keys "1" to "7".
Sort ==
    /\ Free
    /\ asc' = ~asc
    /\ Restore(LinesOf(all, query, ~asc, favs, grouped, collapsed), Highlight, selectionLost)
    /\ UNCHANGED <<all, query, favs, grouped, collapsed, paneIdx, modalVars, picked>>

\* Key "z": the lines change, the cursor does not.
ToggleGrouping ==
    /\ Free
    /\ grouped' = ~grouped
    /\ Clamp(LinesOf(all, query, asc, favs, ~grouped, collapsed), cursor, selectionLost, paneFocus)
    /\ UNCHANGED <<all, query, asc, favs, collapsed, paneIdx, modalVars, picked>>

Refold(fold) ==
    /\ collapsed' = fold
    /\ Clamp(LinesOf(all, query, asc, favs, grouped, fold), cursor, selectionLost, paneFocus)
    /\ UNCHANGED <<all, query, asc, favs, grouped, paneIdx, modalVars, picked>>

\* Key "Z": setAllGroups(anyExpanded).
FoldAll ==
    /\ Free /\ grouped
    /\ LET view == Matching(all, query)
           open(o) == ~Folded(GroupOf(view, o), query, favs, collapsed[o])
           fold == IF \E r \in view : open(r.owner) THEN "folded" ELSE "open"
       IN  Refold([o \in Owners |-> IF GroupOf(view, o) # {} THEN fold ELSE "unset"])

\* Enter, the arrows or space on a group header: toggleGroup.
FoldOne ==
    /\ Free /\ Highlight.header
    /\ LET o == Highlight.owner
           closed == Folded(GroupOf(Matching(all, query), o), query, favs, collapsed[o])
       IN  Refold([collapsed EXCEPT ![o] = IF closed THEN "open" ELSE "folded"])

\* Tab or Enter on a row: enterPaneFocus.
EnterPane ==
    /\ Free /\ ~paneFocus /\ IsRow(Highlight)
    /\ paneFocus' = TRUE /\ paneIdx' = 0
    /\ UNCHANGED <<dataVars, cursor, selectionLost, modalVars, picked>>

\* Tab or esc.
LeavePane ==
    /\ Free /\ paneFocus
    /\ paneFocus' = FALSE
    /\ UNCHANGED <<dataVars, cursor, selectionLost, paneIdx, modalVars, picked>>

\* movePaneCursor: steps through the fields and wraps.
MovePane(d) ==
    /\ Free /\ paneFocus /\ IsRow(Highlight)
    /\ paneIdx' = (paneIdx + d) % Fields(Highlight.row)
    /\ UNCHANGED <<dataVars, cursor, selectionLost, paneFocus, modalVars, picked>>

\* runPaneField on the last field, the stop line.  The others open or reveal.
RunStopField ==
    /\ Free /\ paneFocus /\ IsRow(Highlight)
    /\ paneIdx = Fields(Highlight.row) - 1
    /\ Highlight.row.stoppable
    /\ confirm' = TRUE /\ confirmed' = Highlight.row
    /\ picked' = Highlight.row
    /\ UNCHANGED <<dataVars, selVars, filtering, actionMenu, copyMenu, actionRow, copyRow>>

\* move(d) by a key, which also forgets the field, or by the wheel, which
\* works in every mode and does not.  A step past either end leaves the pane.
Step(d) ==
    /\ Len(items) > 0
    /\ Clamp(items, cursor + d, FALSE, paneFocus)

MoveKey(d) ==
    /\ Free /\ ~paneFocus
    /\ IF Len(items) > 0 THEN Step(d) ELSE UNCHANGED <<items, cursor, selectionLost, paneFocus>>
    /\ paneIdx' = 0
    /\ UNCHANGED <<sourceVars, modalVars, picked>>

Wheel(d) ==
    /\ Step(d)
    /\ UNCHANGED <<sourceVars, paneIdx, modalVars, picked>>

\* Keys "g" and "G".
Home ==
    /\ Free
    /\ Clamp(items, 1, FALSE, paneFocus) /\ paneIdx' = 0
    /\ UNCHANGED <<sourceVars, modalVars, picked>>

End ==
    /\ Free
    /\ Clamp(items, Len(items), FALSE, paneFocus) /\ paneIdx' = 0
    /\ UNCHANGED <<sourceVars, modalVars, picked>>

-----------------------------------------------------------------------------
\* The filter input.
StartFilter ==
    /\ Free
    /\ filtering' = TRUE
    /\ UNCHANGED <<dataVars, selVars, confirm, actionMenu, copyMenu,
                   confirmed, actionRow, copyRow, picked>>

SetQuery(q) ==
    /\ query' = q
    /\ Clamp(LinesOf(all, q, asc, favs, grouped, collapsed), cursor, selectionLost, paneFocus)
    /\ UNCHANGED <<all, asc, favs, grouped, collapsed, paneIdx, picked>>

EditFilter(q) ==
    /\ filtering
    /\ SetQuery(q)
    /\ UNCHANGED modalVars

LeaveFilter(clear) ==
    /\ filtering /\ filtering' = FALSE
    /\ IF clear THEN SetQuery("") ELSE UNCHANGED <<dataVars, selVars, picked>>
    /\ UNCHANGED <<confirm, actionMenu, copyMenu, confirmed, actionRow, copyRow>>

\* togglePin(r): the cursor goes to the row that was toggled.
\* Bound: MaxPins ports.
TogglePin(r) ==
    /\ LET pins == IF r.port \in favs THEN favs \ {r.port} ELSE favs \cup {r.port} IN
         /\ Cardinality(pins) <= MaxPins
         /\ favs' = pins
         /\ Restore(LinesOf(all, query, asc, pins, grouped, collapsed), Line(r), FALSE)
    /\ UNCHANGED <<all, query, asc, grouped, collapsed, paneIdx>>

PinKey ==
    /\ Free /\ IsRow(Highlight)
    /\ TogglePin(Highlight.row)
    /\ UNCHANGED <<modalVars, picked>>

\* requestStop(r), from the table or from the menu: the dialog pins the row, or
\* the stop is refused.  A pinned row is only read while its dialog, menu or
\* picker is open; when that closes the row is forgotten here.
RequestStop(r) ==
    IF r.stoppable THEN confirm' = TRUE /\ confirmed' = r
    ELSE UNCHANGED <<confirm, confirmed>>

StopKey ==
    /\ Free /\ IsRow(Highlight)
    /\ RequestStop(Highlight.row)
    /\ picked' = IF confirm' THEN Highlight.row ELSE NoRow
    /\ UNCHANGED <<dataVars, selVars, filtering, actionMenu, copyMenu, actionRow, copyRow>>

\* Yes runs kill.Stop on the pinned row, no does nothing.
Answer ==
    /\ confirm
    /\ confirm' = FALSE /\ confirmed' = NoRow /\ picked' = NoRow
    /\ UNCHANGED <<dataVars, selVars, filtering, actionMenu, copyMenu, actionRow, copyRow>>

CopyKey ==
    /\ Free /\ IsRow(Highlight)
    /\ copyMenu' = TRUE /\ copyRow' = Highlight.row /\ picked' = Highlight.row
    /\ UNCHANGED <<dataVars, selVars, filtering, confirm, actionMenu, confirmed, actionRow>>

\* Every entry of the copy picker, and esc, close it.
CopyDone ==
    /\ copyMenu /\ ~confirm /\ ~actionMenu
    /\ copyMenu' = FALSE /\ copyRow' = NoRow /\ picked' = NoRow
    /\ UNCHANGED <<dataVars, selVars, filtering, confirm, actionMenu, confirmed, actionRow>>

-----------------------------------------------------------------------------
\* The action menu, opened by a right click on a row.
InMenu == actionMenu /\ ~confirm
CloseMenu == actionMenu' = FALSE /\ actionRow' = NoRow

\* A slip: the menu stops the row under the cursor.
SlipStopSelected ==
    /\ InMenu /\ CloseMenu /\ IsRow(Highlight)
    /\ RequestStop(Highlight.row)
    /\ picked' = IF confirm' THEN picked ELSE NoRow
    /\ UNCHANGED <<dataVars, selVars, filtering, copyMenu, copyRow>>

MenuStop ==
    /\ InMenu /\ CloseMenu
    /\ RequestStop(actionRow)
    /\ picked' = IF confirm' THEN picked ELSE NoRow
    /\ UNCHANGED <<dataVars, selVars, filtering, copyMenu, copyRow>>

MenuCopy ==
    /\ InMenu /\ CloseMenu
    /\ copyMenu' = TRUE /\ copyRow' = actionRow
    /\ UNCHANGED <<dataVars, selVars, filtering, confirm, confirmed, picked>>

MenuPin ==
    /\ InMenu /\ CloseMenu
    /\ TogglePin(actionRow)
    /\ picked' = NoRow
    /\ UNCHANGED <<filtering, confirm, copyMenu, confirmed, copyRow>>

\* Open, reveal, terminal or esc.
MenuDone ==
    /\ InMenu /\ CloseMenu
    /\ picked' = NoRow
    /\ UNCHANGED <<dataVars, selVars, filtering, confirm, copyMenu, confirmed, copyRow>>

\* A click on line i, or outside of the list for i = 0, puts the cursor there.
Point(i) ==
    IF i = 0 THEN UNCHANGED <<items, cursor, selectionLost, paneFocus>>
    ELSE Clamp(items, i, FALSE, paneFocus)

LeftClick(i) ==
    /\ ~filtering /\ ~confirm
    /\ Point(i)
    /\ CloseMenu
    /\ picked' = IF copyMenu THEN picked ELSE NoRow
    /\ UNCHANGED <<sourceVars, paneIdx, filtering, confirm, copyMenu, confirmed, copyRow>>

\* A slip: the copy picker does not keep the menu away.
SlipMenuOverPicker(i) ==
    /\ ~filtering /\ ~confirm
    /\ Point(i)
    /\ IF i # 0 /\ IsRow(items[i])
       THEN actionMenu' = TRUE /\ actionRow' = items[i].row /\ picked' = items[i].row
       ELSE CloseMenu /\ picked' = NoRow
    /\ UNCHANGED <<sourceVars, paneIdx, filtering, confirm, copyMenu, confirmed, copyRow>>

RightClick(i) ==
    /\ ~filtering /\ ~confirm /\ ~copyMenu
    /\ Point(i)
    /\ IF i # 0 /\ IsRow(items[i])
       THEN actionMenu' = TRUE /\ actionRow' = items[i].row /\ picked' = items[i].row
       ELSE CloseMenu /\ picked' = NoRow
    /\ UNCHANGED <<sourceVars, paneIdx, filtering, confirm, copyMenu, confirmed, copyRow>>

TableNext ==
    \/ \E S \in Scans : ShowScan(S)
    \/ Sort \/ ToggleGrouping \/ FoldAll \/ FoldOne
    \/ EnterPane \/ LeavePane \/ RunStopField
    \/ \E d \in {-1, 1} : MovePane(d) \/ MoveKey(d) \/ Wheel(d)
    \/ Home \/ End
    \/ StartFilter
    \/ \E q \in {"", "text"} : EditFilter(q)
    \/ \E clear \in BOOLEAN : LeaveFilter(clear)
    \/ PinKey \/ StopKey \/ Answer \/ CopyKey \/ CopyDone
    \/ MenuStop \/ MenuCopy \/ MenuPin \/ MenuDone
    \/ \E i \in 0 .. Len(items) : LeftClick(i) \/ RightClick(i)

TableSpec == TableInit /\ [][TableNext]_tableVars

-----------------------------------------------------------------------------
(* What holds *)

\* README.md, "selection follows the PID and start time through refresh and
\* sorting": whatever a scan brings and however the table is sorted, the
\* highlight stays on the same process or group, or is gone; and once it is
\* gone no scan or sort brings it back on its own.
SelectionNeverJumps ==
    [][all' # all \/ asc' # asc =>
         /\ Highlight # NoLine => Highlight' = NoLine \/ SameLine(Highlight, Highlight')
         /\ selectionLost => Highlight' = NoLine]_tableVars

\* LE-406: the row that the dialog, the menu or the picker acts on is the one
\* that the user had under the key or the pointer that opened it, also when
\* scans, clicks, the wheel and other menus come in between.
PinnedRowIsPicked ==
    /\ confirm => confirmed = picked
    /\ actionMenu => actionRow = picked
    /\ copyMenu => copyRow = picked
    /\ confirm \/ actionMenu \/ copyMenu => picked # NoRow

\* The next key has one owner: no two of the dialog, the menus and the filter
\* input are open together, and the pane has the focus only while a row is
\* highlighted, so its keys never act on a header or on a row not in view.
KeysHaveOneOwner ==
    /\ LET open == <<confirm, actionMenu, copyMenu, filtering>> IN
       \A i, j \in 1 .. 4 : open[i] /\ open[j] => i = j
    /\ paneFocus => IsRow(Highlight)

\* ui/group.go: a row that folding hides is no search hit, is not pinned, and
\* is one that le would not stop, unless its group was folded by hand.
FoldingHidesOnlyIdleRows ==
    \A r \in Matching(all, query) :
        \/ \E i \in DOMAIN items : items[i].row = r
        \/ query = "" /\ r.port \notin favs
           /\ (r.stoppable => collapsed[r.owner] = "folded")

\* The lines are those of the data, the filter, the order, the pins and the
\* folds of this moment: no key changes one of them and leaves old lines behind.
LinesAreCurrent == items = LinesOf(all, query, asc, favs, grouped, collapsed)

\* What no sequence of keys, clicks and scans comes to.
TableInv == TableTypeOK /\ LinesAreCurrent /\ KeysHaveOneOwner /\ FoldingHidesOnlyIdleRows

-----------------------------------------------------------------------------
(* What the changelog says and the code does not do *)

\* CHANGELOG.md, "selection follows PID and start time through refreshes,
\* sorting, and grouping": the key "z" keeps the cursor's line number instead.
SelectionSurvivesGrouping ==
    [][grouped' # grouped /\ IsRow(Highlight) =>
         Highlight' = NoLine \/ SameLine(Highlight, Highlight')]_tableVars

=============================================================================
