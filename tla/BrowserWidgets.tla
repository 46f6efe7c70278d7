--------------------------- MODULE BrowserWidgets ---------------------------
(***************************************************************************)
(* The timer-driven widgets of the browser: a filter box whose keystrokes  *)
(* reach the store once the Debouncer's delay passes, and the loading      *)
(* indicator of one operation (DebouncedProgress) with its three kinds of  *)
(* sink: a suffix on a tree node's label, a status line that others write  *)
(* too, and a trailing row of a table that a render clears; and the        *)
(* reconciliation of a tree level with the rows wanted.                    *)
(***************************************************************************)
EXTENDS Integers, Sequences, SequencesExt

CONSTANTS
    Texts,      \* what may be typed; "" is the empty filter
    MaxTicks    \* bound: frames shown, and filter sessions

VARIABLES
    session,    \* filter sessions opened; the open one's number, or 0 when closed
    typed,      \* FilterFieldController.pending_text and the session it was typed in
    armed,      \* the session whose Debouncer timer is running, or 0
    filterText, \* model.filter: the text in force and the session it was typed in
    sessions,   \* sessions opened so far
    op,         \* the timed operation: waiting, animating, done
    ticks,      \* frames shown
    label,      \* the tree node's label carries the suffix
    status,     \* the status line: base, loading, result (written by the operation's outcome)
    lastShown,  \* _ConditionalResetSink._last_shown is the line as show() left it
    row, rowKey, \* the loading row is in the table; the sink's _row_key
    current     \* is_current(): the fetch's folder is still selected

widgetVars == <<session, typed, armed, filterText, sessions, op, ticks, label, status, lastShown, row, rowKey,
                current>>
filterVars == <<session, typed, armed, filterText, sessions>>
progressVars == <<op, ticks, label, status, lastShown, row, rowKey, current>>

NoText == [text |-> "", at |-> 0]

WidgetInit ==
    /\ session = 0 /\ typed = NoText /\ armed = 0 /\ filterText = NoText /\ sessions = 0
    /\ op = "waiting" /\ ticks = 0 /\ label = FALSE /\ status = "base" /\ lastShown = FALSE
    /\ row = FALSE /\ rowKey = FALSE /\ current = TRUE

----------------------------------------------------------------------------
\* *FilterOpened, then FilterFieldController.open with a fresh Debouncer.
FilterOpens ==
    /\ session = 0 /\ sessions < MaxTicks
    /\ sessions' = sessions + 1 /\ session' = sessions + 1
    /\ typed' = [text |-> "", at |-> sessions + 1]
    /\ filterText' = [text |-> "", at |-> sessions + 1]
    /\ UNCHANGED <<armed, progressVars>>

\* on_text_changed: each keystroke restarts the delay.
FilterTyped(t) ==
    /\ session # 0
    /\ typed' = [text |-> t, at |-> session]
    /\ armed' = session
    /\ UNCHANGED <<session, filterText, sessions, progressVars>>

\* The delay passes: filter_text_changed keeps a model whose filter is closed.
FilterFires ==
    /\ armed # 0
    /\ armed' = 0
    /\ filterText' = IF session = 0 THEN filterText ELSE typed
    /\ UNCHANGED <<session, typed, sessions, progressVars>>

\* close: cancels the pending fire, then *FilterClosed.
FilterCloses ==
    /\ session # 0
    /\ armed' = 0
    /\ session' = 0 /\ filterText' = NoText
    /\ UNCHANGED <<typed, sessions, progressVars>>

----------------------------------------------------------------------------
\* _tick: every sink's show().  The row sink adds nothing once the selection moved on, and adds
\* its row again when a render removed it.
Tick ==
    /\ op \in {"waiting", "animating"} /\ ticks < MaxTicks
    /\ op' = "animating" /\ ticks' = ticks + 1
    /\ label' = TRUE
    /\ status' = "loading" /\ lastShown' = TRUE
    /\ row' = current /\ rowKey' = current
    /\ UNCHANGED <<current, filterVars>>

\* A render clears the table, the label is set anew, or the outcome writes the status line.
TableRendered ==
    /\ row' = FALSE
    /\ UNCHANGED <<op, ticks, label, status, lastShown, rowKey, current, filterVars>>
SelectionMoves ==
    /\ current' = ~current /\ row' = FALSE
    /\ UNCHANGED <<op, ticks, label, status, lastShown, rowKey, filterVars>>
Relabelled ==
    /\ label' = FALSE
    /\ UNCHANGED <<op, ticks, status, lastShown, row, rowKey, current, filterVars>>
ResultWritten ==
    /\ status' = "result" /\ lastShown' = FALSE
    /\ UNCHANGED <<op, ticks, label, row, rowKey, current, filterVars>>

\* A plausible bug.
HiddenStatusAlways == "base"

\* _ConditionalResetSink.hide: reset only what show() wrote.
HiddenStatus == IF lastShown THEN "base" ELSE status

\* stop(): the timers end; hide() only if a frame was ever shown.
OperationEnds ==
    /\ op \in {"waiting", "animating"}
    /\ op' = "done"
    /\ IF op = "animating"
       THEN /\ label' = FALSE
            /\ status' = HiddenStatus
            /\ row' = (row /\ ~rowKey) /\ rowKey' = FALSE
       ELSE UNCHANGED <<label, status, row, rowKey>>
    /\ lastShown' = FALSE
    /\ UNCHANGED <<ticks, current, filterVars>>

WidgetNext ==
    \/ FilterOpens \/ (\E t \in Texts : FilterTyped(t)) \/ FilterFires \/ FilterCloses
    \/ Tick \/ TableRendered \/ SelectionMoves \/ Relabelled \/ ResultWritten \/ OperationEnds

----------------------------------------------------------------------------
\* The filter in force was typed into the box that is open: a keystroke of a closed session never
\* narrows a later one, and when no delay is running the box and the store agree.
FilterIsTyped ==
    /\ filterText.at = session
    /\ session # 0 /\ armed = 0 => filterText.text = typed.text

\* When the operation ends no spinner is left, and its outcome is never erased by hiding it.
SpinnerLeavesNothing == op = "done" => ~label /\ ~row /\ status # "loading"
ResultStays == [][status = "result" /\ op' = "done" /\ op # "done" => status' = "result"]_widgetVars

-----------------------------------------------------------------------------
(* view/reconcile.py on one level of a tree: the children it shows are     *)
(* brought to the wanted keys by removing and inserting, and the cursor    *)
(* follows its key or falls back to a surviving sibling.  A child is its   *)
(* key; children without a Binding are Foreign and stay.                   *)
Foreign == 0

Keys(children) == SelectSeq(children, LAMBDA k : k # Foreign)
Removed(children, wanted) == SelectSeq(Keys(children), LAMBDA k : ~Contains(wanted, k))

\* More than half of the children would go, and none is foreign: re-create them all.
Rebuilds(children, wanted) ==
    Len(Keys(children)) = Len(children) /\ 2 * Len(Removed(children, wanted)) > Len(children)

\* Survivors keep their place; a new key is inserted at its index among the children.
Place(children, wanted, i) ==
    IF Contains(children, wanted[i]) THEN children
    ELSE InsertAt(children, IF i > Len(children) + 1 THEN Len(children) + 1 ELSE i, wanted[i])

ReconcileChildren(children, wanted) ==
    IF Rebuilds(children, wanted) THEN wanted
    ELSE FoldLeft(LAMBDA acc, i : Place(acc, wanted, i),
                  SelectSeq(children, LAMBDA k : k = Foreign \/ Contains(wanted, k)),
                  [i \in 1..Len(wanted) |-> i])

NoKey == -1
FirstIn(s, set) == IF \E i \in DOMAIN s : s[i] \in set
                   THEN s[CHOOSE i \in DOMAIN s : s[i] \in set /\ \A j \in 1..(i - 1) : s[j] \notin set]
                   ELSE NoKey

\* The key itself, else the nearest surviving sibling after it, else before it.
NextCursorKey(key, before, after) ==
    IF Contains(after, key) THEN key
    ELSE IF ~Contains(before, key) THEN NoKey
    ELSE LET at == CHOOSE i \in DOMAIN before : before[i] = key
             ahead == FirstIn(SubSeq(before, at + 1, Len(before)), Range(after))
         IN IF ahead # NoKey THEN ahead ELSE FirstIn(Reverse(SubSeq(before, 1, at - 1)), Range(after))

----------------------------------------------------------------------------
\* What a screen's selection relies on.  Survivors come in the same order in both lists.
SameOrder(children, wanted) ==
    SelectSeq(Keys(children), LAMBDA k : Contains(wanted, k)) = SelectSeq(wanted, LAMBDA k : Contains(children, k))

\* The level shows exactly the wanted keys in their order, and the cursor is left on a wanted key
\* as near as any to where it was, or on none when no sibling survived.
ReconciledRight(children, wanted, key) ==
    LET after == ReconcileChildren(children, wanted)
        before == Keys(children)
        next == NextCursorKey(key, before, Keys(after))
        At(k) == CHOOSE i \in DOMAIN before : before[i] = k
        Distance(k) == IF At(k) >= At(key) THEN At(k) - At(key) ELSE Len(before) + At(key) - At(k)
    IN /\ SameOrder(children, wanted) => Keys(after) = wanted
       /\ next = NoKey <=> Range(before) \intersect Range(wanted) = {}
       /\ next # NoKey =>
            \A k \in Range(before) \intersect Range(wanted) : Distance(next) <= Distance(k)
=============================================================================
