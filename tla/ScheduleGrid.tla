---------------------------- MODULE ScheduleGrid ----------------------------
(***************************************************************************)
(* The weekly grid of the alarm, face and record plan pages: a press on a   *)
(* cell turns it over, and every cell the pointer enters before the release *)
(* takes the value the first one got.  The page may disable the grid or     *)
(* replace its value (the answer to a save) at any moment.                  *)
(* The browser is part of the model: a pointer captured by the pressed cell *)
(* enters no other element and does not leave the grid; where capture is    *)
(* missing (the code's `?.') it does both.                                  *)
(***************************************************************************)
EXTENDS Naturals

CONSTANTS
    Days, Hours,   \* 7 and 24 in the program
    Workdays,      \* Monday to Friday
    Daytime        \* the hours from 8 up to 20

VARIABLES
    modelValue,  \* the grid's string: a character for each cell
    disabled,
    painting,    \* the character the stroke paints, or "null"
    pointer,     \* the cell under the held pointer, "outside", or "up"
    captures,    \* the browser has pointer capture
    stroke       \* history: the grid at the press, and the cells entered since

gridVars == <<modelValue, disabled, painting, pointer, captures, stroke>>

Cells == Days \X Hours
Full(ch) == [c \in Cells |-> ch]
Grids == [Cells -> {"0", "1"}]

\* A value with a character that is neither 0 nor 1 counts as all hours
ensureGrid(raw) == IF raw \in Grids THEN raw ELSE Full("1")
cells == ensureGrid(modelValue)

Flip(ch) == IF ch = "1" THEN "0" ELSE "1"

Init ==
    /\ modelValue \in {Full("0"), Full("1"), Full("?")}
    /\ disabled \in BOOLEAN /\ captures \in BOOLEAN
    /\ painting = "null" /\ pointer = <<"up">>
    /\ stroke = [at |-> cells, over |-> {}]

-----------------------------------------------------------------------------
setCell(c, ch) == modelValue' = [cells EXCEPT ![c] = ch]

onDown(c) ==
    /\ pointer = <<"up">> /\ pointer' = c
    /\ IF disabled THEN UNCHANGED <<modelValue, painting, stroke>>
       ELSE /\ painting' = Flip(cells[c])
            /\ setCell(c, painting')
            /\ stroke' = [at |-> cells, over |-> {c}]
    /\ UNCHANGED <<disabled, captures>>

\* The held pointer moves to another cell
onEnter(c) ==
    /\ pointer \notin {<<"up">>, c} /\ pointer' = c
    /\ IF painting = "null" \/ disabled \/ captures
       THEN UNCHANGED <<modelValue, stroke>>
       ELSE setCell(c, painting) /\ stroke' = [stroke EXCEPT !.over = @ \cup {c}]
    /\ UNCHANGED <<disabled, painting, captures>>

\* The held pointer leaves the grid, which hears of it unless it is captured
\* (with a defect: it does not)
LeaveUnheard ==
    /\ pointer \in Cells /\ pointer' = <<"outside">>
    /\ UNCHANGED <<modelValue, disabled, painting, captures, stroke>>

Leave ==
    /\ pointer \in Cells /\ pointer' = <<"outside">>
    /\ painting' = IF captures THEN painting ELSE "null"
    /\ UNCHANGED <<modelValue, disabled, captures, stroke>>

\* The release reaches the grid from inside, and from outside when captured
onUp ==
    /\ pointer # <<"up">> /\ pointer' = <<"up">>
    /\ painting' = IF captures \/ pointer \in Cells THEN "null" ELSE painting
    /\ UNCHANGED <<modelValue, disabled, captures, stroke>>

\* The buttons above the grid
Fill(grid) ==
    /\ pointer = <<"up">> /\ ~disabled
    /\ modelValue' = grid
    /\ UNCHANGED <<disabled, painting, pointer, captures, stroke>>

fillAll(ch) == Fill(Full(ch))

fillWorkdayDaytime ==
    Fill([c \in Cells |-> IF c \in Workdays \X Daytime THEN "1" ELSE "0"])

\* The page's switch above the grid, by key also during a stroke
Disable ==
    /\ disabled' = ~disabled
    /\ UNCHANGED <<modelValue, painting, pointer, captures, stroke>>

\* An answer of the device replaces the form
Replace(raw) ==
    /\ modelValue' = raw
    /\ stroke' = [at |-> cells', over |-> {}]
    /\ UNCHANGED <<disabled, painting, pointer, captures>>

Next ==
    \/ \E c \in Cells : onDown(c) \/ onEnter(c)
    \/ Leave \/ onUp
    \/ fillAll("0") \/ fillAll("1") \/ fillWorkdayDaytime
    \/ Disable
    \/ Replace(Full("1")) \/ Replace(Full("?"))

Spec == Init /\ [][Next]_gridVars

-----------------------------------------------------------------------------
TypeOK ==
    /\ modelValue \in [Cells -> {"0", "1", "?"}]
    /\ disabled \in BOOLEAN /\ captures \in BOOLEAN
    /\ painting \in {"null", "0", "1"}
    /\ pointer \in Cells \cup {<<"up">>, <<"outside">>}

\* "Drag to paint": a stroke never outlives the press that began it, with the
\* pointer leaving the grid or the grid being disabled in between, and while it
\* lasts the cells it has entered all have its value and the others the value
\* they had before it, also those it went over several times.
StrokePaintsOneWay ==
    painting # "null" =>
        /\ pointer # <<"up">>
        /\ \A c \in Cells :
             cells[c] = IF c \in stroke.over THEN painting ELSE stroke.at[c]
=============================================================================
