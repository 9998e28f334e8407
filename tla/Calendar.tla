------------------------------ MODULE Calendar ------------------------------
(***************************************************************************)
(* The Calendar object of calendar.js: what it shows (the grid of 6 weeks, *)
(* the selected cell, the time) and what its methods and its click and key *)
(* handlers make of it.  The event listeners, the popup and the input      *)
(* fields are in CalendarPopup, which applies these operators.             *)
(*                                                                         *)
(* A calendar is a record.  Cell p of the grid (pos = row << 4 | column in *)
(* the code, 7 * row + column here) shows the day first + p.               *)
(***************************************************************************)
EXTENDS CalendarDate, CalendarLang

CONSTANTS
    Pickers,  \* the calls of Calendar.setup on the page
    Params    \* their parameters

\* The parameters of Calendar.setup that matter here; range is given by its ends.
Setup ==
    [ifFormat: Seq(Word), minYear: Int, maxYear: Int,
     firstDay: (0..6) \cup {undefined}, step: Int,
     showsTime: BOOLEAN, time24: BOOLEAN, singleClick: BOOLEAN, electric: BOOLEAN,
     showOthers: BOOLEAN, multiple: BOOLEAN, cache: BOOLEAN]

ASSUME ParamsAssumption ==
    /\ Params \in [Pickers -> Setup]
    /\ \A p \in Pickers :
          /\ Params[p].minYear - 1 \in Years /\ Params[p].maxYear + 1 \in Years
          /\ Params[p].minYear <= Params[p].maxYear

none == -1                      \* no cell
Cells == 0..41

\* The elements of the table a click can reach: a day cell, a navigation
\* button (-2 -1 0 1 2 as in the code), a part of the time (0 hour, 1 minute,
\* 2 am/pm), the name of a weekday, the close button, the title or the help.
dayEl(p) == <<"day", p>>
navEl(n) == <<"nav", n>>
timeEl(n) == <<"time", n>>
fdowEl(n) == <<"fdow", n>>
closeEl == <<"close", 0>>
titleEl == <<"title", 0>>
helpEl == <<"help", 0>>

-----------------------------------------------------------------------------
(* The grid *)

dayOf(cal, p) == cal.first + p
otherMonth(cal, p) == Civil(dayOf(cal, p)).month # cal.month

\* Not cell.disabled.  Without a first day of the week the whole grid is empty.
enabled(cal, p) ==
    /\ cal.first # NaN
    /\ Params[cal.picker].showOthers \/ ~otherMonth(cal, p)

\* Mutant: the remainder is not brought back into 0..6.
firstCell_negative(date, fdow) ==
    LET first == setDate(date, 1)
    IN  first.day - (getDay(first) - fdow)

\* "Calendar voodoo for computing the first day that would be displayed".
firstCell(date, fdow) ==
    LET first == setDate(date, 1)
    IN  first.day - ((getDay(first) - fdow) % 7)

\* Mutant: only the upper end of the range is enforced.
clampYear_upper(cal, date) ==
    IF getFullYear(date) > Params[cal.picker].maxYear
    THEN setFullYear(date, Params[cal.picker].maxYear)
    ELSE date

clampYear(cal, date) ==
    IF getFullYear(date) < Params[cal.picker].minYear
    THEN setFullYear(date, Params[cal.picker].minYear)
    ELSE IF getFullYear(date) > Params[cal.picker].maxYear
    THEN setFullYear(date, Params[cal.picker].maxYear)
    ELSE date

\* onSetTime: the time parts show the date's time.
onSetTime(cal) ==
    IF ~cal.showsTime THEN cal
    ELSE [cal EXCEPT
            !.H = IF cal.time24 THEN cal.date.hours ELSE hour12(cal.date.hours),
            !.M = cal.date.minutes,
            !.AP = IF cal.date.hours >= 12 THEN 1 ELSE 0]

\* The month and the first day of the grid.
fillGrid(cal) ==
    [cal EXCEPT !.month = getMonth(cal.date),
                !.first = IF cal.firstDayOfWeek = undefined THEN NaN
                          ELSE firstCell(cal.date, cal.firstDayOfWeek)]

\* The cell of the date is the selected one, except in a calendar of multiple
\* dates, which has none.
selectCell(cal) ==
    LET p == cal.date.day - cal.first
    IN  IF p \in Cells /\ enabled(cal, p) /\ ~cal.isMultiple
        THEN [cal EXCEPT !.currentDateEl = p] ELSE cal

_init(cal, fdow, d) ==
    onSetTime(selectCell(fillGrid(
        [cal EXCEPT !.firstDayOfWeek = fdow, !.date = clampYear(cal, d)])))

setDateOf(cal, date) ==
    IF equalsTo(date, cal.date) THEN cal
    ELSE _init(cal, cal.firstDayOfWeek, date)

refresh(cal) == _init(cal, cal.firstDayOfWeek, cal.date)
setFirstDayOfWeek(cal, fdow) == _init(cal, fdow, cal.date)

\* The constructor and the properties the trigger sets before create().
newCalendar(p, lang) ==
    [picker |-> p,
     firstDayOfWeek |-> IF Params[p].firstDay # undefined
                        THEN Params[p].firstDay ELSE Tables[lang].FD,
     date |-> NoDate, first |-> NaN, month |-> 0, currentDateEl |-> none,
     showsTime |-> Params[p].showsTime, time24 |-> Params[p].time24,
     H |-> 0, M |-> 0, AP |-> 0, dateClicked |-> FALSE,
     isMultiple |-> Params[p].multiple, multiple |-> {}]

\* The trigger empties cal.multiple for a picker of multiple dates and leaves it
\* alone, set or null, for every other.
setMultiple(cal, p) ==
    IF Params[p].multiple
    THEN [cal EXCEPT !.isMultiple = TRUE, !.multiple = {}] ELSE cal

\* dateStr is the date the trigger parsed from the field.
create(cal, dateStr) == _init(cal, cal.firstDayOfWeek, dateStr)

\* The number in front of row i, that of the week of its first cell.
weekNumber(cal, i) ==
    getWeekNumber([cal.date EXCEPT !.day = dayOf(cal, 7 * i)])

_toggleMultipleDate(cal, day) ==
    IF cal.isMultiple
    THEN [cal EXCEPT !.multiple = IF day \in @ THEN @ \ {day}
                                  ELSE @ \cup {day}]
    ELSE cal

-----------------------------------------------------------------------------
(* cellClick.  The result is the calendar and whether callHandler (select)  *)
(* and callCloseHandler (close) are called; ev is FALSE when the click is   *)
(* made up by the keyboard handler, which passes no event.                  *)

Result(cal, select, close) == [cal |-> cal, select |-> select, close |-> close]

clickDay(cal, p, ev) ==
    LET other == otherMonth(cal, p)
        closing == cal.currentDateEl = p
        cal1 == [cal EXCEPT
                    !.currentDateEl = IF @ = none THEN none ELSE p,
                    !.date = setDateOnly(@, [@ EXCEPT !.day = dayOf(cal, p)]),
                    !.dateClicked = ~other]
    IN  IF ~other /\ cal.currentDateEl = none
        THEN Result(_toggleMultipleDate(cal1, dayOf(cal, p)), FALSE, FALSE)
        ELSE Result(IF other THEN _init(cal1, cal1.firstDayOfWeek, cal1.date)
                    ELSE cal1,
                    ev /\ enabled(cal, p), ev /\ closing)

\* Mutant: the day is not cut to the length of the month.
setMonthClamped_overflow(date, m) == setMonth(date, m)

setMonthClamped(date, m) ==
    setMonth(IF getDate(date) > getMonthDays(date, m)
             THEN setDate(date, getMonthDays(date, m)) ELSE date, m)

\* The date the five buttons of the head row lead to.
navDate(cal, n) ==
    LET date == cal.date
        year == getFullYear(date)
        mon == getMonth(date)
        min == Params[cal.picker].minYear
        max == Params[cal.picker].maxYear
    IN  CASE n = 0 -> setDateOnly(date, Today)
          [] n = -2 /\ year > min -> setFullYear(date, year - 1)
          [] n = 2 /\ year < max -> setFullYear(date, year + 1)
          [] n = -1 /\ mon > 0 -> setMonthClamped(date, mon - 1)
          [] n = 1 /\ mon < 11 -> setMonthClamped(date, mon + 1)
          [] n = -1 /\ mon = 0 /\ year > min ->
                setMonthClamped(setFullYear(date, year - 1), 11)
          [] n = 1 /\ mon = 11 /\ year < max ->
                setMonthClamped(setFullYear(date, year + 1), 0)
          [] OTHER -> date

clickNav(cal, n, ev) ==
    LET date == navDate(cal, n)
        cal1 == [cal EXCEPT !.dateClicked = FALSE]
    IN  IF ~equalsTo(date, cal.date)
        THEN Result(setDateOf(cal1, date), ev, FALSE)
        ELSE Result(cal1, ev /\ n = 0, ev /\ n = 0)

hours24(H, AP) ==
    IF AP = 1 /\ H < 12 THEN H + 12
    ELSE IF AP = 0 /\ H = 12 THEN 0 ELSE H

\* The time parts are read back into the date; the handler is always called.
onUpdateTime(cal) ==
    Result([cal EXCEPT
                !.date.hours = IF cal.time24 THEN cal.H
                               ELSE hours24(cal.H, cal.AP),
                !.date.minutes = cal.M,
                !.dateClicked = FALSE],
           TRUE, FALSE)

timeRange(cal, n) ==
    CASE n = 0 -> IF cal.time24 THEN 0..23 ELSE 1..12
      [] n = 1 -> 0..59
      [] n = 2 -> 0..1

setTimePart(cal, n, v) ==
    CASE n = 0 -> [cal EXCEPT !.H = v]
      [] n = 1 -> [cal EXCEPT !.M = v]
      [] n = 2 -> [cal EXCEPT !.AP = v]

\* The next value of the range, or the previous one with the shift key.
clickTime(cal, n, shift) ==
    LET v == CASE n = 0 -> cal.H [] n = 1 -> cal.M [] n = 2 -> cal.AP
        next == CHOOSE w \in timeRange(cal, n) :
                    IF v + 1 \in timeRange(cal, n) THEN w = v + 1
                    ELSE \A x \in timeRange(cal, n) : w <= x
        prev == CHOOSE w \in timeRange(cal, n) :
                    IF v - 1 \in timeRange(cal, n) THEN w = v - 1
                    ELSE \A x \in timeRange(cal, n) : w >= x
    IN  onUpdateTime(setTimePart([cal EXCEPT !.dateClicked = FALSE], n,
                                 IF shift THEN prev ELSE next))

cellClick(cal, el, ev, shift) ==
    CASE el[1] = "day" -> clickDay(cal, el[2], ev)
      [] el[1] = "nav" -> clickNav(cal, el[2], ev)
      [] el[1] = "time" -> clickTime(cal, el[2], shift)
      [] el[1] = "fdow" ->
            Result(setFirstDayOfWeek([cal EXCEPT !.dateClicked = FALSE],
                                     el[2]), FALSE, FALSE)
      [] el[1] = "close" -> Result(cal, FALSE, TRUE)
      [] OTHER -> Result([cal EXCEPT !.dateClicked = FALSE], FALSE, FALSE)

-----------------------------------------------------------------------------
(* _keyEvent *)

Arrows == {"left", "up", "right", "down"}
arrowStep(K) ==
    CASE K = "left" -> -1 [] K = "right" -> 1 [] K = "up" -> -7 [] K = "down" -> 7

\* prevMonth and nextMonth: the date arithmetic.
moveDate(cal, K) ==
    setDateOf(cal, setDate(cal.date, getDate(cal.date) + arrowStep(K)))

\* Mutant: left from the first column goes to the first cell of the row above.
arrowCell_firstColumn(p, K) ==
    IF K = "left" /\ p % 7 = 0 THEN p - 7 ELSE p + arrowStep(K)

\* The cell next to cell p: left from the first column is the last column of
\* the row above, right from the last one the first of the row below.
arrowCell(p, K) == p + arrowStep(K)

\* The click on the cell the arrow leads to, or the move by date when the
\* cell is disabled.
arrowTo(cal, p, K) ==
    IF enabled(cal, p) THEN cellClick(cal, dayEl(p), FALSE, FALSE)
    ELSE Result(moveDate(cal, K), FALSE, FALSE)

\* Outside the grid the date moves first and its new cell is clicked.  Without
\* a selected cell the handler raises a TypeError.
arrowKey(cal, K) ==
    LET p == arrowCell(cal.currentDateEl, K)
        moved == moveDate(cal, K)
    IN  IF cal.currentDateEl = none THEN Result(cal, FALSE, FALSE)
        ELSE IF p \in Cells THEN arrowTo(cal, p, K)
        ELSE arrowTo(moved, moved.currentDateEl, K)

Keys == Arrows \cup {"enter", "space", "esc", "ctrl-left", "ctrl-right",
                     "ctrl-up", "ctrl-down"}

keyEvent(cal, K) ==
    CASE cal.isMultiple -> Result(cal, FALSE, FALSE)
      [] ~cal.isMultiple /\ K \in Arrows -> arrowKey(cal, K)
      [] ~cal.isMultiple /\ K = "enter" ->
            IF cal.currentDateEl = none THEN Result(cal, FALSE, FALSE)
            ELSE cellClick(cal, dayEl(cal.currentDateEl), TRUE, FALSE)
      [] ~cal.isMultiple /\ K = "space" ->
            cellClick(cal, navEl(0), FALSE, FALSE)
      [] ~cal.isMultiple /\ K = "esc" -> Result(cal, FALSE, TRUE)
      [] OTHER ->
            cellClick(cal, navEl(CASE K = "ctrl-left" -> -1
                                   [] K = "ctrl-right" -> 1
                                   [] K = "ctrl-up" -> -2
                                   [] K = "ctrl-down" -> 2), FALSE, FALSE)
=============================================================================
