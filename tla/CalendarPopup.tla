--------------------------- MODULE CalendarPopup ----------------------------
(***************************************************************************)
(* A page with date pickers: Calendar.setup connects input fields to a     *)
(* popup calendar, whose mouse, key and timer callbacks arrive one at a    *)
(* time in the order the user and the clock produce them.  The callbacks   *)
(* share global variables: Calendar._C (the calendar a mouse button is     *)
(* pressed in), window.calendar, window._dynarch_popupCalendar and the     *)
(* event listeners of the document.                                        *)
(*                                                                         *)
(* Without params.cache every trigger makes a new Calendar; the old one is *)
(* hidden then and nothing refers to it any more, so one record suffices.  *)
(***************************************************************************)
EXTENDS Calendar, FiniteSets

CONSTANTS
    Pages,       \* the pages: their pickers and their language file
    Texts,       \* the texts of the fields when the page is loaded
    Days, Times, \* bound: the days and times each picker is taken to
    FirstDays,   \* bound: first days of the week each picker is changed to
    MaxLost      \* bound: presses of each picker released outside the window

ASSUME PopupAssumption ==
    /\ Pages \subseteq [pickers: SUBSET Pickers, lang: DOMAIN Tables]
    /\ Texts \subseteq [Pickers -> Seq(Int)]
    \* Bound: a grid without a first day of the week, whose 42 dates are invalid,
    \* is modelled where all its cells are disabled.
    /\ \A pg \in Pages : \A p, q \in pg.pickers :
          \/ ~Params[p].showOthers
          \/ Params[q].firstDay # undefined
          \/ Tables[pg.lang].FD # undefined
    /\ \A p \in Pickers :
          /\ Days[p] \subseteq Day /\ Times[p] \subseteq (0..23) \X (0..59)
          /\ FirstDays[p] \subseteq 0..6
          /\ MaxLost[p] \in Nat

VARIABLES
    page,         \* the page
    fields,       \* picker -> text of its input field
    cal,          \* window.calendar, NoCalendar before the first one
    shown,        \* not cal.hidden
    docListeners, \* listeners for keys and mouse presses on the document
    activeDiv,    \* the element a button is pressed on, NoElement iff no _C
    upListeners,  \* mouseup listeners of the document, in order
    moveListeners,\* its mouseover and mousemove listeners
    dragging,     \* cal.dragging
    timeout,      \* the timer cal.timeout refers to, "" when there is none
    orphans,      \* timers nothing refers to any more
    combo,        \* the combo box shown: "", "months" or "years"
    comboYears,   \* the years in the years combo
    button,       \* whether the mouse button is down
    lost          \* releases that were not delivered

mouse == <<activeDiv, upListeners, moveListeners, dragging>>
combos == <<timeout, orphans, combo, comboYears>>
popup == <<cal, shown, docListeners, fields>>
vars == <<page, fields, cal, shown, docListeners, activeDiv, upListeners,
          moveListeners, dragging, timeout, orphans, combo, comboYears,
          button, lost>>

NoElement == <<"none", 0>>
NoCalendar == [picker |-> ""]

-----------------------------------------------------------------------------
(* Showing, hiding and the handlers of calendar-setup.js *)

DocListeners == {"keydown", "keypress", "_checkCalendar"}

hide == shown' = FALSE /\ docListeners' = {}
show == shown' = TRUE /\ docListeners' = DocListeners

\* Mutant: the field is only updated in electric mode.
updates_electric(c) == Params[c.picker].electric

\* onSelect updates the field when a date was clicked, and always when the
\* picker is electric.
updates(c) == c.dateClicked \/ Params[c.picker].electric

\* Mutant: the handler prints the date the calendar had before.
onSelect_before(c) ==
    fields' = IF updates(c)
              THEN [fields EXCEPT ![c.picker] =
                        print(cal.date, Params[c.picker].ifFormat)]
              ELSE fields

onSelect(c) ==
    fields' = IF updates(c)
              THEN [fields EXCEPT ![c.picker] =
                        print(c.date, Params[c.picker].ifFormat)]
              ELSE fields

\* In single-click mode onSelect ends with the close handler, which hides the
\* calendar; hiding it twice changes nothing.
closes(r) ==
    \/ r.close
    \/ /\ r.select
       /\ updates(r.cal) /\ Params[r.cal.picker].singleClick
       /\ r.cal.dateClicked

\* The rest of a handler that ended with result r.
deliver(r) ==
    /\ cal' = r.cal
    /\ IF r.select THEN onSelect(r.cal) ELSE UNCHANGED fields
    /\ IF closes(r) THEN hide ELSE UNCHANGED <<shown, docListeners>>

-----------------------------------------------------------------------------
(* The trigger button.  Its click follows a press that _checkCalendar takes *)
(* for one outside the calendar and a release that ends every other press. *)

\* window.calendar can be used again when it was completely created.
reuses(p) == Params[p].cache /\ cal # NoCalendar

\* Mutant: the calendar that is used again keeps the parameters of the picker
\* that made it.
opened_keepsParams(p, date) ==
    IF reuses(p)
    THEN refresh(setMultiple(setDateOf(cal, date), p))
    ELSE create(newCalendar(p, page.lang), date)

opened(p, date) ==
    IF reuses(p)
    THEN refresh([setMultiple(setDateOf(cal, date), p) EXCEPT !.picker = p])
    ELSE create(newCalendar(p, page.lang), date)

trigger(p) ==
    /\ button = "up" /\ ~shown /\ activeDiv = NoElement
    /\ Complete(page.lang)
    /\ \E date \in {parseDate(fields[p], Params[p].ifFormat)} :
          cal' = opened(p, date)
    /\ show
    /\ dragging' = IF reuses(p) THEN dragging ELSE FALSE
    /\ UNCHANGED <<page, fields, activeDiv, upListeners, moveListeners,
                   combos, button, lost>>

\* create() ends in a TypeError when the language has no DAY_FIRST or WEEKEND.
triggerFails(p) ==
    /\ button = "up" /\ ~shown /\ activeDiv = NoElement
    /\ ~Complete(page.lang)
    /\ UNCHANGED vars

-----------------------------------------------------------------------------
(* Mouse presses *)

\* The elements a press can start on: the day cells that are not disabled,
\* the parts of the time if there are any, and the buttons.
Elements ==
    {dayEl(p) : p \in {q \in Cells : /\ enabled(cal, q)
                                       /\ dayOf(cal, q) \in Days[cal.picker]}}
        \cup {navEl(n) : n \in -2..2}
        \cup {fdowEl(n) : n \in IF cal.firstDayOfWeek = undefined
                                THEN {undefined}
                                ELSE FirstDays[cal.picker] \ {cal.firstDayOfWeek}}
        \cup {closeEl, titleEl, helpEl}
        \cup (IF ~cal.showsTime THEN {}
              ELSE {timeEl(n) : n \in IF cal.time24 THEN {0, 1} ELSE 0..2})

addListener(seq, f) ==
    IF \E i \in DOMAIN seq : seq[i] = f THEN seq ELSE Append(seq, f)

\* A listener that is added twice is added once, so there is one to remove.
removeListener(seq, f) ==
    IF \E i \in DOMAIN seq : seq[i] = f
    THEN LET k == CHOOSE i \in DOMAIN seq : seq[i] = f
         IN  [i \in 1..(Len(seq) - 1) |-> IF i < k THEN seq[i] ELSE seq[i + 1]]
    ELSE seq

\* The combo box that opens when the button is held for 250 ms.
comboOf(el) ==
    CASE el \in {navEl(-1), navEl(1)} -> "months"
      [] el = navEl(2) -> "yearsFwd"
      [] el = navEl(-2) -> "yearsBack"
      [] OTHER -> ""

\* The title starts a drag; every other element listens for the release.  A
\* timer that is running is stopped for another combo box; an element without
\* one forgets it and leaves it running.
dayMouseDown(el) ==
    /\ button = "up" /\ shown /\ el \in Elements
    /\ button' = "down"
    /\ activeDiv' = el
    /\ IF el # titleEl
       THEN /\ upListeners' = addListener(upListeners, "tableMouseUp")
            /\ moveListeners' = moveListeners \cup
                    {IF el[1] = "time" THEN "tableMouseMove"
                     ELSE "tableMouseOver"}
            /\ UNCHANGED dragging
       ELSE /\ upListeners' = IF dragging THEN upListeners
                              ELSE addListener(upListeners, "calDragEnd")
            /\ moveListeners' = IF dragging THEN moveListeners
                                ELSE moveListeners \cup {"calDragIt"}
            /\ dragging' = TRUE
    /\ timeout' = comboOf(el)
    /\ orphans' = IF comboOf(el) = "" THEN orphans \cup ({timeout} \ {""})
                  ELSE orphans
    /\ UNCHANGED <<page, popup, combo, comboYears, lost>>

\* _checkCalendar: a press outside the calendar calls the close handler.
mouseDownOutside ==
    /\ button = "up" /\ shown
    /\ button' = "down"
    /\ hide
    /\ UNCHANGED <<page, cal, fields, mouse, combos, lost>>

\* A press anywhere while no calendar is shown: no listener is called.  A press
\* inside a shown calendar on something without a listener is left out: it
\* matters only after a lost release, whose element its release then takes.
mouseDownElsewhere ==
    /\ button = "up" /\ ~shown /\ activeDiv # NoElement
    /\ button' = "down"
    /\ UNCHANGED <<page, popup, mouse, combos, lost>>

-----------------------------------------------------------------------------
(* Mouse moves and timers *)

\* tableMouseOver with a part of the time pressed: the distance of the pointer
\* selects any value of the range.  It asks neither whether the button is still
\* down nor whether the calendar is still shown.
dragTime(v) ==
    /\ activeDiv[1] = "time"
    /\ moveListeners \cap {"tableMouseOver", "tableMouseMove"} # {}
    /\ v \in timeRange(cal, activeDiv[2])
    /\ \E r \in {onUpdateTime(setTimePart(cal, activeDiv[2], v))} : deliver(r)
    /\ UNCHANGED <<page, mouse, combos, button, lost>>

\* The years of the combo: from the next one on, in steps of yearStep.
yearsFrom(fwd) ==
    LET step == Params[cal.picker].step
        Y(i) == getFullYear(cal.date) + (IF fwd THEN 1 + i * step
                                         ELSE -1 - i * step)
    IN  {Y(i) : i \in 0..11}
            \cap (Params[cal.picker].minYear..Params[cal.picker].maxYear)

\* Mutant: the timer does not look at _C.
showCombo_always(t) ==
    /\ combo' = IF t = "months" THEN "months" ELSE "years"
    /\ comboYears' = IF t = "months" THEN comboYears
                     ELSE yearsFrom(t = "yearsFwd")

\* showMonthsCombo and showYearsCombo.  Nothing happens when the button was
\* released meanwhile; a years combo without years is not shown.  One variable
\* stands for two elements: showing one does not hide the other, but both are
\* shown only after a lost release and a second press.
showCombo(t) ==
    IF activeDiv = NoElement
    THEN UNCHANGED <<combo, comboYears>>
    ELSE IF t = "months"
    THEN combo' = "months" /\ UNCHANGED comboYears
    ELSE LET years == yearsFrom(t = "yearsFwd")
         IN  IF years = {} THEN UNCHANGED <<combo, comboYears>>
             ELSE combo' = "years" /\ comboYears' = years

timerFires(t) ==
    /\ cal # NoCalendar
    /\ \/ t # "" /\ t = timeout /\ timeout' = "" /\ UNCHANGED orphans
       \/ t \in orphans /\ orphans' = orphans \ {t} /\ UNCHANGED timeout
    /\ showCombo(t)
    /\ UNCHANGED <<page, popup, mouse, button, lost>>

-----------------------------------------------------------------------------
(* Mouse releases *)

\* The month of a date of the combo: a day the month does not have carries
\* over into the next one.
monthChosen(m) == setMonth(cal.date, m)
yearChosen(y) == setFullYear(cal.date, y)

chosen(date) ==
    IF equalsTo(date, cal.date) THEN Result(cal, FALSE, FALSE)
    ELSE Result([setDateOf(cal, date) EXCEPT !.dateClicked = FALSE],
                TRUE, FALSE)

\* What the release does, by the element it happens on: the pressed one, a
\* month or a year of the combo box that is shown, or any other.
released(target, shift) ==
    CASE target = activeDiv -> cellClick(cal, target, TRUE, shift)
      [] target[1] = "month" -> chosen(monthChosen(target[2]))
      [] target[1] = "year" -> chosen(yearChosen(target[2]))
      [] OTHER -> Result(cal, FALSE, FALSE)

Elsewhere == <<"elsewhere", 0>>

\* Bound: a day cell that a key emptied while it was pressed is not released
\* on; its caldate is a leftover of an older grid.
Emptied == activeDiv[1] = "day" /\ ~enabled(cal, activeDiv[2])

Targets ==
    {Elsewhere}
        \cup (IF shown /\ ~Emptied THEN {activeDiv} ELSE {})
        \cup (IF shown /\ combo = "months"
              THEN {<<"month", m>> : m \in Months} ELSE {})
        \cup (IF shown /\ combo = "years"
              THEN {<<"year", y>> : y \in comboYears} ELSE {})

\* What tableMouseUp leaves of the mouse state: its own listeners go, and so
\* does _C.
tableMouseUp(ups, moves) ==
    /\ upListeners' = removeListener(ups, "tableMouseUp")
    /\ moveListeners' = moves \ {"tableMouseOver", "tableMouseMove"}
    /\ activeDiv' = NoElement
    /\ timeout' = "" /\ combo' = "" /\ comboYears' = {}
    /\ UNCHANGED orphans

\* calDragEnd calls tableMouseUp itself.  When tableMouseUp was added before
\* it, it runs first and calDragEnd finds no _C and returns.
mouseUp(target, shift) ==
    /\ button = "down" /\ button' = "up"
    /\ activeDiv # NoElement /\ target \in Targets
    /\ \E r \in {released(target, shift)} : deliver(r)
    /\ IF Head(upListeners) = "calDragEnd"
       THEN /\ dragging' = FALSE
            /\ tableMouseUp(removeListener(upListeners, "calDragEnd"),
                            moveListeners \ {"calDragIt"})
       ELSE /\ UNCHANGED dragging
            /\ tableMouseUp(upListeners, moveListeners)
    /\ UNCHANGED <<page, lost>>

\* The release of a press outside the calendar.  calDragEnd, if it is still
\* there, returns at once.
mouseUpOutside ==
    /\ button = "down" /\ button' = "up"
    /\ activeDiv = NoElement
    /\ UNCHANGED <<page, popup, mouse, combos, lost>>

\* The button is released outside the window and the page is not told.
mouseUpLost ==
    /\ lost < MaxLost[cal.picker] /\ lost' = lost + 1
    /\ button = "down" /\ button' = "up"
    /\ UNCHANGED <<page, popup, mouse, combos>>

-----------------------------------------------------------------------------
(* Keys *)

key(K) ==
    /\ "keypress" \in docListeners
    /\ UNCHANGED <<page, mouse, combos, button, lost>>
    /\ \E r \in {keyEvent(cal, K)} : deliver(r)

-----------------------------------------------------------------------------
Init ==
    /\ page \in Pages
    /\ fields \in Texts
    /\ \A p \in Pickers \ page.pickers : fields[p] = <<>>
    /\ cal = NoCalendar
    /\ shown = FALSE
    /\ docListeners = {}
    /\ activeDiv = NoElement
    /\ upListeners = <<>>
    /\ moveListeners = {}
    /\ dragging = FALSE
    /\ timeout = "" /\ orphans = {}
    /\ combo = "" /\ comboYears = {}
    /\ button = "up"
    /\ lost = 0

Mouse ==
    \/ button = "up" /\ shown /\ \E el \in Elements : dayMouseDown(el)
    \/ mouseDownOutside
    \/ mouseDownElsewhere
    \/ \E t \in Times[cal.picker], i \in {1, 2}: dragTime(t[i])
    \/ /\ button = "down"
       /\ \E target \in Targets :
             \/ mouseUp(target, FALSE)
             \/ activeDiv[1] = "time" /\ mouseUp(target, TRUE)
    \/ mouseUpOutside
    \/ mouseUpLost

Step ==
    \/ \E p \in page.pickers : trigger(p) \/ triggerFails(p)
    \/ cal # NoCalendar /\ Mouse
    \/ \E t \in orphans \cup {timeout} : timerFires(t)
    \/ \E K \in Keys : key(K)

\* Bound: the calendar is only taken to the days and times given.
Bounded ==
    cal' # NoCalendar =>
        /\ cal'.date.day \in Days[cal'.picker]
        /\ <<cal'.date.hours, cal'.date.minutes>> \in Times[cal'.picker]

Next == Step /\ Bounded

Spec == Init /\ [][Next]_vars

-----------------------------------------------------------------------------
(* The server's reading of a field *)

\* Mutant: the month is taken as printed.
getAsObject_month(text) ==
    newDate(text[3], text[2], text[1], text[4], text[5])

\* MillisConverter.getAsObject for a text of the form dd/MM/yyyy HH:mm, up to
\* the seconds, which it takes from the clock.
getAsObject(text) ==
    newDate(text[3], text[2] - 1, text[1], text[4], text[5])

\* The format of script.js, the one getAsObject expects.
SipanaFormat == <<"%d", "%m", "%Y", "%H", "%M">>

-----------------------------------------------------------------------------
(* Properties *)

Opened == cal # NoCalendar
GridIsSet == Opened /\ cal.firstDayOfWeek # undefined
Listens(f) == \E i \in DOMAIN upListeners : upListeners[i] = f

TypeOK ==
    /\ page \in Pages
    /\ Opened => /\ cal.picker \in page.pickers
                 /\ cal.date \in Date
                 /\ cal.firstDayOfWeek \in 0..6 \cup {undefined}
                 /\ cal.currentDateEl \in Cells \cup {none}
                 /\ cal.showsTime => cal.H \in timeRange(cal, 0)
                 /\ cal.M \in 0..59 /\ cal.AP \in 0..1
    /\ docListeners \subseteq DocListeners
    /\ moveListeners \subseteq {"tableMouseOver", "tableMouseMove", "calDragIt"}
    /\ orphans \cup {timeout} \subseteq {"", "months", "yearsFwd", "yearsBack"}
    /\ combo \in {"", "months", "years"} /\ comboYears \subseteq Years
    /\ shown \in BOOLEAN /\ dragging \in BOOLEAN
    /\ button \in {"up", "down"} /\ lost \in Nat

DaysOfMonth(d) ==
    DayNumber(getFullYear(d), getMonth(d), 1)
        ..(DayNumber(getFullYear(d), getMonth(d) + 1, 1) - 1)

\* What the calendar displays is its date: the grid _init fills has a cell for
\* every day of the date's month, under the name of its weekday, the selected
\* cell is the date's, and the time parts, of 24 or of 12 hours, read as the
\* date's time.  cellClick changes the date without a new grid, so the two
\* are updated on different paths.
DisplaysDate ==
    /\ GridIsSet =>
        /\ \A n \in DaysOfMonth(cal.date) :
              LET p == n - cal.first
              IN  /\ p \in Cells /\ enabled(cal, p) /\ ~otherMonth(cal, p)
                  /\ ((p % 7) + cal.firstDayOfWeek) % 7 = n % 7
        /\ ~cal.isMultiple =>
              dayOf(cal, cal.currentDateEl) = cal.date.day
    /\ Opened /\ cal.showsTime =>
        /\ cal.M = cal.date.minutes
        /\ cal.date.hours = IF cal.time24 THEN cal.H ELSE hours24(cal.H, cal.AP)

\* The calendar never leaves the range of years of its picker, wherever the
\* date comes from: the field, the buttons, the arrows over the end of the
\* range, the combo boxes or a cell of another month.
YearInRange ==
    Opened => /\ Params[cal.picker].minYear <= getFullYear(cal.date)
              /\ getFullYear(cal.date) <= Params[cal.picker].maxYear

\* Week n of a year is the one with its n-th Thursday (ISO 8601).
Thursday(n) == n + 3 - ((n + 6) % 7)
ISOWeek(n) ==
    ((Thursday(n) - DayNumber(Civil(Thursday(n)).year, 0, 1)) \div 7) + 1

\* getWeekNumber, "the number of the week in year, as defined in ISO 8601",
\* also for the days of summer time, when the difference of two midnights is
\* not a whole number of days.  The number in front of a row is that of all
\* its days when the week starts on Monday; otherwise only of the first one.
WeekNumbersISO ==
    GridIsSet =>
        \A i \in 0..5 :
            \E week \in {weekNumber(cal, i)} :
                \A j \in 0..(IF cal.firstDayOfWeek = 1 THEN 6 ELSE 0) :
                    ISOWeek(dayOf(cal, 7 * i + j)) = week

Names(fmt, par) == \E i \in DOMAIN fmt : fmt[i] \in par

\* The years a format can tell: two digits stand for 1930 to 2029.
Distinguishes(fmt, d) ==
    /\ Names(fmt, {"%d", "%e"}) /\ Names(fmt, {"%m"})
    /\ \/ Names(fmt, {"%Y"})
       \/ Names(fmt, {"%y"}) /\ getFullYear(d) \in 1930..2029

\* What PrintedDateIsRead needs of the pickers: a format that names day, month and
\* year can be read back and has the time, and years have three digits or more.
ReadableFormats ==
    \A p \in Pickers :
        LET fmt == Params[p].ifFormat
        IN  /\ 100 <= Params[p].minYear
            /\ /\ Names(fmt, {"%d", "%e"}) /\ Names(fmt, {"%m"})
               /\ Names(fmt, {"%Y", "%y"})
               => /\ Readable(fmt)
                  /\ Names(fmt, {"%H", "%p"}) /\ Names(fmt, {"%M"})

\* What OpensAtField needs of them: the pickers that can share a calendar have one
\* range of years, as those of every page of Sipana have.
OneRangeOfYears ==
    \A pg \in Pages : \A p, q \in pg.pickers :
        /\ Params[p].minYear = Params[q].minYear
        /\ Params[p].maxYear = Params[q].maxYear

\* A date that is printed into a field is the date that is read from it when
\* the calendar is opened again, in the format of every picker and in the
\* default format of every language file that names day, month and year (the
\* older files have formats without directives); and the server's converter
\* reads the format of Sipana's pages as the same minute.
PrintedDateIsRead ==
    Opened =>
        /\ \A p \in Pickers :
              LET fmt == Params[p].ifFormat
              IN  Distinguishes(fmt, cal.date) =>
                    parseDate(print(cal.date, fmt), fmt) = cal.date
        /\ \A fmt \in Formats :
              Distinguishes(fmt, cal.date) =>
                parseDate(print(cal.date, fmt), fmt).day = cal.date.day
        /\ getAsObject(print(cal.date, SipanaFormat)) = cal.date

\* The global mouse state is consistent after every callback: while an element
\* is pressed some listener waits for the release, and once nothing is pressed
\* no combo box, no timer of one and no listener is left, even if a release
\* got lost; only a drag can survive its release, and only after a lost one.
\* A popup has its keys and its outside clicks exactly while it is shown.
ReleaseEndsPress ==
    /\ activeDiv # NoElement => upListeners # <<>>
    /\ activeDiv = NoElement =>
        /\ combo = "" /\ timeout = ""
        /\ ~Listens("tableMouseUp")
        /\ moveListeners \subseteq {"calDragIt"}
        /\ lost = 0 => ~dragging /\ upListeners = <<>> /\ moveListeners = {}
    /\ docListeners = IF shown THEN DocListeners ELSE {}

-----------------------------------------------------------------------------
(* Action properties *)

InRange(n) ==
    Civil(n).year \in Params[cal.picker].minYear..Params[cal.picker].maxYear

\* An arrow key moves the date by one day or one week, over the ends of rows,
\* months and years, and keeps the time, whether the new date is reached as a
\* neighbouring cell or by date arithmetic; over the end of the range of years
\* it goes to the same day of the first or last year.
ArrowsMoveOneStep ==
    [][\A K \in Arrows :
          key(K) /\ ~cal.isMultiple /\ cal.currentDateEl # none =>
          LET n == cal.date.day + arrowStep(K)
          IN  cal'.date = IF InRange(n) THEN [cal.date EXCEPT !.day = n]
                          ELSE clampYear(cal, [cal.date EXCEPT !.day = n])]_vars

MonthIndex(d) == 12 * getFullYear(d) + getMonth(d)

\* The buttons and the ctrl keys for month and year move by exactly one month
\* or year, to the same day or to the last day of a shorter month, and do
\* nothing at the ends of the range.  29 February is the hard case: it needs
\* both the patched setFullYear and the length of the month.
NavigationKeepsDay ==
    [][\A n \in {-2, -1, 1, 2} :
          \/ activeDiv = navEl(n) /\ mouseUp(navEl(n), FALSE)
          \/ key(CASE n = -1 -> "ctrl-left" [] n = 1 -> "ctrl-right"
                   [] n = -2 -> "ctrl-up" [] n = 2 -> "ctrl-down")
             /\ ~cal.isMultiple
          =>
          LET step == CASE n = -2 -> -12 [] n = 2 -> 12 [] OTHER -> n
              to == MonthIndex(cal.date) + step
              first == DayNumber(to \div 12, to % 12, 1)
              length == DayNumber(to \div 12, (to % 12) + 1, 1) - first
              date == getDate(cal.date)
          IN  IF InRange(first)
              THEN cal'.date = [cal.date EXCEPT !.day =
                        first - 1 + (IF date > length THEN length ELSE date)]
              ELSE cal'.date = cal.date]_vars

\* A day that is chosen with the mouse or with Enter is the one in the field
\* when the handlers are done: the field then reads as the day of the clicked
\* cell with the time unchanged, and a single-click popup is closed, unless
\* the cell belonged to another month.
PickReachesField ==
    [][\A p \in Cells :
          /\ \/ activeDiv = dayEl(p) /\ mouseUp(dayEl(p), FALSE)
             \/ Opened /\ cal.currentDateEl = p /\ ~cal.isMultiple /\ key("enter")
          /\ cal.currentDateEl # none /\ ~otherMonth(cal, p)
          =>
          LET P == Params[cal.picker]
              date == [cal.date EXCEPT !.day = dayOf(cal, p)]
          IN  /\ cal'.date = date
              /\ fields'[cal.picker] = print(date, P.ifFormat)
              /\ P.singleClick => ~shown']_vars

\* "If true (default) then given fields are updated for each move" (electric,
\* calendar-setup.js): every change of the date made with the mouse is in the
\* field when its callback ends.  The keys are left out: _keyEvent calls
\* cellClick without an event, and the field keeps the older date.
ElectricFollowsMouse ==
    [][/\ Opened /\ cal'.date # cal.date
       /\ shown /\ shown' /\ Params[cal.picker].electric
       /\ cal.currentDateEl # none
       /\ ~(\E K \in Keys : key(K))
       => fields'[cal.picker] = print(cal'.date, Params[cal.picker].ifFormat)]_vars

\* A popup opens at the date its own field holds, brought into the range of
\* years, with the parameters of that field's picker, also when the calendar
\* of another picker is used again (cache), as long as the pickers that share
\* it have one range of years: the date is set before the range is.
OpensAtField ==
    [][\A p \in Pickers : trigger(p) =>
          /\ cal'.picker = p
          /\ cal'.date = clampYear(cal', parseDate(fields[p], Params[p].ifFormat))
          /\ fields' = fields]_vars
=============================================================================
