------------------------- MODULE CalendarPopupProofs ------------------------
(***************************************************************************)
(* The invariant of the date pickers and the properties of CalendarPopup   *)
(* that follow from it, for every set of pages, pickers and parameters.    *)
(*                                                                         *)
(* PopupInv has two parts.  MouseInv relates the listeners, timers and     *)
(* flags the callbacks share; CalendarInv says that the calendar is Good:  *)
(* its date is in the years of its picker, its grid is that of the date's  *)
(* month, its parts of the time are the date's, and that the element a     *)
(* button is pressed on is one of its elements.  The operators of Calendar *)
(* are shown to keep Good one by one, the actions follow.                  *)
(***************************************************************************)
EXTENDS CalendarPopup, CalendarDateProofs, SequenceTheorems

-----------------------------------------------------------------------------
(* The mouse *)

TableUp == "tableMouseUp"
DragEnd == "calDragEnd"

\* The lists of mouseup listeners: each of the two at most once, in any order.
UpLists ==
    {<<>>, <<TableUp>>, <<DragEnd>>, <<TableUp, DragEnd>>, <<DragEnd, TableUp>>}

\* Appending to a list of one listener.
LEMMA AppendToOne == ASSUME NEW x, NEW y PROVE Append(<<x>>, y) = <<x, y>>
<1> DEFINE S == {x, y}
           s == Append(<<x>>, y)
<1>1. <<x>> \in Seq(S) /\ <<x, y>> \in Seq(S) /\ y \in S
  OBVIOUS
<1>2. s \in Seq(S) /\ Len(s) = 2 /\ s[1] = x /\ s[2] = y
  BY <1>1
<1>3. \A i \in 1..2 : s[i] = <<x, y>>[i]
  BY <1>2
<1>. HIDE DEF S
<1>. QED
  BY <1>1, <1>2, <1>3, SeqEqual

\* addEvent on the lists of the two release listeners.
LEMMA AddListener ==
    /\ addListener(<<>>, TableUp) = <<TableUp>>
    /\ addListener(<<TableUp>>, TableUp) = <<TableUp>>
    /\ addListener(<<DragEnd>>, TableUp) = <<DragEnd, TableUp>>
    /\ addListener(<<TableUp, DragEnd>>, TableUp) = <<TableUp, DragEnd>>
    /\ addListener(<<DragEnd, TableUp>>, TableUp) = <<DragEnd, TableUp>>
    /\ addListener(<<>>, DragEnd) = <<DragEnd>>
    /\ addListener(<<TableUp>>, DragEnd) = <<TableUp, DragEnd>>
    /\ addListener(<<DragEnd>>, DragEnd) = <<DragEnd>>
    /\ addListener(<<TableUp, DragEnd>>, DragEnd) = <<TableUp, DragEnd>>
    /\ addListener(<<DragEnd, TableUp>>, DragEnd) = <<DragEnd, TableUp>>
<1> USE DEF TableUp, DragEnd
<1>1. addListener(<<>>, TableUp) = <<TableUp>>
  BY DEF addListener
<1>2. addListener(<<TableUp>>, TableUp) = <<TableUp>>
  BY DEF addListener
<1>3. addListener(<<DragEnd>>, TableUp) = <<DragEnd, TableUp>>
  <2>1. \A i \in DOMAIN <<DragEnd>> : <<DragEnd>>[i] # TableUp
    OBVIOUS
  <2>2. Append(<<DragEnd>>, TableUp) = <<DragEnd, TableUp>>
    BY AppendToOne
  <2>. QED
    BY <2>1, <2>2 DEF addListener
<1>4. addListener(<<TableUp, DragEnd>>, TableUp) = <<TableUp, DragEnd>>
  BY DEF addListener
<1>5. addListener(<<DragEnd, TableUp>>, TableUp) = <<DragEnd, TableUp>>
  BY DEF addListener
<1>6. addListener(<<>>, DragEnd) = <<DragEnd>>
  BY DEF addListener
<1>7. addListener(<<TableUp>>, DragEnd) = <<TableUp, DragEnd>>
  <2>1. \A i \in DOMAIN <<TableUp>> : <<TableUp>>[i] # DragEnd
    OBVIOUS
  <2>2. Append(<<TableUp>>, DragEnd) = <<TableUp, DragEnd>>
    BY AppendToOne
  <2>. QED
    BY <2>1, <2>2 DEF addListener
<1>8. addListener(<<DragEnd>>, DragEnd) = <<DragEnd>>
  BY DEF addListener
<1>9. addListener(<<TableUp, DragEnd>>, DragEnd) = <<TableUp, DragEnd>>
  BY DEF addListener
<1>10. addListener(<<DragEnd, TableUp>>, DragEnd) = <<DragEnd, TableUp>>
  BY DEF addListener
<1>. QED
  BY <1>1, <1>2, <1>3, <1>4, <1>5, <1>6, <1>7, <1>8, <1>9, <1>10

\* removeEvent on the lists it can meet.
LEMMA RemoveListener ==
    /\ removeListener(<<>>, TableUp) = <<>>
    /\ removeListener(<<TableUp>>, TableUp) = <<>>
    /\ removeListener(<<DragEnd>>, TableUp) = <<DragEnd>>
    /\ removeListener(<<TableUp, DragEnd>>, TableUp) = <<DragEnd>>
    /\ removeListener(<<DragEnd, TableUp>>, TableUp) = <<DragEnd>>
    /\ removeListener(<<DragEnd>>, DragEnd) = <<>>
    /\ removeListener(<<DragEnd, TableUp>>, DragEnd) = <<TableUp>>
<1> USE DEF TableUp, DragEnd
<1>1. removeListener(<<>>, TableUp) = <<>>
  BY DEF removeListener
<1>2. removeListener(<<DragEnd>>, TableUp) = <<DragEnd>>
  BY DEF removeListener
<1>3. removeListener(<<TableUp>>, TableUp) = <<>>
  BY DEF removeListener
<1>4. removeListener(<<DragEnd>>, DragEnd) = <<>>
  BY DEF removeListener
<1>5. removeListener(<<TableUp, DragEnd>>, TableUp) = <<DragEnd>>
  BY DEF removeListener
<1>6. removeListener(<<DragEnd, TableUp>>, TableUp) = <<DragEnd>>
  BY DEF removeListener
<1>7. removeListener(<<DragEnd, TableUp>>, DragEnd) = <<TableUp>>
  BY DEF removeListener
<1>. QED
  BY <1>1, <1>2, <1>3, <1>4, <1>5, <1>6, <1>7

-----------------------------------------------------------------------------
(* The global state of the mouse *)

\* What a press and its release leave in the listeners of the document.
MouseSettled ==
    /\ activeDiv # NoElement => upListeners # <<>>
    /\ activeDiv = NoElement =>
        /\ combo = "" /\ timeout = ""
        /\ ~Listens(TableUp)
        /\ moveListeners \subseteq {"calDragIt"}

\* What every press starts from as long as no release got lost.
MouseInOrder ==
    /\ button = "up" => activeDiv = NoElement
    /\ activeDiv = NoElement =>
        ~dragging /\ upListeners = <<>> /\ moveListeners = {}
    /\ activeDiv = titleEl =>
        upListeners = <<DragEnd>> /\ moveListeners = {"calDragIt"}
    /\ activeDiv \notin {NoElement, titleEl} =>
        /\ ~dragging /\ upListeners = <<TableUp>>
        /\ moveListeners \subseteq {"tableMouseOver", "tableMouseMove"}

\* A drag waits for calDragEnd, which ends it.
MouseInv ==
    /\ upListeners \in UpLists
    /\ moveListeners \subseteq {"tableMouseOver", "tableMouseMove", "calDragIt"}
    /\ button \in {"up", "down"} /\ lost \in Nat /\ dragging \in BOOLEAN
    /\ dragging => Listens(DragEnd)
    /\ MouseSettled
    /\ lost = 0 => MouseInOrder
    /\ docListeners = IF shown THEN DocListeners ELSE {}

\* The handlers and their results leave the mouse alone and keep the listeners
\* of the document while the popup is shown, and only then.
DocumentListens == docListeners = IF shown THEN DocListeners ELSE {}

\* A delivered result hides the popup completely or not at all.
LEMMA DeliverKeepsListening ==
    ASSUME NEW r, deliver(r), DocumentListens
    PROVE  DocumentListens'
BY DEF deliver, DocumentListens, hide

\* No element a press starts on is NoElement.
LEMMA ElementsAreElements ==
    ASSUME NEW el \in Elements
    PROVE  el # NoElement
BY DEF Elements, NoElement, dayEl, navEl, timeEl, fdowEl, closeEl, titleEl, helpEl

\* The initial state of the mouse.
LEMMA MouseInit == Init => MouseInv
<1>1. upListeners = <<>> => upListeners \in UpLists /\ ~Listens(TableUp) /\ ~Listens(DragEnd)
  BY DEF UpLists, Listens
<1>2. NoElement # titleEl
  BY DEF NoElement, titleEl
<1>. SUFFICES ASSUME Init PROVE MouseInv
  OBVIOUS
<1>3. /\ activeDiv = NoElement /\ upListeners = <<>> /\ moveListeners = {} /\ dragging = FALSE
      /\ timeout = "" /\ combo = "" /\ button = "up" /\ lost = 0
      /\ shown = FALSE /\ docListeners = {}
  BY DEF Init
<1>4. MouseSettled /\ MouseInOrder
  BY <1>1, <1>2, <1>3 DEF MouseSettled, MouseInOrder
<1>. QED
  BY <1>1, <1>3, <1>4 DEF MouseInv

\* The first listener of each list, by which the two orders are told apart.
LEMMA Heads ==
    /\ Head(<<TableUp>>) = TableUp /\ Head(<<TableUp, DragEnd>>) = TableUp
    /\ Head(<<DragEnd>>) = DragEnd /\ Head(<<DragEnd, TableUp>>) = DragEnd
    /\ TableUp # DragEnd
<1>1. TableUp # DragEnd
  BY DEF TableUp, DragEnd
<1>. QED
  BY <1>1

\* A press on an element of the calendar.
LEMMA PressKeepsMouse ==
    ASSUME MouseInv, NEW el \in Elements, dayMouseDown(el)
    PROVE  MouseInv'
<1>1. /\ el # NoElement /\ activeDiv' = el /\ button = "up" /\ button' = "down"
      /\ lost' = lost /\ DocumentListens'
  BY ElementsAreElements DEF dayMouseDown, popup, MouseInv, DocumentListens
<1>2. CASE el # titleEl
  <2>1. /\ upListeners' = addListener(upListeners, TableUp)
        /\ dragging' = dragging
        /\ moveListeners' = moveListeners \cup {IF el[1] = "time" THEN "tableMouseMove"
                                                ELSE "tableMouseOver"}
    BY <1>2 DEF dayMouseDown, TableUp
  <2>2. /\ upListeners' \in UpLists /\ upListeners' # <<>>
        /\ upListeners = <<>> => upListeners' = <<TableUp>>
        /\ Listens(DragEnd) => Listens(DragEnd)'
    BY <2>1, AddListener DEF MouseInv, UpLists, Listens, TableUp, DragEnd
  <2>. QED
    BY <1>1, <1>2, <2>1, <2>2 DEF MouseInv, MouseSettled, MouseInOrder, DocumentListens
<1>3. CASE el = titleEl
  <2>1. /\ upListeners' = IF dragging THEN upListeners ELSE addListener(upListeners, DragEnd)
        /\ moveListeners' = IF dragging THEN moveListeners
                            ELSE moveListeners \cup {"calDragIt"}
        /\ dragging' = TRUE
    BY <1>3 DEF dayMouseDown, DragEnd
  <2>2. /\ upListeners' \in UpLists /\ upListeners' # <<>>
        /\ ~dragging /\ upListeners = <<>> => upListeners' = <<DragEnd>>
        /\ Listens(DragEnd)'
    BY <2>1, AddListener DEF MouseInv, UpLists, Listens, TableUp, DragEnd
  <2>. QED
    BY <1>1, <1>3, <2>1, <2>2 DEF MouseInv, MouseSettled, MouseInOrder, DocumentListens
<1>. QED
  BY <1>2, <1>3

\* The release the page is told of.
LEMMA ReleaseKeepsMouse ==
    ASSUME MouseInv, NEW target, NEW shift, mouseUp(target, shift)
    PROVE  MouseInv'
<1>1. /\ activeDiv # NoElement /\ upListeners \in UpLists \ {<<>>}
      /\ activeDiv' = NoElement /\ button' = "up" /\ lost' = lost
      /\ combo' = "" /\ timeout' = ""
  BY DEF mouseUp, tableMouseUp, MouseInv, MouseSettled
<1>2. DocumentListens'
  BY DeliverKeepsListening DEF mouseUp, MouseInv, DocumentListens
<1>3. /\ upListeners' = <<>> => upListeners' \in UpLists /\ ~Listens(TableUp)' /\ ~Listens(DragEnd)'
      /\ NoElement # titleEl
  BY DEF UpLists, Listens, NoElement, titleEl
<1>4. CASE Head(upListeners) = DragEnd
  <2>1. upListeners \in {<<DragEnd>>, <<DragEnd, TableUp>>}
    BY <1>1, <1>4, Heads DEF UpLists
  <2>2. /\ upListeners' = removeListener(removeListener(upListeners, DragEnd), TableUp)
        /\ moveListeners' = (moveListeners \ {"calDragIt"})
                                \ {"tableMouseOver", "tableMouseMove"}
        /\ dragging' = FALSE
    BY <1>4 DEF mouseUp, tableMouseUp, TableUp, DragEnd
  <2>3. upListeners' = <<>> /\ moveListeners' = {}
    <3>1. upListeners' = <<>>
      BY <2>1, <2>2, RemoveListener
    <3>2. moveListeners' = {}
      BY <2>2 DEF MouseInv
    <3>. QED
      BY <3>1, <3>2
  <2>. QED
    BY <1>1, <1>2, <2>2, <2>3, <1>3 DEF MouseInv, MouseSettled, MouseInOrder, DocumentListens
<1>5. CASE Head(upListeners) # DragEnd
  <2>1. upListeners \in {<<TableUp>>, <<TableUp, DragEnd>>}
    BY <1>1, <1>5, Heads DEF UpLists
  <2>2. /\ upListeners' = removeListener(upListeners, TableUp)
        /\ moveListeners' = moveListeners \ {"tableMouseOver", "tableMouseMove"}
        /\ dragging' = dragging
    BY <1>5 DEF mouseUp, tableMouseUp, TableUp, DragEnd
  <2>3. CASE upListeners = <<TableUp>>
    <3>1. upListeners' = <<>> /\ ~dragging
      BY <2>2, <2>3, RemoveListener DEF MouseInv, Listens, TableUp, DragEnd
    <3>2. lost = 0 => moveListeners' = {}
      BY <2>2, <2>3, <1>1 DEF MouseInv, MouseInOrder, TableUp, DragEnd
    <3>. QED
      BY <1>1, <1>2, <1>3, <2>2, <3>1, <3>2 DEF MouseInv, MouseSettled, MouseInOrder,
           DocumentListens
  <2>4. CASE upListeners = <<TableUp, DragEnd>>
    <3>1. upListeners' = <<DragEnd>>
      BY <2>2, <2>4, RemoveListener
    <3>2. upListeners' \in UpLists /\ ~Listens(TableUp)' /\ Listens(DragEnd)'
      BY <3>1 DEF UpLists, Listens, TableUp, DragEnd
    <3>3. lost # 0
      BY <1>1, <2>4 DEF MouseInv, MouseInOrder, TableUp, DragEnd
    <3>. QED
      BY <1>1, <1>2, <2>2, <3>1, <3>2, <3>3 DEF MouseInv, MouseSettled, DocumentListens
  <2>. QED
    BY <2>1, <2>3, <2>4
<1>. QED
  BY <1>4, <1>5

\* A timer that fires when nothing is pressed is an orphan and shows nothing.
LEMMA TimerKeepsMouse ==
    ASSUME MouseInv, NEW t, timerFires(t)
    PROVE  MouseInv'
<1>1. UNCHANGED <<shown, docListeners, activeDiv, upListeners, moveListeners, dragging,
                  button, lost>>
  BY DEF timerFires, popup, mouse
<1>2. activeDiv = NoElement => combo' = "" /\ timeout' = ""
  BY DEF timerFires, showCombo, MouseInv, MouseSettled
<1>. QED
  BY <1>1, <1>2 DEF MouseInv, MouseSettled, MouseInOrder, Listens

\* Every step keeps it.
LEMMA MouseStep ==
    ASSUME MouseInv, [Next]_vars
    PROVE  MouseInv'
<1> DEFINE untouched == UNCHANGED <<activeDiv, upListeners, moveListeners, dragging,
                                    timeout, combo, button, lost>>
<1>1. ASSUME untouched, DocumentListens' PROVE MouseInv'
  BY <1>1 DEF MouseInv, MouseSettled, MouseInOrder, Listens, DocumentListens
<1>2. DocumentListens
  BY DEF MouseInv, DocumentListens
<1>3. ASSUME NEW p, trigger(p) PROVE MouseInv'
  <2>1. DocumentListens'
    BY <1>3 DEF trigger, show, DocumentListens
  <2>2. CASE dragging' = dragging
    BY <1>1, <1>3, <2>1, <2>2 DEF trigger, combos
  <2>3. CASE dragging' = FALSE
    BY <1>3, <2>1, <2>3 DEF trigger, combos, MouseInv, MouseSettled, MouseInOrder, Listens,
         DocumentListens
  <2>. QED
    BY <1>3, <2>2, <2>3 DEF trigger
<1>4. ASSUME NEW p, triggerFails(p) PROVE MouseInv'
  BY <1>4, <1>1, <1>2 DEF triggerFails, vars, DocumentListens
<1>5. ASSUME mouseDownOutside PROVE MouseInv'
  <2>1. UNCHANGED <<activeDiv, upListeners, moveListeners, dragging, timeout, combo, lost>>
    BY <1>5 DEF mouseDownOutside, mouse, combos
  <2>2. button' = "down" /\ DocumentListens'
    BY <1>5 DEF mouseDownOutside, hide, DocumentListens
  <2>. QED
    BY <2>1, <2>2 DEF MouseInv, MouseSettled, MouseInOrder, Listens, DocumentListens
<1>6. ASSUME mouseDownElsewhere PROVE MouseInv'
  <2>1. UNCHANGED <<shown, docListeners, activeDiv, upListeners, moveListeners, dragging,
                    timeout, combo, lost>>
    BY <1>6 DEF mouseDownElsewhere, mouse, combos, popup
  <2>2. button' = "down"
    BY <1>6 DEF mouseDownElsewhere
  <2>. QED
    BY <2>1, <2>2 DEF MouseInv, MouseSettled, MouseInOrder, Listens
<1>7. ASSUME NEW v, dragTime(v) PROVE MouseInv'
  BY <1>7, <1>1, <1>2, DeliverKeepsListening DEF dragTime, mouse, combos
<1>8. ASSUME mouseUpOutside PROVE MouseInv'
  <2>1. UNCHANGED <<shown, docListeners, activeDiv, upListeners, moveListeners, dragging,
                    timeout, combo, lost>> /\ button' = "up" /\ activeDiv = NoElement
    BY <1>8 DEF mouseUpOutside, mouse, combos, popup
  <2>. QED
    BY <2>1 DEF MouseInv, MouseSettled, MouseInOrder, Listens
<1>9. ASSUME mouseUpLost PROVE MouseInv'
  <2>1. UNCHANGED <<shown, docListeners, activeDiv, upListeners, moveListeners, dragging,
                    timeout, combo>> /\ button' = "up"
    BY <1>9 DEF mouseUpLost, mouse, combos, popup
  <2>2. lost' \in Nat /\ lost' # 0
    BY <1>9 DEF mouseUpLost, MouseInv
  <2>. QED
    BY <2>1, <2>2 DEF MouseInv, MouseSettled, Listens
<1>10. ASSUME NEW K, key(K) PROVE MouseInv'
  BY <1>10, <1>1, <1>2, DeliverKeepsListening DEF key, mouse, combos
<1>11. CASE UNCHANGED vars
  BY <1>11, <1>1, <1>2 DEF vars, DocumentListens
<1>12. CASE Step
  BY <1>12, <1>3, <1>4, <1>5, <1>6, <1>7, <1>8, <1>9, <1>10,
     PressKeepsMouse, ReleaseKeepsMouse, TimerKeepsMouse DEF Step, Mouse
<1>. QED
  BY <1>11, <1>12 DEF Next

\* Every listener, timer and combo box of a press ends with its release, and a
\* popup has its keys and its outside clicks exactly while it is shown: addEvent,
\* removeEvent, tableMouseDown, tableMouseUp and calDragEnd, in every order in
\* which presses, lost releases and timers can come.
THEOREM ReleaseEndsPressAlways == Spec => []ReleaseEndsPress
<1>1. MouseInv => ReleaseEndsPress
  BY DEF MouseInv, MouseSettled, MouseInOrder, ReleaseEndsPress, TableUp
<1>2. MouseInv /\ [Next]_vars => MouseInv'
  BY MouseStep
<1>. QED
  BY MouseInit, <1>1, <1>2, PTL DEF Spec

-----------------------------------------------------------------------------
(* The calendar object: what it displays is its date.                          *)

WeekStarts == (0..6) \cup {undefined}

CalendarRecord ==
    [picker: Pickers, firstDayOfWeek: WeekStarts, date: DateTime, first: Int,
     month: Int, currentDateEl: Cells \cup {none}, showsTime: BOOLEAN,
     time24: BOOLEAN, H: Int, M: Int, AP: Int, dateClicked: BOOLEAN,
     isMultiple: BOOLEAN, multiple: SUBSET Int]

\* The year of the date is one of the picker's.
InYears(c) ==
    /\ Params[c.picker].minYear <= getFullYear(c.date)
    /\ getFullYear(c.date) <= Params[c.picker].maxYear

\* The grid is that of the date's month, and the date's cell is the current one
\* unless the calendar has or had several dates.
GridFollows(c) ==
    IF c.firstDayOfWeek = undefined
    THEN c.first = NaN /\ c.currentDateEl = none
    ELSE /\ c.first = firstCell(c.date, c.firstDayOfWeek)
         /\ c.month = getMonth(c.date)
         /\ ~c.isMultiple => c.currentDateEl = c.date.day - c.first

\* The parts of the time show the date's time.
TimeFollows(c) ==
    IF ~c.showsTime THEN c.M = 0 /\ c.AP = 0
    ELSE /\ c.M = c.date.minutes
         /\ c.H = IF c.time24 THEN c.date.hours ELSE hour12(c.date.hours)
         /\ c.AP \in 0..1
         /\ ~c.time24 => c.AP = IF c.date.hours >= 12 THEN 1 ELSE 0

Good(c) == c \in CalendarRecord /\ InYears(c) /\ GridFollows(c) /\ TimeFollows(c)

\* The years of a picker are years with numbered days.
LEMMA YearsOfPicker ==
    ASSUME NEW p \in Pickers
    PROVE  /\ Params[p].minYear \in Int /\ Params[p].maxYear \in Int
           /\ Params[p].minYear <= Params[p].maxYear
           /\ \A y \in Int : Params[p].minYear <= y /\ y <= Params[p].maxYear => y \in Years
<1>1. Params[p] \in Setup
  BY ParamsAssumption
<1>2. /\ Params[p].minYear - 1 \in Years /\ Params[p].maxYear + 1 \in Years
      /\ Params[p].minYear <= Params[p].maxYear
  BY ParamsAssumption
<1>3. Params[p].minYear \in Int /\ Params[p].maxYear \in Int
  BY <1>1 DEF Setup
<1>. QED
  BY <1>2, <1>3, YearsAssumption, SMT DEF Years

\* clampYear brings a date into the range and changes no other.
LEMMA ClampYear ==
    ASSUME NEW c, c.picker \in Pickers, NEW d \in DateTime
    PROVE  /\ clampYear(c, d) \in DateTime
           /\ clampYear(c, d).hours = d.hours /\ clampYear(c, d).minutes = d.minutes
           /\ Params[c.picker].minYear <= getFullYear(clampYear(c, d))
           /\ getFullYear(clampYear(c, d)) <= Params[c.picker].maxYear
           /\ clampYear(c, d).day \in Day /\ clampYear(c, d).day \in Int
           /\ 1 <= clampYear(c, d).day
           /\ /\ Params[c.picker].minYear <= getFullYear(d)
              /\ getFullYear(d) <= Params[c.picker].maxYear
              => clampYear(c, d) = d
<1> DEFINE min == Params[c.picker].minYear
           max == Params[c.picker].maxYear
           e == clampYear(c, d)
<1>1. min \in Int /\ max \in Int /\ min <= max
      /\ \A y \in Int : min <= y /\ y <= max => y \in Years
  BY YearsOfPicker
<1>2. ASSUME NEW y \in Int
      PROVE  /\ setFullYear(d, y) \in DateTime
             /\ setFullYear(d, y).hours = d.hours /\ setFullYear(d, y).minutes = d.minutes
             /\ getFullYear(setFullYear(d, y)) = y
  <2>1. Civil(setFullYear(d, y).day)
            = [year |-> y, month |-> getMonth(d),
               date |-> Least(getDate(d), MonthLength(y, getMonth(d)))]
    BY SetFullYear
  <2>2. Civil(setFullYear(d, y).day).year = y
    BY <2>1
  <2>. QED
    BY <2>2, SetFullYear DEF getFullYear
<1>3. getFullYear(d) \in Int
  BY GettersAreInt
<1>4. e = IF getFullYear(d) < min THEN setFullYear(d, min)
          ELSE IF getFullYear(d) > max THEN setFullYear(d, max) ELSE d
  BY DEF clampYear
<1> HIDE DEF min, max, e
<1>5. /\ e \in DateTime /\ e.hours = d.hours /\ e.minutes = d.minutes
      /\ min <= getFullYear(e) /\ getFullYear(e) <= max
      /\ min <= getFullYear(d) /\ getFullYear(d) <= max => e = d
  BY <1>1, <1>2, <1>3, <1>4
<1>6. e.day \in Int /\ getFullYear(e) \in Int
  BY <1>5, GettersAreInt
<1>7. e.day \in Day /\ 1 <= e.day
  BY <1>1, <1>5, <1>6, DayOfYears DEF getFullYear
<1>. QED
  BY <1>5, <1>6, <1>7 DEF min, max, e

\* "Calendar voodoo": the first cell is the last day not after the first of the
\* month whose weekday is the first of the week.
LEMMA FirstCell ==
    ASSUME NEW d \in DateTime, NEW f \in 0..6
    PROVE  /\ firstCell(d, f) \in Int
           /\ MonthStart(d.day) - 6 <= firstCell(d, f) /\ firstCell(d, f) <= MonthStart(d.day)
           /\ firstCell(d, f) % 7 = f
           /\ firstCell(d, f) = MonthStart(d.day) - (((MonthStart(d.day) % 7) - f) % 7)
<1> DEFINE start == MonthStart(d.day)
           e == setDate(d, 1)
<1>1. d.day \in Int /\ start \in Int
  BY GettersAreInt, SameMonth
<1>2. e.day = start
  <2> DEFINE one == 1
  <2>1. one \in Int
    OBVIOUS
  <2> HIDE DEF one
  <2>2. setDate(d, one).day = d.day - getDate(d) + one
    BY <2>1, SetDate
  <2>3. getDate(d) \in Int
    BY GettersAreInt
  <2>4. d.day - getDate(d) + 1 = start
    BY <1>1, <2>3, SMT DEF MonthStart, getDate
  <2>. QED
    BY <2>2, <2>4 DEF one
<1>3. firstCell(d, f) = start - (((start % 7) - f) % 7)
  BY <1>2 DEF firstCell, getDay
<1> HIDE DEF start
<1>4. start - (((start % 7) - f) % 7) \in Int
      /\ (start - (((start % 7) - f) % 7)) % 7 = f
      /\ start - 6 <= start - (((start % 7) - f) % 7) /\ start - (((start % 7) - f) % 7) <= start
  BY <1>1, SMT
<1>. QED
  BY <1>3, <1>4 DEF start

\* A date's own cell is one of the 42, and of the date's month.
LEMMA OwnCell ==
    ASSUME NEW d \in DateTime, NEW f \in 0..6
    PROVE  /\ d.day - firstCell(d, f) \in Cells
           /\ firstCell(d, f) + (d.day - firstCell(d, f)) = d.day
           /\ 1 <= d.day => firstCell(d, f) # NaN
<1> DEFINE start == MonthStart(d.day)
           first == firstCell(d, f)
<1>1. d.day \in Int
  BY GettersAreInt
<1>2. start \in Int /\ start <= d.day /\ d.day < start + MonthOf(d.day) /\ MonthOf(d.day) \in 28..31
  BY <1>1, SameMonth
<1>3. first \in Int /\ start - 6 <= first /\ first <= start
  BY FirstCell
<1> HIDE DEF start, first
<1>4. d.day - first \in Cells /\ first + (d.day - first) = d.day /\ (1 <= d.day => first # NaN)
  BY <1>1, <1>2, <1>3, SMT DEF Cells, NaN
<1>. QED
  BY <1>4 DEF first

\* _init makes a calendar that displays its new date, whatever it displayed
\* before; what it is not told it leaves alone.
LEMMA InitIsGood ==
    ASSUME NEW c \in CalendarRecord, NEW f \in WeekStarts, NEW d \in DateTime,
           f = undefined => c.currentDateEl = none,
           ~c.showsTime => c.M = 0 /\ c.AP = 0
    PROVE  LET r == _init(c, f, d)
           IN  /\ Good(r)
               /\ r.date = clampYear(c, d) /\ r.firstDayOfWeek = f
               /\ r.picker = c.picker /\ r.showsTime = c.showsTime /\ r.time24 = c.time24
               /\ r.dateClicked = c.dateClicked /\ r.isMultiple = c.isMultiple
               /\ c.isMultiple => r.currentDateEl = c.currentDateEl
<1> DEFINE e == clampYear(c, d)
           c1 == [c EXCEPT !.firstDayOfWeek = f, !.date = e]
           c2 == fillGrid(c1)
           c3 == selectCell(c2)
           r == onSetTime(c3)
           same(x) == /\ x \in CalendarRecord /\ x.date = e /\ x.firstDayOfWeek = f
                      /\ x.picker = c.picker /\ x.showsTime = c.showsTime
                      /\ x.time24 = c.time24 /\ x.dateClicked = c.dateClicked
                      /\ x.isMultiple = c.isMultiple
<1>1. c.picker \in Pickers
  BY DEF CalendarRecord
<1>2. /\ e \in DateTime /\ e.day \in Int /\ 1 <= e.day
      /\ Params[c.picker].minYear <= getFullYear(e) /\ getFullYear(e) <= Params[c.picker].maxYear
  BY <1>1, ClampYear
<1> HIDE DEF e
<1>3. same(c1) /\ c1.currentDateEl = c.currentDateEl /\ c1.M = c.M /\ c1.AP = c.AP
  BY <1>2 DEF CalendarRecord
<1>4. getMonth(e) \in Int /\ e.hours \in Int /\ e.minutes \in Int
  BY <1>2, GettersAreInt
<1>5. NaN \in Int /\ undefined \notin 0..6 /\ (f # undefined => f \in 0..6)
  BY DEF NaN, undefined, WeekStarts
<1>6. f # undefined => /\ firstCell(e, f) \in Int /\ firstCell(e, f) # NaN
                       /\ e.day - firstCell(e, f) \in Cells
                       /\ firstCell(e, f) + (e.day - firstCell(e, f)) = e.day
  BY <1>2, <1>5, FirstCell, OwnCell
<1> DEFINE first == IF f = undefined THEN NaN ELSE firstCell(e, f)
<1>7. first \in Int
  BY <1>5, <1>6
<1>8. /\ same(c2) /\ c2.currentDateEl = c.currentDateEl /\ c2.M = c.M /\ c2.AP = c.AP
      /\ c2.first = first /\ c2.month = getMonth(e)
  <2> HIDE DEF c1
  <2>1. c2 = [c1 EXCEPT !.month = getMonth(e), !.first = first]
    BY <1>3 DEF fillGrid
  <2> HIDE DEF c2, first
  <2>. QED
    BY <1>3, <1>4, <1>7, <2>1 DEF CalendarRecord
<1> HIDE DEF c1, c2
<1>9. f # undefined => /\ enabled(c2, e.day - first)
                       /\ e.day - first \in Cells /\ first # NaN
  <2>1. SUFFICES ASSUME f # undefined
        PROVE  enabled(c2, e.day - first) /\ e.day - first \in Cells /\ first # NaN
    OBVIOUS
  <2>2. first = firstCell(e, f) /\ first # NaN /\ e.day - first \in Cells
        /\ first + (e.day - first) = e.day
    BY <1>6, <2>1
  <2> HIDE DEF first
  <2>3. ~otherMonth(c2, e.day - first)
    BY <1>8, <2>2 DEF otherMonth, dayOf, getMonth
  <2>. QED
    BY <1>8, <2>2, <2>3 DEF enabled
<1>10. /\ same(c3) /\ c3.M = c.M /\ c3.AP = c.AP
       /\ c3.first = first /\ c3.month = getMonth(e)
       /\ c.isMultiple => c3.currentDateEl = c.currentDateEl
       /\ f = undefined => c3.currentDateEl = none
       /\ f # undefined /\ ~c.isMultiple => c3.currentDateEl = e.day - first
  <2> DEFINE p == e.day - first
  <2>1. c3 = IF p \in Cells /\ enabled(c2, p) /\ ~c.isMultiple
             THEN [c2 EXCEPT !.currentDateEl = p] ELSE c2
    BY <1>8 DEF selectCell
  <2>2. f = undefined => ~enabled(c2, p)
    BY <1>8 DEF enabled
  <2> HIDE DEF first, c3
  <2>3. f # undefined => p \in Cells /\ enabled(c2, p)
    BY <1>9
  <2> HIDE DEF p
  <2>4. CASE f = undefined \/ c.isMultiple
    BY <1>8, <2>1, <2>2, <2>4
  <2>5. CASE f # undefined /\ ~c.isMultiple
    <3>1. c3 = [c2 EXCEPT !.currentDateEl = p] /\ p \in Cells
      BY <2>1, <2>3, <2>5
    <3>2. same(c3) /\ c3.M = c.M /\ c3.AP = c.AP /\ c3.first = first
          /\ c3.month = getMonth(e) /\ c3.currentDateEl = p
      BY <1>8, <3>1 DEF CalendarRecord
    <3>. QED
      BY <2>5, <3>2 DEF p
  <2>. QED
    BY <2>4, <2>5
<1> HIDE DEF c3
<1>11. /\ same(r) /\ TimeFollows(r)
       /\ r.first = c3.first /\ r.month = c3.month /\ r.currentDateEl = c3.currentDateEl
  <2>1. CASE ~c.showsTime
    BY <1>10, <2>1 DEF onSetTime, TimeFollows
  <2>2. CASE c.showsTime
    <3> DEFINE H == IF c.time24 THEN e.hours ELSE hour12(e.hours)
               AP == IF e.hours >= 12 THEN 1 ELSE 0
    <3>1. H \in Int /\ AP \in 0..1 /\ AP \in Int
      BY <1>4, SMT DEF hour12
    <3>2. r = [c3 EXCEPT !.H = H, !.M = e.minutes, !.AP = AP]
      BY <1>10, <2>2 DEF onSetTime
    <3>3. AP = IF e.hours >= 12 THEN 1 ELSE 0
      OBVIOUS
    <3>4. H = IF c.time24 THEN e.hours ELSE hour12(e.hours)
      OBVIOUS
    <3> HIDE DEF H, AP, r
    <3>5. same(r) /\ r.H = H /\ r.M = e.minutes /\ r.AP = AP
          /\ r.first = c3.first /\ r.month = c3.month /\ r.currentDateEl = c3.currentDateEl
      <4>1. c3 \in CalendarRecord /\ e.minutes \in Int
        BY <1>4, <1>10
      <4>2. r \in CalendarRecord
        BY <3>1, <3>2, <4>1 DEF CalendarRecord
      <4>3. /\ r.H = H /\ r.M = e.minutes /\ r.AP = AP
            /\ r.first = c3.first /\ r.month = c3.month /\ r.currentDateEl = c3.currentDateEl
            /\ r.date = c3.date /\ r.firstDayOfWeek = c3.firstDayOfWeek
            /\ r.picker = c3.picker /\ r.showsTime = c3.showsTime /\ r.time24 = c3.time24
            /\ r.dateClicked = c3.dateClicked /\ r.isMultiple = c3.isMultiple
        BY <3>2, <4>1 DEF CalendarRecord
      <4>. QED
        BY <1>10, <4>2, <4>3
    <3>. QED
      BY <2>2, <3>1, <3>3, <3>4, <3>5 DEF TimeFollows
  <2>. QED
    BY <2>1, <2>2
<1> HIDE DEF r
<1>12. GridFollows(r)
  BY <1>10, <1>11 DEF GridFollows
<1>13. InYears(r)
  BY <1>2, <1>11 DEF InYears
<1>14. r = _init(c, f, d)
  BY DEF _init, r, c3, c2, c1, e
<1>. QED
  BY <1>10, <1>11, <1>12, <1>13, <1>14 DEF Good, e

\* What the handlers never change.
Same(c, r) ==
    /\ r.picker = c.picker /\ r.showsTime = c.showsTime /\ r.time24 = c.time24
    /\ r.isMultiple = c.isMultiple /\ r.firstDayOfWeek = c.firstDayOfWeek

\* What the other lemmas need of a calendar.
LEMMA GoodCalendar ==
    ASSUME NEW c, Good(c)
    PROVE  /\ c \in CalendarRecord /\ c.picker \in Pickers /\ c.date \in DateTime
           /\ c.date.day \in Day /\ c.date.day \in Int /\ 1 <= c.date.day
           /\ c.firstDayOfWeek \in WeekStarts
           /\ c.firstDayOfWeek = undefined => c.currentDateEl = none /\ c.first = NaN
           /\ ~c.showsTime => c.M = 0 /\ c.AP = 0
           /\ clampYear(c, c.date) = c.date
<1>1. /\ c \in CalendarRecord /\ c.picker \in Pickers /\ c.date \in DateTime
      /\ c.firstDayOfWeek \in WeekStarts
  BY DEF Good, CalendarRecord
<1>2. clampYear(c, c.date) = c.date
  BY <1>1, ClampYear DEF Good, InYears
<1>3. c.date.day \in Day /\ c.date.day \in Int /\ 1 <= c.date.day
  BY <1>1, <1>2, ClampYear
<1>. QED
  BY <1>1, <1>2, <1>3 DEF Good, GridFollows, TimeFollows

\* A handler that only notes whether a date was clicked.
LEMMA ClickedIsGood ==
    ASSUME NEW c, Good(c), NEW b \in BOOLEAN
    PROVE  LET r == [c EXCEPT !.dateClicked = b]
           IN  Good(r) /\ Same(c, r) /\ r.date = c.date /\ r.dateClicked = b
                   /\ r.first = c.first /\ r.month = c.month
                   /\ r.currentDateEl = c.currentDateEl /\ r.multiple = c.multiple
<1> DEFINE r == [c EXCEPT !.dateClicked = b]
<1>1. c \in CalendarRecord
  BY DEF Good
<1>2. r \in CalendarRecord
  BY <1>1 DEF CalendarRecord
<1>3. /\ Same(c, r) /\ r.date = c.date /\ r.dateClicked = b
      /\ r.first = c.first /\ r.month = c.month
      /\ r.currentDateEl = c.currentDateEl /\ r.multiple = c.multiple
      /\ r.H = c.H /\ r.M = c.M /\ r.AP = c.AP
  BY <1>1 DEF CalendarRecord, Same
<1> HIDE DEF r
<1>4. InYears(r) /\ GridFollows(r) /\ TimeFollows(r)
  BY <1>3 DEF Good, InYears, GridFollows, TimeFollows, Same
<1>. QED
  BY <1>2, <1>3, <1>4 DEF Good, r

\* setDate: a calendar that displays its date is moved to another one.
LEMMA SetDateOf ==
    ASSUME NEW c, Good(c), NEW d \in DateTime
    PROVE  LET r == setDateOf(c, d)
           IN  /\ Good(r) /\ Same(c, r) /\ r.date = clampYear(c, d)
               /\ r.dateClicked = c.dateClicked
               /\ c.isMultiple => r.currentDateEl = c.currentDateEl
<1>1. c.date \in DateTime /\ clampYear(c, c.date) = c.date
  BY GoodCalendar
<1>2. CASE d = c.date
  <2>1. equalsTo(d, c.date)
    BY <1>1, <1>2, EqualDates
  <2>. QED
    BY <1>1, <1>2, <2>1 DEF setDateOf, Same
<1>3. CASE d # c.date
  <2>1. ~equalsTo(d, c.date)
    BY <1>1, <1>3, EqualDates
  <2>2. setDateOf(c, d) = _init(c, c.firstDayOfWeek, d)
    BY <2>1 DEF setDateOf
  <2>3. /\ c \in CalendarRecord /\ c.firstDayOfWeek \in WeekStarts
        /\ c.firstDayOfWeek = undefined => c.currentDateEl = none
        /\ ~c.showsTime => c.M = 0 /\ c.AP = 0
    BY GoodCalendar
  <2> DEFINE r == _init(c, c.firstDayOfWeek, d)
  <2>4. /\ Good(r)
        /\ r.date = clampYear(c, d) /\ r.firstDayOfWeek = c.firstDayOfWeek
        /\ r.picker = c.picker /\ r.showsTime = c.showsTime /\ r.time24 = c.time24
        /\ r.dateClicked = c.dateClicked /\ r.isMultiple = c.isMultiple
        /\ c.isMultiple => r.currentDateEl = c.currentDateEl
    BY <2>3, InitIsGood
  <2>. QED
    BY <2>2, <2>4 DEF Same
<1>. QED
  BY <1>2, <1>3

\* The cells of the grid: the current one can be clicked, and every cell that
\* is not of another month is of the date's month and year.
LEMMA CellsOfGrid ==
    ASSUME NEW c, Good(c), c.firstDayOfWeek # undefined
    PROVE  /\ c.first = firstCell(c.date, c.firstDayOfWeek) /\ c.firstDayOfWeek \in 0..6
           /\ c.first \in Int /\ c.first # NaN
           /\ ~c.isMultiple => /\ c.currentDateEl = c.date.day - c.first
                               /\ c.currentDateEl \in Cells /\ c.currentDateEl # none
                               /\ enabled(c, c.currentDateEl)
                               /\ ~otherMonth(c, c.currentDateEl)
                               /\ dayOf(c, c.currentDateEl) = c.date.day
           /\ \A p \in Cells : /\ dayOf(c, p) \in Int
                               /\ ~otherMonth(c, p) =>
                                    /\ Civil(dayOf(c, p)).month = Civil(c.date.day).month
                                    /\ Civil(dayOf(c, p)).year = Civil(c.date.day).year
<1> DEFINE f == c.firstDayOfWeek
           d == c.date
<1>1. /\ d \in DateTime /\ d.day \in Int /\ 1 <= d.day /\ f \in 0..6
  BY GoodCalendar DEF WeekStarts
<1>2. c.first = firstCell(d, f) /\ c.month = getMonth(d)
      /\ (~c.isMultiple => c.currentDateEl = d.day - c.first)
  BY DEF Good, GridFollows
<1>3. /\ c.first \in Int /\ c.first # NaN /\ d.day - c.first \in Cells
      /\ c.first + (d.day - c.first) = d.day
  BY <1>1, <1>2, FirstCell, OwnCell
<1>4. \A p \in Cells : p # none /\ p \in Int
  BY SMT DEF Cells, none
<1>5. /\ ~otherMonth(c, d.day - c.first) /\ enabled(c, d.day - c.first)
      /\ dayOf(c, d.day - c.first) = d.day
  BY <1>2, <1>3 DEF otherMonth, dayOf, getMonth, enabled
<1>6. ASSUME NEW p \in Cells
      PROVE  /\ dayOf(c, p) \in Int
             /\ ~otherMonth(c, p) =>
                  /\ Civil(dayOf(c, p)).month = Civil(d.day).month
                  /\ Civil(dayOf(c, p)).year = Civil(d.day).year
  <2> DEFINE k == dayOf(c, p)
  <2>1. k \in Int
    BY <1>3, <1>4 DEF dayOf
  <2>2. d.day - 300 < k /\ k < d.day + 300
    <3>1. MonthStart(d.day) \in Int /\ MonthStart(d.day) <= d.day
          /\ d.day < MonthStart(d.day) + MonthOf(d.day) /\ MonthOf(d.day) \in 28..31
      BY <1>1, SameMonth
    <3>2. MonthStart(d.day) - 6 <= c.first /\ c.first <= MonthStart(d.day)
      BY <1>1, <1>2, FirstCell
    <3> DEFINE start == MonthStart(d.day)
               length == MonthOf(d.day)
    <3> HIDE DEF start, length, k
    <3>3. k = c.first + p
      BY DEF k, dayOf
    <3>. QED
      BY <1>1, <1>3, <3>1, <3>2, <3>3, SMT DEF Cells, start, length
  <2>3. ~otherMonth(c, p) => Civil(k).month = Civil(d.day).month
    BY <1>2 DEF otherMonth, getMonth
  <2> HIDE DEF k
  <2>4. Civil(k).month = Civil(d.day).month => Civil(k).year = Civil(d.day).year
    BY <1>1, <2>1, <2>2, MonthIsUnique
  <2>. QED
    BY <2>1, <2>3, <2>4 DEF k
<1>. QED
  BY <1>1, <1>2, <1>3, <1>4, <1>5, <1>6

\* A part of the time is set: the date takes over what the parts show.
LEMMA UpdateTime ==
    ASSUME NEW c, Good(c), c.showsTime, NEW n \in 0..2, n = 2 => ~c.time24,
           NEW v \in timeRange(c, n)
    PROVE  LET r == onUpdateTime(setTimePart(c, n, v))
           IN  /\ Good(r.cal) /\ Same(c, r.cal) /\ r.cal.date.day = c.date.day
               /\ r.select = TRUE /\ r.close = FALSE
               /\ r.cal.dateClicked = FALSE
<1> DEFINE x == setTimePart(c, n, v)
           hours == IF x.time24 THEN x.H ELSE hours24(x.H, x.AP)
           r == [x EXCEPT !.date.hours = hours, !.date.minutes = x.M, !.dateClicked = FALSE]
<1>1. /\ c \in CalendarRecord /\ c.date \in DateTime /\ c.time24 \in BOOLEAN
  BY GoodCalendar DEF CalendarRecord
<1>2. /\ c.date.hours \in Int /\ c.date.minutes \in Int
      /\ c.M = c.date.minutes /\ c.AP \in 0..1
      /\ c.time24 => c.H = c.date.hours
      /\ ~c.time24 => /\ c.H = hour12(c.date.hours)
                      /\ c.AP = IF c.date.hours >= 12 THEN 1 ELSE 0
  BY <1>1, GettersAreInt DEF Good, TimeFollows
<1>3. c.H \in Int /\ (~c.time24 => c.H \in 1..12)
  BY <1>1, <1>2, SMT DEF hour12
<1>4. /\ n = 0 => (c.time24 => v \in 0..23) /\ (~c.time24 => v \in 1..12)
      /\ n = 1 => v \in 0..59
      /\ n = 2 => v \in 0..1
      /\ v \in Int
  <2>1. n = 0 \/ n = 1 \/ n = 2
    BY SMT
  <2>. QED
    BY <1>1, <2>1 DEF timeRange
<1>5. /\ x \in CalendarRecord /\ Same(c, x) /\ x.date = c.date
      /\ x.first = c.first /\ x.month = c.month /\ x.currentDateEl = c.currentDateEl
      /\ x.H = (IF n = 0 THEN v ELSE c.H) /\ x.M = (IF n = 1 THEN v ELSE c.M)
      /\ x.AP = IF n = 2 THEN v ELSE c.AP
  <2>1. CASE n = 0
    <3>1. x = [c EXCEPT !.H = v]
      BY <2>1 DEF setTimePart
    <3> HIDE DEF x
    <3>2. x \in CalendarRecord
      BY <1>1, <1>4, <3>1 DEF CalendarRecord
    <3>3. /\ Same(c, x) /\ x.date = c.date
          /\ x.first = c.first /\ x.month = c.month /\ x.currentDateEl = c.currentDateEl
          /\ x.H = v /\ x.M = c.M /\ x.AP = c.AP
      BY <1>1, <3>1 DEF CalendarRecord, Same
    <3>. QED
      BY <2>1, <3>2, <3>3
  <2>2. CASE n = 1
    <3>1. x = [c EXCEPT !.M = v]
      BY <2>2 DEF setTimePart
    <3> HIDE DEF x
    <3>2. x \in CalendarRecord
      BY <1>1, <1>4, <3>1 DEF CalendarRecord
    <3>3. /\ Same(c, x) /\ x.date = c.date
          /\ x.first = c.first /\ x.month = c.month /\ x.currentDateEl = c.currentDateEl
          /\ x.H = c.H /\ x.M = v /\ x.AP = c.AP
      BY <1>1, <3>1 DEF CalendarRecord, Same
    <3>. QED
      BY <2>2, <3>2, <3>3
  <2>3. CASE n = 2
    <3>1. x = [c EXCEPT !.AP = v]
      BY <2>3 DEF setTimePart
    <3> HIDE DEF x
    <3>2. x \in CalendarRecord
      BY <1>1, <1>4, <3>1 DEF CalendarRecord
    <3>3. /\ Same(c, x) /\ x.date = c.date
          /\ x.first = c.first /\ x.month = c.month /\ x.currentDateEl = c.currentDateEl
          /\ x.H = c.H /\ x.M = c.M /\ x.AP = v
      BY <1>1, <3>1 DEF CalendarRecord, Same
    <3>. QED
      BY <2>3, <3>2, <3>3
  <2>. QED
    BY <2>1, <2>2, <2>3
<1> HIDE DEF x
<1>6. /\ x.H \in Int /\ x.M \in Int /\ x.AP \in 0..1 /\ (~c.time24 => x.H \in 1..12)
  BY <1>2, <1>3, <1>4, <1>5
<1>7. x.time24 = c.time24
  BY <1>5 DEF Same
<1>8. /\ hours \in Int
      /\ c.time24 => hours = x.H
      /\ ~c.time24 => /\ hour12(hours) = x.H
                      /\ x.AP = IF hours >= 12 THEN 1 ELSE 0
  <2>1. CASE c.time24
    BY <1>6, <1>7, <2>1
  <2>2. CASE ~c.time24
    <3>1. hours = hours24(x.H, x.AP)
      BY <1>7, <2>2
    <3> HIDE DEF hours
    <3>. QED
      BY <1>6, <2>2, <3>1, SMT DEF hours24, hour12
  <2>. QED
    BY <1>1, <2>1, <2>2
<1> HIDE DEF hours
<1>9. /\ r.date \in DateTime /\ r.date.day = c.date.day
      /\ r.date.hours = hours /\ r.date.minutes = x.M
      /\ r.dateClicked = FALSE /\ Same(c, r)
      /\ r.first = c.first /\ r.month = c.month /\ r.currentDateEl = c.currentDateEl
      /\ r.H = x.H /\ r.M = x.M /\ r.AP = x.AP
      /\ r \in CalendarRecord
  <2>1. x.date \in DateTime /\ x.date = c.date
    BY <1>1, <1>5
  <2> DEFINE e == [c.date EXCEPT !.hours = hours, !.minutes = x.M]
  <2>2. e \in DateTime /\ e.day = c.date.day /\ e.hours = hours /\ e.minutes = x.M
    BY <1>1, <1>6, <1>8 DEF DateTime
  <2>3. r = [x EXCEPT !.date = e, !.dateClicked = FALSE]
    BY <1>5, <2>1 DEF CalendarRecord, DateTime
  <2> HIDE DEF r, e
  <2>4. r \in CalendarRecord
    BY <1>5, <2>2, <2>3 DEF CalendarRecord
  <2>5. /\ r.date = e /\ r.dateClicked = FALSE
        /\ r.first = x.first /\ r.month = x.month /\ r.currentDateEl = x.currentDateEl
        /\ r.H = x.H /\ r.M = x.M /\ r.AP = x.AP /\ Same(x, r)
    BY <1>5, <2>3 DEF CalendarRecord, Same
  <2>. QED
    BY <1>5, <2>2, <2>4, <2>5 DEF Same
<1>10. onUpdateTime(setTimePart(c, n, v)) = Result(r, TRUE, FALSE)
  BY DEF onUpdateTime, x, hours
<1> HIDE DEF r
<1>11. TimeFollows(r)
  BY <1>1, <1>6, <1>8, <1>9 DEF TimeFollows, Same
<1>12. InYears(r) /\ GridFollows(r)
  <2>1. getFullYear(r.date) = getFullYear(c.date) /\ getMonth(r.date) = getMonth(c.date)
    BY <1>9 DEF getFullYear, getMonth
  <2>2. \A f \in 0..6 : firstCell(r.date, f) = firstCell(c.date, f)
    BY <1>1, <1>9, FirstCell
  <2>3. c.firstDayOfWeek # undefined => c.firstDayOfWeek \in 0..6
    BY GoodCalendar DEF WeekStarts
  <2>. QED
    BY <1>9, <2>1, <2>2, <2>3 DEF Good, InYears, GridFollows, Same
<1>. QED
  BY <1>9, <1>10, <1>11, <1>12 DEF Good, Result

\* A click on a part of the time: the next or the previous value, round about.
LEMMA ClickTime ==
    ASSUME NEW c, Good(c), c.showsTime, NEW n \in 0..2, n = 2 => ~c.time24,
           NEW shift \in BOOLEAN
    PROVE  LET r == clickTime(c, n, shift)
           IN  /\ Good(r.cal) /\ Same(c, r.cal) /\ r.cal.date.day = c.date.day
               /\ r.select = TRUE /\ r.close = FALSE
<1> DEFINE S == timeRange(c, n)
           u == CASE n = 0 -> c.H [] n = 1 -> c.M [] n = 2 -> c.AP
           next == CHOOSE w \in S : IF u + 1 \in S THEN w = u + 1
                                    ELSE \A z \in S : w <= z
           prev == CHOOSE w \in S : IF u - 1 \in S THEN w = u - 1
                                    ELSE \A z \in S : w >= z
<1>1. PICK a \in Int, b \in Int : a <= b /\ S = a..b
  <2>1. n = 0 \/ n = 1 \/ n = 2
    BY SMT
  <2>2. timeRange(c, 0) = (IF c.time24 THEN 0..23 ELSE 1..12) /\ timeRange(c, 1) = 0..59
        /\ timeRange(c, 2) = 0..1
    BY DEF timeRange
  <2>3. S \in {0..23, 1..12, 0..59, 0..1}
    BY <2>1, <2>2
  <2> HIDE DEF S
  <2>4. CASE S = 0..23
    <3>1. 0 \in Int /\ 23 \in Int /\ 0 <= 23
      OBVIOUS
    <3>. QED
      BY <2>4, <3>1, Zenon
  <2>5. CASE S = 1..12
    <3>1. 1 \in Int /\ 12 \in Int /\ 1 <= 12
      OBVIOUS
    <3>. QED
      BY <2>5, <3>1, Zenon
  <2>6. CASE S = 0..59
    <3>1. 0 \in Int /\ 59 \in Int /\ 0 <= 59
      OBVIOUS
    <3>. QED
      BY <2>6, <3>1, Zenon
  <2>7. CASE S = 0..1
    <3>1. 0 \in Int /\ 1 \in Int /\ 0 <= 1
      OBVIOUS
    <3>. QED
      BY <2>7, <3>1, Zenon
  <2>. QED
    BY <2>3, <2>4, <2>5, <2>6, <2>7, Zenon
<1> HIDE DEF S, u
<1>2. next \in S
  <2>1. a \in S /\ \A z \in S : a <= z
    BY <1>1, SMT
  <2>. QED
    BY <2>1
<1>3. prev \in S
  <2>1. b \in S /\ \A z \in S : b >= z
    BY <1>1, SMT
  <2>. QED
    BY <2>1
<1> DEFINE v == IF shift THEN prev ELSE next
           x == [c EXCEPT !.dateClicked = FALSE]
<1>4. v \in S
  BY <1>2, <1>3
<1>5. Good(x) /\ Same(c, x) /\ x.date = c.date
  BY ClickedIsGood
<1>6. v \in timeRange(x, n) /\ x.showsTime /\ (n = 2 => ~x.time24)
  <2>1. timeRange(x, n) = timeRange(c, n)
    BY <1>5 DEF Same, timeRange
  <2>. QED
    BY <1>4, <1>5, <2>1 DEF S, Same
<1>7. clickTime(c, n, shift) = onUpdateTime(setTimePart(x, n, v))
  BY DEF clickTime, S, u
<1> HIDE DEF v, x
<1> DEFINE r == onUpdateTime(setTimePart(x, n, v))
<1>8. /\ Good(r.cal) /\ Same(x, r.cal) /\ r.cal.date.day = x.date.day
      /\ r.select = TRUE /\ r.close = FALSE
  BY <1>5, <1>6, UpdateTime
<1>. QED
  BY <1>5, <1>7, <1>8 DEF Same

\* The date with another day, as a click takes it from a cell.
onDay(d, n) == [d EXCEPT !.day = n]

\* A click on a day cell that is not disabled.
LEMMA ClickDay ==
    ASSUME NEW c, Good(c), NEW p \in Cells, enabled(c, p), NEW ev \in BOOLEAN
    PROVE  LET r == clickDay(c, p, ev)
               date == onDay(c.date, dayOf(c, p))
           IN  /\ Good(r.cal) /\ Same(c, r.cal)
               /\ ~otherMonth(c, p) => r.cal.date = date
               /\ otherMonth(c, p) => r.cal.date = clampYear(c, date)
               /\ otherMonth(c, p) \/ c.currentDateEl # none =>
                    /\ r.select = ev /\ r.close = (ev /\ c.currentDateEl = p)
                    /\ r.cal.dateClicked = ~otherMonth(c, p)
               /\ c.isMultiple \/ c.currentDateEl # none
<1> DEFINE f == c.firstDayOfWeek
           other == otherMonth(c, p)
           k == dayOf(c, p)
           date == onDay(c.date, k)
           el == IF c.currentDateEl = none THEN none ELSE p
           c1 == [c EXCEPT !.currentDateEl = IF @ = none THEN none ELSE p,
                           !.date = setDateOnly(@, [@ EXCEPT !.day = k]),
                           !.dateClicked = ~other]
           r == clickDay(c, p, ev)
<1>1. /\ c \in CalendarRecord /\ c.date \in DateTime /\ c.picker \in Pickers
      /\ f \in WeekStarts /\ clampYear(c, c.date) = c.date
      /\ ~c.showsTime => c.M = 0 /\ c.AP = 0
  BY GoodCalendar
<1>2. f # undefined /\ f \in 0..6
  BY <1>1, GoodCalendar DEF enabled, WeekStarts
<1>3. /\ c.first = firstCell(c.date, f)
      /\ ~c.isMultiple => c.currentDateEl # none
      /\ k \in Int
      /\ ~other => /\ Civil(k).month = Civil(c.date.day).month
                   /\ Civil(k).year = Civil(c.date.day).year
  BY <1>2, CellsOfGrid
<1>4. /\ date \in DateTime /\ date.day = k
      /\ date.hours = c.date.hours /\ date.minutes = c.date.minutes
      /\ setDateOnly(c.date, date) = date
  <2>1. /\ date \in DateTime /\ date.day = k
        /\ date.hours = c.date.hours /\ date.minutes = c.date.minutes
    BY <1>1, <1>3, WithDay DEF onDay
  <2>2. setDateOnly(c.date, date) = [c.date EXCEPT !.day = date.day]
    BY <1>1, <2>1, SetDateOnly
  <2>. QED
    BY <2>1, <2>2 DEF onDay
<1>5. other \in BOOLEAN
  BY DEF otherMonth
<1>6. c1 = [c EXCEPT !.currentDateEl = el, !.date = date, !.dateClicked = ~other]
  <2>1. setDateOnly(c.date, [c.date EXCEPT !.day = k]) = date
    BY <1>4 DEF onDay
  <2> HIDE DEF date
  <2>. QED
    BY <1>1, <2>1 DEF CalendarRecord
<1>7. el \in Cells \cup {none}
  OBVIOUS
<1> HIDE DEF k, date, el, other, c1
<1>8. c1 \in CalendarRecord
  BY <1>1, <1>4, <1>5, <1>6, <1>7 DEF CalendarRecord
<1>9. /\ Same(c, c1) /\ c1.date = date /\ c1.currentDateEl = el
      /\ c1.dateClicked = ~other /\ c1.first = c.first /\ c1.month = c.month
      /\ c1.H = c.H /\ c1.M = c.M /\ c1.AP = c.AP
  BY <1>1, <1>6 DEF CalendarRecord, Same
<1>10. ~other => Good(c1)
  <2>1. SUFFICES ASSUME ~other PROVE Good(c1)
    OBVIOUS
  <2>2. getFullYear(date) = getFullYear(c.date) /\ getMonth(date) = getMonth(c.date)
    BY <1>3, <1>4, <2>1 DEF getFullYear, getMonth
  <2>3. InYears(c1)
    BY <1>9, <2>2 DEF InYears, Good, Same
  <2>4. TimeFollows(c1)
    BY <1>4, <1>9 DEF TimeFollows, Good, Same
  <2>5. firstCell(date, f) = firstCell(c.date, f)
    <3>1. MonthStart(k) = MonthStart(c.date.day)
      <4>1. c.date.day \in Int
        BY <1>1, GettersAreInt
      <4>2. /\ k = DayNumber(Civil(k).year, Civil(k).month, Civil(k).date)
            /\ c.date.day = DayNumber(Civil(c.date.day).year, Civil(c.date.day).month,
                                      Civil(c.date.day).date)
        BY <1>3, <4>1, CivilDate
      <4>3. /\ DayNumber(Civil(k).year, Civil(k).month, 1) = MonthStart(k)
            /\ DayNumber(Civil(c.date.day).year, Civil(c.date.day).month, 1)
                   = MonthStart(c.date.day)
        BY <1>3, <4>1, NextMonthStart
      <4>. QED
        BY <1>3, <2>1, <4>3
    <3>. QED
      BY <1>1, <1>2, <1>4, <3>1, FirstCell
  <2>6. ~c.isMultiple => el = date.day - c.first
    <3>1. ~c.isMultiple => el = p
      BY <1>3 DEF el
    <3>2. c.first \in Int /\ k = c.first + p /\ p \in Int
      BY <1>1, SMT DEF k, dayOf, CalendarRecord, Cells
    <3>3. k - c.first = p
      BY <3>2, SMT
    <3>. QED
      BY <1>4, <3>1, <3>3
  <2>7. GridFollows(c1)
    BY <1>2, <1>3, <1>9, <2>2, <2>5, <2>6 DEF GridFollows, Good, Same
  <2>. QED
    BY <1>8, <2>3, <2>4, <2>7 DEF Good
<1>11. CASE ~other /\ c.currentDateEl = none
  <2>1. r = Result(_toggleMultipleDate(c1, k), FALSE, FALSE)
    BY <1>11 DEF clickDay, c1, other, k
  <2>2. c.isMultiple /\ c1.isMultiple
    BY <1>3, <1>9, <1>11 DEF Same
  <2> DEFINE days == IF k \in c1.multiple THEN c1.multiple \ {k} ELSE c1.multiple \cup {k}
             c2 == [c1 EXCEPT !.multiple = days]
  <2>3. days \in SUBSET Int
    BY <1>3, <1>8 DEF CalendarRecord
  <2>4. _toggleMultipleDate(c1, k) = c2
    BY <1>8, <2>2 DEF _toggleMultipleDate, CalendarRecord
  <2> HIDE DEF days, r
  <2>5. c2 \in CalendarRecord
    BY <1>8, <2>3 DEF CalendarRecord
  <2>6. /\ Same(c1, c2) /\ c2.date = c1.date /\ c2.currentDateEl = c1.currentDateEl
        /\ c2.first = c1.first /\ c2.month = c1.month
        /\ c2.H = c1.H /\ c2.M = c1.M /\ c2.AP = c1.AP
    BY <1>8 DEF CalendarRecord, Same
  <2> HIDE DEF c2
  <2>7. Good(c1)
    BY <1>10, <1>11
  <2>8. Good(c2)
    BY <2>5, <2>6, <2>7 DEF Good, InYears, GridFollows, TimeFollows, Same
  <2>9. r.cal = c2
    BY <2>1, <2>4 DEF Result
  <2>. QED
    BY <1>9, <1>11, <2>2, <2>6, <2>8, <2>9 DEF Same, r, other, date, k
<1>12. CASE ~other /\ c.currentDateEl # none
  <2>1. r = Result(c1, ev /\ enabled(c, p), ev /\ c.currentDateEl = p)
    BY <1>12 DEF clickDay, c1, other, k
  <2>2. /\ r.cal = c1 /\ r.select = ev /\ r.close = (ev /\ c.currentDateEl = p)
    <3>1. (ev /\ enabled(c, p)) = ev
      OBVIOUS
    <3>. QED
      BY <2>1, <3>1 DEF Result
  <2>. QED
    BY <1>9, <1>10, <1>12, <2>2 DEF other, date, k, r
<1>13. CASE other
  <2> DEFINE c2 == _init(c1, c1.firstDayOfWeek, c1.date)
  <2>1. r = Result(c2, ev /\ enabled(c, p), ev /\ c.currentDateEl = p)
    BY <1>13 DEF clickDay, c1, other, k
  <2>2. c1.date \in DateTime /\ c1.firstDayOfWeek = f /\ (~c1.showsTime => c1.M = 0 /\ c1.AP = 0)
    BY <1>1, <1>4, <1>9 DEF Same
  <2>3. /\ Good(c2) /\ c2.date = clampYear(c1, c1.date)
        /\ c2.firstDayOfWeek = c1.firstDayOfWeek
        /\ c2.picker = c1.picker /\ c2.showsTime = c1.showsTime /\ c2.time24 = c1.time24
        /\ c2.dateClicked = c1.dateClicked /\ c2.isMultiple = c1.isMultiple
    BY <1>1, <1>2, <1>8, <2>2, InitIsGood
  <2>4. clampYear(c1, date) = clampYear(c, date)
    BY <1>9 DEF Same, clampYear
  <2> HIDE DEF c2, r
  <2>5. /\ r.cal = c2 /\ r.select = ev /\ r.close = (ev /\ c.currentDateEl = p)
    <3>1. (ev /\ enabled(c, p)) = ev
      OBVIOUS
    <3>. QED
      BY <2>1, <3>1 DEF Result
  <2>. QED
    BY <1>3, <1>9, <1>13, <2>3, <2>4, <2>5 DEF other, date, k, r, Same
<1>. QED
  BY <1>5, <1>11, <1>12, <1>13

\* The months the buttons and the ctrl keys move by.
months(n) == CASE n = -2 -> -12 [] n = 2 -> 12 [] OTHER -> n

\* The buttons lead to the same day of the month they name, or to its last one,
\* and nowhere when its year is out of range.
LEMMA NavDate ==
    ASSUME NEW c, Good(c), NEW n \in {-2, -1, 1, 2}
    PROVE  LET date == navDate(c, n)
               to == 12 * getFullYear(c.date) + getMonth(c.date) + months(n)
               y == to \div 12
               m == to % 12
           IN  /\ date \in DateTime
               /\ date.hours = c.date.hours /\ date.minutes = c.date.minutes
               /\ y \in Int /\ m \in 0..11
               /\ IF Params[c.picker].minYear <= y /\ y <= Params[c.picker].maxYear
                  THEN Civil(date.day) = [year |-> y, month |-> m,
                                          date |-> Least(getDate(c.date), MonthLength(y, m))]
                  ELSE date = c.date
<1> DEFINE d == c.date
           year == getFullYear(d)
           mon == getMonth(d)
           k == getDate(d)
           min == Params[c.picker].minYear
           max == Params[c.picker].maxYear
           to == 12 * year + mon + months(n)
           y == to \div 12
           m == to % 12
           inRange == min <= y /\ y <= max
           Found(e, yy, mm) == /\ e \in DateTime
                               /\ e.hours = d.hours /\ e.minutes = d.minutes
                               /\ Civil(e.day) = [year |-> yy, month |-> mm,
                                                  date |-> Least(k, MonthLength(yy, mm))]
<1>1. d \in DateTime /\ year \in Int /\ mon \in 0..11 /\ k \in 1..31 /\ k <= MonthLength(year, mon)
  BY GoodCalendar, Getters
<1>2. min \in Int /\ max \in Int /\ min <= year /\ year <= max
  BY GoodCalendar, YearsOfPicker DEF Good, InYears
<1>3. ASSUME NEW yy \in Int PROVE Found(setFullYear(d, yy), yy, mon)
  BY <1>1, SetFullYear
<1>4. ASSUME NEW mm \in 0..11 PROVE Found(setMonthClamped(d, mm), year, mm)
  <2> DEFINE length == getMonthDays(d, mm)
             cut == IF getDate(d) > length THEN setDate(d, length) ELSE d
  <2>1. /\ setMonth(cut, mm) \in DateTime
        /\ setMonth(cut, mm).hours = d.hours
        /\ setMonth(cut, mm).minutes = d.minutes
        /\ Civil(setMonth(cut, mm).day)
               = [year |-> year, month |-> mm,
                  date |-> Least(k, MonthLength(year, mm))]
    BY <1>1, SetMonthClamped
  <2>. QED
    BY <2>1 DEF setMonthClamped
<1>5. ASSUME NEW yy \in Int, NEW mm \in 0..11, mon \in {0, 11}, mm \in {0, 11}
      PROVE  Found(setMonthClamped(setFullYear(d, yy), mm), yy, mm)
  <2> DEFINE e == setFullYear(d, yy)
             length == getMonthDays(e, mm)
             cut == IF getDate(e) > length THEN setDate(e, length) ELSE e
             r == setMonth(cut, mm)
  <2>1. MonthLength(yy, mon) = 31 /\ MonthLength(yy, mm) = 31
    BY <1>5 DEF MonthLength
  <2>2. Least(k, 31) = k
    BY <1>1 DEF Least
  <2>3. Found(e, yy, mon)
    BY <1>3
  <2>4. e \in DateTime /\ getFullYear(e) = yy /\ getDate(e) = k
    <3>1. e \in DateTime /\ Civil(e.day) = [year |-> yy, month |-> mon, date |-> k]
      BY <2>1, <2>2, <2>3
    <3> HIDE DEF e
    <3>. QED
      BY <3>1 DEF getFullYear, getDate
  <2>5. /\ r \in DateTime /\ r.hours = e.hours /\ r.minutes = e.minutes
        /\ Civil(r.day) = [year |-> getFullYear(e), month |-> mm,
                           date |-> Least(getDate(e), MonthLength(getFullYear(e), mm))]
    BY <2>4, SetMonthClamped
  <2>6. r = setMonthClamped(e, mm)
    BY DEF setMonthClamped
  <2> HIDE DEF r, e
  <2>. QED
    BY <2>3, <2>4, <2>5, <2>6 DEF e
<1> DEFINE date == navDate(c, n)
<1> HIDE DEF Found
<1>6. /\ n = -2 => y = year - 1 /\ m = mon
      /\ n = 2 => y = year + 1 /\ m = mon
      /\ n = -1 /\ mon > 0 => y = year /\ m = mon - 1
      /\ n = 1 /\ mon < 11 => y = year /\ m = mon + 1
      /\ n = -1 /\ mon = 0 => y = year - 1 /\ m = 11
      /\ n = 1 /\ mon = 11 => y = year + 1 /\ m = 0
      /\ y \in Int /\ m \in 0..11
  <2> HIDE DEF year, mon, d
  <2>. QED
    BY <1>1, SMT DEF months
<1>7. date = CASE n = 0 -> setDateOnly(d, Today)
          [] n = -2 /\ year > min -> setFullYear(d, year - 1)
          [] n = 2 /\ year < max -> setFullYear(d, year + 1)
          [] n = -1 /\ mon > 0 -> setMonthClamped(d, mon - 1)
          [] n = 1 /\ mon < 11 -> setMonthClamped(d, mon + 1)
          [] n = -1 /\ mon = 0 /\ year > min ->
                setMonthClamped(setFullYear(d, year - 1), 11)
          [] n = 1 /\ mon = 11 /\ year < max ->
                setMonthClamped(setFullYear(d, year + 1), 0)
          [] OTHER -> d
  BY DEF navDate
<1> HIDE DEF date, y, m, year, mon, k, min, max, d
<1>8. CASE n = -2
  <2>1. IF year > min THEN date = setFullYear(d, year - 1) ELSE date = d
    BY <1>7, <1>8
  <2>2. Found(setFullYear(d, year - 1), year - 1, mon)
    BY <1>1, <1>3
  <2>3. inRange <=> year > min
    BY <1>1, <1>2, <1>6, <1>8
  <2>. QED
    BY <1>1, <1>6, <1>8, <2>1, <2>2, <2>3 DEF Found, date, y, m, year, mon, k, min, max, d
<1>9. CASE n = 2
  <2>1. IF year < max THEN date = setFullYear(d, year + 1) ELSE date = d
    BY <1>7, <1>9
  <2>2. Found(setFullYear(d, year + 1), year + 1, mon)
    BY <1>1, <1>3
  <2>3. inRange <=> year < max
    BY <1>1, <1>2, <1>6, <1>9
  <2>. QED
    BY <1>1, <1>6, <1>9, <2>1, <2>2, <2>3 DEF Found, date, y, m, year, mon, k, min, max, d
<1>10. CASE n = -1 /\ mon > 0
  <2>1. date = setMonthClamped(d, mon - 1)
    BY <1>1, <1>7, <1>10
  <2>2. Found(setMonthClamped(d, mon - 1), year, mon - 1)
    BY <1>1, <1>4, <1>10
  <2>3. inRange
    BY <1>2, <1>6, <1>10
  <2>. QED
    BY <1>1, <1>6, <1>10, <2>1, <2>2, <2>3 DEF Found, date, y, m, year, mon, k, min, max, d
<1>11. CASE n = 1 /\ mon < 11
  <2>1. date = setMonthClamped(d, mon + 1)
    BY <1>1, <1>7, <1>11
  <2>2. Found(setMonthClamped(d, mon + 1), year, mon + 1)
    BY <1>1, <1>4, <1>11
  <2>3. inRange
    BY <1>2, <1>6, <1>11
  <2>. QED
    BY <1>1, <1>6, <1>11, <2>1, <2>2, <2>3 DEF Found, date, y, m, year, mon, k, min, max, d
<1>12. CASE n = -1 /\ mon = 0
  <2>1. IF year > min THEN date = setMonthClamped(setFullYear(d, year - 1), 11) ELSE date = d
    BY <1>7, <1>12
  <2>2. Found(setMonthClamped(setFullYear(d, year - 1), 11), year - 1, 11)
    <3> DEFINE last == 11
    <3>1. last \in 0..11 /\ last \in {0, 11}
      OBVIOUS
    <3> HIDE DEF last
    <3>2. Found(setMonthClamped(setFullYear(d, year - 1), last), year - 1, last)
      BY <1>1, <1>5, <1>12, <3>1
    <3>. QED
      BY <3>2 DEF last
  <2>3. inRange <=> year > min
    BY <1>1, <1>2, <1>6, <1>12
  <2>. QED
    BY <1>1, <1>6, <1>12, <2>1, <2>2, <2>3 DEF Found, date, y, m, year, mon, k, min, max, d
<1>13. CASE n = 1 /\ mon = 11
  <2>1. IF year < max THEN date = setMonthClamped(setFullYear(d, year + 1), 0) ELSE date = d
    BY <1>7, <1>13
  <2>2. Found(setMonthClamped(setFullYear(d, year + 1), 0), year + 1, 0)
    <3> DEFINE zero == 0
    <3>1. zero \in 0..11 /\ zero \in {0, 11}
      OBVIOUS
    <3> HIDE DEF zero
    <3>2. Found(setMonthClamped(setFullYear(d, year + 1), zero), year + 1, zero)
      BY <1>1, <1>5, <1>13, <3>1
    <3>. QED
      BY <3>2 DEF zero
  <2>3. inRange <=> year < max
    BY <1>1, <1>2, <1>6, <1>13
  <2>. QED
    BY <1>1, <1>6, <1>13, <2>1, <2>2, <2>3 DEF Found, date, y, m, year, mon, k, min, max, d
<1>. QED
  BY <1>1, <1>8, <1>9, <1>10, <1>11, <1>12, <1>13, SMT

\* A click on a button of the head row.
LEMMA ClickNav ==
    ASSUME NEW c, Good(c), NEW n \in -2..2, NEW ev \in BOOLEAN
    PROVE  LET r == clickNav(c, n, ev)
           IN  /\ navDate(c, n) \in DateTime
               /\ Good(r.cal) /\ Same(c, r.cal) /\ r.cal.date = clampYear(c, navDate(c, n))
               /\ r.cal.date # c.date => r.select = ev
<1> DEFINE d == navDate(c, n)
           c1 == [c EXCEPT !.dateClicked = FALSE]
           r == clickNav(c, n, ev)
<1>1. c.date \in DateTime /\ clampYear(c, c.date) = c.date
  BY GoodCalendar
<1>2. d \in DateTime
  <2>1. CASE n = 0
    <3>1. Today \in DateTime
      BY TodayAssumption, DateIsDateTime
    <3>2. setDateOnly(c.date, Today) \in DateTime
      <4>1. Today.day \in Int
        BY <3>1, GettersAreInt
      <4>2. setDateOnly(c.date, Today) = [c.date EXCEPT !.day = Today.day]
        BY <1>1, <3>1, SetDateOnly
      <4>3. [c.date EXCEPT !.day = Today.day] \in DateTime
        BY <1>1, <4>1, WithDay
      <4>. QED
        BY <4>2, <4>3
    <3>3. d = setDateOnly(c.date, Today)
      BY <2>1 DEF navDate
    <3>. QED
      BY <3>2, <3>3
  <2>2. CASE n # 0
    <3>1. n \in {-2, -1, 1, 2}
      BY <2>2, SMT
    <3>. QED
      BY <3>1, NavDate
  <2>. QED
    BY <2>1, <2>2
<1>3. Good(c1) /\ Same(c, c1) /\ c1.date = c.date
  BY ClickedIsGood
<1> HIDE DEF d, c1
<1>4. CASE d = c.date
  <2>1. equalsTo(d, c.date)
    BY <1>1, <1>2, <1>4, EqualDates
  <2>2. r = Result(c1, ev /\ n = 0, ev /\ n = 0)
    BY <2>1 DEF clickNav, d, c1
  <2>3. r.cal = c1
    BY <2>2 DEF Result
  <2>. QED
    BY <1>1, <1>2, <1>3, <1>4, <2>3 DEF d
<1>5. CASE d # c.date
  <2>1. ~equalsTo(d, c.date)
    BY <1>1, <1>2, <1>5, EqualDates
  <2>2. r = Result(setDateOf(c1, d), ev, FALSE)
    BY <2>1 DEF clickNav, d, c1
  <2>3. r.cal = setDateOf(c1, d) /\ r.select = ev
    BY <2>2 DEF Result
  <2> DEFINE x == setDateOf(c1, d)
  <2>4. Good(x) /\ Same(c1, x) /\ x.date = clampYear(c1, d)
    BY <1>2, <1>3, SetDateOf
  <2>5. clampYear(c1, d) = clampYear(c, d)
    BY <1>3 DEF Same, clampYear
  <2> HIDE DEF x, r
  <2>. QED
    BY <1>2, <1>3, <2>3, <2>4, <2>5 DEF d, Same, x, r
<1>. QED
  BY <1>4, <1>5

\* prevMonth and nextMonth: the move by date arithmetic.
LEMMA MoveDate ==
    ASSUME NEW c, Good(c), NEW K \in Arrows
    PROVE  LET n == c.date.day + arrowStep(K)
           IN  /\ arrowStep(K) \in Int /\ n \in Int
               /\ Good(moveDate(c, K)) /\ Same(c, moveDate(c, K))
               /\ moveDate(c, K).date = clampYear(c, onDay(c.date, n))
<1> DEFINE n == c.date.day + arrowStep(K)
           d == setDate(c.date, getDate(c.date) + arrowStep(K))
<1>1. c.date \in DateTime /\ c.date.day \in Int /\ getDate(c.date) \in Int
  BY GoodCalendar, GettersAreInt
<1>2. arrowStep(K) \in Int
  BY DEF Arrows, arrowStep
<1>3. d = onDay(c.date, n) /\ d \in DateTime
  <2> DEFINE k == getDate(c.date) + arrowStep(K)
  <2>1. k \in Int /\ c.date.day - getDate(c.date) + k = n
    BY <1>1, <1>2
  <2> HIDE DEF k, n
  <2>2. setDate(c.date, k) = [c.date EXCEPT !.day = c.date.day - getDate(c.date) + k]
        /\ setDate(c.date, k) \in DateTime
    BY <1>1, <2>1, SetDate
  <2>. QED
    BY <2>1, <2>2 DEF onDay, k
<1> HIDE DEF d
<1>4. moveDate(c, K) = setDateOf(c, d)
  BY DEF moveDate, d
<1>5. n \in Int
  BY <1>1, <1>2
<1> HIDE DEF n
<1>6. Good(setDateOf(c, d)) /\ Same(c, setDateOf(c, d)) /\ setDateOf(c, d).date = clampYear(c, d)
  BY <1>3, SetDateOf
<1>. QED
  BY <1>2, <1>3, <1>4, <1>5, <1>6 DEF n

\* An arrow key: whichever way it goes, the date moves by the step of the key
\* and is brought into the range of years.
LEMMA ArrowKey ==
    ASSUME NEW c, Good(c), ~c.isMultiple, c.currentDateEl # none, NEW K \in Arrows
    PROVE  LET r == arrowKey(c, K)
           IN  /\ Good(r.cal) /\ Same(c, r.cal)
               /\ r.cal.date = clampYear(c, onDay(c.date, c.date.day + arrowStep(K)))
<1> DEFINE f == c.firstDayOfWeek
           n == c.date.day + arrowStep(K)
           p == arrowCell(c.currentDateEl, K)
           moved == moveDate(c, K)
           r == arrowKey(c, K)
<1>1. f # undefined
  BY GoodCalendar
<1>2. /\ c.first \in Int /\ c.currentDateEl = c.date.day - c.first
      /\ \A q \in Cells : ~otherMonth(c, q) => Civil(dayOf(c, q)).year = Civil(c.date.day).year
  BY <1>1, CellsOfGrid
<1>3. /\ n \in Int /\ arrowStep(K) \in Int /\ Good(moved) /\ Same(c, moved)
      /\ moved.date = clampYear(c, onDay(c.date, n))
  BY MoveDate
<1>4. c.date \in DateTime /\ c.date.day \in Int /\ c.picker \in Pickers
  BY GoodCalendar
<1>5. dayOf(c, p) = n
  BY <1>2, <1>3, <1>4, SMT DEF dayOf, arrowCell
<1>6. FALSE \in BOOLEAN
  OBVIOUS
<1>7. ASSUME NEW x, Good(x), NEW q \in Cells, enabled(x, q)
      PROVE  /\ arrowTo(x, q, K).cal = clickDay(x, q, FALSE).cal
             /\ Good(clickDay(x, q, FALSE).cal) /\ Same(x, clickDay(x, q, FALSE).cal)
             /\ ~otherMonth(x, q) => clickDay(x, q, FALSE).cal.date = onDay(x.date, dayOf(x, q))
             /\ otherMonth(x, q) =>
                    clickDay(x, q, FALSE).cal.date = clampYear(x, onDay(x.date, dayOf(x, q)))
  <2>1. arrowTo(x, q, K) = clickDay(x, q, FALSE)
    BY <1>7 DEF arrowTo, cellClick, dayEl
  <2>. QED
    BY <1>6, <1>7, <2>1, ClickDay
<1> HIDE DEF n, p, moved
<1>8. CASE p \in Cells
  <2>1. r = arrowTo(c, p, K)
    BY <1>8 DEF arrowKey, p
  <2>2. CASE ~enabled(c, p)
    <3>1. r.cal = moved
      BY <2>1, <2>2 DEF arrowTo, Result, moved
    <3>. QED
      BY <1>3, <3>1 DEF n
  <2>3. CASE enabled(c, p) /\ otherMonth(c, p)
    <3>. QED
      BY <1>5, <1>7, <1>8, <2>1, <2>3 DEF n
  <2>4. CASE enabled(c, p) /\ ~otherMonth(c, p)
    <3>1. onDay(c.date, n) \in DateTime /\ onDay(c.date, n).day = n
      BY <1>3, <1>4, WithDay DEF onDay
    <3>2. getFullYear(onDay(c.date, n)) = getFullYear(c.date)
      BY <1>2, <1>5, <1>8, <2>4, <3>1 DEF getFullYear
    <3>3. clampYear(c, onDay(c.date, n)) = onDay(c.date, n)
      BY <1>4, <3>1, <3>2, ClampYear DEF Good, InYears
    <3>. QED
      BY <1>5, <1>7, <1>8, <2>1, <2>4, <3>3 DEF n
  <2>. QED
    BY <2>2, <2>3, <2>4
<1>9. CASE p \notin Cells
  <2> DEFINE q == moved.currentDateEl
  <2>1. r = arrowTo(moved, q, K)
    BY <1>9 DEF arrowKey, p, moved
  <2>2. moved.firstDayOfWeek # undefined /\ ~moved.isMultiple
    BY <1>1, <1>3 DEF Same
  <2>3. q \in Cells /\ enabled(moved, q) /\ ~otherMonth(moved, q) /\ dayOf(moved, q) = moved.date.day
    BY <1>3, <2>2, CellsOfGrid
  <2>4. onDay(moved.date, moved.date.day) = moved.date
    <3>1. moved.date \in DateTime
      BY <1>3, GoodCalendar
    <3>. QED
      BY <3>1 DEF onDay, DateTime
  <2> HIDE DEF q
  <2>5. Good(r.cal) /\ Same(moved, r.cal) /\ r.cal.date = moved.date
    BY <1>3, <1>7, <2>1, <2>3, <2>4
  <2>. QED
    BY <1>3, <2>5 DEF Same, n
<1>. QED
  BY <1>8, <1>9

\* The elements a press can be on, as the calendar is now.
Pressable(c, el) ==
    \/ \E p \in Cells : el = dayEl(p) /\ enabled(c, p)
    \/ \E n \in -2..2 : el = navEl(n)
    \/ \E n \in 0..2 : el = timeEl(n) /\ c.showsTime /\ (n = 2 => ~c.time24)
    \/ \E n \in WeekStarts : /\ el = fdowEl(n)
                             /\ n = undefined => c.firstDayOfWeek = undefined
    \/ el \in {closeEl, titleEl, helpEl}

\* What only the name of a weekday can change as well.
SameButWeek(c, r) ==
    /\ r.picker = c.picker /\ r.showsTime = c.showsTime /\ r.time24 = c.time24
    /\ r.isMultiple = c.isMultiple

\* A click with the mouse: the calendar still displays its date, and a date
\* that changed is handed to the select handler.
LEMMA CellClick ==
    ASSUME NEW c, Good(c), NEW el, Pressable(c, el), NEW shift \in BOOLEAN
    PROVE  LET r == cellClick(c, el, TRUE, shift)
           IN  /\ Good(r.cal) /\ SameButWeek(c, r.cal)
               /\ c.currentDateEl # none /\ r.cal.date # c.date => r.select = TRUE
<1> DEFINE r == cellClick(c, el, TRUE, shift)
           good == /\ Good(r.cal) /\ SameButWeek(c, r.cal)
                   /\ c.currentDateEl # none /\ r.cal.date # c.date => r.select = TRUE
<1>1. \A x : Same(c, x) => SameButWeek(c, x)
  BY DEF Same, SameButWeek
<1>2. TRUE \in BOOLEAN /\ FALSE \in BOOLEAN
  OBVIOUS
<1>3. ASSUME NEW p \in Cells, el = dayEl(p), enabled(c, p) PROVE good
  <2>1. r = clickDay(c, p, TRUE)
    BY <1>3 DEF cellClick, dayEl
  <2>2. /\ Good(r.cal) /\ Same(c, r.cal)
        /\ c.currentDateEl # none => r.select = TRUE
    <3> DEFINE ev == TRUE
               x == clickDay(c, p, ev)
    <3>1. ev \in BOOLEAN
      OBVIOUS
    <3> HIDE DEF ev
    <3>2. /\ Good(x.cal) /\ Same(c, x.cal)
          /\ c.currentDateEl # none => x.select = ev
      BY <1>3, <3>1, ClickDay
    <3>. QED
      BY <2>1, <3>2 DEF ev
  <2>. QED
    BY <1>1, <2>2
<1>4. ASSUME NEW n \in -2..2, el = navEl(n) PROVE good
  <2>1. r = clickNav(c, n, TRUE)
    BY <1>4 DEF cellClick, navEl
  <2>2. Good(r.cal) /\ Same(c, r.cal) /\ (r.cal.date # c.date => r.select = TRUE)
    BY <1>2, <2>1, ClickNav
  <2>. QED
    BY <1>1, <2>2
<1>5. ASSUME NEW n \in 0..2, el = timeEl(n), c.showsTime, n = 2 => ~c.time24 PROVE good
  <2>1. r = clickTime(c, n, shift)
    BY <1>5 DEF cellClick, timeEl
  <2>2. Good(r.cal) /\ Same(c, r.cal) /\ r.select = TRUE
    BY <1>5, <2>1, ClickTime
  <2>. QED
    BY <1>1, <2>2
<1>6. ASSUME NEW n \in WeekStarts, el = fdowEl(n), n = undefined => c.firstDayOfWeek = undefined
      PROVE  good
  <2> DEFINE c1 == [c EXCEPT !.dateClicked = FALSE]
             x == _init(c1, n, c1.date)
  <2>1. r.cal = x
    BY <1>6 DEF cellClick, fdowEl, setFirstDayOfWeek, Result
  <2>2. Good(c1) /\ Same(c, c1) /\ c1.date = c.date
    BY <1>2, ClickedIsGood
  <2> HIDE DEF c1
  <2>3. /\ c1 \in CalendarRecord /\ c1.date \in DateTime
        /\ n = undefined => c1.currentDateEl = none
        /\ ~c1.showsTime => c1.M = 0 /\ c1.AP = 0
        /\ clampYear(c1, c1.date) = c1.date
    BY <1>6, <2>2, GoodCalendar DEF Same
  <2>4. /\ Good(x) /\ x.date = clampYear(c1, c1.date)
        /\ x.picker = c1.picker /\ x.showsTime = c1.showsTime /\ x.time24 = c1.time24
        /\ x.isMultiple = c1.isMultiple
    BY <2>3, InitIsGood
  <2> HIDE DEF x, r
  <2>. QED
    BY <2>1, <2>2, <2>3, <2>4 DEF Same, SameButWeek
<1>7. ASSUME el \in {closeEl, titleEl, helpEl} PROVE good
  <2> DEFINE c1 == [c EXCEPT !.dateClicked = FALSE]
  <2>1. r.cal \in {c, c1}
    <3>1. r \in {Result(c, FALSE, TRUE), Result(c1, FALSE, FALSE)}
      <4>1. ASSUME el = closeEl PROVE r = Result(c, FALSE, TRUE)
        BY <4>1 DEF cellClick, closeEl
      <4>2. ASSUME el = titleEl PROVE r = Result(c1, FALSE, FALSE)
        BY <4>2 DEF cellClick, titleEl
      <4>3. ASSUME el = helpEl PROVE r = Result(c1, FALSE, FALSE)
        BY <4>3 DEF cellClick, helpEl
      <4>. QED
        BY <1>7, <4>1, <4>2, <4>3
    <3> HIDE DEF r, c1
    <3>. QED
      BY <3>1 DEF Result
  <2>2. Good(c1) /\ Same(c, c1) /\ c1.date = c.date
    BY <1>2, ClickedIsGood
  <2>3. Same(c, c)
    BY DEF Same
  <2> HIDE DEF c1, r
  <2>. QED
    BY <1>1, <2>1, <2>2, <2>3
<1>. QED
  BY <1>3, <1>4, <1>5, <1>6, <1>7 DEF Pressable

\* The keys.
LEMMA KeyEvent ==
    ASSUME NEW c, Good(c), NEW K \in Keys
    PROVE  Good(keyEvent(c, K).cal) /\ Same(c, keyEvent(c, K).cal)
<1> DEFINE r == keyEvent(c, K)
           good == Good(r.cal) /\ Same(c, r.cal)
<1>1. FALSE \in BOOLEAN /\ TRUE \in BOOLEAN /\ c.isMultiple \in BOOLEAN
  BY GoodCalendar DEF CalendarRecord
<1>2. Same(c, c)
  BY DEF Same
<1>3. ASSUME r.cal = c PROVE good
  BY <1>2, <1>3
<1>4. CASE c.isMultiple
  <2>1. r.cal = c
    BY <1>4 DEF keyEvent, Result
  <2>. QED
    BY <1>3, <2>1
<1>5. CASE ~c.isMultiple /\ K \in Arrows
  <2>1. r = arrowKey(c, K)
    BY <1>5 DEF keyEvent, Arrows
  <2>2. CASE c.currentDateEl = none
    <3>1. r.cal = c
      BY <2>1, <2>2 DEF arrowKey, Result
    <3>. QED
      BY <1>3, <3>1
  <2>3. CASE c.currentDateEl # none
    BY <1>5, <2>1, <2>3, ArrowKey
  <2>. QED
    BY <2>2, <2>3
<1>6. CASE ~c.isMultiple /\ K = "enter"
  <2>1. CASE c.currentDateEl = none
    <3>1. r.cal = c
      BY <1>6, <2>1 DEF keyEvent, Result, Arrows
    <3>. QED
      BY <1>3, <3>1
  <2>2. CASE c.currentDateEl # none
    <3>1. r = clickDay(c, c.currentDateEl, TRUE)
      BY <1>6, <2>2 DEF keyEvent, cellClick, dayEl, Arrows
    <3>2. c.currentDateEl \in Cells /\ enabled(c, c.currentDateEl)
      BY <1>6, <2>2, GoodCalendar, CellsOfGrid
    <3>. QED
      BY <1>1, <3>1, <3>2, ClickDay
  <2>. QED
    BY <2>1, <2>2
<1>7. ASSUME NEW n \in -2..2, r = clickNav(c, n, FALSE) PROVE good
  BY <1>1, <1>7, ClickNav
<1>8. CASE ~c.isMultiple /\ K = "space"
  <2>1. r = clickNav(c, 0, FALSE)
    BY <1>8 DEF keyEvent, cellClick, navEl, Arrows
  <2>2. 0 \in -2..2
    BY SMT
  <2>. QED
    BY <1>7, <2>1, <2>2, Zenon
<1>9. CASE ~c.isMultiple /\ K = "esc"
  <2>1. r.cal = c
    BY <1>9 DEF keyEvent, Result, Arrows
  <2>. QED
    BY <1>3, <2>1
<1>10. CASE ~c.isMultiple /\ K \in {"ctrl-left", "ctrl-right", "ctrl-up", "ctrl-down"}
  <2> DEFINE n == CASE K = "ctrl-left" -> -1 [] K = "ctrl-right" -> 1
                    [] K = "ctrl-up" -> -2 [] K = "ctrl-down" -> 2
  <2>1. r = clickNav(c, n, FALSE)
    BY <1>10 DEF keyEvent, cellClick, navEl, Arrows
  <2>2. n \in -2..2
    BY <1>10
  <2> HIDE DEF n
  <2>. QED
    BY <1>7, <2>1, <2>2
<1>. QED
  BY <1>1, <1>4, <1>5, <1>6, <1>8, <1>9, <1>10 DEF Keys

-----------------------------------------------------------------------------
(* The page: its fields, its calendar and the element that is pressed.         *)

\* The tables are those of the language files.
LEMMA TablesAreFiles ==
    ASSUME NEW l \in DOMAIN Tables
    PROVE  Tables[l] \in
        {calendar_af, calendar_al, calendar_bg, calendar_big5_utf8, calendar_big5,
         calendar_br, calendar_ca, calendar_cs_utf8, calendar_cs_win, calendar_da,
         calendar_de, calendar_du, calendar_el, calendar_en, calendar_es, calendar_fi,
         calendar_fr, calendar_he_utf8, calendar_hr_utf8, calendar_hr, calendar_hu,
         calendar_it, calendar_jp, calendar_ko_utf8, calendar_ko, calendar_lt_utf8,
         calendar_lt, calendar_lv, calendar_nl, calendar_no, calendar_pl_utf8,
         calendar_pl, calendar_pt, calendar_ro, calendar_ru, calendar_ru_win,
         calendar_si, calendar_sk, calendar_sp, calendar_sv, calendar_tr, calendar_zh,
         cn_utf8}
BY SMTT(60) DEF Tables

\* The first day of the week of every language file.
LEMMA FirstDayOfTables ==
    ASSUME NEW l \in DOMAIN Tables
    PROVE  Tables[l].FD \in WeekStarts
<1>1. Tables[l] \in
        {calendar_af, calendar_al, calendar_bg, calendar_big5_utf8, calendar_big5,
         calendar_br, calendar_ca, calendar_cs_utf8, calendar_cs_win, calendar_da,
         calendar_de, calendar_du, calendar_el, calendar_en, calendar_es, calendar_fi,
         calendar_fr, calendar_he_utf8, calendar_hr_utf8, calendar_hr, calendar_hu,
         calendar_it, calendar_jp, calendar_ko_utf8, calendar_ko, calendar_lt_utf8,
         calendar_lt, calendar_lv, calendar_nl, calendar_no, calendar_pl_utf8,
         calendar_pl, calendar_pt, calendar_ro, calendar_ru, calendar_ru_win,
         calendar_si, calendar_sk, calendar_sp, calendar_sv, calendar_tr, calendar_zh,
         cn_utf8}
  BY TablesAreFiles
<1>2. undefined \in WeekStarts /\ 0 \in WeekStarts /\ 1 \in WeekStarts
  BY DEF WeekStarts
<1>3. \A fd, w, mi, fm : tables(fd, w, mi, fm).FD = fd
  BY DEF tables
<1>4. \A x \in {calendar_af, calendar_al, calendar_bg, calendar_big5_utf8,
                 calendar_big5, calendar_br, calendar_ca, calendar_cs_utf8} : x.FD \in WeekStarts
  BY <1>2, <1>3 DEF calendar_af, calendar_al, calendar_bg, calendar_big5_utf8, calendar_big5,
     calendar_br, calendar_ca, calendar_cs_utf8
<1>5. \A x \in {calendar_cs_win, calendar_da, calendar_de, calendar_du, calendar_el,
                 calendar_en, calendar_es, calendar_fi} : x.FD \in WeekStarts
  BY <1>2, <1>3 DEF calendar_cs_win, calendar_da, calendar_de, calendar_du, calendar_el, calendar_en,
     calendar_es, calendar_fi
<1>6. \A x \in {calendar_fr, calendar_he_utf8, calendar_hr_utf8, calendar_hr,
                 calendar_hu, calendar_it, calendar_jp, calendar_ko_utf8} : x.FD \in WeekStarts
  BY <1>2, <1>3 DEF calendar_fr, calendar_he_utf8, calendar_hr_utf8, calendar_hr, calendar_hu,
     calendar_it, calendar_jp, calendar_ko_utf8
<1>7. \A x \in {calendar_ko, calendar_lt_utf8, calendar_lt, calendar_lv, calendar_nl,
                 calendar_no, calendar_pl_utf8, calendar_pl} : x.FD \in WeekStarts
  BY <1>2, <1>3 DEF calendar_ko, calendar_lt_utf8, calendar_lt, calendar_lv, calendar_nl, calendar_no,
     calendar_pl_utf8, calendar_pl
<1>8. \A x \in {calendar_pt, calendar_ro, calendar_ru, calendar_ru_win} : x.FD \in WeekStarts
  BY <1>2, <1>3 DEF calendar_pt, calendar_ro, calendar_ru, calendar_ru_win
<1>10. \A x \in {calendar_sp, calendar_sv} : x.FD \in WeekStarts
  BY <1>2, <1>3 DEF calendar_sp, calendar_sv
<1>11. calendar_si.FD \in WeekStarts
  BY <1>2, <1>3 DEF calendar_si
<1>12. calendar_sk.FD \in WeekStarts
  <2>1. \E fm : calendar_sk = tables(undefined, {}, NoWeekend, fm)
    BY Zenon DEF calendar_sk
  <2>2. PICK fm : calendar_sk = tables(undefined, {}, NoWeekend, fm)
    BY <2>1
  <2>. QED
    BY <2>2, <1>2, <1>3
<1>9. \A x \in {calendar_tr, calendar_zh, cn_utf8} : x.FD \in WeekStarts
  BY <1>2, <1>3 DEF calendar_tr, calendar_zh, cn_utf8
<1>. QED
  BY <1>1, <1>4, <1>5, <1>6, <1>7, <1>8, <1>9, <1>10, <1>11, <1>12

\* The trigger shows the picker's calendar at the date given, brought into the years
\* of the calendar: a new one, or the one that is used again, which knows the years of
\* the picker before.
LEMMA OpenedIsGood ==
    ASSUME NEW p \in Pickers, page.lang \in DOMAIN Tables, NEW d \in DateTime,
           cal # NoCalendar => Good(cal)
    PROVE  LET r == opened(p, d)
           IN  /\ Good(r) /\ r.picker = p
               /\ r.date = clampYear(r, IF reuses(p) THEN clampYear(cal, d) ELSE d)
<1> DEFINE r == opened(p, d)
<1>1. /\ Params[p].firstDay \in WeekStarts /\ Params[p].showsTime \in BOOLEAN
      /\ Params[p].time24 \in BOOLEAN /\ Params[p].multiple \in BOOLEAN
  <2>1. Params[p] \in Setup
    BY ParamsAssumption
  <2>. QED
    BY <2>1 DEF Setup, WeekStarts
<1>2. CASE ~reuses(p)
  <2> DEFINE c == newCalendar(p, page.lang)
             f == c.firstDayOfWeek
  <2>1. NoDate \in DateTime /\ NaN \in Int /\ none \in Cells \cup {none}
    BY DEF NoDate, DateTime, NaN, none
  <2>2. Tables[page.lang].FD \in WeekStarts
    BY FirstDayOfTables
  <2>3. /\ c \in CalendarRecord /\ c.picker = p /\ f \in WeekStarts
        /\ c.currentDateEl = none /\ c.M = 0 /\ c.AP = 0
    BY <1>1, <2>1, <2>2 DEF newCalendar, CalendarRecord
  <2>4. r = _init(c, f, d)
    BY <1>2 DEF opened, create
  <2> HIDE DEF c, f, r
  <2>5. Good(r) /\ r.picker = p /\ r.date = clampYear(c, d)
    BY <2>3, <2>4, InitIsGood
  <2>6. clampYear(c, d) = clampYear(r, d)
    BY <2>3, <2>5 DEF clampYear
  <2>. QED
    BY <1>2, <2>5, <2>6 DEF r
<1>3. CASE reuses(p)
  <2> DEFINE s == setDateOf(cal, d)
             m == setMultiple(s, p)
             c == [m EXCEPT !.picker = p]
  <2>1. Good(cal)
    BY <1>3 DEF reuses
  <2>2. Good(s) /\ s.date = clampYear(cal, d)
    BY <2>1, SetDateOf
  <2>3. r = refresh(c)
    BY <1>3 DEF opened
  <2> HIDE DEF s
  <2>4. /\ s \in CalendarRecord /\ s.date \in DateTime /\ s.firstDayOfWeek \in WeekStarts
        /\ s.firstDayOfWeek = undefined => s.currentDateEl = none
        /\ ~s.showsTime => s.M = 0 /\ s.AP = 0
    BY <2>2, GoodCalendar
  <2>5. /\ m \in CalendarRecord /\ m.date = s.date /\ m.firstDayOfWeek = s.firstDayOfWeek
        /\ m.currentDateEl = s.currentDateEl /\ m.showsTime = s.showsTime
        /\ m.M = s.M /\ m.AP = s.AP
    BY <2>4 DEF setMultiple, CalendarRecord
  <2> HIDE DEF m
  <2>6. /\ c \in CalendarRecord /\ c.date = m.date /\ c.firstDayOfWeek = m.firstDayOfWeek
        /\ c.currentDateEl = m.currentDateEl /\ c.showsTime = m.showsTime
        /\ c.M = m.M /\ c.AP = m.AP /\ c.picker = p
    BY <2>5 DEF CalendarRecord
  <2>7. r = _init(c, c.firstDayOfWeek, c.date)
    BY <2>3 DEF refresh
  <2> HIDE DEF c, r
  <2>8. Good(r) /\ r.picker = p /\ r.date = clampYear(c, c.date)
    BY <2>4, <2>5, <2>6, <2>7, InitIsGood
  <2>9. clampYear(c, c.date) = clampYear(r, c.date)
    BY <2>6, <2>8 DEF clampYear
  <2>. QED
    BY <1>3, <2>2, <2>5, <2>6, <2>8, <2>9 DEF r
<1>. QED
  BY <1>2, <1>3

\* There is a calendar when it is a good one.
LEMMA GoodIsCalendar == ASSUME NEW c, Good(c) PROVE c # NoCalendar
<1>1. DOMAIN c = {"picker", "firstDayOfWeek", "date", "first", "month", "currentDateEl",
                  "showsTime", "time24", "H", "M", "AP", "dateClicked", "isMultiple",
                  "multiple"}
  BY DEF Good, CalendarRecord
<1>2. DOMAIN NoCalendar = {"picker"}
  BY DEF NoCalendar
<1>. QED
  BY <1>1, <1>2

-----------------------------------------------------------------------------
(* The calendar and the callbacks                                              *)

\* The elements a press starts on: those of Pressable, a day cell also when a key
\* emptied it meanwhile.
Pressed(c, el) ==
    \/ \E p \in Cells : el = dayEl(p)
    \/ \E n \in -2..2 : el = navEl(n)
    \/ \E n \in 0..2 : el = timeEl(n) /\ c.showsTime /\ (n = 2 => ~c.time24)
    \/ \E n \in WeekStarts : /\ el = fdowEl(n)
                             /\ n = undefined => c.firstDayOfWeek = undefined
    \/ el \in {closeEl, titleEl, helpEl}

\* The calendar is good whenever there is one, and so is what its next callbacks
\* read: the pressed element, the timers, the years of the combo box, the fields.
CalendarInv ==
    /\ page \in Pages
    /\ fields \in [Pickers -> Seq(Int)]
    /\ cal # NoCalendar =>
        Good(cal) /\ cal.picker \in page.pickers /\ cal.date \in Date
    /\ shown => cal # NoCalendar
    /\ activeDiv # NoElement => cal # NoCalendar /\ Pressed(cal, activeDiv)
    /\ timeout \in {"", "months", "yearsFwd", "yearsBack"}
    /\ orphans \subseteq {"months", "yearsFwd", "yearsBack"}
    /\ combo \in {"", "months", "years"} /\ comboYears \subseteq Years
    /\ shown \in BOOLEAN

\* A pressed element is known by its name.
LEMMA NamesOfElements ==
    ASSUME NEW c, NEW el, Pressed(c, el)
    PROVE  /\ el[1] \in {"day", "nav", "time", "fdow", "close", "title", "help"}
           /\ el # NoElement /\ el # Elsewhere
           /\ el[1] = "day" => el[2] \in Cells
           /\ el[1] = "time" => \E n \in 0..2 : /\ el = timeEl(n) /\ el[2] = n
                                                /\ c.showsTime /\ (n = 2 => ~c.time24)
<1>1. CASE \E p \in Cells : el = dayEl(p)
  BY <1>1 DEF dayEl, NoElement, Elsewhere
<1>2. CASE \E n \in -2..2 : el = navEl(n)
  BY <1>2 DEF navEl, NoElement, Elsewhere
<1>3. CASE \E n \in 0..2 : el = timeEl(n) /\ c.showsTime /\ (n = 2 => ~c.time24)
  BY <1>3 DEF timeEl, NoElement, Elsewhere
<1>4. CASE \E n \in WeekStarts : el = fdowEl(n)
  BY <1>4 DEF fdowEl, NoElement, Elsewhere
<1>5. CASE el \in {closeEl, titleEl, helpEl}
  BY <1>5 DEF closeEl, titleEl, helpEl, NoElement, Elsewhere
<1>. QED
  BY <1>1, <1>2, <1>3, <1>4, <1>5 DEF Pressed

\* The elements a press starts on are elements of the calendar that can be pressed.
LEMMA PressedElements ==
    ASSUME Good(cal), NEW el \in Elements
    PROVE  Pressed(cal, el)
<1>1. cal.picker \in Pickers /\ cal.firstDayOfWeek \in WeekStarts
  BY GoodCalendar
<1>2. FirstDays[cal.picker] \subseteq 0..6
  BY <1>1, PopupAssumption
<1>3. \A n \in 0..6 : n \in WeekStarts /\ n # undefined
  BY DEF WeekStarts, undefined
<1>4. undefined \in WeekStarts
  BY DEF WeekStarts
<1>5. CASE \E n : /\ el = fdowEl(n)
                  /\ n \in IF cal.firstDayOfWeek = undefined THEN {undefined}
                           ELSE FirstDays[cal.picker] \ {cal.firstDayOfWeek}
  BY <1>2, <1>3, <1>4, <1>5 DEF Pressed
<1>6. CASE cal.showsTime /\ \E n \in IF cal.time24 THEN {0, 1} ELSE 0..2 : el = timeEl(n)
  BY <1>6 DEF Pressed
<1>7. CASE \E p \in Cells : el = dayEl(p)
  BY <1>7 DEF Pressed
<1>8. CASE \E n \in -2..2 : el = navEl(n)
  BY <1>8 DEF Pressed
<1>9. CASE el \in {closeEl, titleEl, helpEl}
  BY <1>9 DEF Pressed
<1>. QED
  BY <1>5, <1>6, <1>7, <1>8, <1>9, Zenon DEF Elements

\* A callback that keeps the calendar's parameters keeps its pressed element.
LEMMA SamePressed ==
    ASSUME NEW c, NEW r, Same(c, r), NEW el, Pressed(c, el)
    PROVE  Pressed(r, el)
BY DEF Same, Pressed

\* What is chosen from a combo box is shown, brought into the range of years, and the
\* field is told when that changes the date.
LEMMA Chosen ==
    ASSUME Good(cal), NEW d \in DateTime
    PROVE  LET r == chosen(d)
           IN  /\ Good(r.cal) /\ Same(cal, r.cal)
               /\ r.cal.date # cal.date => r.select = TRUE
<1> DEFINE r == chosen(d)
<1>1. CASE equalsTo(d, cal.date)
  <2>1. r = Result(cal, FALSE, FALSE)
    BY <1>1 DEF chosen
  <2>. QED
    BY <2>1 DEF Result, Same
<1>2. CASE ~equalsTo(d, cal.date)
  <2> DEFINE s == setDateOf(cal, d)
             t == [s EXCEPT !.dateClicked = FALSE]
  <2>1. r = Result(t, TRUE, FALSE)
    BY <1>2 DEF chosen
  <2>2. Good(s) /\ Same(cal, s)
    BY SetDateOf
  <2> HIDE DEF s
  <2>3. FALSE \in BOOLEAN
    OBVIOUS
  <2>4. Good(t) /\ Same(s, t)
    BY <2>2, <2>3, ClickedIsGood
  <2> HIDE DEF t
  <2>. QED
    BY <2>1, <2>2, <2>4 DEF Result, Same
<1>. QED
  BY <1>1, <1>2

\* The release of the button, wherever it happens.
LEMMA Released ==
    ASSUME CalendarInv, activeDiv # NoElement, NEW target \in Targets, NEW shift \in BOOLEAN
    PROVE  LET r == released(target, shift)
           IN  /\ Good(r.cal) /\ SameButWeek(cal, r.cal)
               /\ cal.currentDateEl # none /\ r.cal.date # cal.date => r.select = TRUE
<1> DEFINE r == released(target, shift)
<1>1. /\ cal # NoCalendar /\ Good(cal) /\ Pressed(cal, activeDiv) /\ comboYears \subseteq Years
      /\ cal.date \in DateTime
  BY GoodCalendar DEF CalendarInv
<1>2. /\ activeDiv[1] \in {"day", "nav", "time", "fdow", "close", "title", "help"}
      /\ activeDiv # Elsewhere /\ (activeDiv[1] = "day" => activeDiv[2] \in Cells)
  BY <1>1, NamesOfElements
<1>3. Same(cal, cal)
  BY DEF Same
<1>4. \A x : Same(cal, x) => SameButWeek(cal, x)
  BY DEF Same, SameButWeek
<1>5. CASE target = activeDiv
  <2>1. target \in IF shown /\ ~Emptied THEN {activeDiv} ELSE {}
    <3>1. target # Elsewhere
      BY <1>2, <1>5
    <3>2. \A m : target # <<"month", m>>
      BY <1>2, <1>5
    <3>3. \A y : target # <<"year", y>>
      BY <1>2, <1>5
    <3>. QED
      BY <3>1, <3>2, <3>3, Zenon DEF Targets
  <2>2. ~Emptied
    BY <2>1
  <2>3. Pressable(cal, target)
    <3>1. CASE \E p \in Cells : activeDiv = dayEl(p)
      <4>1. PICK p \in Cells : activeDiv = dayEl(p)
        BY <3>1
      <4>2. activeDiv[1] = "day" /\ activeDiv[2] = p
        BY <4>1 DEF dayEl
      <4>3. enabled(cal, p)
        BY <2>2, <4>2 DEF Emptied
      <4>. QED
        BY <1>5, <4>1, <4>3 DEF Pressable
    <3>2. CASE ~\E p \in Cells : activeDiv = dayEl(p)
      BY <1>1, <1>5, <3>2 DEF Pressed, Pressable
    <3>. QED
      BY <3>1, <3>2
  <2>4. r = cellClick(cal, target, TRUE, shift)
    BY <1>2, <1>5 DEF released
  <2>. QED
    BY <1>1, <2>3, <2>4, CellClick
<1>6. CASE target # activeDiv /\ \E m \in Months : target = <<"month", m>>
  <2>1. PICK m \in Months : target = <<"month", m>>
    BY <1>6
  <2>2. target[1] = "month" /\ target[2] = m /\ m \in Int
    BY <2>1, SMT DEF Months
  <2>3. r = chosen(monthChosen(m))
    BY <1>6, <2>2 DEF released
  <2>4. monthChosen(m) \in DateTime
    BY <1>1, <2>2, SetMonth DEF monthChosen
  <2>. QED
    BY <1>1, <1>4, <2>3, <2>4, Chosen
<1>7. CASE target # activeDiv /\ \E y \in comboYears : target = <<"year", y>>
  <2>1. PICK y \in comboYears : target = <<"year", y>>
    BY <1>7
  <2>2. target[1] = "year" /\ target[2] = y
    BY <2>1
  <2>3. y \in Int
    BY <1>1, SMT DEF Years
  <2>4. r = chosen(yearChosen(y))
    BY <1>7, <2>2 DEF released
  <2>5. yearChosen(y) \in DateTime
    BY <1>1, <2>3, SetFullYear DEF yearChosen
  <2>. QED
    BY <1>1, <1>4, <2>4, <2>5, Chosen
<1>8. CASE target # activeDiv /\ target = Elsewhere
  <2>1. target[1] = "elsewhere"
    BY <1>8 DEF Elsewhere
  <2>2. r = Result(cal, FALSE, FALSE)
    BY <1>8, <2>1 DEF released
  <2>. QED
    BY <1>1, <1>3, <1>4, <2>2 DEF Result
<1>9. \/ target = activeDiv \/ target = Elsewhere
      \/ (\E m \in Months : target = <<"month", m>>)
      \/ (\E y \in comboYears : target = <<"year", y>>)
  BY Zenon DEF Targets
<1>. QED
  BY <1>5, <1>6, <1>7, <1>8, <1>9

\* The calendar is only taken to numbered days.
LEMMA InBounds ==
    ASSUME Good(cal'), Bounded
    PROVE  cal'.date \in Date
<1>1. cal' # NoCalendar
  BY GoodIsCalendar
<1>2. cal'.picker \in Pickers /\ cal'.date \in DateTime
  BY GoodCalendar
<1>3. Days[cal'.picker] \subseteq Day /\ Times[cal'.picker] \subseteq (0..23) \X (0..59)
  BY <1>2, PopupAssumption
<1>4. cal'.date.day \in Days[cal'.picker]
      /\ <<cal'.date.hours, cal'.date.minutes>> \in Times[cal'.picker]
  BY <1>1 DEF Bounded
<1>5. cal'.date.day \in Day /\ cal'.date.hours \in 0..23 /\ cal'.date.minutes \in 0..59
  BY <1>3, <1>4
<1>. QED
  BY <1>2, <1>5 DEF Date, DateTime

\* The handlers leave a good calendar and fields that are texts.
LEMMA Delivered ==
    ASSUME CalendarInv, cal # NoCalendar, NEW r, deliver(r), Good(r.cal),
           r.cal.picker = cal.picker, Bounded
    PROVE  /\ cal' = r.cal /\ cal' # NoCalendar
           /\ Good(cal') /\ cal'.picker \in page.pickers /\ cal'.date \in Date
           /\ fields' \in [Pickers -> Seq(Int)]
           /\ shown' \in BOOLEAN
<1>1. cal' = r.cal /\ Good(cal') /\ cal'.picker \in page.pickers
  BY DEF deliver, CalendarInv
<1>2. cal' # NoCalendar /\ cal'.date \in Date
  BY <1>1, GoodIsCalendar, InBounds
<1>3. fields' \in [Pickers -> Seq(Int)]
  <2>1. r.cal.picker \in Pickers /\ r.cal.date \in DateTime
    BY GoodCalendar
  <2>2. Params[r.cal.picker].ifFormat \in Seq(Word)
    BY <2>1, ParamsAssumption DEF Setup
  <2>3. print(r.cal.date, Params[r.cal.picker].ifFormat) \in Seq(Int)
    BY <2>1, <2>2, PrintIsText
  <2>4. fields \in [Pickers -> Seq(Int)]
    BY DEF CalendarInv
  <2>5. CASE r.select
    <3> DEFINE text == print(r.cal.date, Params[r.cal.picker].ifFormat)
    <3>1. fields' = [fields EXCEPT ![r.cal.picker] = text] \/ fields' = fields
      BY <2>5 DEF deliver, onSelect
    <3>2. text \in Seq(Int)
      BY <2>3
    <3> HIDE DEF text
    <3>. QED
      BY <2>4, <3>1, <3>2
  <2>6. CASE ~r.select
    BY <2>4, <2>6 DEF deliver
  <2>. QED
    BY <2>5, <2>6
<1>4. shown' \in BOOLEAN
  BY DEF deliver, hide, CalendarInv
<1>. QED
  BY <1>1, <1>2, <1>3, <1>4

\* The page is loaded without a calendar.
LEMMA CalendarInit == Init => CalendarInv
<1>1. SUFFICES ASSUME Init PROVE CalendarInv
  OBVIOUS
<1>2. Texts \subseteq [Pickers -> Seq(Int)]
  BY PopupAssumption
<1>3. fields \in [Pickers -> Seq(Int)]
  <2>1. fields \in Texts
    BY <1>1, Zenon DEF Init
  <2>. QED
    BY <1>2, <2>1
<1>4. /\ page \in Pages /\ cal = NoCalendar /\ shown = FALSE /\ activeDiv = NoElement
      /\ timeout = "" /\ orphans = {} /\ combo = "" /\ comboYears = {}
  BY <1>1, Zenon DEF Init
<1>. QED
  BY <1>3, <1>4 DEF CalendarInv

\* A trigger shows the calendar of its picker at a date in range.
LEMMA TriggerKeepsCalendar ==
    ASSUME CalendarInv, NEW p \in page.pickers, trigger(p), Bounded
    PROVE  CalendarInv'
<1>1. /\ page \in Pages /\ page.lang \in DOMAIN Tables /\ p \in Pickers
      /\ fields \in [Pickers -> Seq(Int)]
      /\ cal # NoCalendar => Good(cal)
  BY PopupAssumption DEF CalendarInv
<1> DEFINE date == parseDate(fields[p], Params[p].ifFormat)
<1>2. date \in DateTime
  <2>1. fields[p] \in Seq(Int)
    BY <1>1
  <2>. QED
    BY <2>1, ParseDate
<1>3. cal' = opened(p, date)
  BY DEF trigger
<1> HIDE DEF date
<1>4. Good(cal') /\ cal'.picker = p
  BY <1>1, <1>2, <1>3, OpenedIsGood
<1>5. cal' # NoCalendar /\ cal'.date \in Date
  BY <1>4, GoodIsCalendar, InBounds
<1>6. /\ activeDiv' = NoElement /\ shown' = TRUE
      /\ UNCHANGED <<page, fields, timeout, orphans, combo, comboYears>>
  BY DEF trigger, show, combos
<1>. QED
  BY <1>4, <1>5, <1>6 DEF CalendarInv

\* A press on an element that is there marks it.
LEMMA PressKeepsCalendar ==
    ASSUME CalendarInv, cal # NoCalendar, NEW el, dayMouseDown(el)
    PROVE  CalendarInv'
<1>1. Good(cal) /\ el \in Elements
  BY DEF CalendarInv, dayMouseDown
<1>2. Pressed(cal, el)
  BY <1>1, PressedElements
<1>3. /\ activeDiv' = el /\ cal' = cal /\ shown' = shown /\ fields' = fields
      /\ timeout' = comboOf(el)
      /\ orphans' \in {orphans, orphans \cup ({timeout} \ {""})}
      /\ UNCHANGED <<page, combo, comboYears>>
  BY DEF dayMouseDown, popup
<1>4. comboOf(el) \in {"", "months", "yearsFwd", "yearsBack"}
  BY Zenon DEF comboOf
<1>5. orphans' \subseteq {"months", "yearsFwd", "yearsBack"}
  BY <1>3 DEF CalendarInv
<1>. QED
  BY <1>2, <1>3, <1>4, <1>5 DEF CalendarInv

\* A drag over a part of the time changes that part, and the field with it.
LEMMA DragKeepsCalendar ==
    ASSUME CalendarInv, cal # NoCalendar, NEW v, dragTime(v), Bounded
    PROVE  CalendarInv'
<1>1. activeDiv[1] = "time" /\ activeDiv # NoElement
  BY DEF dragTime, NoElement
<1>2. Good(cal) /\ Pressed(cal, activeDiv)
  BY <1>1 DEF CalendarInv
<1>3. PICK n \in 0..2 : /\ activeDiv = timeEl(n) /\ activeDiv[2] = n
                        /\ cal.showsTime /\ (n = 2 => ~cal.time24)
  BY <1>1, <1>2, NamesOfElements
<1> DEFINE r == onUpdateTime(setTimePart(cal, n, v))
<1>4. v \in timeRange(cal, n) /\ deliver(r)
  BY <1>3 DEF dragTime
<1>5. Good(r.cal) /\ Same(cal, r.cal)
  BY <1>2, <1>3, <1>4, UpdateTime
<1> HIDE DEF r
<1>6. r.cal.picker = cal.picker
  BY <1>5 DEF Same
<1>7. /\ cal' = r.cal /\ cal' # NoCalendar
      /\ Good(cal') /\ cal'.picker \in page.pickers /\ cal'.date \in Date
      /\ fields' \in [Pickers -> Seq(Int)] /\ shown' \in BOOLEAN
  BY <1>4, <1>5, <1>6, Delivered
<1>8. Pressed(cal', activeDiv)
  BY <1>2, <1>5, <1>7, SamePressed
<1>9. UNCHANGED <<page, activeDiv, timeout, orphans, combo, comboYears>>
  BY DEF dragTime, mouse, combos
<1>. QED
  BY <1>7, <1>8, <1>9 DEF CalendarInv

\* A key moves the date, clicks the title or closes the popup.
LEMMA KeyKeepsCalendar ==
    ASSUME CalendarInv, MouseInv, NEW K \in Keys, key(K), Bounded
    PROVE  CalendarInv'
<1>1. shown
  BY DEF key, MouseInv
<1>2. cal # NoCalendar /\ Good(cal)
  BY <1>1 DEF CalendarInv
<1> DEFINE r == keyEvent(cal, K)
<1>3. deliver(r)
  BY DEF key
<1>4. Good(r.cal) /\ Same(cal, r.cal)
  BY <1>2, KeyEvent
<1> HIDE DEF r
<1>5. r.cal.picker = cal.picker
  BY <1>4 DEF Same
<1>6. /\ cal' = r.cal /\ cal' # NoCalendar
      /\ Good(cal') /\ cal'.picker \in page.pickers /\ cal'.date \in Date
      /\ fields' \in [Pickers -> Seq(Int)] /\ shown' \in BOOLEAN
  BY <1>2, <1>3, <1>4, <1>5, Delivered
<1>7. activeDiv # NoElement => Pressed(cal', activeDiv)
  BY <1>4, <1>6, SamePressed DEF CalendarInv
<1>8. UNCHANGED <<page, activeDiv, timeout, orphans, combo, comboYears>>
  BY DEF key, mouse, combos
<1>. QED
  BY <1>6, <1>7, <1>8 DEF CalendarInv

\* A release clicks the pressed element, or chooses a month or a year.
LEMMA ReleaseKeepsCalendar ==
    ASSUME CalendarInv, NEW target, NEW shift \in BOOLEAN, mouseUp(target, shift), Bounded
    PROVE  CalendarInv'
<1>1. activeDiv # NoElement /\ target \in Targets /\ cal # NoCalendar
  BY DEF mouseUp, CalendarInv
<1> DEFINE r == released(target, shift)
<1>2. deliver(r)
  BY DEF mouseUp
<1>3. Good(r.cal) /\ SameButWeek(cal, r.cal)
  BY <1>1, Released
<1> HIDE DEF r
<1>4. r.cal.picker = cal.picker
  BY <1>3 DEF SameButWeek
<1>5. /\ cal' = r.cal /\ cal' # NoCalendar
      /\ Good(cal') /\ cal'.picker \in page.pickers /\ cal'.date \in Date
      /\ fields' \in [Pickers -> Seq(Int)] /\ shown' \in BOOLEAN
  BY <1>1, <1>2, <1>3, <1>4, Delivered
<1>6. /\ activeDiv' = NoElement /\ timeout' = "" /\ combo' = "" /\ comboYears' = {}
      /\ UNCHANGED <<page, orphans>>
  BY DEF mouseUp, tableMouseUp
<1>. QED
  BY <1>5, <1>6 DEF CalendarInv

\* A timer opens a combo box, or moves its years by one.
LEMMA TimerKeepsCalendar ==
    ASSUME CalendarInv, NEW t, timerFires(t)
    PROVE  CalendarInv'
<1>1. cal # NoCalendar /\ Good(cal)
  BY DEF timerFires, CalendarInv
<1>2. UNCHANGED <<page, cal, shown, fields, activeDiv>>
  BY DEF timerFires, popup, mouse
<1>3. /\ timeout' \in {"", "months", "yearsFwd", "yearsBack"}
      /\ orphans' \subseteq {"months", "yearsFwd", "yearsBack"}
  BY DEF timerFires, CalendarInv
<1>4. combo' \in {"", "months", "years"} /\ comboYears' \subseteq Years
  <2>. DEFINE years == yearsFrom(t = "yearsFwd")
  <2>1. cal.picker \in Pickers
    BY <1>1, GoodCalendar
  <2>2. years \subseteq Years
    <3>1. \A y \in Params[cal.picker].minYear..Params[cal.picker].maxYear : y \in Years
      <4>1. /\ Params[cal.picker].minYear \in Int /\ Params[cal.picker].maxYear \in Int
            /\ \A y \in Int :
                  Params[cal.picker].minYear <= y /\ y <= Params[cal.picker].maxYear
                    => y \in Years
        BY <2>1, YearsOfPicker
      <4>. QED
        BY <4>1
    <3>2. years \subseteq Params[cal.picker].minYear..Params[cal.picker].maxYear
      BY Zenon DEF yearsFrom
    <3>. QED
      BY <3>1, <3>2
  <2>3. \/ UNCHANGED <<combo, comboYears>>
        \/ combo' = "months" /\ UNCHANGED comboYears
        \/ combo' = "years" /\ comboYears' = years
    BY Zenon DEF timerFires, showCombo
  <2> HIDE DEF years
  <2>. QED
    BY <2>2, <2>3 DEF CalendarInv
<1>. QED
  BY <1>2, <1>3, <1>4 DEF CalendarInv

\* Every callback keeps the calendar's invariant.
LEMMA CalendarStep ==
    ASSUME CalendarInv, MouseInv, [Next]_vars
    PROVE  CalendarInv'
<1>1. CASE UNCHANGED vars
  BY <1>1 DEF CalendarInv, vars
<1>2. ASSUME Step, Bounded PROVE CalendarInv'
  <2>1. ASSUME NEW p \in page.pickers, trigger(p) PROVE CalendarInv'
    BY <1>2, <2>1, TriggerKeepsCalendar
  <2>2. ASSUME NEW p \in page.pickers, triggerFails(p) PROVE CalendarInv'
    BY <1>1, <2>2 DEF triggerFails
  <2>3. ASSUME cal # NoCalendar, Mouse PROVE CalendarInv'
    <3>1. ASSUME NEW el \in Elements, dayMouseDown(el) PROVE CalendarInv'
      BY <2>3, <3>1, PressKeepsCalendar
    <3>2. CASE mouseDownOutside
      BY <3>2 DEF mouseDownOutside, hide, mouse, combos, CalendarInv
    <3>3. CASE mouseDownElsewhere \/ mouseUpOutside \/ mouseUpLost
      <4>1. UNCHANGED <<page, cal, fields, shown, activeDiv, timeout, orphans, combo,
                        comboYears>>
        BY <3>3 DEF mouseDownElsewhere, mouseUpOutside, mouseUpLost, popup, mouse, combos
      <4>. QED
        BY <4>1 DEF CalendarInv
    <3>4. ASSUME NEW v, dragTime(v) PROVE CalendarInv'
      BY <1>2, <2>3, <3>4, DragKeepsCalendar
    <3>5. ASSUME NEW target \in Targets, NEW shift \in BOOLEAN, mouseUp(target, shift)
          PROVE  CalendarInv'
      BY <1>2, <3>5, ReleaseKeepsCalendar
    <3>. QED
      BY <2>3, <3>1, <3>2, <3>3, <3>4, <3>5, Zenon DEF Mouse
  <2>4. ASSUME NEW t, timerFires(t) PROVE CalendarInv'
    BY <2>4, TimerKeepsCalendar
  <2>5. ASSUME NEW K \in Keys, key(K) PROVE CalendarInv'
    BY <1>2, <2>5, KeyKeepsCalendar
  <2>. QED
    BY <1>2, <2>1, <2>2, <2>3, <2>4, <2>5, Zenon DEF Step
<1>. QED
  BY <1>1, <1>2 DEF Next

\* The inductive invariant of the page.
PopupInv == MouseInv /\ CalendarInv

\* Whatever the callbacks and their order, the mouse state is consistent, the calendar
\* displays its date and what the next callback reads is still there.
THEOREM PopupInvariant == Spec => []PopupInv
<1>1. Init => PopupInv
  BY MouseInit, CalendarInit DEF PopupInv
<1>2. PopupInv /\ [Next]_vars => PopupInv'
  BY MouseStep, CalendarStep DEF PopupInv
<1>. QED
  BY <1>1, <1>2, PTL DEF Spec

\* The time of a date, in the parts of 24 or of 12 hours, is within their ranges.
LEMMA TimeInRange ==
    ASSUME NEW c, Good(c), c.date \in Date
    PROVE  /\ c.showsTime => c.H \in timeRange(c, 0)
           /\ c.M \in 0..59 /\ c.AP \in 0..1
<1>1. c.date.hours \in 0..23 /\ c.date.minutes \in 0..59
  BY DEF Date
<1>2. hour12(c.date.hours) \in 1..12
  BY <1>1, SMT DEF hour12
<1>3. timeRange(c, 0) = IF c.time24 THEN 0..23 ELSE 1..12
  BY DEF timeRange
<1>4. c.M \in 0..59 /\ c.AP \in 0..1
  BY <1>1 DEF Good, TimeFollows
<1>5. c.showsTime => c.H = IF c.time24 THEN c.date.hours ELSE hour12(c.date.hours)
  BY DEF Good, TimeFollows
<1>. QED
  BY <1>1, <1>2, <1>3, <1>4, <1>5

\* The popup's state has its types: the calendar is one of the page's pickers at a date
\* of numbered days, with its parts in their ranges.
THEOREM TypeOKAlways == Spec => []TypeOK
<1>1. PopupInv => TypeOK
  <2>1. SUFFICES ASSUME MouseInv, CalendarInv PROVE TypeOK
    BY DEF PopupInv
  <2>2. ASSUME cal # NoCalendar
        PROVE  /\ cal.picker \in page.pickers /\ cal.date \in Date
               /\ cal.firstDayOfWeek \in 0..6 \cup {undefined}
               /\ cal.currentDateEl \in Cells \cup {none}
               /\ cal.showsTime => cal.H \in timeRange(cal, 0)
               /\ cal.M \in 0..59 /\ cal.AP \in 0..1
    <3>1. Good(cal) /\ cal.picker \in page.pickers /\ cal.date \in Date
      BY <2>1, <2>2 DEF CalendarInv
    <3>2. cal.firstDayOfWeek \in 0..6 \cup {undefined}
          /\ cal.currentDateEl \in Cells \cup {none}
      BY <3>1 DEF Good, CalendarRecord, WeekStarts
    <3>. QED
      BY <3>1, <3>2, TimeInRange
  <2>3. docListeners \subseteq DocListeners
    BY <2>1 DEF MouseInv
  <2>. QED
    BY <2>1, <2>2, <2>3, Zenon DEF TypeOK, Opened, MouseInv, CalendarInv
<1>. QED
  BY <1>1, PopupInvariant, PTL

\* The date stays within the years of its picker, wherever it comes from.
THEOREM YearInRangeAlways == Spec => []YearInRange
<1>1. PopupInv => YearInRange
  BY DEF PopupInv, CalendarInv, YearInRange, Opened, Good, InYears
<1>. QED
  BY <1>1, PopupInvariant, PTL

\* A cell of the grid is under the name of its weekday.
LEMMA Weekdays ==
    ASSUME NEW n \in Int, NEW first \in Int, NEW f \in 0..6, first % 7 = f
    PROVE  (((n - first) % 7) + f) % 7 = n % 7
<1> DEFINE q == first \div 7
           k == (n - first) \div 7
           e == (n - first) % 7
<1>1. q \in Int /\ k \in Int /\ e \in 0..6 /\ first = 7 * q + f /\ n - first = 7 * k + e
  BY SMT
<1> HIDE DEF q, k, e
<1>2. n = 7 * (q + k) + (e + f) /\ e + f \in Int
  BY <1>1, SMT
<1>. QED
  BY <1>1, <1>2, SMT DEF e

\* The grid has an enabled cell for every day of the date's month, under the name of
\* its weekday.
LEMMA MonthInGrid ==
    ASSUME NEW c, Good(c), c.firstDayOfWeek # undefined, NEW n \in DaysOfMonth(c.date)
    PROVE  LET p == n - c.first
           IN  /\ p \in Cells /\ enabled(c, p) /\ ~otherMonth(c, p)
               /\ ((p % 7) + c.firstDayOfWeek) % 7 = n % 7
<1> DEFINE p == n - c.first
           f == c.firstDayOfWeek
           start == MonthStart(c.date.day)
<1>1. /\ c.date \in DateTime /\ c.date.day \in Int /\ f \in 0..6
      /\ c.first = firstCell(c.date, f) /\ c.first \in Int /\ c.first # NaN
      /\ c.month = getMonth(c.date)
  BY CellsOfGrid, GoodCalendar DEF Good, GridFollows
<1>2. start - 6 <= c.first /\ c.first <= start /\ c.first % 7 = f
  BY <1>1, FirstCell
<1>3. /\ DayNumber(getFullYear(c.date), getMonth(c.date), 1) = start
      /\ DayNumber(getFullYear(c.date), getMonth(c.date) + 1, 1)
            = start + MonthOf(c.date.day)
  BY <1>1, NextMonthStart DEF getFullYear, getMonth
<1>4. start \in Int /\ MonthOf(c.date.day) \in 28..31
  BY <1>1, SameMonth
<1>5. n \in Int /\ start <= n /\ n < start + MonthOf(c.date.day)
  BY <1>3, <1>4 DEF DaysOfMonth
<1>6. Civil(n).month = Civil(c.date.day).month
  BY <1>1, <1>5, SameMonth
<1> HIDE DEF start
<1>7. p \in Cells /\ c.first + p = n /\ p \in Int
  BY <1>1, <1>2, <1>4, <1>5, SMT DEF Cells
<1>8. ((p % 7) + f) % 7 = n % 7
  BY <1>1, <1>2, <1>5, Weekdays
<1> HIDE DEF p
<1>9. ~otherMonth(c, p)
  BY <1>1, <1>6, <1>7 DEF otherMonth, dayOf, getMonth
<1>10. enabled(c, p)
  BY <1>1, <1>9 DEF enabled
<1>. QED
  BY <1>7, <1>8, <1>9, <1>10 DEF p

\* What the calendar displays is its date: its month has a cell for every day under the
\* name of its weekday, the current cell is the date's, and the parts of the time read
\* as the date's time.
THEOREM DisplaysDateAlways == Spec => []DisplaysDate
<1>1. PopupInv => DisplaysDate
  <2>1. SUFFICES ASSUME CalendarInv PROVE DisplaysDate
    BY DEF PopupInv
  <2>2. ASSUME GridIsSet, NEW n \in DaysOfMonth(cal.date)
        PROVE  LET p == n - cal.first
               IN  /\ p \in Cells /\ enabled(cal, p) /\ ~otherMonth(cal, p)
                   /\ ((p % 7) + cal.firstDayOfWeek) % 7 = n % 7
    <3>1. Good(cal) /\ cal.firstDayOfWeek # undefined
      BY <2>1, <2>2 DEF GridIsSet, Opened, CalendarInv
    <3>. QED
      BY <2>2, <3>1, MonthInGrid
  <2>3. ASSUME GridIsSet, ~cal.isMultiple
        PROVE  dayOf(cal, cal.currentDateEl) = cal.date.day
    <3>1. Good(cal) /\ cal.firstDayOfWeek # undefined
      BY <2>1, <2>3 DEF GridIsSet, Opened, CalendarInv
    <3>. QED
      BY <2>3, <3>1, CellsOfGrid
  <2>4. ASSUME Opened, cal.showsTime
        PROVE  /\ cal.M = cal.date.minutes
               /\ cal.date.hours = IF cal.time24 THEN cal.H ELSE hours24(cal.H, cal.AP)
    <3>1. Good(cal) /\ cal.date.hours \in 0..23
      BY <2>1, <2>4 DEF Opened, CalendarInv, Date
    <3>2. /\ cal.M = cal.date.minutes
          /\ cal.H = IF cal.time24 THEN cal.date.hours ELSE hour12(cal.date.hours)
          /\ ~cal.time24 => cal.AP = IF cal.date.hours >= 12 THEN 1 ELSE 0
      BY <2>4, <3>1 DEF Good, TimeFollows
    <3>3. \A h \in 0..23 : hours24(hour12(h), IF h >= 12 THEN 1 ELSE 0) = h
      BY SMT DEF hours24, hour12
    <3>. QED
      BY <3>1, <3>2, <3>3
  <2>. QED
    BY <2>2, <2>3, <2>4, Zenon DEF DisplaysDate
<1>. QED
  BY <1>1, PopupInvariant, PTL

\* Monday to Sunday have one Thursday, so one week.
LEMMA OneThursday ==
    ASSUME NEW n \in Int, n % 7 = 1, NEW j \in 0..6
    PROVE  Thursday(n + j) = Thursday(n)
<1> DEFINE q == n \div 7
<1>1. q \in Int /\ n = 7 * q + 1
  BY SMT
<1> HIDE DEF q
<1>2. n + j + 6 = 7 * (q + 1) + j /\ n + 6 = 7 * (q + 1)
  BY <1>1, SMT
<1>3. (n + j + 6) % 7 = j /\ (n + 6) % 7 = 0
  BY <1>1, <1>2, SMT
<1>. QED
  BY <1>3, SMT DEF Thursday

\* The number in front of a row is the number of the ISO week of its days: of all of
\* them when the week starts on Monday, of the first one otherwise.
THEOREM WeekNumbersISOAlways == Spec => []WeekNumbersISO
<1>1. PopupInv => WeekNumbersISO
  <2>1. SUFFICES ASSUME CalendarInv, GridIsSet, NEW i \in 0..5,
                        NEW j \in 0..(IF cal.firstDayOfWeek = 1 THEN 6 ELSE 0)
                 PROVE  ISOWeek(dayOf(cal, 7 * i + j)) = weekNumber(cal, i)
    BY DEF PopupInv, WeekNumbersISO
  <2> DEFINE n == dayOf(cal, 7 * i)
             d == [cal.date EXCEPT !.day = n]
  <2>2. Good(cal) /\ cal.firstDayOfWeek # undefined
    BY <2>1 DEF GridIsSet, Opened, CalendarInv
  <2>3. /\ cal.first \in Int /\ cal.firstDayOfWeek \in 0..6 /\ cal.date \in DateTime
        /\ cal.first % 7 = cal.firstDayOfWeek
    BY <2>2, CellsOfGrid, GoodCalendar, FirstCell
  <2>4. n = cal.first + 7 * i /\ n \in Int /\ n % 7 = cal.firstDayOfWeek
        /\ dayOf(cal, 7 * i + j) = n + j
    BY <2>3, SMT DEF dayOf
  <2> HIDE DEF n
  <2>5. d \in DateTime /\ d.day = n
    BY <2>3, <2>4, WithDay
  <2>6. weekNumber(cal, i) = getWeekNumber(d)
    BY DEF weekNumber, n
  <2> HIDE DEF d
  <2>7. getWeekNumber(d) = ISOWeek(n)
    BY <2>5, WeekNumber DEF ISOWeek, Thursday
  <2>8. j \in 0..6 /\ (cal.firstDayOfWeek # 1 => j = 0)
    BY <2>1
  <2>9. Thursday(n + j) = Thursday(n)
    <3>1. CASE cal.firstDayOfWeek = 1
      BY <2>4, <2>8, <3>1, OneThursday
    <3>2. CASE cal.firstDayOfWeek # 1
      BY <2>4, <2>8, <3>2
    <3>. QED
      BY <3>1, <3>2
  <2>. QED
    BY <2>4, <2>6, <2>7, <2>9 DEF ISOWeek
<1>. QED
  BY <1>1, PopupInvariant, PTL

-----------------------------------------------------------------------------
(* What a step does to the date and to the fields                              *)

\* A handler that is called with an electric picker or a chosen date leaves the
\* calendar's date in its field.
LEMMA FieldFollows ==
    ASSUME CalendarInv, NEW r, deliver(r), r.select = TRUE, updates(r.cal),
           Good(r.cal), r.cal.picker = cal.picker
    PROVE  fields'[cal.picker] = print(cal'.date, Params[cal.picker].ifFormat)
<1> DEFINE p == cal.picker
           text == print(r.cal.date, Params[p].ifFormat)
<1>1. p \in Pickers
  BY GoodCalendar
<1>2. fields \in [Pickers -> Seq(Int)]
  BY DEF CalendarInv
<1>3. cal' = r.cal /\ fields' = [fields EXCEPT ![p] = text]
  BY DEF deliver, onSelect
<1> HIDE DEF p
<1>4. fields'[p] = text
  BY <1>1, <1>2, <1>3
<1>. QED
  BY <1>3, <1>4 DEF p

\* A release on a pressed cell or button is its click.
LEMMA ReleasedOnPressed ==
    ASSUME CalendarInv, activeDiv # NoElement, NEW shift, activeDiv \in Targets
    PROVE  /\ cal # NoCalendar /\ Good(cal) /\ ~Emptied
           /\ released(activeDiv, shift) = cellClick(cal, activeDiv, TRUE, shift)
<1>1. cal # NoCalendar /\ Good(cal) /\ Pressed(cal, activeDiv)
  BY DEF CalendarInv
<1>2. /\ activeDiv[1] \in {"day", "nav", "time", "fdow", "close", "title", "help"}
      /\ activeDiv # Elsewhere
  BY <1>1, NamesOfElements
<1>3. released(activeDiv, shift) = cellClick(cal, activeDiv, TRUE, shift)
  BY <1>2 DEF released
<1>4. activeDiv \in IF shown /\ ~Emptied THEN {activeDiv} ELSE {}
  <2>1. \A m : activeDiv # <<"month", m>>
    BY <1>2
  <2>2. \A y : activeDiv # <<"year", y>>
    BY <1>2
  <2>. QED
    BY <1>2, <2>1, <2>2, Zenon DEF Targets
<1>5. ~Emptied
  BY <1>4
<1>. QED
  BY <1>1, <1>3, <1>5

\* In electric mode every change of the date by the mouse is in the field when its
\* callback ends: days, months, years and times, clicked, dragged or chosen.
THEOREM ElectricFollowsMouseAlways == Spec => ElectricFollowsMouse
<1>1. PopupInv /\ [Next]_vars =>
        [/\ Opened /\ cal'.date # cal.date
         /\ shown /\ shown' /\ Params[cal.picker].electric
         /\ cal.currentDateEl # none
         /\ ~(\E K \in Keys : key(K))
         => fields'[cal.picker] = print(cal'.date, Params[cal.picker].ifFormat)]_vars
  <2>1. SUFFICES ASSUME MouseInv, CalendarInv, Next, Opened, cal'.date # cal.date,
                        shown, Params[cal.picker].electric, cal.currentDateEl # none,
                        ~(\E K \in Keys : key(K))
                 PROVE  fields'[cal.picker]
                            = print(cal'.date, Params[cal.picker].ifFormat)
    BY Zenon DEF PopupInv
  <2>2. cal' # cal
    BY <2>1
  <2>3. Good(cal) /\ cal # NoCalendar
    BY <2>1 DEF CalendarInv, Opened
  <2>4. ASSUME NEW v, dragTime(v)
        PROVE  fields'[cal.picker] = print(cal'.date, Params[cal.picker].ifFormat)
    <3>1. activeDiv[1] = "time" /\ activeDiv # NoElement
      BY <2>4 DEF dragTime, NoElement
    <3>2. Pressed(cal, activeDiv)
      BY <2>1, <3>1 DEF CalendarInv
    <3>3. PICK n \in 0..2 : /\ activeDiv = timeEl(n) /\ activeDiv[2] = n
                            /\ cal.showsTime /\ (n = 2 => ~cal.time24)
      BY <3>1, <3>2, NamesOfElements
    <3> DEFINE r == onUpdateTime(setTimePart(cal, n, v))
    <3>4. v \in timeRange(cal, n) /\ deliver(r)
      BY <2>4, <3>3 DEF dragTime
    <3>5. Good(r.cal) /\ Same(cal, r.cal) /\ r.select = TRUE
      BY <2>3, <3>3, <3>4, UpdateTime
    <3> HIDE DEF r
    <3>6. r.cal.picker = cal.picker /\ updates(r.cal)
      BY <2>1, <3>5 DEF Same, updates
    <3>. QED
      BY <2>1, <3>4, <3>5, <3>6, FieldFollows
  <2>5. ASSUME NEW target \in Targets, NEW shift \in BOOLEAN, mouseUp(target, shift)
        PROVE  fields'[cal.picker] = print(cal'.date, Params[cal.picker].ifFormat)
    <3> DEFINE r == released(target, shift)
    <3>1. deliver(r) /\ activeDiv # NoElement
      BY <2>5 DEF mouseUp
    <3>2. Good(r.cal) /\ SameButWeek(cal, r.cal) /\ (r.cal.date # cal.date => r.select = TRUE)
      BY <2>1, <2>5, <3>1, Released
    <3> HIDE DEF r
    <3>3. r.cal.picker = cal.picker /\ updates(r.cal)
      BY <2>1, <3>2 DEF SameButWeek, updates
    <3>4. cal' = r.cal
      BY <3>1 DEF deliver
    <3>. QED
      BY <2>1, <3>1, <3>2, <3>3, <3>4, FieldFollows
  <2>6. ASSUME NEW p, trigger(p) PROVE FALSE
    BY <2>1, <2>6 DEF trigger
  <2>7. ASSUME NEW p, triggerFails(p) PROVE FALSE
    BY <2>1, <2>7 DEF triggerFails
  <2>8. ASSUME NEW el, dayMouseDown(el) PROVE FALSE
    BY <2>2, <2>8 DEF dayMouseDown, popup
  <2>9. ASSUME mouseDownOutside \/ mouseDownElsewhere \/ mouseUpOutside \/ mouseUpLost
        PROVE  FALSE
    BY <2>2, <2>9 DEF mouseDownOutside, mouseDownElsewhere, mouseUpOutside, mouseUpLost, popup
  <2>10. ASSUME NEW t, timerFires(t) PROVE FALSE
    BY <2>2, <2>10 DEF timerFires, popup
  <2>11. CASE Mouse
    BY <2>4, <2>5, <2>8, <2>9, <2>11, Zenon DEF Mouse
  <2>12. Step
    BY <2>1 DEF Next
  <2>. QED
    BY <2>1, <2>6, <2>7, <2>10, <2>11, <2>12, Zenon DEF Step
<1>. QED
  BY <1>1, PopupInvariant, PTL DEF Spec, ElectricFollowsMouse

\* A popup opens at the date in its own field, with the parameters of its own picker,
\* when the pickers that can share a calendar have one range of years.
THEOREM OpensAtFieldAlways ==
    ASSUME OneRangeOfYears
    PROVE  Spec => OpensAtField
<1>1. PopupInv /\ PopupInv' /\ [Next]_vars =>
        [\A p \in Pickers : trigger(p) =>
            /\ cal'.picker = p
            /\ cal'.date = clampYear(cal', parseDate(fields[p], Params[p].ifFormat))
            /\ fields' = fields]_vars
  <2>1. SUFFICES ASSUME CalendarInv, CalendarInv', NEW p \in Pickers, trigger(p), Next
                 PROVE  /\ cal'.picker = p
                        /\ cal'.date
                             = clampYear(cal', parseDate(fields[p], Params[p].ifFormat))
                        /\ fields' = fields
    BY Zenon DEF PopupInv
  <2> DEFINE d == parseDate(fields[p], Params[p].ifFormat)
  <2>2. /\ page.lang \in DOMAIN Tables /\ (cal # NoCalendar => Good(cal))
        /\ page \in Pages /\ fields[p] \in Seq(Int)
    BY <2>1, PopupAssumption DEF CalendarInv
  <2>3. d \in DateTime
    BY <2>2, ParseDate
  <2>4. cal' = opened(p, d) /\ fields' = fields /\ page' = page
    BY <2>1 DEF trigger
  <2> HIDE DEF d
  <2>5. /\ Good(cal') /\ cal'.picker = p
        /\ cal'.date = clampYear(cal', IF reuses(p) THEN clampYear(cal, d) ELSE d)
    BY <2>2, <2>3, <2>4, OpenedIsGood
  <2>6. CASE ~reuses(p)
    BY <2>4, <2>5, <2>6 DEF d
  <2>7. CASE reuses(p)
    <3>1. cal # NoCalendar /\ cal.picker \in page.pickers /\ cal.picker \in Pickers
      BY <2>1, <2>2, <2>7, GoodCalendar DEF reuses, CalendarInv
    <3>2. p \in page.pickers
      <4>1. cal' # NoCalendar
        BY <2>5, GoodIsCalendar
      <4>2. cal'.picker \in page'.pickers
        BY <2>1, <4>1 DEF CalendarInv
      <4>. QED
        BY <2>4, <2>5, <4>2
    <3>3. /\ Params[cal.picker].minYear = Params[p].minYear
          /\ Params[cal.picker].maxYear = Params[p].maxYear
      BY <2>2, <3>1, <3>2 DEF OneRangeOfYears
    <3>4. clampYear(cal', clampYear(cal, d)) = clampYear(cal, d)
      <4> DEFINE e == clampYear(cal, d)
      <4>1. e \in DateTime /\ Params[p].minYear <= getFullYear(e)
            /\ getFullYear(e) <= Params[p].maxYear
        BY <2>3, <3>1, <3>3, ClampYear
      <4> HIDE DEF e
      <4>2. clampYear(cal', e) = e
        BY <2>5, <4>1, ClampYear
      <4>. QED
        BY <4>2 DEF e
    <3>5. clampYear(cal', d) = clampYear(cal, d)
      BY <2>5, <3>3 DEF clampYear
    <3>. QED
      BY <2>4, <2>5, <2>7, <3>4, <3>5 DEF d
  <2>. QED
    BY <2>6, <2>7
<1>. QED
  BY <1>1, PopupInvariant, PTL DEF Spec, OpensAtField

\* A press of an arrow key moves the date by a day or a week, over every boundary.
THEOREM ArrowsMoveOneStepAlways == Spec => ArrowsMoveOneStep
<1>1. PopupInv /\ [Next]_vars =>
        [\A K \in Arrows :
            key(K) /\ ~cal.isMultiple /\ cal.currentDateEl # none =>
            LET n == cal.date.day + arrowStep(K)
            IN  cal'.date = IF InRange(n) THEN [cal.date EXCEPT !.day = n]
                            ELSE clampYear(cal, [cal.date EXCEPT !.day = n])]_vars
  <2>1. SUFFICES ASSUME MouseInv, CalendarInv, NEW K \in Arrows, key(K),
                        ~cal.isMultiple, cal.currentDateEl # none
                 PROVE  LET n == cal.date.day + arrowStep(K)
                        IN  cal'.date = IF InRange(n) THEN [cal.date EXCEPT !.day = n]
                                        ELSE clampYear(cal, [cal.date EXCEPT !.day = n])
    BY Zenon DEF PopupInv
  <2> DEFINE n == cal.date.day + arrowStep(K)
             date == onDay(cal.date, n)
  <2>2. shown
    BY <2>1 DEF key, MouseInv
  <2>3. Good(cal)
    BY <2>1, <2>2 DEF CalendarInv
  <2>4. cal' = keyEvent(cal, K).cal
    BY <2>1 DEF key, deliver
  <2>5. keyEvent(cal, K) = arrowKey(cal, K)
    BY <2>1 DEF keyEvent, Arrows
  <2>6. cal'.date = clampYear(cal, date)
    BY <2>1, <2>3, <2>4, <2>5, ArrowKey
  <2>7. cal.picker \in Pickers /\ cal.date \in DateTime /\ n \in Int
    BY <2>3, GoodCalendar, MoveDate
  <2> HIDE DEF n
  <2>8. date \in DateTime /\ getFullYear(date) = Civil(n).year
    BY <2>7, WithDay DEF onDay, getFullYear
  <2>9. InRange(n) => clampYear(cal, date) = date
    <3>1. Params[cal.picker].minYear \in Int /\ Params[cal.picker].maxYear \in Int
          /\ Civil(n).year \in Int
      BY <2>7, <2>8, YearsOfPicker, GettersAreInt
    <3>2. InRange(n) => /\ Params[cal.picker].minYear <= getFullYear(date)
                        /\ getFullYear(date) <= Params[cal.picker].maxYear
      BY <2>8, <3>1 DEF InRange
    <3>. QED
      BY <2>7, <2>8, <3>2, ClampYear
  <2>. QED
    BY <2>6, <2>9 DEF n, onDay
<1>. QED
  BY <1>1, PopupInvariant, PTL DEF Spec, ArrowsMoveOneStep

\* A day chosen with the mouse or with Enter is the one in the field when the handlers
\* are done, with the time unchanged, and a single-click popup is closed.
THEOREM PickReachesFieldAlways == Spec => PickReachesField
<1>1. PopupInv /\ [Next]_vars =>
        [\A p \in Cells :
          /\ \/ activeDiv = dayEl(p) /\ mouseUp(dayEl(p), FALSE)
             \/ Opened /\ cal.currentDateEl = p /\ ~cal.isMultiple /\ key("enter")
          /\ cal.currentDateEl # none /\ ~otherMonth(cal, p)
          =>
          LET P == Params[cal.picker]
              date == [cal.date EXCEPT !.day = dayOf(cal, p)]
          IN  /\ cal'.date = date
              /\ fields'[cal.picker] = print(date, P.ifFormat)
              /\ P.singleClick => ~shown']_vars
  <2>1. SUFFICES ASSUME CalendarInv, NEW p \in Cells,
                        \/ activeDiv = dayEl(p) /\ mouseUp(dayEl(p), FALSE)
                        \/ /\ Opened /\ cal.currentDateEl = p /\ ~cal.isMultiple
                           /\ key("enter"),
                        cal.currentDateEl # none, ~otherMonth(cal, p)
                 PROVE  LET P == Params[cal.picker]
                            date == [cal.date EXCEPT !.day = dayOf(cal, p)]
                        IN  /\ cal'.date = date
                            /\ fields'[cal.picker] = print(date, P.ifFormat)
                            /\ P.singleClick => ~shown'
    BY Zenon DEF PopupInv
  <2> DEFINE r == clickDay(cal, p, TRUE)
             date == onDay(cal.date, dayOf(cal, p))
  <2>2. Good(cal) /\ enabled(cal, p) /\ deliver(r)
    <3>1. CASE activeDiv = dayEl(p) /\ mouseUp(dayEl(p), FALSE)
      <4>1. activeDiv # NoElement /\ activeDiv \in Targets /\ deliver(released(activeDiv, FALSE))
        BY <3>1 DEF mouseUp
      <4>2. /\ Good(cal) /\ ~Emptied
            /\ released(activeDiv, FALSE) = cellClick(cal, activeDiv, TRUE, FALSE)
        BY <2>1, <4>1, ReleasedOnPressed
      <4>3. activeDiv[1] = "day" /\ activeDiv[2] = p
        BY <3>1 DEF dayEl
      <4>4. enabled(cal, p)
        BY <4>2, <4>3 DEF Emptied
      <4>5. cellClick(cal, activeDiv, TRUE, FALSE) = r
        BY <4>3 DEF cellClick
      <4>. QED
        BY <4>1, <4>2, <4>4, <4>5
    <3>2. CASE Opened /\ cal.currentDateEl = p /\ ~cal.isMultiple /\ key("enter")
      <4>1. Good(cal)
        BY <2>1, <3>2 DEF CalendarInv, Opened
      <4>2. enabled(cal, p)
        BY <2>1, <3>2, <4>1, GoodCalendar, CellsOfGrid
      <4>3. keyEvent(cal, "enter") = r
        BY <2>1, <3>2 DEF keyEvent, cellClick, dayEl, Arrows
      <4>4. deliver(keyEvent(cal, "enter"))
        BY <3>2 DEF key
      <4>. QED
        BY <4>1, <4>2, <4>3, <4>4
    <3>. QED
      BY <2>1, <3>1, <3>2
  <2>3. TRUE \in BOOLEAN
    OBVIOUS
  <2>4. /\ Good(r.cal) /\ Same(cal, r.cal) /\ r.cal.date = date
        /\ r.select = TRUE /\ r.cal.dateClicked = TRUE
    BY <2>1, <2>2, <2>3, ClickDay
  <2> HIDE DEF r
  <2>5. updates(r.cal) /\ r.cal.picker = cal.picker
    BY <2>4 DEF updates, Same
  <2>6. cal'.date = date
    BY <2>2, <2>4 DEF deliver
  <2>7. fields'[cal.picker] = print(date, Params[cal.picker].ifFormat)
    BY <2>1, <2>2, <2>4, <2>5, <2>6, FieldFollows
  <2>8. Params[cal.picker].singleClick => ~shown'
    BY <2>2, <2>4, <2>5 DEF deliver, closes, hide
  <2>. QED
    BY <2>6, <2>7, <2>8 DEF onDay
<1>. QED
  BY <1>1, PopupInvariant, PTL DEF Spec, PickReachesField

\* What a navigation button leads to: the same day of the month so many months later or
\* earlier, or the last one of a shorter month, and nowhere outside the years.
LEMMA Navigation ==
    ASSUME NEW c, Good(c), NEW n \in {-2, -1, 1, 2}
    PROVE  LET to == 12 * getFullYear(c.date) + getMonth(c.date) + months(n)
               first == DayNumber(to \div 12, to % 12, 1)
               length == DayNumber(to \div 12, (to % 12) + 1, 1) - first
               date == getDate(c.date)
           IN  clampYear(c, navDate(c, n)) =
                 IF Civil(first).year \in Params[c.picker].minYear..Params[c.picker].maxYear
                 THEN onDay(c.date, first - 1 + (IF date > length THEN length ELSE date))
                 ELSE c.date
<1> DEFINE to == 12 * getFullYear(c.date) + getMonth(c.date) + months(n)
           y == to \div 12
           m == to % 12
           first == DayNumber(y, m, 1)
           length == DayNumber(y, m + 1, 1) - first
           date == getDate(c.date)
           min == Params[c.picker].minYear
           max == Params[c.picker].maxYear
           d == navDate(c, n)
           k == Least(date, MonthLength(y, m))
<1>1. /\ c.picker \in Pickers /\ c.date \in DateTime /\ clampYear(c, c.date) = c.date
      /\ min \in Int /\ max \in Int /\ date \in Int
  BY GoodCalendar, YearsOfPicker, GettersAreInt
<1>2. /\ d \in DateTime /\ d.hours = c.date.hours /\ d.minutes = c.date.minutes
      /\ y \in Int /\ m \in 0..11
      /\ IF min <= y /\ y <= max
         THEN Civil(d.day) = [year |-> y, month |-> m, date |-> k]
         ELSE d = c.date
  BY NavDate
<1> HIDE DEF to, y, m, d, min, max
<1>3. /\ first \in Int /\ Civil(first) = [year |-> y, month |-> m, date |-> 1]
      /\ length = MonthLength(y, m)
      /\ \A x \in Int : DayNumber(y, m, x) = first - 1 + x
  BY <1>2, MonthByDays
<1>4. k = IF date > length THEN length ELSE date
  <2>1. MonthLength(y, m) \in 28..31
    BY <1>2, DaysOfYear
  <2>2. MonthLength(y, m) \in Int
    BY <2>1, SMT
  <2>. QED
    BY <1>1, <1>3, <2>2 DEF Least
<1> HIDE DEF first, length, k, date
<1>5. Civil(first).year \in min..max <=> min <= y /\ y <= max
  BY <1>1, <1>2, <1>3
<1>6. CASE min <= y /\ y <= max
  <2>1. getFullYear(d) = y /\ getMonth(d) = m /\ getDate(d) = k
    BY <1>2, <1>6 DEF getFullYear, getMonth, getDate
  <2>2. DayNumber(y, m, k) = d.day /\ k \in Int
    BY <1>2, <2>1, Getters, GettersAreInt
  <2>3. d.day = first - 1 + k
    BY <1>3, <2>2
  <2>4. d = onDay(c.date, first - 1 + k)
    BY <1>1, <1>2, <2>3 DEF onDay, DateTime
  <2>5. clampYear(c, d) = d
    BY <1>1, <1>2, <1>6, <2>1, ClampYear DEF min, max
  <2>. QED
    BY <1>4, <1>5, <1>6, <2>4, <2>5 DEF first, length, date, d, y, m, to, min, max
<1>7. CASE ~(min <= y /\ y <= max)
  BY <1>1, <1>2, <1>5, <1>7 DEF first, d, y, m, to, min, max
<1>. QED
  BY <1>6, <1>7

\* The buttons and the ctrl keys for month and year move by exactly one month or year.
THEOREM NavigationKeepsDayAlways == Spec => NavigationKeepsDay
<1>1. PopupInv /\ [Next]_vars =>
        [\A n \in {-2, -1, 1, 2} :
          \/ activeDiv = navEl(n) /\ mouseUp(navEl(n), FALSE)
          \/ key(CASE n = -1 -> "ctrl-left" [] n = 1 -> "ctrl-right"
                   [] n = -2 -> "ctrl-up" [] n = 2 -> "ctrl-down")
             /\ ~cal.isMultiple
          =>
          LET step == CASE n = -2 -> -12 [] n = 2 -> 12 [] OTHER -> n
              to == MonthIndex(cal.date) + step
              first == DayNumber(to \div 12, to % 12, 1)
              length == DayNumber(to \div 12, (to % 12) + 1, 1) - first
              date == getDate(cal.date)
          IN  IF InRange(first)
              THEN cal'.date = [cal.date EXCEPT !.day =
                        first - 1 + (IF date > length THEN length ELSE date)]
              ELSE cal'.date = cal.date]_vars
  <2> DEFINE name(n) == CASE n = -1 -> "ctrl-left" [] n = 1 -> "ctrl-right"
                          [] n = -2 -> "ctrl-up" [] n = 2 -> "ctrl-down"
             moves(n) == LET to == MonthIndex(cal.date) + months(n)
                             first == DayNumber(to \div 12, to % 12, 1)
                             length == DayNumber(to \div 12, (to % 12) + 1, 1) - first
                             date == getDate(cal.date)
                         IN  IF InRange(first)
                             THEN cal'.date = onDay(cal.date,
                                    first - 1 + (IF date > length THEN length ELSE date))
                             ELSE cal'.date = cal.date
  <2>1. ASSUME MouseInv, CalendarInv, NEW n \in {-2, -1, 1, 2},
               \/ activeDiv = navEl(n) /\ mouseUp(navEl(n), FALSE)
               \/ key(name(n)) /\ ~cal.isMultiple
        PROVE  moves(n)
    <3>1. n \in -2..2 /\ TRUE \in BOOLEAN /\ FALSE \in BOOLEAN
      BY <2>1, SMT
    <3>2. PICK ev \in BOOLEAN : Good(cal) /\ cal' = clickNav(cal, n, ev).cal
      <4>1. CASE activeDiv = navEl(n) /\ mouseUp(navEl(n), FALSE)
        <5>1. /\ activeDiv # NoElement /\ activeDiv \in Targets
              /\ cal' = released(activeDiv, FALSE).cal
          BY <4>1 DEF mouseUp, deliver
        <5>2. Good(cal) /\ released(activeDiv, FALSE) = cellClick(cal, activeDiv, TRUE, FALSE)
          BY <2>1, <5>1, ReleasedOnPressed
        <5>3. cellClick(cal, activeDiv, TRUE, FALSE) = clickNav(cal, n, TRUE)
          BY <4>1 DEF cellClick, navEl
        <5>. QED
          BY <3>1, <5>1, <5>2, <5>3
      <4>2. CASE key(name(n)) /\ ~cal.isMultiple
        <5>1. Good(cal)
          BY <2>1, <4>2 DEF key, MouseInv, CalendarInv
        <5>2. cal' = keyEvent(cal, name(n)).cal
          BY <4>2 DEF key, deliver
        <5>3. keyEvent(cal, name(n)) = clickNav(cal, n, FALSE)
          <6> DEFINE K == name(n)
          <6>1. \/ n = -1 /\ K = "ctrl-left"
                \/ n = 1 /\ K = "ctrl-right"
                \/ n = -2 /\ K = "ctrl-up"
                \/ n = 2 /\ K = "ctrl-down"
            BY <2>1
          <6> HIDE DEF K
          <6>2. keyEvent(cal, K) = cellClick(cal, navEl(n), FALSE, FALSE)
            BY <4>2, <6>1 DEF keyEvent, Arrows
          <6>3. cellClick(cal, navEl(n), FALSE, FALSE) = clickNav(cal, n, FALSE)
            BY DEF cellClick, navEl
          <6>. QED
            BY <6>2, <6>3 DEF K
        <5>. QED
          BY <3>1, <5>1, <5>2, <5>3
      <4>. QED
        BY <2>1, <4>1, <4>2
    <3>3. cal'.date = clampYear(cal, navDate(cal, n))
      BY <3>1, <3>2, ClickNav
    <3>. QED
      BY <2>1, <3>2, <3>3, Navigation DEF InRange, MonthIndex
  <2>. QED
    BY <2>1, Zenon DEF PopupInv, months, onDay
<1>. QED
  BY <1>1, PopupInvariant, PTL DEF Spec, NavigationKeepsDay

\* The default formats of the language files: two orders of day, month and year, one
\* of them with years of two digits, and formats without directives or without a day.
NoFormat == <<>>
YearFirst == <<"%Y", "%m", "%d">>
DayFirst == <<"%d", "%m", "%Y">>
ShortYear == <<"%d", "%m", "%y">>
Words == <<"word", "word", "word">>

\* A format of three words.
LEMMA ThreeWords ==
    ASSUME NEW S, NEW a \in S, NEW b \in S, NEW c \in S
    PROVE  <<a, b, c>> \in Seq(S) /\ Len(<<a, b, c>>) = 3
OBVIOUS

\* The words of a format of four words.
LEMMA FourWords ==
    ASSUME NEW a, NEW b, NEW c, NEW d
    PROVE  \A i \in DOMAIN <<a, b, c, d>> : <<a, b, c, d>>[i] \in {a, b, c, d}
OBVIOUS

\* The default format of every language file.
LEMMA FormatOfTables ==
    ASSUME NEW fmt \in Formats
    PROVE  \/ fmt \in {YearFirst, DayFirst, ShortYear}
           \/ ~Names(fmt, {"%d", "%e"})
<1> DEFINE Known(x) == \/ x.format \in {YearFirst, DayFirst, ShortYear}
                       \/ ~Names(x.format, {"%d", "%e"})
<1>1. PICK l \in DOMAIN Tables : fmt = Tables[l].format
  BY DEF Formats
<1>2. \A fd, w, mi, f : tables(fd, w, mi, f).format = f
  BY DEF tables
<1>3. ~Names(NoFormat, {"%d", "%e"}) /\ ~Names(Words, {"%d", "%e"})
  BY DEF Names, NoFormat, Words
<1>4. \A x \in {calendar_af} : x.format = NoFormat
  BY <1>2 DEF calendar_af, NoFormat
<1>5. \A x \in {calendar_al, calendar_bg, calendar_big5_utf8, calendar_big5, calendar_ca, calendar_en, calendar_he_utf8, calendar_hu} : x.format = YearFirst
  BY <1>2 DEF calendar_al, calendar_bg, calendar_big5_utf8, calendar_big5, calendar_ca, calendar_en, calendar_he_utf8, calendar_hu, YearFirst
<1>6. \A x \in {calendar_br, calendar_da, calendar_de, calendar_es, calendar_fi, calendar_fr, calendar_it} : x.format = DayFirst
  BY <1>2 DEF calendar_br, calendar_da, calendar_de, calendar_es, calendar_fi, calendar_fr, calendar_it, DayFirst
<1>7. \A x \in {calendar_cs_utf8, calendar_cs_win, calendar_du, calendar_el, calendar_hr_utf8, calendar_hr, calendar_jp, calendar_tr} : x.format = Words
  BY <1>2 DEF calendar_cs_utf8, calendar_cs_win, calendar_du, calendar_el, calendar_hr_utf8, calendar_hr, calendar_jp, calendar_tr, Words
<1>8. \A x \in {calendar_ko_utf8, calendar_ko, calendar_lt_utf8, calendar_lt, calendar_pl_utf8, calendar_pl} : x.format = YearFirst
  BY <1>2 DEF calendar_ko_utf8, calendar_ko, calendar_lt_utf8, calendar_lt, calendar_pl_utf8, calendar_pl, YearFirst
<1>9. \A x \in {calendar_ru, calendar_ru_win, calendar_si, calendar_sv, calendar_zh, cn_utf8} : x.format = YearFirst
  BY <1>2 DEF calendar_ru, calendar_ru_win, calendar_si, calendar_sv, calendar_zh, cn_utf8, YearFirst
<1>10. \A x \in {calendar_lv, calendar_nl, calendar_no, calendar_pt, calendar_ro} : x.format = DayFirst
  BY <1>2 DEF calendar_lv, calendar_nl, calendar_no, calendar_pt, calendar_ro, DayFirst
<1>11. calendar_sp.format = ShortYear
  BY <1>2 DEF calendar_sp, ShortYear
<1>12. ~Names(calendar_sk.format, {"%d", "%e"})
  <2> DEFINE f == <<"", "word", "%m", "%Y">>
  <2>1. \A i \in DOMAIN f : f[i] \in {"", "word", "%m", "%Y"}
    BY FourWords, Zenon
  <2>2. \A i \in DOMAIN f : f[i] \notin {"%d", "%e"}
    <3> HIDE DEF f
    <3>1. \A w \in {"", "word", "%m", "%Y"} : w \notin {"%d", "%e"}
      BY Zenon
    <3>. QED
      BY <2>1, <3>1, Zenon
  <2>3. calendar_sk = tables(undefined, {}, NoWeekend, f)
    BY Zenon DEF calendar_sk
  <2> HIDE DEF f
  <2>4. calendar_sk.format = f
    BY <1>2, <2>3
  <2>. QED
    BY <2>2, <2>4, Zenon DEF Names
<1>13. Known(Tables[l])
  BY <1>3, <1>4, <1>5, <1>6, <1>7, <1>8, <1>9, <1>10, <1>11, <1>12, TablesAreFiles
<1>. QED
  BY <1>1, <1>13

\* The words of a format, at the places of a sequence.
LEMMA NamesIsSeen ==
    ASSUME NEW fmt \in Seq(Word), NEW par
    PROVE  Names(fmt, par) <=> Seen(fmt, Len(fmt), par)
<1>1. DOMAIN fmt = 1..Len(fmt)
  OBVIOUS
<1>. QED
  BY <1>1, Zenon DEF Names, Seen

\* The default formats that name a day can be read back.
LEMMA DefaultsAreReadable ==
    ASSUME NEW fmt \in {YearFirst, DayFirst, ShortYear}
    PROVE  Readable(fmt)
<1>1. fmt \in Seq(Word) /\ Len(fmt) = 3
  <2>1. "%d" \in Word /\ "%m" \in Word /\ "%Y" \in Word /\ "%y" \in Word
    BY Zenon DEF Word
  <2>2. YearFirst \in Seq(Word) /\ Len(YearFirst) = 3
    BY <2>1, ThreeWords, Zenon DEF YearFirst
  <2>3. DayFirst \in Seq(Word) /\ Len(DayFirst) = 3
    BY <2>1, ThreeWords, Zenon DEF DayFirst
  <2>4. ShortYear \in Seq(Word) /\ Len(ShortYear) = 3
    BY <2>1, ThreeWords, Zenon DEF ShortYear
  <2>. QED
    BY <2>2, <2>3, <2>4, Zenon
<1>2. \A j \in 1..3 : fmt[j] \in {"%d", "%m", "%Y", "%y"}
  BY DEF YearFirst, DayFirst, ShortYear
<1>3. (\A j \in 1..3 : fmt[j] # "%Y") \/ (\A j \in 1..3 : fmt[j] # "%y")
  BY DEF YearFirst, DayFirst, ShortYear
<1>4. \A w \in {"%d", "%m", "%Y", "%y"} : w \in Numeric /\ w \notin {"%I", "%p"}
  BY Zenon DEF Numeric
<1>5. \A j \in 1..3 : fmt[j] \in Numeric /\ fmt[j] \notin {"%I", "%p"}
  BY <1>2, <1>4, Zenon
<1>. QED
  BY <1>1, <1>3, <1>5, Zenon DEF Readable, Seen

\* What is printed in the format of Sipana's pages is the same minute for the converter
\* of the server.
LEMMA ConverterReadsPrinted ==
    ASSUME NEW d \in DateTime
    PROVE  getAsObject(print(d, SipanaFormat)) = d
<1> DEFINE text == print(d, SipanaFormat)
<1>1. /\ text[1] = getDate(d) /\ text[2] = getMonth(d) + 1 /\ text[3] = getFullYear(d)
      /\ text[4] = d.hours /\ text[5] = d.minutes
  <2>1. DOMAIN SipanaFormat = 1..5
    BY DEF SipanaFormat
  <2>2. /\ SipanaFormat[1] = "%d" /\ SipanaFormat[2] = "%m" /\ SipanaFormat[3] = "%Y"
        /\ SipanaFormat[4] = "%H" /\ SipanaFormat[5] = "%M"
    BY DEF SipanaFormat
  <2>3. \A i \in 1..5 : SipanaFormat[i] \notin {"%k", "%w"}
    BY DEF SipanaFormat
  <2>4. \A i \in 1..5 : text[i] = directive(d, SipanaFormat[i])
    BY <2>1, <2>3, Zenon DEF print
  <2>5. 1 \in 1..5 /\ 2 \in 1..5 /\ 3 \in 1..5 /\ 4 \in 1..5 /\ 5 \in 1..5
    BY SMT
  <2>6. /\ text[1] = directive(d, "%d") /\ text[2] = directive(d, "%m")
        /\ text[3] = directive(d, "%Y") /\ text[4] = directive(d, "%H")
        /\ text[5] = directive(d, "%M")
    BY <2>2, <2>4, <2>5, Zenon
  <2> HIDE DEF text
  <2>7. directive(d, "%d") = getDate(d) /\ directive(d, "%m") = getMonth(d) + 1
    BY Zenon DEF directive
  <2>8. directive(d, "%Y") = getFullYear(d)
    BY Zenon DEF directive
  <2>9. directive(d, "%H") = d.hours
    BY Zenon DEF directive
  <2>10. directive(d, "%M") = d.minutes
    BY Zenon DEF directive
  <2>. QED
    BY <2>6, <2>7, <2>8, <2>9, <2>10
<1> HIDE DEF text
<1>2. DayNumber(getFullYear(d), getMonth(d), getDate(d)) = d.day /\ getMonth(d) \in Int
  BY Getters, GettersAreInt
<1>3. getMonth(d) + 1 - 1 = getMonth(d)
  BY <1>2
<1>4. getAsObject(text) = [day |-> d.day, hours |-> d.hours, minutes |-> d.minutes]
  BY <1>1, <1>2, <1>3 DEF getAsObject, newDate
<1>5. d = [day |-> d.day, hours |-> d.hours, minutes |-> d.minutes]
  BY DEF DateTime
<1>. QED
  BY <1>4, <1>5 DEF text

\* A date that is printed into a field is the date that is read from it, in the format
\* of every picker that can be read back and in the default formats of the language
\* files; the server's converter reads it as the same minute.
THEOREM PrintedDateIsReadAlways ==
    ASSUME ReadableFormats
    PROVE  Spec => []PrintedDateIsRead
<1>1. PopupInv => PrintedDateIsRead
  <2> DEFINE d == cal.date
  <2>1. SUFFICES ASSUME cal # NoCalendar, Good(cal), cal.date \in Date
                 PROVE  /\ \A p \in Pickers : Distinguishes(Params[p].ifFormat, d) =>
                              parseDate(print(d, Params[p].ifFormat), Params[p].ifFormat) = d
                        /\ \A fmt \in Formats : Distinguishes(fmt, d) =>
                              parseDate(print(d, fmt), fmt).day = d.day
                        /\ getAsObject(print(d, SipanaFormat)) = d
    BY Zenon DEF PopupInv, CalendarInv, PrintedDateIsRead, Opened
  <2>2. d \in DateTime /\ d.hours \in 0..23 /\ d.minutes \in 0..59
    BY <2>1, DateIsDateTime DEF Date
  <2>3. 100 <= getFullYear(d)
    <3>1. cal.picker \in Pickers /\ Params[cal.picker].minYear <= getFullYear(d)
      BY <2>1 DEF Good, CalendarRecord, InYears
    <3>2. 100 <= Params[cal.picker].minYear /\ Params[cal.picker].minYear \in Int
      BY <3>1, YearsOfPicker DEF ReadableFormats
    <3>3. getFullYear(d) \in Int
      BY <2>2, GettersAreInt
    <3>. QED
      BY <3>1, <3>2, <3>3
  <2> HIDE DEF d
  <2>4. ASSUME NEW fmt, Readable(fmt), Distinguishes(fmt, d)
        PROVE  /\ parseDate(print(d, fmt), fmt).day = d.day
               /\ (Names(fmt, {"%H", "%p"}) /\ Names(fmt, {"%M"})) =>
                    parseDate(print(d, fmt), fmt) = d
    <3>1. fmt \in Seq(Word)
      BY <2>4 DEF Readable
    <3>2. \A par : Names(fmt, par) <=> Seen(fmt, Len(fmt), par)
      BY <3>1, NamesIsSeen
    <3>3. /\ Seen(fmt, Len(fmt), {"%d", "%e"}) /\ Seen(fmt, Len(fmt), {"%m"})
          /\ \/ Seen(fmt, Len(fmt), {"%Y"})
             \/ Seen(fmt, Len(fmt), {"%y"}) /\ getFullYear(d) \in 1930..2029
      <4>1. /\ Names(fmt, {"%d", "%e"}) => Seen(fmt, Len(fmt), {"%d", "%e"})
            /\ Names(fmt, {"%m"}) => Seen(fmt, Len(fmt), {"%m"})
            /\ Names(fmt, {"%Y"}) => Seen(fmt, Len(fmt), {"%Y"})
            /\ Names(fmt, {"%y"}) => Seen(fmt, Len(fmt), {"%y"})
        BY <3>2, Zenon
      <4>. QED
        BY <2>4, <4>1, SMT DEF Distinguishes
    <3>4. /\ parseDate(print(d, fmt), fmt).day = d.day
          /\ (Seen(fmt, Len(fmt), {"%H", "%p"}) /\ Seen(fmt, Len(fmt), {"%M"})) =>
                parseDate(print(d, fmt), fmt) = d
      BY <2>2, <2>3, <2>4, <3>3, PrintedDate
    <3>. QED
      BY <3>2, <3>4, Zenon
  <2>5. ASSUME NEW p \in Pickers, Distinguishes(Params[p].ifFormat, d)
        PROVE  parseDate(print(d, Params[p].ifFormat), Params[p].ifFormat) = d
    <3> DEFINE fmt == Params[p].ifFormat
    <3>1. Names(fmt, {"%Y"}) \/ Names(fmt, {"%y"}) => Names(fmt, {"%Y", "%y"})
      BY Zenon DEF Names
    <3>2. /\ Names(fmt, {"%d", "%e"}) /\ Names(fmt, {"%m"}) /\ Names(fmt, {"%Y", "%y"})
      BY <2>5, <3>1, SMT DEF Distinguishes
    <3>3. Readable(fmt) /\ Names(fmt, {"%H", "%p"}) /\ Names(fmt, {"%M"})
      BY <3>2, Zenon DEF ReadableFormats
    <3>. QED
      BY <2>4, <2>5, <3>3, Zenon
  <2>6. ASSUME NEW fmt \in Formats, Distinguishes(fmt, d)
        PROVE  parseDate(print(d, fmt), fmt).day = d.day
    <3>1. Names(fmt, {"%d", "%e"})
      BY <2>6, Zenon DEF Distinguishes
    <3>2. Readable(fmt)
      BY <3>1, FormatOfTables, DefaultsAreReadable
    <3>. QED
      BY <2>4, <2>6, <3>2, Zenon
  <2>. QED
    BY <2>2, <2>5, <2>6, ConverterReadsPrinted
<1>. QED
  BY <1>1, PopupInvariant, PTL
=============================================================================
