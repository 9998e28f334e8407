---------------------------- MODULE CalendarDate ----------------------------
(***************************************************************************)
(* Dates as the DHTML calendar of the web pages computes with them: the    *)
(* part of JavaScript's Date object it uses (external) and the methods     *)
(* that calendar.js adds to Date ("DATE OBJECT PATCHES").                  *)
(*                                                                         *)
(* A Date is a local day and a local time of day down to the minute.  Days *)
(* are numbered, day 1 being 1 January of year 1, a Monday.  Months count  *)
(* from 0 and weekdays from Sunday = 0, as in JavaScript.                  *)
(***************************************************************************)
EXTENDS Integers, Sequences

CONSTANTS
    FirstYear, LastYear,  \* bound: the years whose days have a number
    SummerTime(_),        \* whether a day starts in daylight saving time
    Today                 \* new Date(): the clock of the browser

ASSUME YearsAssumption == FirstYear \in Nat \ {0} /\ LastYear \in Nat

Years == FirstYear..LastYear
Months == 0..11

-----------------------------------------------------------------------------
(* JavaScript's Date *)

IsLeap(y) == y % 4 = 0 /\ (y % 100 # 0 \/ y % 400 = 0)

DaysBeforeMonth(y, m) ==
    <<0, 31, 59, 90, 120, 151, 181, 212, 243, 273, 304, 334>>[m + 1]
        + (IF m > 1 /\ IsLeap(y) THEN 1 ELSE 0)

\* MakeDay of ECMAScript: months and days beyond their range carry over.
DayNumber(y, m, d) ==
    LET yy == y + (m \div 12) - 1
    IN  365 * yy + (yy \div 4) - (yy \div 100) + (yy \div 400)
            + DaysBeforeMonth(yy + 1, m % 12) + d

\* Year, month and day of the month of day n, counted from 1 March of a year
\* that 400 divides, so that a leap day is the last one of its year.
marchYear(n) ==
    (n - (n \div 1460) + (n \div 36524) - (n \div 146096)) \div 365
marchDate(year, day, month) ==
    [year |-> year + (IF month > 9 THEN 1 ELSE 0),
     month |-> (month + 2) % 12,
     date |-> day - ((153 * month + 2) \div 5) + 1]
marchDay(year, day) == marchDate(year, day, (5 * day + 2) \div 153)
inCycle(cycle, n, year) ==
    marchDay(400 * cycle + year,
             n - 365 * year - (year \div 4) + (year \div 100))
Civil(n) ==
    LET day400 == (n + 305) % 146097
    IN  inCycle((n + 305) \div 146097, day400, marchYear(day400))

Day == DayNumber(FirstYear, 0, 1)..DayNumber(LastYear, 11, 31)

Date == [day: Day, hours: 0..23, minutes: 0..59]

ASSUME TodayAssumption == Today \in Date

newDate(y, m, d, hr, min) ==
    [day |-> DayNumber(y, m, d), hours |-> hr, minutes |-> min]

getFullYear(d) == Civil(d.day).year
getMonth(d) == Civil(d.day).month
getDate(d) == Civil(d.day).date
getDay(d) == d.day % 7

setDate(d, k) ==
    [d EXCEPT !.day = DayNumber(getFullYear(d), getMonth(d), k)]
setMonth(d, m) ==
    [d EXCEPT !.day = DayNumber(getFullYear(d), m, getDate(d))]
oldSetFullYear(d, y) ==
    [d EXCEPT !.day = DayNumber(y, getMonth(d), getDate(d))]

\* The instant at which a day starts, in hours: a day of daylight saving time
\* starts an hour earlier than its number says.
Midnight(n) == 24 * n - (IF SummerTime(n) THEN 1 ELSE 0)

\* Math.round(a / b) for b > 0.
Round(a, b) == (2 * a + b) \div (2 * b)

-----------------------------------------------------------------------------
(* The methods added to Date *)

getMonthDays(d, month) ==
    IF /\ getFullYear(d) % 4 = 0
       /\ (getFullYear(d) % 100 # 0 \/ getFullYear(d) % 400 = 0)
       /\ month = 1
    THEN 29
    ELSE <<31, 28, 31, 30, 31, 30, 31, 31, 30, 31, 30, 31>>[month + 1]

\* new Date(y, 0, 0) is 31 December of the year before.
getDayOfYear(d) ==
    (Midnight(d.day) - Midnight(DayNumber(getFullYear(d), 0, 0))) \div 24

\* Mutant: the quotient is truncated, as it is in getDayOfYear.
getWeekNumber_floor(d) ==
    LET thu == setDate(d, getDate(d) - ((getDay(d) + 6) % 7) + 3)
        jan4 == setDate(setMonth(thu, 0), 4)
    IN  ((Midnight(thu.day) - Midnight(jan4.day)) \div (7 * 24)) + 1

\* From the nearest Thursday to 4 January, rounded to whole weeks.
getWeekNumber(d) ==
    LET thu == setDate(d, getDate(d) - ((getDay(d) + 6) % 7) + 3)
        jan4 == setDate(setMonth(thu, 0), 4)
    IN  Round(Midnight(thu.day) - Midnight(jan4.day), 7 * 24) + 1

equalsTo(d, e) ==
    /\ getFullYear(d) = getFullYear(e)
    /\ getMonth(d) = getMonth(e)
    /\ getDate(d) = getDate(e)
    /\ d.hours = e.hours
    /\ d.minutes = e.minutes

\* The patched setFullYear: 29 February becomes 28 February.
setFullYear(d, y) ==
    LET moved == oldSetFullYear(d, y)
    IN  IF getMonth(moved) # getMonth(d)
        THEN oldSetFullYear(setDate(d, 28), y)
        ELSE moved

\* The day of e, the time of d.
setDateOnly(d, e) ==
    setDate(setMonth(setFullYear(setDate(d, 1), getFullYear(e)),
                     getMonth(e)),
            getDate(e))

-----------------------------------------------------------------------------
(* Printing and parsing.  A format is the sequence of its words: directives *)
(* ("%d"), literal words ("word") and, when the format starts with another  *)
(* character, the empty word ("") that split() finds there.  A text is the  *)
(* sequence of the numbers its words stand for: NaN for a word that is not  *)
(* a number, Empty for the empty word.                                      *)

\* The names of days and months, the seconds and white space are left out.
Word ==
    {"%d", "%e", "%m", "%Y", "%y", "%C", "%H", "%k", "%I", "%l", "%M", "%p", "%P",
     "%j", "%U", "%W", "%V", "%u", "%w", "word", ""}

NaN == -100
Empty == -200

\* Mutant: noon and midnight are 0 in the formats of 12 hours.
hour12_zero(hr) == hr % 12

hour12(hr) == IF hr % 12 = 0 THEN 12 ELSE hr % 12

\* s[par], for the directives that print a number.
directive(d, par) ==
    CASE par \in {"%d", "%e"} -> getDate(d)
      [] par = "%m" -> getMonth(d) + 1
      [] par = "%Y" -> getFullYear(d)
      [] par = "%y" -> getFullYear(d) % 100
      [] par = "%C" -> 1 + (getFullYear(d) \div 100)
      [] par \in {"%H", "%k"} -> d.hours
      [] par \in {"%I", "%l"} -> hour12(d.hours)
      [] par = "%M" -> d.minutes
      [] par \in {"%p", "%P"} -> IF d.hours >= 12 THEN 1 ELSE 0
      [] par = "%j" -> getDayOfYear(d)
      [] par \in {"%U", "%W", "%V"} -> getWeekNumber(d)
      [] par = "%u" -> getDay(d) + 1
      [] par = "%w" -> getDay(d)
      [] par = "" -> Empty
      [] OTHER -> NaN

\* The value 0 of a directive that is not padded is taken for a directive
\* that does not exist: s[par] || par leaves it in the text.
print(d, fmt) ==
    [i \in DOMAIN fmt |->
        IF fmt[i] \in {"%k", "%w"} /\ directive(d, fmt[i]) = 0
        THEN NaN
        ELSE directive(d, fmt[i])]

\* fmt.match(/%./g), for the first i words of fmt.
directivesUpTo(fmt) ==
    LET upTo[i \in 0..Len(fmt)] ==
            IF i = 0 THEN <<>>
            ELSE IF fmt[i] \in {"word", ""} THEN upTo[i - 1]
            ELSE Append(upTo[i - 1], fmt[i])
    IN  upTo

directives(fmt) == directivesUpTo(fmt)[Len(fmt)]

century(y) ==
    IF y # NaN /\ y < 100 THEN y + (IF y > 29 THEN 1900 ELSE 2000) ELSE y

\* y, m, d, hr and min before the first word is read.
Unread == [y |-> 0, m |-> -1, d |-> 0, hr |-> 0, min |-> 0]

\* One word of the text, read as the directive at its place says.
readWord(r, par, v) ==
    CASE v = Empty -> r
      [] v # Empty /\ par \in {"%d", "%e"} -> [r EXCEPT !.d = v]
      [] v # Empty /\ par = "%m" ->
            [r EXCEPT !.m = IF v = NaN THEN NaN ELSE v - 1]
      [] v # Empty /\ par \in {"%Y", "%y"} -> [r EXCEPT !.y = century(v)]
      [] v # Empty /\ par \in {"%H", "%I", "%k", "%l"} -> [r EXCEPT !.hr = v]
      [] v # Empty /\ par \in {"%p", "%P"} ->
            [r EXCEPT !.hr = IF @ = NaN THEN NaN
                             ELSE IF v = 1 /\ @ < 12 THEN @ + 12
                             ELSE IF v = 0 /\ @ >= 12 THEN @ - 12 ELSE @]
      [] v # Empty /\ par = "%M" -> [r EXCEPT !.min = v]
      [] OTHER -> r

\* The first pass over the first i words: word i of the text against directive i
\* of the format.
readUpTo(text, b) ==
    LET upTo[i \in 0..Len(text)] ==
            IF i = 0 THEN Unread
            ELSE IF i > Len(b) THEN upTo[i - 1]
            ELSE readWord(upTo[i - 1], b[i], text[i])
    IN  upTo

\* What is not a number is taken from the clock.
readWords(text, fmt) ==
    LET r == readUpTo(text, directives(fmt))[Len(text)]
        known(v, now) == IF v = NaN THEN now ELSE v
    IN  [y |-> known(r.y, getFullYear(Today)), m |-> known(r.m, getMonth(Today)),
         d |-> known(r.d, getDate(Today)), hr |-> known(r.hr, Today.hours),
         min |-> known(r.min, Today.minutes)]

\* The second pass: numbers are recognised by their size.
guessWord(r, v) ==
    IF v \in {NaN, Empty} THEN r
    ELSE IF v <= 12 /\ r.m = -1 THEN [r EXCEPT !.m = v - 1]
    ELSE IF v > 31 /\ r.y = 0 THEN [r EXCEPT !.y = century(v)]
    ELSE IF r.d = 0 THEN [r EXCEPT !.d = v]
    ELSE r

guessUpTo(text) ==
    LET upTo[i \in 0..Len(text)] ==
            IF i = 0 THEN Unread ELSE guessWord(upTo[i - 1], text[i])
    IN  upTo

guessWords(text) == guessUpTo(text)[Len(text)]

\* Date.parseDate.  Without directives match() yields null, and the first word
\* that is not empty raises a TypeError: no date is the result then.
NoDate == [day |-> 0, hours |-> 0, minutes |-> 0]

parseDate(text, fmt) ==
    LET r == readWords(text, fmt)
        g == guessWords(text)
    IN  IF directives(fmt) = <<>> /\ (\E i \in DOMAIN text : text[i] # Empty)
        THEN NoDate
        ELSE IF r.y # 0 /\ r.m # -1 /\ r.d # 0
        THEN newDate(r.y, r.m, r.d, r.hr, r.min)
        ELSE IF g.m # -1 /\ g.d # 0
        THEN newDate(IF g.y = 0 THEN getFullYear(Today) ELSE g.y,
                     g.m, g.d, r.hr, r.min)
        ELSE Today

-----------------------------------------------------------------------------
(* The formats that parseDate reads back *)

\* The directives of numbers that parseDate reads back; %k is not one of them: it
\* prints the hour 0 as "%k".
Numeric == {"%d", "%e", "%m", "%Y", "%y", "%H", "%I", "%M", "%p"}

\* One of the first i words is in par.
Seen(fmt, i, par) == \E j \in 1..i : fmt[j] \in par

\* The year is printed in one way, and hours of 12 before am and pm.
Readable(fmt) ==
    /\ fmt \in Seq(Word)
    /\ \A j \in 1..Len(fmt) : fmt[j] \in Numeric
    /\ ~(Seen(fmt, Len(fmt), {"%Y"}) /\ Seen(fmt, Len(fmt), {"%y"}))
    /\ \/ ~Seen(fmt, Len(fmt), {"%I", "%p"})
       \/ /\ ~Seen(fmt, Len(fmt), {"%H"})
          /\ \A j \in 1..Len(fmt) : fmt[j] = "%p" =>
                /\ Seen(fmt, j - 1, {"%I"})
                /\ \A k \in j..Len(fmt) : fmt[k] # "%I"
=============================================================================
