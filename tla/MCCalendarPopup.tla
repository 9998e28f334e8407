-------------------------- MODULE MCCalendarPopup ---------------------------
(* Three pages: one with a picker of list.jsp, one with two pickers that      *)
(* share a cached calendar of 12 hours with the days of other months, one    *)
(* with a picker of multiple dates.                                          *)
EXTENDS CalendarPopup

D(y, m, d) == newDate(y, m - 1, d, 0, 0).day

ASSUME CivilAssumption ==
    \A n \in Day : LET c == Civil(n) IN n = DayNumber(c.year, c.month, c.date)

MCSummerTime(n) ==
    LET c == Civil(n) IN c.month \in 3..9 /\ <<c.month, c.date>> # <<3, 1>>

MCToday == newDate(2012, 1, 29, 0, 59)

Sipana ==
    [ifFormat |-> SipanaFormat, minYear |-> 2012, maxYear |-> 2013,
     firstDay |-> undefined, showsTime |-> TRUE, time24 |-> TRUE,
     singleClick |-> TRUE, electric |-> TRUE, showOthers |-> FALSE,
     multiple |-> FALSE, cache |-> FALSE, step |-> 1]

AmPm ==
    [Sipana EXCEPT !.ifFormat = <<"%m", "%d", "%y", "%I", "%M", "%p">>,
                   !.time24 = FALSE, !.electric = FALSE, !.showOthers = TRUE,
                   !.cache = TRUE, !.firstDay = 1]

MCParams ==
    [start |-> Sipana, ampm |-> AmPm,
     ampm2 |-> [AmPm EXCEPT !.singleClick = FALSE, !.electric = TRUE],
     multi |-> [Sipana EXCEPT !.multiple = TRUE],
     mixed |-> [Sipana EXCEPT !.multiple = TRUE, !.cache = TRUE],
     single |-> [Sipana EXCEPT !.cache = TRUE]]

MCPages ==
    {[pickers |-> {"start"}, lang |-> "en"],
     [pickers |-> {"ampm", "ampm2"}, lang |-> "es"],
     [pickers |-> {"multi"}, lang |-> "en"],
     [pickers |-> {"mixed", "single"}, lang |-> "en"],
     [pickers |-> {"multi"}, lang |-> "fr"],
     [pickers |-> {"multi"}, lang |-> "sv"]}

Blank == [p \in Pickers |-> <<>>]

MCTexts ==
    {Blank, [Blank EXCEPT !.start = <<31, 12, 2011, 0, 59>>],
     [Blank EXCEPT !.ampm = <<2, 29, 12, 12, 59, 1>>]}

SomeDays == {D(2012, 2, 29), D(2012, 3, 1)}

MCDays ==
    [start |-> SomeDays \cup
        {D(2011, 12, 31), D(2012, 1, 1), D(2012, 1, 7), D(2012, 1, 8),
         D(2012, 1, 31), D(2012, 2, 7), D(2012, 3, 2), D(2012, 12, 31),
         D(2013, 1, 1), D(2013, 2, 28)},
     ampm |-> SomeDays, ampm2 |-> SomeDays, multi |-> SomeDays,
     mixed |-> {D(2012, 2, 29)}, single |-> {D(2012, 2, 29)}]

SomeTimes == {<<0, 59>>, <<12, 59>>}

MCTimes ==
    [start |-> {<<0, 59>>},
     ampm |-> SomeTimes, ampm2 |-> SomeTimes, multi |-> {<<0, 59>>},
     mixed |-> {<<0, 59>>}, single |-> {<<0, 59>>}]

MCFirstDays == [start |-> {}, ampm |-> {}, ampm2 |-> {}, multi |-> {6},
                mixed |-> {}, single |-> {}]

MCMaxLost == [start |-> 0, ampm |-> 0, ampm2 |-> 0, multi |-> 1,
              mixed |-> 0, single |-> 0]

\* The hypotheses of the theorems about what is printed into a field and read back.
ASSUME HypothesesOfTheorems == ReadableFormats /\ OneRangeOfYears
=============================================================================
