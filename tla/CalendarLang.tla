---------------------------- MODULE CalendarLang ----------------------------
(***************************************************************************)
(* The language files of the calendar, lang/*.js.  Each one fills the      *)
(* tables Calendar._DN, _MN, _SDN, _SMN, _FD and _TT.  The texts are only  *)
(* displayed; of each file the model keeps                                 *)
(*   FD       the first day of the week, undefined in most of the files;   *)
(*   WEEKEND  the days of the weekend, {} when there is no such entry;     *)
(*   missing  the entries of _TT that calendar.js reads and the file does  *)
(*            not have;                                                    *)
(*   format   the words of DEF_DATE_FORMAT (see CalendarDate).             *)
(***************************************************************************)
EXTENDS Integers

undefined == -1

tables(fd, weekend, missing, format) ==
    [FD |-> fd, WEEKEND |-> weekend, missing |-> missing, format |-> format]

NoWeekend ==
    {"DAY_FIRST", "WEEKEND", "TIME"}
NoWeekendNorTimePart ==
    {"DAY_FIRST", "WEEKEND", "TIME_PART", "TIME"}
NoHelp ==
    {"INFO", "ABOUT", "ABOUT_TIME", "DAY_FIRST", "WEEKEND", "TIME_PART",
     "TIME"}
NoHelpNorFormat ==
    {"INFO", "ABOUT", "ABOUT_TIME", "DAY_FIRST", "WEEKEND", "TIME_PART",
     "DEF_DATE_FORMAT", "TT_DATE_FORMAT", "WK", "TIME"}

calendar_af == tables(undefined, {}, NoHelpNorFormat, <<>>)
calendar_al == tables(undefined, {0, 6}, {}, <<"%Y", "%m", "%d">>)
calendar_bg == tables(undefined, {0, 6}, {}, <<"%Y", "%m", "%d">>)
calendar_big5_utf8 == tables(undefined, {0, 6}, {}, <<"%Y", "%m", "%d">>)
calendar_big5 == tables(undefined, {0, 6}, {}, <<"%Y", "%m", "%d">>)
calendar_br == tables(undefined, {0, 6}, {}, <<"%d", "%m", "%Y">>)
calendar_ca == tables(undefined, {0, 6}, {}, <<"%Y", "%m", "%d">>)
calendar_cs_utf8 == tables(undefined, {0, 6}, {}, <<"word", "word", "word">>)
calendar_cs_win == tables(undefined, {0, 6}, {}, <<"word", "word", "word">>)
calendar_da == tables(undefined, {0, 6}, {}, <<"%d", "%m", "%Y">>)
calendar_de == tables(undefined, {0, 6}, {}, <<"%d", "%m", "%Y">>)
calendar_du == tables(undefined, {}, NoHelp, <<"word", "word", "word">>)
calendar_el == tables(undefined, {}, NoWeekend, <<"word", "word", "word">>)
calendar_en == tables(0, {0, 6}, {}, <<"%Y", "%m", "%d">>)
calendar_es == tables(1, {0, 6}, {}, <<"%d", "%m", "%Y">>)
calendar_fi == tables(undefined, {}, NoWeekend, <<"%d", "%m", "%Y">>)
calendar_fr == tables(undefined, {0, 6}, {}, <<"%d", "%m", "%Y">>)
calendar_he_utf8 == tables(undefined, {6}, {}, <<"%Y", "%m", "%d">>)
calendar_hr_utf8 == tables(undefined, {}, NoHelp, <<"word", "word", "word">>)
calendar_hr == tables(undefined, {}, NoHelp, <<"word", "word", "word">>)
calendar_hu == tables(undefined, {0, 6}, {}, <<"%Y", "%m", "%d">>)
calendar_it == tables(undefined, {0, 6}, {}, <<"%d", "%m", "%Y">>)
calendar_jp == tables(undefined, {}, NoHelp, <<"word", "word", "word">>)
calendar_ko_utf8 == tables(undefined, {}, NoWeekend, <<"%Y", "%m", "%d">>)
calendar_ko == tables(undefined, {}, NoWeekend, <<"%Y", "%m", "%d">>)
calendar_lt_utf8 == tables(undefined, {}, NoWeekend, <<"%Y", "%m", "%d">>)
calendar_lt == tables(undefined, {}, NoWeekend, <<"%Y", "%m", "%d">>)
calendar_lv == tables(undefined, {1, 7}, {}, <<"%d", "%m", "%Y">>)
calendar_nl == tables(undefined, {0, 6}, {}, <<"%d", "%m", "%Y">>)
calendar_no == tables(undefined, {}, NoWeekend, <<"%d", "%m", "%Y">>)
calendar_pl_utf8 == tables(undefined, {}, NoWeekend, <<"%Y", "%m", "%d">>)
calendar_pl == tables(undefined, {}, NoWeekend, <<"%Y", "%m", "%d">>)
calendar_pt == tables(undefined, {0, 6}, {}, <<"%d", "%m", "%Y">>)
calendar_ro == tables(undefined, {0, 6}, {}, <<"%d", "%m", "%Y">>)
calendar_ru == tables(undefined, {0, 6}, {}, <<"%Y", "%m", "%d">>)
calendar_ru_win == tables(undefined, {0, 6}, {}, <<"%Y", "%m", "%d">>)
calendar_si ==
    tables(undefined, {}, NoWeekendNorTimePart, <<"%Y", "%m", "%d">>)
calendar_sk == tables(undefined, {}, NoWeekend, <<"", "word", "%m", "%Y">>)
calendar_sp == tables(undefined, {0, 6}, {}, <<"%d", "%m", "%y">>)
calendar_sv == tables(undefined, {}, NoWeekend, <<"%Y", "%m", "%d">>)
calendar_tr == tables(undefined, {}, NoHelp, <<"word", "word", "word">>)
calendar_zh == tables(undefined, {0, 6}, {}, <<"%Y", "%m", "%d">>)
cn_utf8 == tables(undefined, {0, 6}, {}, <<"%Y", "%m", "%d">>)

\* The files by name, as the page's <script> element chooses one.
Tables ==
    [ af |-> calendar_af, al |-> calendar_al,
      bg |-> calendar_bg, big5_utf8 |-> calendar_big5_utf8,
      big5 |-> calendar_big5, br |-> calendar_br,
      ca |-> calendar_ca, cs_utf8 |-> calendar_cs_utf8,
      cs_win |-> calendar_cs_win, da |-> calendar_da,
      de |-> calendar_de, du |-> calendar_du,
      el |-> calendar_el, en |-> calendar_en,
      es |-> calendar_es, fi |-> calendar_fi,
      fr |-> calendar_fr, he_utf8 |-> calendar_he_utf8,
      hr_utf8 |-> calendar_hr_utf8, hr |-> calendar_hr,
      hu |-> calendar_hu, it |-> calendar_it,
      jp |-> calendar_jp, ko_utf8 |-> calendar_ko_utf8,
      ko |-> calendar_ko, lt_utf8 |-> calendar_lt_utf8,
      lt |-> calendar_lt, lv |-> calendar_lv,
      nl |-> calendar_nl, no |-> calendar_no,
      pl_utf8 |-> calendar_pl_utf8, pl |-> calendar_pl,
      pt |-> calendar_pt, ro |-> calendar_ro,
      ru |-> calendar_ru, ru_win |-> calendar_ru_win,
      si |-> calendar_si, sk |-> calendar_sk,
      sp |-> calendar_sp, sv |-> calendar_sv,
      tr |-> calendar_tr, zh |-> calendar_zh,
      cn_utf8 |-> cn_utf8 ]

Formats == {Tables[l].format : l \in DOMAIN Tables}

\* create() reads WEEKEND and DAY_FIRST without a test (_displayWeekdays).
Complete(l) == Tables[l].missing \cap {"WEEKEND", "DAY_FIRST"} = {}
=============================================================================
