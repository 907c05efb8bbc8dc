-------------------------------- MODULE Holidays --------------------------------
(***************************************************************************)
(* backend/utils/swiss_holidays.py: Easter, the holidays of the Swiss      *)
(* cantons and German states, exchange days and business days, evaluated   *)
(* on every day of a calendar that is walked one day at a time.            *)
(***************************************************************************)
EXTENDS Integers, FiniteSets

CONSTANTS
    Years,   \* years whose first day is looked at
    Walked,  \* bound: the years that are walked to their end
    Places,  \* places whose business days are followed: [country, canton]
    NoDay    \* no business day has been met

ASSUME CalendarAssumption == Walked \subseteq Years /\ Years \subseteq 1 .. 9999

VARIABLES
    today,    \* a date
    weekday,  \* 0 for Monday, as date.weekday
    open      \* open[p]: the last business day of place p before today, with its weekday

calendar == <<today, weekday, open>>

Date(y, m, d) == [y |-> y, m |-> m, d |-> d]

Leap(y) == y % 4 = 0 /\ (y % 100 # 0 \/ y % 400 = 0)

DaysIn(y, m) ==
    IF m = 2 THEN (IF Leap(y) THEN 29 ELSE 28) ELSE IF m \in {4, 6, 9, 11} THEN 30 ELSE 31

\* date + timedelta(days = 1)
Tomorrow(t) ==
    IF t.d < DaysIn(t.y, t.m) THEN [t EXCEPT !.d = @ + 1]
    ELSE IF t.m < 12 THEN Date(t.y, t.m + 1, 1) ELSE Date(t.y + 1, 1, 1)

\* t + timedelta(days = k)
Ahead(t, k) ==
    LET f[i \in 0 .. k] == IF i = 0 THEN t ELSE Tomorrow(f[i - 1]) IN f[k]

\* The weekday of 1 January.
NewYear(y) == (5 * ((y - 1) % 4) + 4 * ((y - 1) % 100) + 6 * ((y - 1) % 400)) % 7

-----------------------------------------------------------------------------
(* Easter *)

\* _easter, the anonymous Gregorian algorithm.
Easter(y) ==
    LET a == y % 19
        b == y \div 100
        c == y % 100
        g == (b - ((b + 8) \div 25) + 1) \div 3
        h == (19 * a + b - (b \div 4) - g + 15) % 30
        l == (32 + 2 * (b % 4) + 2 * (c \div 4) - h - (c % 4)) % 7
        m == (a + 11 * h + 22 * l) \div 451
        n == h + l - 7 * m + 114
    IN  Date(y, n \div 31, (n % 31) + 1)

\* _easter_offsets
EasterOffsets ==
    [good_friday |-> -2, easter_sunday |-> 0, easter_monday |-> 1, ascension |-> 39,
     whit_sunday |-> 49, whit_monday |-> 50, corpus_christi |-> 60]

\* The date of a feast: Good Friday is two days before Easter, the others follow it.
Feast(y, key) ==
    IF EasterOffsets[key] < 0
    THEN CHOOSE t \in {Date(y, m, d) : m \in {3, 4}, d \in 1 .. 31} :
             t.d <= DaysIn(y, t.m) /\ Ahead(t, -EasterOffsets[key]) = Easter(y)
    ELSE Ahead(Easter(y), EasterOffsets[key])

Fixed(y, days) == {Date(y, md[1], md[2]) : md \in days}

\* A key that names no feast is skipped.
Feasts(y, keys) == {Feast(y, key) : key \in keys \cap DOMAIN EasterOffsets}

-----------------------------------------------------------------------------
(* The tables *)

FourFeasts == {"good_friday", "easter_monday", "ascension", "whit_monday"}

\* _CH_CANTON_FIXED; cantons that are not in the table have the default.
CantonFixed(canton) ==
    CASE canton \in {"ZH", "BS", "TG", "SO", "SH"} -> {<<1, 2>>, <<5, 1>>, <<12, 26>>}
      [] canton = "GE" -> {<<1, 2>>, <<12, 31>>}
      [] canton = "LU" -> {<<1, 2>>, <<1, 6>>, <<3, 19>>, <<5, 1>>, <<6, 29>>, <<8, 15>>,
                           <<11, 1>>, <<12, 8>>, <<12, 26>>}
      [] canton = "AG" -> {<<1, 6>>, <<5, 1>>, <<8, 15>>, <<11, 1>>, <<12, 8>>, <<12, 26>>}
      [] canton = "SG" -> {<<1, 6>>, <<5, 1>>, <<6, 29>>, <<8, 15>>, <<11, 1>>, <<12, 26>>}
      [] canton = "TI" -> {<<1, 6>>, <<3, 19>>, <<5, 1>>, <<6, 24>>, <<6, 29>>, <<8, 15>>,
                           <<11, 1>>, <<12, 8>>, <<12, 26>>}
      [] canton = "VS" -> {<<1, 6>>, <<3, 19>>, <<5, 1>>, <<6, 29>>, <<7, 25>>, <<8, 15>>,
                           <<11, 1>>, <<12, 8>>, <<12, 26>>}
      [] canton = "GR" -> {<<1, 6>>, <<3, 9>>, <<12, 26>>}
      [] canton = "FR" -> {<<1, 2>>, <<5, 1>>, <<8, 15>>, <<11, 1>>, <<12, 8>>, <<12, 26>>}
      [] canton = "NE" -> {<<3, 1>>, <<12, 26>>}
      [] canton = "JU" -> {<<1, 2>>, <<5, 1>>, <<8, 15>>, <<11, 1>>, <<12, 26>>}
      [] OTHER -> {<<1, 2>>, <<12, 26>>}

\* _CH_CANTON_EASTER
CantonFeasts(canton) ==
    CASE canton = "VS" -> {"easter_monday", "ascension", "corpus_christi", "whit_monday"}
      [] canton \in {"LU", "AG", "SG", "TI", "SO", "FR", "JU"} ->
             FourFeasts \cup {"corpus_christi"}
      [] OTHER -> FourFeasts

SwissHolidays(y, canton) ==
    Fixed(y, {<<1, 1>>, <<8, 1>>, <<12, 25>>} \cup CantonFixed(canton))
    \cup Feasts(y, CantonFeasts(canton))

\* _DE_STATE_FIXED, with the Reformation Day that get_german_holidays adds.
StateFixed(state) ==
    CASE state = "BY" -> {<<1, 6>>, <<8, 15>>, <<11, 1>>, <<12, 8>>}
      [] state = "BW" -> {<<1, 6>>, <<11, 1>>}
      [] state \in {"NW", "RP", "SL"} -> {<<11, 1>>}
      [] state \in {"BB", "MV", "SN", "ST", "TH", "HB", "SH", "HH"} -> {<<10, 31>>}
      [] OTHER -> {}

\* _DE_STATE_EASTER: HE has two entries, and the second, which is empty, counts.
StateFeasts(state) ==
    IF state \in {"BW", "BY", "NW", "RP", "SL", "SN", "TH"} THEN {"corpus_christi"} ELSE {}

\* GERMAN_STATES
States == {"BW", "BY", "BE", "BB", "HB", "HH", "HE", "MV",
           "NI", "NW", "RP", "SL", "SN", "ST", "SH", "TH"}

GermanNational == {<<1, 1>>, <<5, 1>>, <<10, 3>>, <<12, 25>>, <<12, 26>>}

GermanHolidays(y, state) ==
    Fixed(y, GermanNational \cup StateFixed(state)) \cup Feasts(y, FourFeasts \cup StateFeasts(state))

\* get_exchange_holidays("SIX")
SixHolidays(y) ==
    Fixed(y, {<<1, 1>>, <<8, 1>>, <<12, 25>>, <<12, 26>>})
    \cup Feasts(y, {"good_friday", "easter_monday"})

-----------------------------------------------------------------------------
(* Days *)

\* is_bank_holiday, as is_business_day calls it: without a state, which is Hessen then.
BankHoliday(t, p) ==
    CASE p.country = "CH" -> t \in SwissHolidays(t.y, p.canton)
      [] p.country = "DE" -> t \in GermanHolidays(t.y, "HE")
      [] OTHER -> t \in SwissHolidays(t.y, "ZH") \cup GermanHolidays(t.y, "HE")

\* AnomalyDetector._is_bank_holiday, the feature of a transaction on that day.
HolidayFeature(t) == t \in SwissHolidays(t.y, "ZH") \cup GermanHolidays(t.y, "HE")

\* is_business_day
BusinessDay(t, w, p) == w < 5 /\ ~BankHoliday(t, p)

\* Mutant: the loop is an if.
NextSkipsOnce(t, w, p) ==
    IF BusinessDay(Tomorrow(t), (w + 1) % 7, p) THEN Tomorrow(t) ELSE Ahead(t, 2)

\* next_business_day: the loop ends within a week.
NextBusinessDay(t, w, p) ==
    LET opens == {k \in 1 .. 7 : BusinessDay(Ahead(t, k), (w + k) % 7, p)}
    IN  Ahead(t, CHOOSE k \in opens : \A j \in opens : k <= j)

-----------------------------------------------------------------------------
CalendarTypeOK ==
    /\ today.y \in Years /\ today.m \in 1 .. 12 /\ today.d \in 1 .. DaysIn(today.y, today.m)
    /\ weekday \in 0 .. 6
    /\ \A p \in Places : open[p] # NoDay => open[p].weekday < 5

CalendarInit ==
    /\ \E y \in Years : today = Date(y, 1, 1) /\ weekday = NewYear(y)
    /\ open = [p \in Places |-> NoDay]

Midnight ==
    /\ today.y \in Walked
    /\ Tomorrow(today).y \in Years
    /\ today' = Tomorrow(today)
    /\ weekday' = (weekday + 1) % 7
    /\ open' = [p \in Places |-> IF BusinessDay(today, weekday, p)
                                 THEN [day |-> today, weekday |-> weekday] ELSE open[p]]

CalendarSpec == CalendarInit /\ [][Midnight]_calendar

-----------------------------------------------------------------------------
(* Properties *)

\* The rule of the calendar reform: Easter is the Sunday after the full moon of the epact
\* (here after Clavius), on or after 21 March.
Clavius(y) ==
    LET g == (y % 19) + 1
        c == (y \div 100) + 1
        x == ((3 * c) \div 4) - 12
        z == ((8 * c + 5) \div 25) - 5
        e == (11 * g + 20 + z - x) % 30
        epact == IF e = 24 \/ (e = 25 /\ g > 11) THEN e + 1 ELSE e
        moon == IF 44 - epact < 21 THEN 74 - epact ELSE 44 - epact
        sunday == moon + 7 - ((((5 * y) \div 4) - x - 10 + moon) % 7)
    IN  IF sunday > 31 THEN Date(y, 4, sunday - 31) ELSE Date(y, 3, sunday)

\* "Compute Easter Sunday" (_easter): for every year it is the Easter of the reform's rule.
EasterIsRight == Easter(today.y) = Clavius(today.y)

\* The feasts fall on their weekdays whatever months lie between them and Easter: Friday,
\* Monday, Thursday, Monday, Thursday.
FeastsFallRight ==
    \A key \in DOMAIN EasterOffsets : today = Feast(today.y, key) =>
        weekday = CASE key = "good_friday" -> 4
                    [] key \in {"easter_monday", "whit_monday"} -> 0
                    [] key \in {"ascension", "corpus_christi"} -> 3
                    [] OTHER -> 6

\* "Return the next business day after check_date" (next_business_day): walking day by day
\* from one business day, the next one met is the one it names, over weekends, feasts and
\* the end of the year.
NextIsNext ==
    \A p \in Places : BusinessDay(today, weekday, p) /\ open[p] # NoDay =>
        NextBusinessDay(open[p].day, open[p].weekday, p) = today

\* The holiday feature looks at Zurich and Hessen only, and still knows every day on which
\* the Swiss exchange is closed or most German states rest.
FeatureCovers ==
    \/ today \in SixHolidays(today.y)
    \/ Cardinality({s \in States : today \in GermanHolidays(today.y, s)}) > 8
    => HolidayFeature(today)

\* The calendar as a whole, day by day.
CalendarInvariant ==
    CalendarTypeOK /\ EasterIsRight /\ FeastsFallRight /\ NextIsNext /\ FeatureCovers
===============================================================================
