-------------------------------- MODULE Calendar --------------------------------
(***************************************************************************)
(* The date arithmetic behind the clock units of the other modules: months *)
(* are added by clamping the day to the month's length, ages are read from *)
(* the year and the month of birth alone. Pure operators: what they promise *)
(* for every date is proved in RequirementsProofs.                         *)
(***************************************************************************)
EXTENDS Integers

-----------------------------------------------------------------------------
(* datetime.date and calendar.monthrange.                                    *)

MonthLength(year, month) ==
    CASE month \in {4, 6, 9, 11} -> 30
      [] month = 2 /\ year % 4 = 0 /\ (year % 100 # 0 \/ year % 400 = 0) -> 29
      [] month = 2 /\ ~(year % 4 = 0 /\ (year % 100 # 0 \/ year % 400 = 0)) -> 28
      [] OTHER -> 31

IsDate(d) ==
    /\ d \in [year : Int, month : 1..12, day : 1..31]
    /\ d.day <= MonthLength(d.year, d.month)

\* Grows with the date (it does not count days).
Rank(d) == (d.year * 12 + d.month) * 31 + d.day

Before(c, d) == Rank(c) < Rank(d)

-----------------------------------------------------------------------------
(* What the program computes.                                                *)

add_months_to(start, months) ==
    LET index == start.month - 1 + months
        year == start.year + index \div 12
        month == (index % 12) + 1
        length == MonthLength(year, month)
    IN  [year |-> year, month |-> month, day |-> IF start.day < length THEN start.day ELSE length]

AtLeast0(years) == IF years < 0 THEN 0 ELSE years

\* Only the birthday's year and month are stored in the clear.
age_on(birth, on_date) ==
    AtLeast0(on_date.year - birth.year - (IF on_date.month < birth.month THEN 1 ELSE 0))

exact_age(birth, on_date) ==
    on_date.year - birth.year
        - (IF \/ on_date.month < birth.month
              \/ on_date.month = birth.month /\ on_date.day < birth.day THEN 1 ELSE 0)

is_adult_on(birth, on_date) == age_on(birth, on_date) >= 18

eighteenth_birthday_trigger_date(birth) ==
    [year |-> birth.year + 18, month |-> birth.month, day |-> 1]

\* Onboarding that began on first has run past the three months.
onboarding_window_breached(first, as_of) == Before(first, add_months_to(as_of, -3))
=================================================================================
