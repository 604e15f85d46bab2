------------------------------ MODULE Schedule -------------------------------
(***************************************************************************)
(* The installment schedule of an agreement version.  computeSchedule      *)
(* computes it from the terms, for buildTerms and applyAmendment, and once *)
(* more from the version's own terms when reviseFirstPaymentDate gives     *)
(* them another first date.                                                *)
(*                                                                         *)
(* A date is <<year, month, day>>, in UTC as in the code; the dates that   *)
(* requests bring are valid ones.                                          *)
(***************************************************************************)
EXTENDS Integers, Sequences

CONSTANTS
  MaxPrincipal,   \* bound on the amounts of the terms
  FirstDates      \* the first payment dates that requests bring

VARIABLE plan     \* the version's terms and its agreement_schedule_item rows

------------------------------------------------------------------------------
\* Dates.

IsLeap(y) == (y % 4 = 0 /\ y % 100 # 0) \/ y % 400 = 0

DaysInMonth(y, m) ==
  CASE m = 2 -> IF IsLeap(y) THEN 29 ELSE 28
    [] m \in {4, 6, 9, 11} -> 30
    [] m \in {1, 3, 5, 7, 8, 10, 12} -> 31

IsDate(d) == d[2] \in 1..12 /\ d[3] \in 1..DaysInMonth(d[1], d[2])

\* Date.UTC takes a year below 100 for one of the last century.
ASSUME ScheduleAssumption ==
  /\ MaxPrincipal \in Nat
  /\ \A d \in FirstDates : d \in Nat \X Nat \X Nat /\ d[1] >= 100 /\ IsDate(d)

NextDay(d) ==
  CASE d[3] < DaysInMonth(d[1], d[2]) -> <<d[1], d[2], d[3] + 1>>
    [] d[3] = DaysInMonth(d[1], d[2]) /\ d[2] < 12 -> <<d[1], d[2] + 1, 1>>
    [] d[3] = DaysInMonth(d[1], d[2]) /\ d[2] = 12 -> <<d[1] + 1, 1, 1>>

DaysLater(d, n) ==
  LET day[i \in 0..n] == IF i = 0 THEN d ELSE NextDay(day[i - 1])
  IN day[n]

isPastDate(due, today) ==
  \/ due[1] < today[1]
  \/ due[1] = today[1] /\ due[2] < today[2]
  \/ due[1] = today[1] /\ due[2] = today[2] /\ due[3] < today[3]

Frequency == {"weekly", "biweekly", "monthly"}

\* Mutant: the day is not cut to the length of the month.
Unclamped(date, frequency, n) ==
  IF frequency # "monthly"
    THEN DaysLater(date, (IF frequency = "weekly" THEN 7 ELSE 14) * n)
    ELSE <<date[1] + ((date[2] - 1 + n) \div 12), ((date[2] - 1 + n) % 12) + 1, date[3]>>

\* Always from the first date: a short month moves one due date, not those
\* after it.
addFrequencyInterval(date, frequency, n) ==
  IF frequency # "monthly"
    THEN DaysLater(date, (IF frequency = "weekly" THEN 7 ELSE 14) * n)
    ELSE LET index == date[2] - 1 + n
             year  == date[1] + (index \div 12)
             month == (index % 12) + 1
             days  == DaysInMonth(year, month)
         IN <<year, month, IF date[3] < days THEN date[3] ELSE days>>

------------------------------------------------------------------------------
\* computeSchedule: the first payment, then equal installments, the last one
\* for what is left over.

numberOfInstallments(input) ==
  LET rest == input.principal - input.first
  IN IF rest = 0 THEN 0 ELSE (rest + input.installment - 1) \div input.installment

finalPayment(input) ==
  IF input.principal = input.first THEN input.first
  ELSE input.principal - input.first - input.installment * (numberOfInstallments(input) - 1)

computeSchedule(input) ==
  LET number == numberOfInstallments(input)
      amount(n) == CASE n = 0 -> input.first
                     [] n # 0 /\ n = number -> finalPayment(input)
                     [] n # 0 /\ n # number -> input.installment
  IN [n \in 1..(number + 1) |->
        [due |-> addFrequencyInterval(input.date, input.frequency, n - 1),
         amount |-> amount(n - 1)]]

\* What the checks of buildTerms and computeSchedule let through; without an
\* installment amount the first payment must be all there is.
ValidTerms ==
  {input \in [principal : 0..MaxPrincipal, first : 0..MaxPrincipal,
              installment : 0..MaxPrincipal, frequency : Frequency, date : FirstDates] :
     /\ input.first <= input.principal
     /\ input.first < input.principal => input.installment > 0}

Planned(input) ==
  [input |-> input, final |-> finalPayment(input), items |-> computeSchedule(input)]

NoPlan == [items |-> <<>>]

ScheduleInit == plan = NoPlan

buildTerms ==
  /\ plan = NoPlan
  /\ \E input \in ValidTerms : plan' = Planned(input)

\* The new date does not lie in the past; today does not otherwise matter.
reviseSchedule ==
  /\ plan # NoPlan
  /\ \E date \in FirstDates : plan' = Planned([plan.input EXCEPT !.date = date])

ScheduleNext == buildTerms \/ reviseSchedule

ScheduleSpec == ScheduleInit /\ [][ScheduleNext]_plan

------------------------------------------------------------------------------
\* Properties.

\* Days since the year 0, in closed form.
DayNumber(d) ==
  LET y == IF d[2] > 2 THEN d[1] ELSE d[1] - 1
      m == IF d[2] > 2 THEN d[2] - 3 ELSE d[2] + 9
  IN 365 * y + (y \div 4) - (y \div 100) + (y \div 400) + ((153 * m + 2) \div 5) + d[3]

Total(items) ==
  LET sum[n \in 0..Len(items)] == IF n = 0 THEN 0 ELSE sum[n - 1] + items[n].amount
  IN sum[Len(items)]

\* A schedule asks for the principal, to the unit, in installments of at most
\* the agreed amount, each at a later date than the one before; a week's or a
\* fortnight's schedule never drifts by a day over months and leap years, and
\* a monthly one has one due date in every month, on the agreed day or, where
\* the month is too short, on its last one.
ScheduleIsExact ==
  plan # NoPlan =>
    LET items == plan.items
        first == plan.input.date
        last == Len(items)
    IN
    /\ Total(items) = plan.input.principal
    /\ items[last].amount = plan.final
    /\ \A n \in 2..last :
         LET due == items[n].due IN
         /\ items[n].amount \in 1..plan.input.installment
         /\ IsDate(due) /\ isPastDate(items[n - 1].due, due)
         /\ IF plan.input.frequency = "monthly"
              THEN /\ 12 * due[1] + due[2] = 12 * first[1] + first[2] + n - 1
                   /\ due[3] # first[3] => due[3] < first[3] /\ NextDay(due)[3] = 1
              ELSE DayNumber(due) - DayNumber(items[n - 1].due) =
                     (IF plan.input.frequency = "weekly" THEN 7 ELSE 14)
==============================================================================
