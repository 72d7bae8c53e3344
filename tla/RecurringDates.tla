--------------------------- MODULE RecurringDates ---------------------------
(***************************************************************************)
(* The dates of one recurring invoice: the calendar arithmetic of          *)
(* services/billing/src/domain/dates.ts, generation (invoices/services.ts) *)
(* and the back office pages that create, edit and pause the template      *)
(* (InvoiceTemplateFormPage.tsx, InvoiceTemplatesPage.tsx).                *)
(*                                                                         *)
(* A date is <<year, month, day>>. The clock visits the dates of Dates in  *)
(* order and, on each, first the hours after midnight in which the UTC     *)
(* date is still yesterday's, then the rest of the day. Generation may     *)
(* come late. The form keeps what it loaded until the query is fetched     *)
(* again. One admin; every request is one transaction (their interleavings *)
(* are the subject of Billing).                                            *)
(***************************************************************************)
EXTENDS Integers, FiniteSetsExt

CONSTANTS Dates,      \* the dates the clock visits
          Opening,    \* bound: the dates on which the template is created
          Intervals,  \* intervals a template may have
          Forms,      \* whether the form is used to edit
          MaxToggles, \* bound: pauses and resumptions from the list
          MaxSaves,   \* bound: saves of the form
          Absent

IsLeap(y) == y % 4 = 0 /\ (y % 100 # 0 \/ y % 400 = 0)

LastDay(y, m) ==
  CASE m \in {4, 6, 9, 11} -> 30
    [] m = 2 -> IF IsLeap(y) THEN 29 ELSE 28
    [] OTHER -> 31

RealDate == {d \in Nat \X (1..12) \X (1..31) : d[3] <= LastDay(d[1], d[2])}

MONTHS_PER_INTERVAL == [monthly |-> 1, quarterly |-> 3, yearly |-> 12]

\* What is assumed of the constants; asserted where they get their values.
DatesAssumption ==
  /\ Dates \subseteq RealDate
  /\ Opening \subseteq Dates
  /\ Intervals \subseteq DOMAIN MONTHS_PER_INTERVAL
  /\ Forms \in BOOLEAN /\ {MaxToggles, MaxSaves} \subseteq Nat

VARIABLES
  todayIso,   \* the date in Stockholm
  early,      \* whether UTC is still on the date before
  tpl,        \* the row of invoice_templates, or Absent
  form,       \* the open form, or Absent
  billed,     \* history: invoices generated, with what the admin had asked for
  twice,      \* history: some date was billed again
  anchor,     \* history: the day of the month the admin chose
  savedOn,    \* history: the date of the last save of the form
  dueInPause, \* history: billing dates that passed while the template was paused
  toggles, saves

dateVars == <<todayIso, early, tpl, form, billed, twice, anchor, savedOn, dueInPause,
              toggles, saves>>

history == <<billed, twice, dueInPause>>

-----------------------------------------------------------------------------
(* Calendar.                                                               *)

\* Two dates compared as their ISO strings are.
Before(d, e) == 372 * d[1] + 31 * d[2] + d[3] < 372 * e[1] + 31 * e[2] + e[3]

\* addDays(d, 1)
addDay(d) ==
  IF d[3] < LastDay(d[1], d[2]) THEN <<d[1], d[2], d[3] + 1>>
  ELSE IF d[2] < 12 THEN <<d[1], d[2] + 1, 1>>
  ELSE <<d[1] + 1, 1, 1>>

dayOfMonth(d) == d[3]

\* Mutant of advanceByInterval: the day is taken from the last date.
ClampedAgain(d, interval, billingDay) ==
  LET totalMonths == d[2] - 1 + MONTHS_PER_INTERVAL[interval]
      y == d[1] + totalMonths \div 12
      m == (totalMonths % 12) + 1
  IN <<y, m, Min({d[3], LastDay(y, m)})>>

advanceByInterval(d, interval, billingDay) ==
  LET totalMonths == d[2] - 1 + MONTHS_PER_INTERVAL[interval]
      y == d[1] + totalMonths \div 12
      m == (totalMonths % 12) + 1
  IN <<y, m, Min({billingDay, LastDay(y, m)})>>

-----------------------------------------------------------------------------
\* The first of a set of dates.
Earliest(S) == {d \in S : \A e \in S : ~Before(e, d)}

DatesInit ==
  /\ todayIso \in Earliest(Dates)
  /\ early = TRUE
  /\ tpl = Absent
  /\ form = Absent
  /\ billed = {}
  /\ twice = FALSE
  /\ anchor = Absent
  /\ savedOn = Absent
  /\ dueInPause = {}
  /\ toggles = 0
  /\ saves = 0

\* The clock moves on; a billing date that goes by while the template is
\* paused is remembered. Bound: the job is at most one period behind.
clockMoves ==
  /\ ~early /\ tpl # Absent /\ tpl.active =>
       Before(todayIso, advanceByInterval(tpl.next, tpl.interval, tpl.billingDay))
  /\ IF early THEN todayIso' = todayIso
     ELSE todayIso' \in Earliest({d \in Dates : Before(todayIso, d)})
  /\ early' = ~early
  /\ dueInPause' =
       IF tpl # Absent /\ ~tpl.active /\ ~early /\ ~Before(todayIso, tpl.next)
       THEN dueInPause \cup {tpl.next} ELSE dueInPause
  /\ UNCHANGED <<tpl, form, billed, twice, anchor, savedOn, toggles, saves>>

\* Mutant of generateFromTemplateInTx: the schedule goes on from today.
FromToday ==
  /\ ~early /\ tpl # Absent /\ tpl.active /\ ~Before(todayIso, tpl.next)
  /\ billed' = billed \cup {[date |-> tpl.next, anchor |-> anchor, savedOn |-> savedOn]}
  /\ twice' = (twice \/ \E b \in billed : b.date = tpl.next)
  /\ tpl' = [tpl EXCEPT !.next = advanceByInterval(todayIso, tpl.interval, tpl.billingDay)]
  /\ UNCHANGED <<todayIso, early, form, anchor, savedOn, dueInPause, toggles, saves>>

\* The nightly job finds the template due, issues an invoice dated with the
\* scheduled date and advances the schedule from there.
generateFromTemplateInTx ==
  /\ ~early
  /\ tpl # Absent
  /\ tpl.active
  /\ ~Before(todayIso, tpl.next)
  /\ billed' = billed \cup {[date |-> tpl.next, anchor |-> anchor, savedOn |-> savedOn]}
  /\ twice' = (twice \/ \E b \in billed : b.date = tpl.next)
  /\ tpl' = [tpl EXCEPT !.next = advanceByInterval(@, tpl.interval, tpl.billingDay)]
  /\ UNCHANGED <<todayIso, early, form, anchor, savedOn, dueInPause, toggles, saves>>

-----------------------------------------------------------------------------
(* The pages.                                                              *)

\* tomorrowIso adds a day in local time and formats in UTC.
tomorrowIso == IF early THEN todayIso ELSE addDay(todayIso)

openNew ==
  /\ todayIso \in Opening
  /\ form = Absent /\ tpl = Absent /\ billed = {}
  /\ \E i \in Intervals :
       form' = [edit |-> FALSE, loaded |-> Absent, date |-> tomorrowIso, interval |-> i,
                active |-> TRUE, typed |-> FALSE, opened |-> todayIso]
  /\ UNCHANGED <<todayIso, early, tpl, history, anchor, savedOn, toggles, saves>>

Loaded(row) ==
  [edit |-> TRUE, loaded |-> row, date |-> row.next, interval |-> row.interval,
   active |-> row.active, typed |-> FALSE, opened |-> Absent]

openTemplate ==
  /\ Forms
  /\ form = Absent /\ tpl # Absent /\ saves < MaxSaves
  /\ form' = Loaded(tpl)
  /\ UNCHANGED <<todayIso, early, tpl, history, anchor, savedOn, toggles, saves>>

\* The query is fetched again (the window gets the focus): a row that differs
\* from the one loaded replaces everything in the form.
refetch ==
  /\ form # Absent /\ form.edit
  /\ tpl # Absent /\ tpl # form.loaded
  /\ form' = Loaded(tpl)
  /\ UNCHANGED <<todayIso, early, tpl, history, anchor, savedOn, toggles, saves>>

\* The admin picks a date: any, on a new template; on an old one the day after.
pickDate ==
  /\ form # Absent
  /\ \E d \in IF form.edit THEN {addDay(todayIso)} ELSE {e \in Dates : Before(todayIso, e)} :
       form' = [form EXCEPT !.date = d, !.typed = TRUE]
  /\ UNCHANGED <<todayIso, early, tpl, history, anchor, savedOn, toggles, saves>>

\* The checkbox of the form.
setIsActive ==
  /\ form # Absent /\ form.edit
  /\ form' = [form EXCEPT !.active = ~@]
  /\ UNCHANGED <<todayIso, early, tpl, history, anchor, savedOn, toggles, saves>>

closeForm ==
  /\ form # Absent
  /\ form' = Absent
  /\ UNCHANGED <<todayIso, early, tpl, history, anchor, savedOn, toggles, saves>>

\* Mutant of assertTemplateDate: a date in the past is let through.
AnyDate(d) == TRUE

assertTemplateDate(d) == ~Before(d, todayIso)

createTemplateInTx ==
  /\ form # Absent /\ ~form.edit
  /\ assertTemplateDate(form.date)
  /\ tpl' = [next |-> form.date, interval |-> form.interval,
             billingDay |-> dayOfMonth(form.date), active |-> TRUE]
  /\ anchor' = dayOfMonth(form.date)
  /\ savedOn' = todayIso
  /\ form' = Absent
  /\ UNCHANGED <<todayIso, early, history, toggles, saves>>

\* The form always sends the date, so the day of the month is always set anew.
updateTemplate ==
  /\ form # Absent /\ form.edit
  /\ tpl # Absent
  /\ assertTemplateDate(form.date)
  /\ tpl' = [next |-> form.date, interval |-> form.interval,
             billingDay |-> dayOfMonth(form.date), active |-> form.active]
  /\ anchor' = IF form.typed THEN dayOfMonth(form.date) ELSE anchor
  /\ savedOn' = todayIso
  /\ form' = Absent
  /\ saves' = saves + 1
  /\ UNCHANGED <<todayIso, early, history, toggles>>

\* The list page pauses or resumes: only isActive is sent.
toggleActive ==
  /\ tpl # Absent
  /\ toggles < MaxToggles
  /\ tpl' = [tpl EXCEPT !.active = ~@]
  /\ toggles' = toggles + 1
  /\ UNCHANGED <<todayIso, early, form, history, anchor, savedOn, saves>>

removeTemplate ==
  /\ tpl # Absent
  /\ tpl' = Absent
  /\ UNCHANGED <<todayIso, early, form, history, anchor, savedOn, toggles, saves>>

DatesNext ==
  \/ clockMoves \/ generateFromTemplateInTx
  \/ openNew \/ openTemplate \/ refetch \/ pickDate \/ setIsActive \/ closeForm
  \/ createTemplateInTx \/ updateTemplate \/ toggleActive \/ removeTemplate

DatesSpec == DatesInit /\ [][DatesNext]_dateVars

-----------------------------------------------------------------------------
(* Properties.                                                             *)

\* The state has its types; every date of a row or a form exists.
DatesTypeOK ==
  LET Real(d) == d[2] \in 1..12 /\ d[3] \in 1..LastDay(d[1], d[2])
  IN /\ todayIso \in Dates /\ early \in BOOLEAN /\ twice \in BOOLEAN
     /\ tpl # Absent => Real(tpl.next) /\ tpl.interval \in Intervals /\ tpl.billingDay \in 1..31
     /\ form # Absent => Real(form.date) /\ form.active \in BOOLEAN
     /\ \A b \in billed : Real(b.date)
     /\ toggles \in 0..MaxToggles /\ saves \in 0..MaxSaves

\* Every invoice of a template is dated on the day of the month the admin
\* chose, or on the month's last day where that day does not exist: a short
\* month does not move the ones after it.
AnchorKept ==
  \A b \in billed : b.date[3] = Min({b.anchor, LastDay(b.date[1], b.date[2])})

\* Late generation and pauses neither shift nor drop a period: the invoices
\* of a template nobody edits are an interval apart, without a gap.
NoPeriodSkipped ==
  tpl # Absent =>
    LET Month(d) == 12 * d[1] + d[2]
        months == {Month(b.date) : b \in billed}
        step == MONTHS_PER_INTERVAL[tpl.interval]
    IN billed # {} =>
         months = {m \in Min(months)..(Month(tpl.next) - 1) : (m - Min(months)) % step = 0}

\* A date that the form saves lies ahead: no invoice issued after a save is
\* dated before the day of that save.
NoBackdating == \A b \in billed : ~Before(b.date, b.savedOn)

\* A short month does not move the billing dates after it, and late generation
\* and pauses neither shift nor drop a period, as long as no form is saved over
\* the schedule; and no invoice issued after a save is dated before that save
\* (domain/dates.ts, InvoiceTemplateFormPage.tsx).
DatesKept == (saves = 0 => AnchorKept /\ NoPeriodSkipped) /\ NoBackdating

-----------------------------------------------------------------------------
(* What the code does not keep, though its documents say so: see the README. *)

\* No two invoices of a template are for the same date.
OneInvoicePerDate == ~twice

\* "Aktiv (avmarkerad = pausad, genereras inte)": a billing date that passed
\* while the template was paused is not invoiced.
PausedNotBilled == \A b \in billed : b.date \notin dueInPause

\* The form for a new template proposes tomorrow's date (tomorrowIso).
DefaultIsTomorrow ==
  form # Absent /\ ~form.edit /\ ~form.typed => form.date = addDay(form.opened)
=============================================================================
