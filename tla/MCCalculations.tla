--------------------------- MODULE MCCalculations ---------------------------
(***************************************************************************)
(* Money, dates and numbers: amounts of an invoice, dates of a template,   *)
(* edits of a template while a run bills it, the nightly timer, OCR        *)
(* references and personal numbers, each in the instance worth checking.   *)
(* A behaviour plays one scenario, that is one component; the others stay  *)
(* at their initial states.                                                *)
(***************************************************************************)
EXTENDS InvoiceAmounts, OcrNumbers, DailyTimer, CustomerIdentity, RecurringDates, Billing

CONSTANTS Scenarios   \* the scenarios this run plays

VARIABLES scenario

calculationVars == <<scenario, amountVars, dateVars, timerVars, ocrVars, identityVars, vars>>

-----------------------------------------------------------------------------
\* People who turn a hundred, are born, or share ten digits with somebody born a
\* century before.
people == {<<1899, 1>>, <<1926, 1>>, <<1927, 1>>, <<1999, 1>>, <<2026, 1>>, <<2027, 1>>}

\* The last days of the months around a turn of the year and a leap day, where
\* dates are clamped and recover, and a short February later.
lastDays ==
    {d \in ({2027} \X {12} \X {30, 31}) \cup ({2028} \X (1..4) \X {30, 31}) : d \in RealDate}
    \cup {<<2028, 2, 29>>, <<2029, 2, 28>>}

\* The template is created at the end of the year.
yearEnd == {<<2027, 12, 30>>, <<2027, 12, 31>>}

\* What the components assume, and what their theorems do.
ASSUME InstancesAssumption ==
    /\ AmountsAssumption /\ DatesAssumption
    /\ TimerAssumption /\ MaxRun >= 1 /\ MaxLate + MaxRun < 23
    /\ OcrAssumption /\ IdentityAssumption /\ ~NewYear

-----------------------------------------------------------------------------
CalculationsInit ==
    /\ scenario \in Scenarios
    /\ AmountsInit /\ OcrInit /\ TimerInit /\ IdentityInit /\ DatesInit /\ Init
    /\ scenario # "timer" => hour = 0
    /\ scenario # "ocr" => first = 1

CalculationsNext ==
    /\ UNCHANGED scenario
    /\ \/ /\ scenario = "amounts" /\ AmountsNext
          /\ UNCHANGED <<dateVars, vars, timerVars, ocrVars, identityVars>>
       \/ /\ scenario = "dates" /\ DatesNext
          /\ UNCHANGED <<amountVars, vars, timerVars, ocrVars, identityVars>>
       \/ /\ scenario = "editing" /\ Next
          /\ UNCHANGED <<amountVars, dateVars, timerVars, ocrVars, identityVars>>
       \/ /\ scenario = "timer" /\ TimerNext
          /\ UNCHANGED <<amountVars, dateVars, vars, ocrVars, identityVars>>
       \/ /\ scenario = "ocr" /\ OcrNext
          /\ UNCHANGED <<amountVars, dateVars, vars, timerVars, identityVars>>
       \/ /\ scenario = "identity" /\ IdentityNext
          /\ UNCHANGED <<amountVars, dateVars, vars, timerVars, ocrVars>>

Calculations == CalculationsInit /\ [][CalculationsNext]_calculationVars
=============================================================================
