------------------------ MODULE PaymentIntake_proofs ------------------------
(***************************************************************************)
(* What holds of PaymentIntake for all files and webhooks, any number of   *)
(* requests and any failures: its types, that a satisfied sender's lines   *)
(* are decided, and that each step is one of BankTransactions.             *)
(***************************************************************************)
EXTENDS PaymentIntake, TLAPS

RowTypes == [Keys -> [status : Status, invoice : Nat, amount : Nat]]
RequestTypes == [at : {"idle", "line", "tenant", "invoice", "resolve"},
                 job : Jobs \cup {""}, line : Nat, tenant : BOOLEAN,
                 answer : InvoiceAnswers \cup {NoInvoice}, unresolved : Nat]

IsDecided(k) == rows[k].status \notin {"none", "pending"}
Accepted(j, n) == n \in DOMAIN Lines[j] /\ Lines[j][n].ok

\* A request that is between intake and decision has its row; one that has
\* met no failure leaves only decided rows behind.
RequestSound(r) ==
    /\ req[r].at # "idle" => req[r].job \in Jobs /\ req[r].line >= 1
    /\ req[r].at \in {"tenant", "invoice", "resolve"} =>
         Accepted(req[r].job, req[r].line) /\ rows[Key(r)].status # "none"
    /\ req[r].at # "idle" /\ req[r].unresolved = 0 =>
         \A n \in DOMAIN Lines[req[r].job] :
           n < req[r].line /\ Accepted(req[r].job, n) => IsDecided(externalId(req[r].job, n))

Typed ==
    /\ rows \in RowTypes
    /\ req \in [Requests -> RequestTypes]
    /\ satisfied \subseteq Jobs
    /\ failures \in 0 .. MaxFailures

\* An event is written with the decision, and the decision is made once.
AnnouncedOnce == events = [k \in Keys |-> IF rows[k].status = "matched" THEN 1 ELSE 0]

AllDecided == \A j \in satisfied : \A k \in KeysOf(j) : IsDecided(k)

IntakeInv == Typed /\ AnnouncedOnce /\ AllDecided /\ \A r \in Requests : RequestSound(r)

\* The only ways a row changes its status, each with its event.
RowMove(k, to) ==
    /\ \/ rows[k].status = "none" /\ to = "pending"
       \/ rows[k].status = "pending" /\ to \in {"matched", "manual_review", "unmatched"}
       \/ rows[k].status = "manual_review" /\ to \in {"matched", "ignored"}
    /\ rows'[k].status = to
    /\ \A l \in Keys \ {k} : rows'[l] = rows[l]
    /\ events' = [events EXCEPT ![k] = IF to = "matched" THEN @ + 1 ELSE @]

RowsStay == (\A k \in Keys : rows'[k].status = rows[k].status) /\ events' = events

-----------------------------------------------------------------------------
LEMMA AcceptedKeys ==
  ASSUME NEW j \in Jobs, NEW n, Accepted(j, n)
  PROVE  externalId(j, n) \in Keys /\ externalId(j, n) \in KeysOf(j)
  BY DEF Accepted, Keys, KeysOf

LEMMA InitInv == IntakeAssumption /\ Init => IntakeInv
<1> SUFFICES ASSUME IntakeAssumption, Init PROVE IntakeInv
  OBVIOUS
<1>1. Idle \in RequestTypes
  BY DEF Idle, RequestTypes
<1>2. Typed
  BY <1>1 DEF Init, Typed, RowTypes, Status, IntakeAssumption
<1>3. AnnouncedOnce /\ AllDecided
  BY DEF Init, AnnouncedOnce, AllDecided
<1>4. \A r \in Requests : RequestSound(r)
  BY DEF Init, RequestSound, Idle
<1> QED
  BY <1>2, <1>3, <1>4 DEF IntakeInv

LEMMA DecisionIs ==
  ASSUME NEW r PROVE decideMatch(r) \in {"unmatched", "manual_review", "matched"}
  BY DEF decideMatch

\* A row moves with its event, or nothing that is announced changes.
LEMMA RowsStep ==
  ASSUME IntakeAssumption, IntakeInv, [Next]_vars
  PROVE  rows' \in RowTypes /\ (RowsStay \/ \E k \in Keys, to \in Status : RowMove(k, to))
<1>1. /\ rows \in RowTypes
      /\ events = [k \in Keys |-> IF rows[k].status = "matched" THEN 1 ELSE 0]
  BY DEF IntakeInv, Typed, AnnouncedOnce
<1>2. CASE UNCHANGED <<rows, events>>
  BY <1>1, <1>2 DEF RowsStay
<1>3. ASSUME NEW r \in Requests, intake(r)
      PROVE  rows' \in RowTypes /\ (RowsStay \/ \E k \in Keys, to \in Status : RowMove(k, to))
  <2> DEFINE k == Key(r)
  <2>1. k \in Keys /\ Line(r).amount \in Nat /\ UNCHANGED events
    <3>1. req[r].job \in Jobs /\ req[r].line \in Nat /\ req[r].line >= 1
      BY <1>3 DEF intake, IntakeInv, Typed, RequestTypes, RequestSound
    <3>2. Accepted(req[r].job, req[r].line)
      BY <1>3, <3>1 DEF intake, Accepted, Line, IntakeAssumption
    <3> QED
      BY <1>3, <3>1, <3>2, AcceptedKeys DEF intake, Key, Line, Accepted, IntakeAssumption
  <2> HIDE DEF k
  <2>2. CASE rows[k].status \in {"none", "pending"}
    <3>1. rows' = [rows EXCEPT ![k].status = "pending", ![k].amount = Line(r).amount]
      BY <1>3, <2>2 DEF intake, k
    <3>2. rows' \in RowTypes /\ rows'[k].status = "pending" /\ \A l \in Keys \ {k} : rows'[l] = rows[l]
      BY <1>1, <2>1, <3>1 DEF RowTypes, Status
    <3>3. CASE rows[k].status = "none"
      <4>1. RowMove(k, "pending")
        BY <1>1, <2>1, <3>2, <3>3 DEF RowMove
      <4> QED
        BY <2>1, <3>2, <4>1 DEF Status
    <3>4. CASE rows[k].status = "pending"
      BY <2>1, <3>2, <3>4 DEF RowsStay
    <3> QED
      BY <2>2, <3>2, <3>3, <3>4
  <2>3. CASE rows[k].status \notin {"none", "pending"}
    BY <1>2, <1>3, <2>1, <2>3 DEF intake, k
  <2> QED
    BY <2>2, <2>3
<1>4. ASSUME NEW r \in Requests, resolvePending(r)
      PROVE  rows' \in RowTypes /\ (RowsStay \/ \E k \in Keys, to \in Status : RowMove(k, to))
  <2> DEFINE k == Key(r)
             to == decideMatch(r)
             id == IF to = "matched" THEN req[r].answer.id ELSE 0
  <2>1. k \in Keys /\ id \in Nat
    <3>1. /\ req[r].job \in Jobs /\ Accepted(req[r].job, req[r].line)
          /\ req[r].answer \in InvoiceAnswers \cup {NoInvoice}
      BY <1>4 DEF resolvePending, IntakeInv, Typed, RequestTypes, RequestSound
    <3> QED
      BY <3>1, AcceptedKeys DEF Key, IntakeAssumption, NoInvoice
  <2>2. to \in {"unmatched", "manual_review", "matched"}
    BY DecisionIs
  <2>3. CASE rows[k].status = "pending"
    <3>1. /\ rows' = [rows EXCEPT ![k].status = to, ![k].invoice = id]
          /\ events' = [events EXCEPT ![k] = IF to = "matched" THEN @ + 1 ELSE @]
      BY <1>4, <2>3 DEF resolvePending, Decided, Announce
    <3> HIDE DEF k, to, id
    <3>2. rows' \in RowTypes /\ rows'[k].status = to /\ \A l \in Keys \ {k} : rows'[l] = rows[l]
      BY <1>1, <2>1, <2>2, <3>1 DEF RowTypes, Status
    <3>3. RowMove(k, to)
      BY <2>2, <2>3, <3>1, <3>2 DEF RowMove
    <3> QED
      BY <2>1, <2>2, <3>2, <3>3 DEF Status
  <2>4. CASE rows[k].status # "pending"
    BY <1>2, <1>4, <2>4 DEF resolvePending
  <2> QED
    BY <2>3, <2>4
<1>5. ASSUME NEW k \in Keys, NEW a \in InvoiceAnswers, NEW accept \in BOOLEAN,
             matchInTx(k, a, accept)
      PROVE  rows' \in RowTypes /\ (RowsStay \/ \E l \in Keys, to \in Status : RowMove(l, to))
  <2>1. /\ rows' = [rows EXCEPT ![k].status = "matched", ![k].invoice = a.id]
        /\ events' = [events EXCEPT ![k] = @ + 1]
    BY <1>5 DEF matchInTx, Announce
  <2>2. /\ rows' \in RowTypes /\ rows'[k].status = "matched"
        /\ \A l \in Keys \ {k} : rows'[l] = rows[l]
    BY <1>1, <2>1 DEF RowTypes, Status, IntakeAssumption
  <2>3. RowMove(k, "matched")
    BY <1>5, <2>1, <2>2 DEF RowMove, matchInTx
  <2> QED
    BY <2>2, <2>3 DEF Status
<1>6. ASSUME NEW k \in Keys, ignoreInTx(k)
      PROVE  rows' \in RowTypes /\ (RowsStay \/ \E l \in Keys, to \in Status : RowMove(l, to))
  <2>1. rows' = [rows EXCEPT ![k].status = "ignored"] /\ UNCHANGED events
    BY <1>6 DEF ignoreInTx
  <2>2. /\ rows' \in RowTypes /\ rows'[k].status = "ignored"
        /\ \A l \in Keys \ {k} : rows'[l] = rows[l]
    BY <1>1, <2>1 DEF RowTypes, Status
  <2>3. RowMove(k, "ignored")
    BY <1>1, <1>6, <2>1, <2>2 DEF RowMove, ignoreInTx
  <2> QED
    BY <2>2, <2>3 DEF Status
<1>7. ASSUME NEW r \in Requests,
             \/ skipLine(r) \/ respond(r) \/ matchFails(r) \/ processDies(r)
             \/ \E known \in BOOLEAN : resolveTenant(r, known)
             \/ \E a \in InvoiceAnswers \cup {NoInvoice} : resolveInvoice(r, a)
             \/ \E j \in Jobs : receive(r, j)
      PROVE  UNCHANGED <<rows, events>>
  BY <1>7 DEF skipLine, respond, matchFails, processDies, resolveTenant, resolveInvoice, receive
<1>8. CASE UNCHANGED vars
  BY <1>2, <1>8 DEF vars
<1> QED
  BY <1>2, <1>3, <1>4, <1>5, <1>6, <1>7, <1>8 DEF Next, RequestStep

\* What is received stays received, what is decided stays decided, and a row
\* is matched once.
LEMMA RowsKeep ==
  ASSUME IntakeAssumption, IntakeInv, [Next]_vars
  PROVE  /\ \A k \in Keys : rows[k].status # "none" => rows'[k].status # "none"
         /\ \A k \in Keys : IsDecided(k) => IsDecided(k)'
         /\ AnnouncedOnce'
<1>1. /\ rows \in RowTypes
      /\ events = [k \in Keys |-> IF rows[k].status = "matched" THEN 1 ELSE 0]
  BY DEF IntakeInv, Typed, AnnouncedOnce
<1>2. CASE RowsStay
  BY <1>1, <1>2 DEF RowsStay, IsDecided, AnnouncedOnce
<1>3. ASSUME NEW k \in Keys, NEW to \in Status, RowMove(k, to)
      PROVE  /\ \A l \in Keys : rows[l].status # "none" => rows'[l].status # "none"
             /\ \A l \in Keys : IsDecided(l) => IsDecided(l)'
             /\ AnnouncedOnce'
  <2>1. \A l \in Keys : rows[l].status # "none" => rows'[l].status # "none"
    BY <1>3 DEF RowMove
  <2>2. \A l \in Keys : IsDecided(l) => IsDecided(l)'
    BY <1>3 DEF RowMove, IsDecided
  <2>3. rows[k].status # "matched"
    BY <1>3 DEF RowMove
  <2>4. events' = [l \in Keys |-> IF l = k /\ to = "matched" THEN 1 ELSE events[l]]
    BY <1>1, <1>3, <2>3 DEF RowMove
  <2>5. AnnouncedOnce'
    BY <1>1, <1>3, <2>3, <2>4 DEF RowMove, AnnouncedOnce
  <2> QED
    BY <2>1, <2>2, <2>5
<1> QED
  BY <1>2, <1>3, RowsStep

\* A request that the step leaves alone stays sound.
LEMMA OthersSound ==
  ASSUME IntakeAssumption, IntakeInv, [Next]_vars, NEW r \in Requests, req'[r] = req[r]
  PROVE  RequestSound(r)'
<1>1. RequestSound(r)
  BY DEF IntakeInv
<1>2. Key(r)' = Key(r)
  BY DEF Key, externalId
<1>3. \A j \in Jobs : \A n : Accepted(j, n) => externalId(j, n) \in Keys
  BY AcceptedKeys
<1>4. req[r].at \in {"tenant", "invoice", "resolve"} => Key(r) \in Keys
  BY <1>1, <1>3 DEF RequestSound, Key
<1>5. req[r].at \in {"tenant", "invoice", "resolve"} =>
        Accepted(req[r].job, req[r].line) /\ rows'[Key(r)].status # "none"
  BY <1>1, <1>4, RowsKeep DEF RequestSound
<1>6. req[r].at # "idle" /\ req[r].unresolved = 0 =>
        \A n \in DOMAIN Lines[req[r].job] :
          n < req[r].line /\ Accepted(req[r].job, n) => IsDecided(externalId(req[r].job, n))'
  BY <1>1, <1>3, RowsKeep DEF RequestSound
<1> HIDE DEF IntakeAssumption
<1> QED
  BY <1>1, <1>2, <1>5, <1>6 DEF RequestSound, Accepted

\* The request that goes to its next line.
LEMMA NextLineIs ==
  ASSUME IntakeInv, NEW r \in Requests, NEW failed \in BOOLEAN, NextLine(r, failed),
         req[r].at # "idle"
  PROVE  /\ req' \in [Requests -> RequestTypes]
         /\ \A q \in Requests \ {r} : req'[q] = req[q]
         /\ req'[r].at = "line" /\ req'[r].job = req[r].job /\ req'[r].line = req[r].line + 1
         /\ req'[r].unresolved = req[r].unresolved + (IF failed THEN 1 ELSE 0)
<1>1. req \in [Requests -> RequestTypes] /\ req[r] \in RequestTypes
  BY DEF IntakeInv, Typed
<1>2. req[r].job \in Jobs \cup {""} /\ req[r].line \in Nat /\ req[r].unresolved \in Nat
  BY <1>1 DEF RequestTypes
<1> DEFINE i == IF failed THEN 1 ELSE 0
           u == req[r].unresolved + i
           n == req[r].line + 1
<1>3. i \in Nat
  OBVIOUS
<1>8. \A a, b \in Nat : a + b \in Nat
  OBVIOUS
<1>4. n \in Nat /\ u \in Nat
  BY <1>2, <1>3, <1>8
<1> DEFINE q == [Idle EXCEPT !.at = "line", !.job = req[r].job, !.line = n, !.unresolved = u]
<1>5. req' = [req EXCEPT ![r] = q]
  BY DEF NextLine, i
<1> HIDE DEF u, n
<1>6. q \in RequestTypes /\ q.at = "line" /\ q.job = req[r].job /\ q.line = n /\ q.unresolved = u
  BY <1>2, <1>4 DEF Idle, RequestTypes
<1> HIDE DEF q
<1>7. /\ req' \in [Requests -> RequestTypes]
      /\ \A p \in Requests \ {r} : req'[p] = req[p]
      /\ req'[r].at = "line" /\ req'[r].job = req[r].job /\ req'[r].line = n
      /\ req'[r].unresolved = u
  BY <1>1, <1>5, <1>6
<1> QED
  BY <1>7 DEF u, n, i

\* It is sound there if the line it leaves is decided, refused, or counted as
\* unresolved.
LEMMA NextLineSound ==
  ASSUME IntakeAssumption, IntakeInv, [Next]_vars, NEW r \in Requests, NEW failed \in BOOLEAN,
         NextLine(r, failed), req[r].at # "idle",
         \/ failed
         \/ ~Accepted(req[r].job, req[r].line)
         \/ rows'[Key(r)].status \notin {"none", "pending"}
  PROVE  RequestSound(r)'
<1> DEFINE j == req[r].job
           Done(n) == rows'[externalId(j, n)].status \notin {"none", "pending"}
<1>1. /\ req'[r].at = "line" /\ req'[r].job = j /\ req'[r].line = req[r].line + 1
      /\ req'[r].unresolved = req[r].unresolved + (IF failed THEN 1 ELSE 0)
  BY NextLineIs
<1>2. /\ req[r].line \in Nat /\ req[r].unresolved \in Nat /\ j \in Jobs /\ req[r].line >= 1
      /\ req[r].unresolved = 0 =>
           \A n \in DOMAIN Lines[j] :
             n < req[r].line /\ Accepted(j, n) => IsDecided(externalId(j, n))
  BY DEF IntakeInv, Typed, RequestTypes, RequestSound
<1>3. ASSUME req'[r].unresolved = 0, NEW n \in DOMAIN Lines[j], n < req[r].line + 1, Accepted(j, n)
      PROVE  Done(n)
  <2>1. ~failed /\ req[r].unresolved = 0
    BY <1>1, <1>2, <1>3
  <2>2. n \in Nat
    BY <1>2 DEF IntakeAssumption
  <2>3. CASE n < req[r].line
    <3> DEFINE k == externalId(j, n)
    <3>1. k \in Keys /\ IsDecided(k)
      BY <1>2, <1>3, <2>1, <2>3, AcceptedKeys
    <3> HIDE DEF k
    <3>2. rows'[k].status \notin {"none", "pending"}
      BY <3>1, RowsKeep DEF IsDecided
    <3> QED
      BY <3>2 DEF k
  <2>4. CASE n = req[r].line
    BY <1>3, <2>1, <2>4 DEF Key
  <2> QED
    BY <1>2, <1>3, <2>2, <2>3, <2>4
<1> HIDE DEF j
<1>4. req'[r].at # "idle" => req'[r].job \in Jobs /\ req'[r].line >= 1
  BY <1>1, <1>2
<1>5. req'[r].at \notin {"tenant", "invoice", "resolve"}
  BY <1>1
<1>6. req'[r].unresolved = 0 =>
         \A n \in DOMAIN Lines[req'[r].job] :
           n < req'[r].line /\ Accepted(req'[r].job, n) =>
             rows'[externalId(req'[r].job, n)].status \notin {"none", "pending"}
  BY <1>1, <1>3
<1> QED
  BY <1>4, <1>5, <1>6 DEF RequestSound, IsDecided, Accepted, externalId

\* So it is where a request goes on with its line, whose row there is.
LEMMA SameLineSound ==
  ASSUME IntakeAssumption, IntakeInv, [Next]_vars, NEW r \in Requests,
         req[r].at # "idle", Accepted(req[r].job, req[r].line),
         rows'[Key(r)].status # "none",
         req'[r].job = req[r].job, req'[r].line = req[r].line,
         req'[r].unresolved = req[r].unresolved
  PROVE  RequestSound(r)'
<1> DEFINE j == req[r].job
<1>1. /\ j \in Jobs /\ req[r].line >= 1
      /\ req[r].unresolved = 0 =>
           \A n \in DOMAIN Lines[j] :
             n < req[r].line /\ Accepted(j, n) => IsDecided(externalId(j, n))
  BY DEF IntakeInv, RequestSound
<1>2. ASSUME req[r].unresolved = 0, NEW n \in DOMAIN Lines[j], n < req[r].line, Accepted(j, n)
      PROVE  rows'[externalId(j, n)].status \notin {"none", "pending"}
  <2> DEFINE k == externalId(j, n)
  <2>1. k \in Keys /\ IsDecided(k)
    BY <1>1, <1>2, AcceptedKeys
  <2> HIDE DEF k
  <2>2. rows'[k].status \notin {"none", "pending"}
    BY <2>1, RowsKeep DEF IsDecided
  <2> QED
    BY <2>2 DEF k
<1>3. rows'[externalId(req'[r].job, req'[r].line)].status # "none"
  BY DEF Key
<1> QED
  BY <1>1, <1>2, <1>3 DEF RequestSound, IsDecided, Accepted, Key, externalId

\* The steps of a request keep the invariant.
LEMMA RequestsKept ==
  ASSUME IntakeAssumption, IntakeInv, [Next]_vars
  PROVE  /\ req' \in [Requests -> RequestTypes] /\ satisfied' \subseteq Jobs
         /\ failures' \in 0 .. MaxFailures /\ AllDecided'
         /\ \A r \in Requests : RequestSound(r)'
<1> DEFINE Good == /\ req' \in [Requests -> RequestTypes] /\ satisfied' \subseteq Jobs
                   /\ failures' \in 0 .. MaxFailures /\ AllDecided'
                   /\ \A r \in Requests : RequestSound(r)'
<1>1. /\ req \in [Requests -> RequestTypes] /\ satisfied \subseteq Jobs
      /\ failures \in 0 .. MaxFailures /\ AllDecided /\ \A r \in Requests : RequestSound(r)
  BY DEF IntakeInv, Typed
<1>2. \A j \in Jobs : KeysOf(j) \subseteq Keys
  BY DEF Keys, KeysOf
<1>3. ASSUME UNCHANGED satisfied PROVE AllDecided'
  BY <1>1, <1>2, <1>3, RowsKeep DEF AllDecided, KeysOf, externalId
<1>4. ASSUME UNCHANGED <<satisfied, req, failures>> PROVE Good
  BY <1>1, <1>3, <1>4, OthersSound
<1>5. failures < MaxFailures => failures + 1 \in 0 .. MaxFailures
  BY <1>1 DEF IntakeAssumption
<1>6. ASSUME NEW r \in Requests, NEW q \in RequestTypes, req' = [req EXCEPT ![r] = q],
             satisfied' \subseteq Jobs, failures' \in 0 .. MaxFailures, AllDecided',
             RequestSound(r)'
      PROVE  Good
  <2>1. req' \in [Requests -> RequestTypes] /\ \A p \in Requests \ {r} : req'[p] = req[p]
    BY <1>1, <1>6
  <2>2. \A p \in Requests : RequestSound(p)'
    BY <1>6, <2>1, OthersSound
  <2> QED
    BY <1>6, <2>1, <2>2
<1>7. ASSUME NEW r \in Requests, NEW failed \in BOOLEAN, NextLine(r, failed), req[r].at # "idle",
             \/ failed
             \/ ~Accepted(req[r].job, req[r].line)
             \/ rows'[Key(r)].status \notin {"none", "pending"},
             UNCHANGED satisfied, failures' \in 0 .. MaxFailures
      PROVE  Good
  <2>1. /\ req' \in [Requests -> RequestTypes]
        /\ \A p \in Requests \ {r} : req'[p] = req[p]
    BY <1>7, NextLineIs
  <2>2. RequestSound(r)'
    BY <1>7, NextLineSound
  <2>3. \A p \in Requests : RequestSound(p)'
    BY <2>1, <2>2, OthersSound
  <2> QED
    BY <1>1, <1>3, <1>7, <2>1, <2>3
<1>8. ASSUME NEW r \in Requests, NEW j \in Jobs, receive(r, j) PROVE Good
  <2> DEFINE q == [Idle EXCEPT !.at = "line", !.job = j, !.line = 1]
  <2>1. q \in RequestTypes /\ q.at = "line" /\ q.job = j /\ q.line = 1
    BY DEF Idle, RequestTypes
  <2> HIDE DEF q
  <2>2. req' = [req EXCEPT ![r] = q] /\ UNCHANGED <<satisfied, failures>>
    BY <1>8 DEF receive, q
  <2>3. req'[r] = q
    BY <1>1, <2>2
  <2>4. \A n \in DOMAIN Lines[j] : ~(n < 1)
    BY DEF IntakeAssumption
  <2>5. RequestSound(r)'
    BY <2>1, <2>3, <2>4 DEF RequestSound
  <2> QED
    BY <1>1, <1>3, <1>6, <2>1, <2>2, <2>5
<1>9. ASSUME NEW r \in Requests, skipLine(r) PROVE Good
  <2>1. ~Accepted(req[r].job, req[r].line) /\ req[r].at # "idle" /\ NextLine(r, FALSE)
    BY <1>9 DEF skipLine, Accepted, Line
  <2> QED
    BY <1>1, <1>7, <1>9, <2>1 DEF skipLine
<1>10. ASSUME NEW r \in Requests, intake(r) PROVE Good
  <2>1. req[r].job \in Jobs /\ req[r].line \in Nat /\ req[r].line >= 1
    BY <1>1, <1>10 DEF intake, RequestTypes, RequestSound
  <2>2. Accepted(req[r].job, req[r].line)
    BY <1>10, <2>1 DEF intake, Accepted, Line, IntakeAssumption
  <2>3. Key(r) \in Keys
    BY <2>1, <2>2, AcceptedKeys DEF Key
  <2>4. CASE rows[Key(r)].status \in {"none", "pending"}
    <3> DEFINE q == [req[r] EXCEPT !.at = "tenant"]
    <3>1. req' = [req EXCEPT ![r] = q] /\ UNCHANGED <<satisfied, failures>>
      BY <1>10, <2>4 DEF intake
    <3>2. req[r] \in RequestTypes
      BY <1>1
    <3>3. q \in RequestTypes /\ q.at = "tenant" /\ q.job = req[r].job /\ q.line = req[r].line
          /\ q.unresolved = req[r].unresolved
      BY <3>2 DEF RequestTypes
    <3> HIDE DEF q
    <3>4. req'[r] = q
      BY <1>1, <3>1
    <3> DEFINE k == Key(r)
    <3>5. rows'[k].status # "none"
      BY <1>10, <2>3, <2>4 DEF intake, IntakeInv, Typed, RowTypes
    <3>6. RequestSound(r)'
      BY <1>10, <2>2, <3>3, <3>4, <3>5, SameLineSound DEF intake
    <3> QED
      BY <1>1, <1>3, <1>6, <3>1, <3>3, <3>6
  <2>5. CASE rows[Key(r)].status \notin {"none", "pending"}
    <3> DEFINE k == Key(r)
    <3>1. NextLine(r, FALSE) /\ UNCHANGED <<rows, satisfied, failures>>
      BY <1>10, <2>5 DEF intake
    <3>2. rows'[k].status \notin {"none", "pending"}
      BY <2>5, <3>1
    <3> QED
      BY <1>1, <1>7, <1>10, <3>1, <3>2 DEF intake
  <2> QED
    BY <2>4, <2>5
<1>11. ASSUME NEW r \in Requests, NEW known \in BOOLEAN, resolveTenant(r, known) PROVE Good
  <2> DEFINE at == IF known /\ Line(r).ocr THEN "invoice" ELSE "resolve"
             q == [req[r] EXCEPT !.tenant = known, !.at = at]
  <2>1. req' = [req EXCEPT ![r] = q] /\ UNCHANGED <<rows, satisfied, failures>>
    BY <1>11 DEF resolveTenant
  <2>2. req[r] \in RequestTypes /\ at \in {"invoice", "resolve"}
    BY <1>1
  <2> HIDE DEF at
  <2>3. /\ q \in RequestTypes /\ q.job = req[r].job /\ q.line = req[r].line
        /\ q.unresolved = req[r].unresolved
    BY <2>2 DEF RequestTypes
  <2> HIDE DEF q
  <2>4. req'[r] = q
    BY <1>1, <2>1
  <2>5. /\ req[r].at # "idle" /\ Accepted(req[r].job, req[r].line)
        /\ rows'[Key(r)].status # "none"
    BY <1>1, <1>11, <2>1 DEF RequestSound, resolveTenant
  <2>6. RequestSound(r)'
    BY <2>3, <2>4, <2>5, SameLineSound
  <2> QED
    BY <1>1, <1>3, <1>6, <2>1, <2>3, <2>6
<1>12. ASSUME NEW r \in Requests, NEW a \in InvoiceAnswers \cup {NoInvoice}, resolveInvoice(r, a)
       PROVE  Good
  <2> DEFINE q == [req[r] EXCEPT !.answer = a, !.at = "resolve"]
  <2>1. req' = [req EXCEPT ![r] = q] /\ UNCHANGED <<rows, satisfied, failures>>
    BY <1>12 DEF resolveInvoice
  <2>2. req[r] \in RequestTypes
    BY <1>1
  <2>3. /\ q \in RequestTypes /\ q.job = req[r].job /\ q.line = req[r].line
        /\ q.unresolved = req[r].unresolved
    BY <2>2 DEF RequestTypes
  <2> HIDE DEF q
  <2>4. req'[r] = q
    BY <1>1, <2>1
  <2>5. /\ req[r].at # "idle" /\ Accepted(req[r].job, req[r].line)
        /\ rows'[Key(r)].status # "none"
    BY <1>1, <1>12, <2>1 DEF RequestSound, resolveInvoice
  <2>6. RequestSound(r)'
    BY <2>3, <2>4, <2>5, SameLineSound
  <2> QED
    BY <1>1, <1>3, <1>6, <2>1, <2>3, <2>6
<1>13. ASSUME NEW r \in Requests, resolvePending(r) PROVE Good
  <2> DEFINE k == Key(r)
  <2>1. /\ NextLine(r, FALSE) /\ UNCHANGED <<satisfied, failures>> /\ req[r].at # "idle"
        /\ rows[k].status = "pending" => rows' = Decided(r, k)
        /\ rows[k].status # "pending" => UNCHANGED rows
    BY <1>13 DEF resolvePending
  <2>2. /\ req[r].job \in Jobs /\ Accepted(req[r].job, req[r].line)
        /\ rows[k].status # "none"
    BY <1>1, <1>13 DEF RequestSound, resolvePending
  <2>3. k \in Keys
    BY <2>2, AcceptedKeys DEF Key
  <2>4. CASE rows[k].status = "pending"
    <3> DEFINE to == decideMatch(r)
               id == IF to = "matched" THEN req[r].answer.id ELSE 0
    <3>1. rows' = [rows EXCEPT ![k].status = to, ![k].invoice = id]
      BY <2>1, <2>4 DEF Decided
    <3>2. to \notin {"none", "pending"}
      BY DecisionIs
    <3>3. rows \in RowTypes
      BY DEF IntakeInv, Typed
    <3> HIDE DEF k, to, id
    <3>4. rows'[k].status = to
      BY <2>3, <3>1, <3>3 DEF RowTypes
    <3> QED
      BY <1>1, <1>7, <2>1, <3>2, <3>4 DEF k
  <2>5. CASE rows[k].status # "pending"
    BY <1>1, <1>7, <2>1, <2>2, <2>5
  <2> QED
    BY <2>4, <2>5
<1>14. ASSUME NEW r \in Requests, matchFails(r) PROVE Good
  <2>1. /\ NextLine(r, TRUE) /\ UNCHANGED satisfied /\ req[r].at # "idle"
        /\ failures' = failures + 1 /\ failures < MaxFailures
    BY <1>14 DEF matchFails
  <2> QED
    BY <1>5, <1>7, <2>1
<1>15. Idle \in RequestTypes /\ Idle.at = "idle"
  BY DEF Idle, RequestTypes
<1>16. ASSUME NEW r \in Requests, req' = [req EXCEPT ![r] = Idle] PROVE RequestSound(r)'
  <2>1. req'[r].at = "idle"
    BY <1>1, <1>15, <1>16
  <2> QED
    BY <2>1 DEF RequestSound
<1>17. ASSUME NEW r \in Requests, processDies(r) PROVE Good
  <2>1. /\ req' = [req EXCEPT ![r] = Idle] /\ UNCHANGED satisfied
        /\ failures' = failures + 1 /\ failures < MaxFailures
    BY <1>17 DEF processDies
  <2>2. RequestSound(r)' /\ AllDecided'
    BY <1>3, <1>16, <2>1
  <2> QED
    BY <1>1, <1>5, <1>6, <1>15, <2>1, <2>2
<1>18. ASSUME NEW r \in Requests, respond(r) PROVE Good
  <2> DEFINE j == req[r].job
  <2>1. /\ req' = [req EXCEPT ![r] = Idle] /\ UNCHANGED <<rows, failures>>
        /\ satisfied' = IF req[r].unresolved = 0 THEN satisfied \cup {j} ELSE satisfied
        /\ req[r].at = "line" /\ req[r].line > Len(Lines[j])
    BY <1>18 DEF respond
  <2>2. j \in Jobs /\ req[r].line \in Nat
    BY <1>1, <2>1 DEF RequestSound, RequestTypes
  <2>3. ASSUME req[r].unresolved = 0, NEW k \in KeysOf(j) PROVE IsDecided(k)
    <3>1. PICK n \in DOMAIN Lines[j] : Accepted(j, n) /\ k = externalId(j, n)
      BY <2>3 DEF KeysOf, Accepted
    <3>2. n \in Nat /\ n < req[r].line
      BY <2>1, <2>2 DEF IntakeAssumption
    <3> QED
      BY <1>1, <2>1, <2>3, <3>1, <3>2 DEF RequestSound
  <2> HIDE DEF j
  <2>4. AllDecided'
    BY <1>1, <2>1, <2>3 DEF AllDecided, IsDecided, KeysOf, externalId
  <2>5. satisfied' \subseteq Jobs
    BY <1>1, <2>1, <2>2
  <2> QED
    BY <1>1, <1>6, <1>15, <1>16, <2>1, <2>4, <2>5
<1> HIDE DEF Good
<1>19. ASSUME NEW k \in Keys, \/ ignoreInTx(k)
                              \/ \E a \in InvoiceAnswers, x \in BOOLEAN : matchInTx(k, a, x)
       PROVE  Good
  BY <1>4, <1>19 DEF ignoreInTx, matchInTx
<1>20. Good
  BY <1>4, <1>8, <1>9, <1>10, <1>11, <1>12, <1>13, <1>14, <1>17, <1>18, <1>19
  DEF Next, RequestStep, vars
<1> QED
  BY <1>20 DEF Good

LEMMA NextInv ==
  ASSUME IntakeAssumption, IntakeInv, [Next]_vars PROVE IntakeInv'
<1>1. rows' \in RowTypes
  BY RowsStep
<1>2. AnnouncedOnce'
  BY RowsKeep
<1>3. Typed'
  BY <1>1, RequestsKept DEF Typed, RowTypes, RequestTypes
<1>4. AllDecided' /\ (\A r \in Requests : RequestSound(r))'
  BY RequestsKept
<1> QED
  BY <1>2, <1>3, <1>4 DEF IntakeInv

THEOREM IntakeSound == ASSUME IntakeAssumption PROVE Spec => []IntakeInv
  BY InitInv, NextInv, PTL DEF Spec

(***************************************************************************)
(* The rows, the requests and the counters keep their types; in particular *)
(* a transaction's matching event is written at most once.                 *)
(***************************************************************************)
THEOREM IntakeTypes == ASSUME IntakeAssumption PROVE Spec => []TypeOK
<1>1. IntakeInv => TypeOK
  <2> SUFFICES ASSUME IntakeInv PROVE TypeOK
    OBVIOUS
  <2>1. Typed /\ AnnouncedOnce
    BY DEF IntakeInv
  <2>2. events \in [Keys -> 0 .. 1]
    BY <2>1 DEF AnnouncedOnce
  <2>3. \A r \in Requests : req[r] \in RequestTypes
    BY <2>1 DEF Typed
  <2>4. \A r \in Requests : req[r].at \in {"idle", "line", "tenant", "invoice", "resolve"}
    BY <2>3 DEF RequestTypes
  <2> QED
    BY <2>1, <2>2, <2>4 DEF Typed, RowTypes, TypeOK
<1> QED
  BY <1>1, IntakeSound, PTL

\* Two lines of one job share a row only under an id of the bank's own.
LEMMA RowsApart ==
  ASSUME NEW j \in Jobs, NEW m, NEW n, externalId(j, m) = externalId(j, n)
  PROVE  m = n \/ SameTransaction(Lines[j][m], Lines[j][n])
  BY DEF externalId, SameTransaction

(***************************************************************************)
(* Every line of a file or webhook that was answered without a failure has *)
(* a decided row of its own, whoever decided it.                           *)
(***************************************************************************)
THEOREM SatisfiedDecided == ASSUME IntakeAssumption PROVE Spec => []SatisfiedIsDecided
<1>1. IntakeInv => SatisfiedIsDecided
  <2> SUFFICES ASSUME IntakeInv PROVE SatisfiedIsDecided
    OBVIOUS
  <2>1. AllDecided /\ satisfied \subseteq Jobs
    BY DEF IntakeInv, Typed
  <2> QED
    BY <2>1, RowsApart DEF AllDecided, IsDecided, SatisfiedIsDecided
<1> QED
  BY <1>1, IntakeSound, PTL

\* A row's move is the abstract step of its transaction.
LEMMA RowMoveIsStep ==
  ASSUME rows \in RowTypes, rows' \in RowTypes, NEW k \in Keys, NEW to \in Status,
         RowMove(k, to)
  PROVE  Transactions!Next
<1> DEFINE status == [l \in Keys |-> rows[l].status]
           newStatus == [l \in Keys |-> rows'[l].status]
<1>1. newStatus = [status EXCEPT ![k] = to]
  BY DEF RowMove
<1>2. status[k] = rows[k].status
  OBVIOUS
<1>3. events' = [events EXCEPT ![k] = IF to = "matched" THEN @ + 1 ELSE @]
  BY DEF RowMove
<1> DEFINE M(from) == Transactions!Move(k, from, to)
<1>4. \A from : status[k] = from => M(from)
  BY <1>1, <1>3 DEF Transactions!Move
<1>5. CASE rows[k].status = "none" /\ to = "pending"
  BY <1>2, <1>4, <1>5 DEF Transactions!Next, Transactions!Receive
<1>6. CASE rows[k].status = "pending" /\ to \in {"matched", "manual_review", "unmatched"}
  BY <1>2, <1>4, <1>6 DEF Transactions!Next, Transactions!Decide
<1>7. CASE rows[k].status = "manual_review" /\ to \in {"matched", "ignored"}
  BY <1>2, <1>4, <1>7 DEF Transactions!Next, Transactions!Review
<1> QED
  BY <1>5, <1>6, <1>7 DEF RowMove

(***************************************************************************)
(* Intake, decision and event writing do what BankTransactions says: a     *)
(* transaction is received, decided and corrected once, and announced in   *)
(* the step that matches it.                                               *)
(***************************************************************************)
THEOREM IntakeImplementsTransactions ==
  ASSUME IntakeAssumption
  PROVE  Spec => MovesAsTransactions
<1>1. Init => Transactions!Init
  BY DEF Init, Transactions!Init
<1>2. IntakeInv /\ [Next]_vars => [Transactions!Next]_(Transactions!vars)
  <2> SUFFICES ASSUME IntakeInv, [Next]_vars PROVE [Transactions!Next]_(Transactions!vars)
    OBVIOUS
  <2>1. rows \in RowTypes /\ rows' \in RowTypes
    BY RowsStep DEF IntakeInv, Typed
  <2>2. CASE RowsStay
    BY <2>2 DEF RowsStay, Transactions!vars
  <2>3. ASSUME NEW k \in Keys, NEW to \in Status, RowMove(k, to) PROVE Transactions!Next
    BY <2>1, <2>3, RowMoveIsStep
  <2> QED
    BY <2>2, <2>3, RowsStep
<1> QED
  BY <1>1, <1>2, IntakeSound, PTL DEF Spec, MovesAsTransactions
=============================================================================
