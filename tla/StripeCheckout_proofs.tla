------------------------ MODULE StripeCheckout_proofs ------------------------
(***************************************************************************)
(* What holds of portal payments for any number of requests, sessions and  *)
(* webhook deliveries and any failures: who has paid at Stripe is found in *)
(* stripe_payments and announced once, with the amount Stripe collected;   *)
(* and, where requests come one at a time, an invoice has one session that *)
(* can be paid.                                                            *)
(*                                                                         *)
(* Amounts are sums that billing folds over its bookings; the proofs need  *)
(* no more of them than that they are carried along unchanged, so they are *)
(* members of some set A.  That they are amounts is proved at the end,     *)
(* with the types.                                                         *)
(***************************************************************************)
EXTENDS StripeCheckout, SequenceTheorems, FiniteSetTheorems, TLAPS

RowTypes(A) == [session : Sessions, invoice : Invoices \cup {NULL}, amount : A, paid : BOOLEAN]
EventTypes(A) == [session : Sessions, invoice : Invoices \cup {NULL}, amount : A]
RequestTypes(A) == [pc : {"idle", "resolved", "create", "insert", "answered"},
                    invoice : Invoices \cup {NULL}, amount : A,
                    session : Sessions \cup {NULL}]
SessionTypes(A) == [state : {"none", "open", "complete", "expired"}, amount : A]
HookTypes == [pc : {"idle", "found", "deciding"}, session : Sessions \cup {NULL},
              invoice : Invoices \cup {NULL}]

TypedIn(A) ==
    /\ 0 \in A
    /\ rows \in Seq(RowTypes(A)) /\ events \in Seq(EventTypes(A))
    /\ stripe \in [Sessions -> SessionTypes(A)]
    /\ reqs \in [Requests -> RequestTypes(A)]
    /\ hooks \in [Hooks -> HookTypes]
    /\ handed \subseteq Sessions /\ due \subseteq Sessions

Typed == \E A : TypedIn(A)

\* A session has one row, which says what Stripe was told, and which is marked
\* paid only once Stripe has collected it.
RowsSound ==
    /\ \A k \in DOMAIN rows :
         LET s == rows[k].session IN
         /\ stripe[s].state # "none" /\ stripe[s].amount = rows[k].amount
         /\ rows[k].paid => stripe[s].state = "complete"
    /\ \A k, l \in DOMAIN rows : rows[k].session = rows[l].session => k = l

\* A request that has created a session and not stored it yet is alone with it.
CreatedApart ==
    /\ \A r \in Requests : reqs[r].pc = "insert" =>
         LET s == reqs[r].session IN
         /\ s \in Sessions /\ ~HasRow(s)
         /\ stripe[s].state # "none" /\ stripe[s].amount = reqs[r].amount
    /\ \A r, q \in Requests :
         reqs[r].pc = "insert" /\ reqs[q].pc = "insert" /\ reqs[r].session = reqs[q].session
            => r = q

\* Only a session that is on record can be paid, and only a paid one is told of.
OnRecord ==
    /\ \A s \in handed : HasRow(s)
    /\ \A s \in Sessions : stripe[s].state = "complete" => HasRow(s)
    /\ \A s \in due : stripe[s].state = "complete"
    /\ \A h \in Hooks : hooks[h].pc # "idle" =>
         hooks[h].session \in Sessions /\ stripe[hooks[h].session].state = "complete"

\* An event belongs to a row that is marked paid, and no two to the same.
EventsSound ==
    /\ \A k \in DOMAIN events : \E l \in DOMAIN rows :
         /\ rows[l].session = events[k].session /\ rows[l].amount = events[k].amount
         /\ rows[l].paid
    /\ \A k, l \in DOMAIN events : events[k].session = events[l].session => k = l

StripeInv == Typed /\ RowsSound /\ CreatedApart /\ OnRecord /\ EventsSound

\* Where one request is served at a time: an invoice has one open session with a
\* row at most, and none while a request is making another.
Open(k) == stripe[rows[k].session].state = "open"
AloneInv ==
    /\ \A k, l \in DOMAIN rows :
         rows[k].invoice = rows[l].invoice /\ Open(k) /\ Open(l) => k = l
    /\ \A r \in Requests : reqs[r].pc \in {"create", "insert"} =>
         \A k \in DOMAIN rows : rows[k].invoice = reqs[r].invoice => ~Open(k)

-----------------------------------------------------------------------------
(* Sequences and types. *)

LEMMA Appended ==
  ASSUME NEW S, NEW s \in Seq(S), NEW x \in S
  PROVE  /\ Append(s, x) \in Seq(S) /\ DOMAIN Append(s, x) = DOMAIN s \cup {Len(s) + 1}
         /\ Len(s) + 1 \notin DOMAIN s
         /\ \A k \in DOMAIN s : Append(s, x)[k] = s[k]
         /\ Append(s, x)[Len(s) + 1] = x
<1>1. DOMAIN s = 1 .. Len(s) /\ Len(s) \in Nat
  BY LenProperties
<1>2. /\ Append(s, x) \in Seq(S) /\ Len(Append(s, x)) = Len(s) + 1
      /\ \A k \in 1 .. Len(s) : Append(s, x)[k] = s[k]
      /\ Append(s, x)[Len(s) + 1] = x
  BY AppendProperties
<1>3. DOMAIN Append(s, x) = 1 .. Len(s) + 1
  BY <1>2, LenProperties
<1> QED
  BY <1>1, <1>2, <1>3

LEMMA TypedGrows ==
  ASSUME NEW A, NEW B, A \subseteq B, TypedIn(A) PROVE TypedIn(B)
<1>1. /\ RowTypes(A) \subseteq RowTypes(B) /\ EventTypes(A) \subseteq EventTypes(B)
      /\ RequestTypes(A) \subseteq RequestTypes(B) /\ SessionTypes(A) \subseteq SessionTypes(B)
  BY DEF RowTypes, EventTypes, RequestTypes, SessionTypes
<1>2. rows \in Seq(RowTypes(B)) /\ events \in Seq(EventTypes(B))
  BY <1>1, SeqMonotonic DEF TypedIn
<1>3. stripe \in [Sessions -> SessionTypes(B)] /\ reqs \in [Requests -> RequestTypes(B)]
  BY <1>1 DEF TypedIn
<1> QED
  BY <1>2, <1>3 DEF TypedIn

LEMMA InitInv == Init => StripeInv
<1> SUFFICES ASSUME Init PROVE StripeInv
  OBVIOUS
<1>1. NoReq \in RequestTypes({0}) /\ NoHook \in HookTypes
  BY DEF NoReq, RequestTypes, NoHook, HookTypes
<1>2. [state |-> "none", amount |-> 0] \in SessionTypes({0})
  BY DEF SessionTypes
<1>3. TypedIn({0})
  BY <1>1, <1>2 DEF Init, TypedIn
<1>4. DOMAIN rows = {} /\ DOMAIN events = {}
  BY DEF Init
<1>5. RowsSound /\ EventsSound
  BY <1>4 DEF RowsSound, EventsSound
<1>6. CreatedApart /\ OnRecord
  BY DEF Init, CreatedApart, OnRecord, NoReq, NoHook
<1> QED
  BY <1>3, <1>5, <1>6 DEF StripeInv, Typed

-----------------------------------------------------------------------------
(* Pay requests. *)

\* A request that moves without a session of its own, and hands out none but
\* those on record.
LEMMA RequestMoves ==
  ASSUME StripeInv, NEW A, TypedIn(A), NEW r \in Requests, NEW q \in RequestTypes(A),
         q.pc # "insert", reqs' = [reqs EXCEPT ![r] = q],
         handed' \subseteq Sessions, \A s \in handed' : HasRow(s),
         UNCHANGED <<stripe, rows, hooks, due, events>>
  PROVE  StripeInv'
<1>1. /\ reqs' \in [Requests -> RequestTypes(A)] /\ reqs'[r] = q
      /\ \A p \in Requests \ {r} : reqs'[p] = reqs[p]
  BY DEF TypedIn
<1>2. TypedIn(A)'
  BY <1>1 DEF TypedIn, RowTypes, EventTypes, RequestTypes, SessionTypes, HookTypes
<1>3. RowsSound' /\ EventsSound' /\ OnRecord'
  BY DEF StripeInv, RowsSound, EventsSound, OnRecord, HasRow
<1>4. CreatedApart'
  BY <1>1 DEF StripeInv, CreatedApart, HasRow
<1> QED
  BY <1>2, <1>3, <1>4 DEF StripeInv, Typed

LEMMA ResolveInv ==
  ASSUME StripeInv, NEW r \in Requests, resolveInvoice(r)
  PROVE  StripeInv'
<1>1. PICK A : TypedIn(A)
  BY DEF StripeInv, Typed
<1>2. PICK i, a : /\ i \in Invoices
                  /\ reqs' = [reqs EXCEPT ![r] = [pc |-> "resolved", invoice |-> i,
                                                  amount |-> a, session |-> NULL]]
  <2>1. Current \in Invoices
    BY DEF Current, Invoices
  <2>2. reqs' = [reqs EXCEPT ![r] = [pc |-> "resolved", invoice |-> Current,
                                     amount |-> remainingOre(Current), session |-> NULL]]
    BY DEF resolveInvoice
  <2> QED
    BY <2>1, <2>2
<1> DEFINE q == [pc |-> "resolved", invoice |-> i, amount |-> a, session |-> NULL]
           B == A \cup {a}
<1>3. TypedIn(B)
  BY <1>1, TypedGrows
<1>4. q \in RequestTypes(B) /\ q.pc # "insert"
  BY <1>2 DEF RequestTypes
<1>5. /\ handed' \subseteq Sessions /\ \A s \in handed' : HasRow(s)
      /\ UNCHANGED <<stripe, rows, hooks, due, events>>
  BY <1>1 DEF resolveInvoice, StripeInv, OnRecord, TypedIn
<1> HIDE DEF B
<1> QED
  BY <1>2, <1>3, <1>4, <1>5, RequestMoves

LEMMA ReuseInv ==
  ASSUME StripeInv, NEW r \in Requests, reusePending(r)
  PROVE  StripeInv'
<1>1. PICK A : TypedIn(A)
  BY DEF StripeInv, Typed
<1>2. PICK k \in DOMAIN rows :
        /\ reqs' = [reqs EXCEPT ![r].pc = "answered", ![r].session = rows[k].session]
        /\ handed' = handed \cup {rows[k].session}
  BY DEF reusePending, activePending
<1> DEFINE s == rows[k].session
           q == [reqs[r] EXCEPT !.pc = "answered", !.session = s]
<1>3. s \in Sessions /\ HasRow(s)
  <2>1. rows[k] \in RowTypes(A)
    BY <1>1, ElementOfSeq, LenProperties DEF TypedIn
  <2> QED
    BY <2>1 DEF RowTypes, HasRow
<1> HIDE DEF s
<1>4. q \in RequestTypes(A) /\ q.pc # "insert"
  <2>1. reqs[r] \in RequestTypes(A)
    BY <1>1 DEF TypedIn
  <2> QED
    BY <1>3, <2>1 DEF RequestTypes
<1>5. /\ handed' \subseteq Sessions /\ \A x \in handed' : HasRow(x)
      /\ UNCHANGED <<stripe, rows, hooks, due, events>>
  BY <1>1, <1>2, <1>3 DEF reusePending, StripeInv, OnRecord, TypedIn, s
<1>6. reqs' = [reqs EXCEPT ![r] = q]
  BY <1>2 DEF s
<1> QED
  BY <1>1, <1>4, <1>5, <1>6, RequestMoves

LEMMA NoPendingInv ==
  ASSUME StripeInv, NEW r \in Requests, noPending(r)
  PROVE  StripeInv'
<1>1. PICK A : TypedIn(A)
  BY DEF StripeInv, Typed
<1> DEFINE q == [reqs[r] EXCEPT !.pc = "create"]
<1>2. reqs[r] \in RequestTypes(A)
  BY <1>1 DEF TypedIn
<1>3. q \in RequestTypes(A) /\ q.pc # "insert"
  BY <1>2 DEF RequestTypes
<1>4. /\ handed' \subseteq Sessions /\ \A s \in handed' : HasRow(s)
      /\ UNCHANGED <<stripe, rows, hooks, due, events>>
      /\ reqs' = [reqs EXCEPT ![r] = q]
  BY <1>1 DEF noPending, StripeInv, OnRecord, TypedIn
<1> QED
  BY <1>1, <1>3, <1>4, RequestMoves

LEMMA RequestFailsInv ==
  ASSUME StripeInv, NEW r \in Requests, requestFails(r)
  PROVE  StripeInv'
<1>1. PICK A : TypedIn(A)
  BY DEF StripeInv, Typed
<1>2. NoReq \in RequestTypes(A) /\ NoReq.pc # "insert"
  BY <1>1 DEF TypedIn, NoReq, RequestTypes
<1>3. /\ handed' \subseteq Sessions /\ \A s \in handed' : HasRow(s)
      /\ UNCHANGED <<stripe, rows, hooks, due, events>>
      /\ reqs' = [reqs EXCEPT ![r] = NoReq]
  BY <1>1 DEF requestFails, StripeInv, OnRecord, TypedIn
<1> QED
  BY <1>1, <1>2, <1>3, RequestMoves

\* A session of Stripe's is new: no row and no request has it.
LEMMA CreateInv ==
  ASSUME StripeInv, NEW r \in Requests, createSession(r)
  PROVE  StripeInv'
<1>1. PICK A : TypedIn(A)
  BY DEF StripeInv, Typed
<1>2. PICK s \in Sessions :
        /\ stripe[s].state = "none"
        /\ stripe' = [stripe EXCEPT ![s] = [state |-> "open", amount |-> reqs[r].amount]]
        /\ reqs' = [reqs EXCEPT ![r].pc = "insert", ![r].session = s]
        /\ UNCHANGED <<rows, handed, hooks, due, events>>
  BY DEF createSession
<1> DEFINE q == [reqs[r] EXCEPT !.pc = "insert", !.session = s]
           w == [state |-> "open", amount |-> reqs[r].amount]
<1>3. reqs[r] \in RequestTypes(A)
  BY <1>1 DEF TypedIn
<1>4. /\ q \in RequestTypes(A) /\ q.pc = "insert" /\ q.session = s /\ q.amount = reqs[r].amount
      /\ w \in SessionTypes(A) /\ w.state = "open" /\ w.amount = reqs[r].amount
  BY <1>3 DEF RequestTypes, SessionTypes
<1>5. reqs' = [reqs EXCEPT ![r] = q] /\ stripe' = [stripe EXCEPT ![s] = w]
  BY <1>2
<1> HIDE DEF q, w
<1>6. /\ reqs' \in [Requests -> RequestTypes(A)] /\ reqs'[r] = q
      /\ \A p \in Requests \ {r} : reqs'[p] = reqs[p]
      /\ stripe' \in [Sessions -> SessionTypes(A)] /\ stripe'[s] = w
      /\ \A x \in Sessions \ {s} : stripe'[x] = stripe[x]
  BY <1>1, <1>4, <1>5 DEF TypedIn
<1>7. TypedIn(A)'
  BY <1>1, <1>2, <1>6 DEF TypedIn, RowTypes, EventTypes, RequestTypes, SessionTypes, HookTypes
<1>8. \A k \in DOMAIN rows : rows[k].session \in Sessions \ {s}
  <2>1. \A k \in DOMAIN rows : rows[k] \in RowTypes(A)
    BY <1>1, ElementOfSeq, LenProperties DEF TypedIn
  <2> QED
    BY <1>2, <2>1 DEF RowTypes, StripeInv, RowsSound
<1>9. RowsSound'
  BY <1>2, <1>6, <1>8 DEF StripeInv, RowsSound
<1>10. EventsSound'
  BY <1>2 DEF StripeInv, EventsSound
<1>11. OnRecord'
  BY <1>1, <1>2, <1>4, <1>6 DEF StripeInv, OnRecord, HasRow, TypedIn
<1>12. \A p \in Requests \ {r} : reqs[p].pc = "insert" => reqs[p].session \in Sessions \ {s}
  BY <1>2 DEF StripeInv, CreatedApart
<1>13. CreatedApart'
  BY <1>2, <1>4, <1>6, <1>8, <1>12 DEF StripeInv, CreatedApart, HasRow
<1> QED
  BY <1>7, <1>9, <1>10, <1>11, <1>13 DEF StripeInv, Typed

LEMMA InsertInv ==
  ASSUME StripeInv, NEW r \in Requests, insertPending(r)
  PROVE  StripeInv'
<1>1. PICK A : TypedIn(A)
  BY DEF StripeInv, Typed
<1> DEFINE s == reqs[r].session
           a == reqs[r].amount
           row == [session |-> s, invoice |-> reqs[r].invoice, amount |-> a, paid |-> FALSE]
           q == [reqs[r] EXCEPT !.pc = "answered"]
           n == Len(rows) + 1
<1>2. /\ reqs[r].pc = "insert" /\ rows' = Append(rows, row)
      /\ handed' = handed \cup {s} /\ reqs' = [reqs EXCEPT ![r] = q]
      /\ UNCHANGED <<stripe, hooks, due, events>>
  BY DEF insertPending
<1>3. /\ s \in Sessions /\ ~HasRow(s) /\ stripe[s].state # "none" /\ stripe[s].amount = a
      /\ \A p \in Requests \ {r} : reqs[p].pc = "insert" => reqs[p].session # s
  BY <1>2 DEF StripeInv, CreatedApart
<1>4. reqs[r] \in RequestTypes(A)
  BY <1>1 DEF TypedIn
<1>5. q \in RequestTypes(A) /\ q.pc = "answered" /\ reqs[r].invoice \in Invoices \cup {NULL} /\ a \in A
  BY <1>4 DEF RequestTypes
<1> HIDE DEF s, a
<1>6. row \in RowTypes(A) /\ row.session = s /\ row.amount = a /\ row.paid = FALSE
  BY <1>3, <1>5 DEF RowTypes
<1> HIDE DEF q, row
<1>7. /\ reqs' \in [Requests -> RequestTypes(A)] /\ reqs'[r] = q
      /\ \A p \in Requests \ {r} : reqs'[p] = reqs[p]
  BY <1>1, <1>2, <1>5 DEF TypedIn
<1>8. /\ rows' \in Seq(RowTypes(A)) /\ DOMAIN rows' = DOMAIN rows \cup {n}
      /\ n \notin DOMAIN rows /\ \A k \in DOMAIN rows : rows'[k] = rows[k]
      /\ rows'[n] = row
  BY <1>1, <1>2, <1>6, Appended DEF TypedIn
<1> HIDE DEF n
<1>9. TypedIn(A)'
  BY <1>1, <1>2, <1>3, <1>7, <1>8 DEF TypedIn, RowTypes, EventTypes, RequestTypes, SessionTypes,
                                      HookTypes
<1>10. \A k \in DOMAIN rows : rows[k].session # s
  BY <1>3 DEF HasRow
<1>11. RowsSound'
  BY <1>2, <1>3, <1>6, <1>8, <1>10 DEF StripeInv, RowsSound
<1>12. EventsSound'
  BY <1>2, <1>8 DEF StripeInv, EventsSound
<1>13. \A x : HasRow(x) => HasRow(x)'
  BY <1>8 DEF HasRow
<1>14. \A x : x = s => HasRow(x)'
  BY <1>6, <1>8 DEF HasRow
<1>15. OnRecord'
  BY <1>2, <1>13, <1>14 DEF StripeInv, OnRecord
<1>16. \A x : ~HasRow(x) /\ x # s => ~HasRow(x)'
  BY <1>6, <1>8 DEF HasRow
<1>17. CreatedApart'
  BY <1>2, <1>3, <1>5, <1>7, <1>16 DEF StripeInv, CreatedApart
<1> QED
  BY <1>9, <1>11, <1>12, <1>15, <1>17 DEF StripeInv, Typed

-----------------------------------------------------------------------------
(* Stripe and the customer. *)

\* A session moves on, to paid only if it is on record.
LEMMA SessionMoves ==
  ASSUME StripeInv, NEW s \in Sessions, NEW to \in {"complete", "expired"},
         stripe[s].state = "open", stripe' = [stripe EXCEPT ![s].state = to],
         to = "complete" => HasRow(s), due' \subseteq Sessions,
         \A x \in due' : x \in due \/ (x = s /\ to = "complete"),
         UNCHANGED <<rows, handed, reqs, hooks, events>>
  PROVE  StripeInv'
<1>1. PICK A : TypedIn(A)
  BY DEF StripeInv, Typed
<1>2. /\ stripe' \in [Sessions -> SessionTypes(A)]
      /\ stripe'[s].state = to /\ stripe'[s].amount = stripe[s].amount
      /\ \A x \in Sessions \ {s} : stripe'[x] = stripe[x]
  BY <1>1 DEF TypedIn, SessionTypes
<1>3. TypedIn(A)'
  BY <1>1, <1>2 DEF TypedIn, RowTypes, EventTypes, RequestTypes, SessionTypes, HookTypes
<1>4. \A k \in DOMAIN rows : rows[k].session \in Sessions
  <2>1. \A k \in DOMAIN rows : rows[k] \in RowTypes(A)
    BY <1>1, ElementOfSeq, LenProperties DEF TypedIn
  <2> QED
    BY <2>1 DEF RowTypes
<1>5. RowsSound'
  BY <1>2, <1>4 DEF StripeInv, RowsSound
<1>6. EventsSound'
  BY DEF StripeInv, EventsSound
<1>7. CreatedApart'
  BY <1>2 DEF StripeInv, CreatedApart, HasRow
<1>8. due \subseteq Sessions
  BY <1>1 DEF TypedIn
<1>9. OnRecord'
  BY <1>2, <1>8 DEF StripeInv, OnRecord, HasRow
<1> QED
  BY <1>3, <1>5, <1>6, <1>7, <1>9 DEF StripeInv, Typed

LEMMA CompleteInv ==
  ASSUME StripeInv, NEW s \in Sessions, completeSession(s) PROVE StripeInv'
<1>1. due \subseteq Sessions /\ HasRow(s)
  BY DEF StripeInv, Typed, TypedIn, OnRecord, completeSession
<1> QED
  BY <1>1, SessionMoves DEF completeSession

LEMMA ExpireInv ==
  ASSUME StripeInv, NEW s \in Sessions, expireSession(s) PROVE StripeInv'
<1>1. due \subseteq Sessions
  BY DEF StripeInv, Typed, TypedIn
<1> QED
  BY <1>1, SessionMoves DEF expireSession

-----------------------------------------------------------------------------
(* Webhook deliveries. *)

\* What a step changes at most when it only takes up or ends deliveries.
LEMMA DeliveryMoves ==
  ASSUME StripeInv, hooks' \in [Hooks -> HookTypes], due' \subseteq Sessions,
         \A s \in due' : stripe[s].state = "complete",
         \A h \in Hooks : hooks'[h].pc # "idle" =>
           hooks'[h].session \in Sessions /\ stripe[hooks'[h].session].state = "complete",
         UNCHANGED <<stripe, rows, handed, reqs, events>>
  PROVE  StripeInv'
<1>1. PICK A : TypedIn(A)
  BY DEF StripeInv, Typed
<1>2. TypedIn(A)'
  BY <1>1 DEF TypedIn, RowTypes, EventTypes, RequestTypes, SessionTypes, HookTypes
<1>3. RowsSound' /\ EventsSound' /\ CreatedApart'
  BY DEF StripeInv, RowsSound, EventsSound, CreatedApart, HasRow
<1>4. OnRecord'
  BY DEF StripeInv, OnRecord, HasRow
<1> QED
  BY <1>2, <1>3, <1>4 DEF StripeInv, Typed

LEMMA RepeatInv ==
  ASSUME StripeInv, NEW s \in Sessions, repeatDelivery(s) PROVE StripeInv'
<1>1. hooks \in [Hooks -> HookTypes] /\ due \subseteq Sessions
  BY DEF StripeInv, Typed, TypedIn
<1>2. /\ due' = due \cup {s} /\ stripe[s].state = "complete"
      /\ UNCHANGED <<stripe, rows, handed, reqs, hooks, events>>
  BY DEF repeatDelivery
<1>3. /\ \A x \in due' : stripe[x].state = "complete"
      /\ \A h \in Hooks : hooks'[h].pc # "idle" =>
           hooks'[h].session \in Sessions /\ stripe[hooks'[h].session].state = "complete"
  BY <1>2 DEF StripeInv, OnRecord
<1> QED
  BY <1>1, <1>2, <1>3, DeliveryMoves

\* The steps of a delivery that write nothing.
LEMMA HookMovesInv ==
  ASSUME StripeInv, NEW h \in Hooks,
         \/ \E s \in Sessions : findBySessionId(h, s)
         \/ resolveForBooking(h) \/ alreadyPaid(h) \/ hookFails(h)
  PROVE  StripeInv'
<1>1. hooks \in [Hooks -> HookTypes] /\ due \subseteq Sessions
  BY DEF StripeInv, Typed, TypedIn
<1>2. UNCHANGED <<stripe, rows, handed, reqs, events>> /\ due' \subseteq due
  BY DEF findBySessionId, resolveForBooking, alreadyPaid, hookFails, Answer200
<1>3. NoHook \in HookTypes /\ NoHook.pc = "idle"
  BY DEF NoHook, HookTypes
<1>4. PICK q \in HookTypes :
        /\ hooks' = [hooks EXCEPT ![h] = q]
        /\ q.pc # "idle" => q.session \in Sessions /\ stripe[q.session].state = "complete"
  <2>1. CASE \E s \in Sessions : findBySessionId(h, s)
    <3>1. PICK s \in Sessions :
            s \in due /\ hooks' = [hooks EXCEPT ![h] = [pc |-> "found", session |-> s, invoice |-> NULL]]
      BY <2>1 DEF findBySessionId
    <3> DEFINE q == [pc |-> "found", session |-> s, invoice |-> NULL]
    <3>2. q \in HookTypes /\ q.session = s
      BY DEF HookTypes
    <3>3. stripe[s].state = "complete"
      BY <3>1 DEF StripeInv, OnRecord
    <3> QED
      BY <3>1, <3>2, <3>3
  <2>2. CASE resolveForBooking(h)
    <3> DEFINE i == Current
               q == [hooks[h] EXCEPT !.pc = "deciding", !.invoice = i]
    <3>1. hooks' = [hooks EXCEPT ![h] = q] /\ hooks[h].pc = "found"
      BY <2>2 DEF resolveForBooking
    <3>2. i \in Invoices
      BY DEF Current, Invoices
    <3>3. hooks[h] \in HookTypes
      BY <1>1
    <3> HIDE DEF i
    <3>4. q \in HookTypes /\ q.session = hooks[h].session
      BY <3>2, <3>3 DEF HookTypes
    <3>5. hooks[h].session \in Sessions /\ stripe[hooks[h].session].state = "complete"
      BY <3>1 DEF StripeInv, OnRecord
    <3> HIDE DEF q
    <3> QED
      BY <3>1, <3>4, <3>5
  <2>3. CASE alreadyPaid(h) \/ hookFails(h)
    BY <1>3, <2>3 DEF alreadyPaid, hookFails, Answer200
  <2> QED
    BY <2>1, <2>2, <2>3
<1>5. /\ hooks' \in [Hooks -> HookTypes] /\ hooks'[h] = q
      /\ \A g \in Hooks \ {h} : hooks'[g] = hooks[g]
  BY <1>1, <1>4
<1>6. /\ \A x \in due' : stripe[x].state = "complete"
      /\ \A g \in Hooks : hooks'[g].pc # "idle" =>
           hooks'[g].session \in Sessions /\ stripe[hooks'[g].session].state = "complete"
  BY <1>2, <1>4, <1>5 DEF StripeInv, OnRecord
<1> QED
  BY <1>1, <1>2, <1>5, <1>6, DeliveryMoves

\* The row is found, marked and announced in one step.
LEMMA MarkPaidInv ==
  ASSUME StripeInv, NEW h \in Hooks, markPaid(h)
  PROVE  StripeInv'
<1>1. PICK A : TypedIn(A)
  BY DEF StripeInv, Typed
<1> DEFINE s == hooks[h].session
           k == Row(s)
           e == PaymentOf(h)
           n == Len(events) + 1
<1>2. /\ hooks[h].pc = "deciding" /\ ~rows[k].paid
      /\ rows' = [rows EXCEPT ![k].paid = TRUE]
      /\ events' = Append(events, e)
      /\ due' = due \ {s} /\ hooks' = [hooks EXCEPT ![h] = NoHook]
      /\ UNCHANGED <<stripe, handed, reqs>>
  BY DEF markPaid, Answer200, markable
<1>3. s \in Sessions /\ stripe[s].state = "complete" /\ HasRow(s)
  BY <1>2 DEF StripeInv, OnRecord
<1>4. k \in DOMAIN rows /\ rows[k].session = s
  <2>1. \E l \in DOMAIN rows : rows[l].session = s
    BY <1>3 DEF HasRow
  <2> QED
    BY <2>1 DEF Row
<1>5. rows \in Seq(RowTypes(A)) /\ rows[k] \in RowTypes(A) /\ hooks[h] \in HookTypes
  BY <1>1, <1>4, ElementOfSeq, LenProperties DEF TypedIn
<1>6. e = [session |-> s, invoice |-> hooks[h].invoice, amount |-> rows[k].amount]
  BY DEF PaymentOf
<1> HIDE DEF s, k, e
<1>7. e \in EventTypes(A) /\ e.session = s /\ e.amount = rows[k].amount
  BY <1>3, <1>5, <1>6 DEF EventTypes, RowTypes, HookTypes
<1> DEFINE w == [rows[k] EXCEPT !.paid = TRUE]
<1>8. /\ w \in RowTypes(A) /\ w.session = s /\ w.invoice = rows[k].invoice
      /\ w.amount = rows[k].amount /\ w.paid = TRUE
  BY <1>4, <1>5 DEF RowTypes
<1>9. rows' = [rows EXCEPT ![k] = w]
  BY <1>2
<1> HIDE DEF w
<1>10. /\ rows' \in Seq(RowTypes(A)) /\ DOMAIN rows' = DOMAIN rows
       /\ rows'[k] = w /\ \A l \in DOMAIN rows \ {k} : rows'[l] = rows[l]
  BY <1>4, <1>5, <1>8, <1>9, ExceptSeq, LenProperties
<1>11. /\ events' \in Seq(EventTypes(A)) /\ DOMAIN events' = DOMAIN events \cup {n}
       /\ n \notin DOMAIN events /\ \A l \in DOMAIN events : events'[l] = events[l]
       /\ events'[n] = e
  BY <1>1, <1>2, <1>7, Appended DEF TypedIn
<1> HIDE DEF n
<1>12. NoHook \in HookTypes /\ NoHook.pc = "idle"
  BY DEF NoHook, HookTypes
<1>13. /\ hooks' \in [Hooks -> HookTypes] /\ hooks'[h] = NoHook
       /\ \A g \in Hooks \ {h} : hooks'[g] = hooks[g]
  BY <1>1, <1>2, <1>12 DEF TypedIn
<1>14. TypedIn(A)'
  BY <1>1, <1>2, <1>10, <1>11, <1>13 DEF TypedIn, RowTypes, EventTypes, RequestTypes,
                                         SessionTypes, HookTypes
<1>15. \A l \in DOMAIN rows : /\ rows'[l].session = rows[l].session
                              /\ rows'[l].amount = rows[l].amount
                              /\ rows'[l].paid = IF l = k THEN TRUE ELSE rows[l].paid
  BY <1>4, <1>8, <1>10
<1>16. RowsSound'
  BY <1>2, <1>3, <1>4, <1>10, <1>15 DEF StripeInv, RowsSound
<1>17. \A x : HasRow(x)' <=> HasRow(x)
  BY <1>10, <1>15 DEF HasRow
<1>18. CreatedApart'
  BY <1>2, <1>17 DEF StripeInv, CreatedApart
<1>19. OnRecord'
  BY <1>2, <1>12, <1>13, <1>17 DEF StripeInv, OnRecord
<1>20. \A l \in DOMAIN events : events[l].session # s
  <2>1. SUFFICES ASSUME NEW l \in DOMAIN events, events[l].session = s PROVE FALSE
    OBVIOUS
  <2>2. PICK m \in DOMAIN rows : rows[m].session = s /\ rows[m].paid
    BY <2>1 DEF StripeInv, EventsSound
  <2>3. m = k
    BY <1>4, <2>2 DEF StripeInv, RowsSound
  <2> QED
    BY <1>2, <2>2, <2>3 DEF s, k
<1>21. EventsSound'
  <2>1. ASSUME NEW l \in DOMAIN events'
        PROVE  \E m \in DOMAIN rows' :
                 /\ rows'[m].session = events'[l].session /\ rows'[m].amount = events'[l].amount
                 /\ rows'[m].paid
    <3>1. CASE l = n
      BY <1>4, <1>7, <1>8, <1>10, <1>11, <3>1
    <3>2. CASE l \in DOMAIN events
      <4>1. PICK m \in DOMAIN rows : /\ rows[m].session = events[l].session
                                    /\ rows[m].amount = events[l].amount
                                    /\ rows[m].paid
        BY <3>2 DEF StripeInv, EventsSound
      <4>2. events'[l] = events[l]
        BY <1>11, <3>2
      <4>3. /\ m \in DOMAIN rows' /\ rows'[m].session = rows[m].session
            /\ rows'[m].amount = rows[m].amount /\ rows'[m].paid = TRUE
        <5>1. m = k => rows'[m].paid = TRUE
          BY <1>15
        <5>2. m # k => rows'[m].paid = rows[m].paid
          BY <1>15
        <5>3. rows[m] \in RowTypes(A)
          BY <1>5, ElementOfSeq, LenProperties
        <5>4. rows[m].paid \in BOOLEAN
          BY <5>3 DEF RowTypes
        <5> QED
          BY <1>10, <1>15, <4>1, <5>1, <5>2, <5>4
      <4> QED
        BY <4>1, <4>2, <4>3
    <3> QED
      BY <1>11, <2>1, <3>1, <3>2
  <2>2. \A l, m \in DOMAIN events' : events'[l].session = events'[m].session => l = m
    BY <1>7, <1>11, <1>20 DEF StripeInv, EventsSound
  <2> QED
    BY <2>1, <2>2 DEF EventsSound
<1> QED
  BY <1>14, <1>16, <1>18, <1>19, <1>21 DEF StripeInv, Typed

-----------------------------------------------------------------------------
LEMMA NextInv == StripeInv /\ [Next]_vars => StripeInv'
<1> SUFFICES ASSUME StripeInv, [Next]_vars PROVE StripeInv'
  OBVIOUS
<1>1. CASE UNCHANGED <<stripe, rows, handed, reqs, hooks, due, events>>
  <2>1. PICK A : TypedIn(A)
    BY DEF StripeInv, Typed
  <2>2. TypedIn(A)'
    BY <1>1, <2>1 DEF TypedIn, RowTypes, EventTypes, RequestTypes, SessionTypes, HookTypes
  <2> QED
    BY <1>1, <2>2 DEF StripeInv, Typed, RowsSound, CreatedApart, OnRecord, EventsSound, HasRow
<1>2. ASSUME NEW r \in Requests, RequestStep(r) PROVE StripeInv'
  BY <1>2, ResolveInv, ReuseInv, NoPendingInv, CreateInv, InsertInv, RequestFailsInv
  DEF RequestStep
<1>3. ASSUME NEW s \in Sessions, completeSession(s) \/ expireSession(s) \/ repeatDelivery(s)
      PROVE  StripeInv'
  BY <1>3, CompleteInv, ExpireInv, RepeatInv
<1>4. ASSUME NEW h \in Hooks, HookStep(h) PROVE StripeInv'
  BY <1>4, HookMovesInv, MarkPaidInv DEF HookStep
<1>5. CASE BillingStep \/ bankPayment \/ createReminder
  BY <1>1, <1>5 DEF BillingStep, bookEvent, bankPayment, createReminder
<1>6. CASE UNCHANGED vars
  BY <1>1, <1>6 DEF vars
<1> QED
  BY <1>2, <1>3, <1>4, <1>5, <1>6 DEF Next

THEOREM StripeSound == Spec => []StripeInv
  BY InitInv, NextInv, PTL DEF Spec

LEMMA AtMostOne ==
  ASSUME NEW S, \A x, y \in S : x = y PROVE Cardinality(S) <= 1
<1>1. CASE S = {}
  BY <1>1, FS_EmptySet
<1>2. CASE S # {}
  <2>1. PICK x : S = {x}
    BY <1>2
  <2> QED
    BY <2>1, FS_Singleton
<1> QED
  BY <1>1, <1>2

(***************************************************************************)
(* Whoever has paid at Stripe is found in stripe_payments, and what the    *)
(* webhooks announce of a session is announced once and is the amount      *)
(* Stripe collected, however often they are delivered.                     *)
(***************************************************************************)
THEOREM PaidOnRecordHolds == Spec => []PaidOnRecord
<1>1. StripeInv => PaidOnRecord
  <2> SUFFICES ASSUME StripeInv PROVE PaidOnRecord
    OBVIOUS
  <2>1. PaidHasRow
    BY DEF StripeInv, OnRecord, PaidHasRow
  <2>2. ASSUME NEW s \in Sessions
        PROVE  LET of == {k \in DOMAIN events : events[k].session = s}
               IN /\ Cardinality(of) <= 1
                  /\ \A k \in of : /\ stripe[s].state = "complete"
                                   /\ events[k].amount = stripe[s].amount
    <3> DEFINE of == {k \in DOMAIN events : events[k].session = s}
    <3>1. \A k, l \in of : k = l
      BY DEF StripeInv, EventsSound
    <3>2. Cardinality(of) <= 1
      BY <3>1, AtMostOne
    <3>3. \A k \in of : stripe[s].state = "complete" /\ events[k].amount = stripe[s].amount
      BY DEF StripeInv, EventsSound, RowsSound
    <3> QED
      BY <3>2, <3>3
  <2>3. OneTrueEvent
    BY <2>2 DEF OneTrueEvent
  <2> QED
    BY <2>1, <2>3 DEF PaidOnRecord
<1> QED
  BY <1>1, StripeSound, PTL

-----------------------------------------------------------------------------
(* Pay requests that come one after another. *)

LEMMA AloneNext ==
  ASSUME \A r, q \in Requests : r = q, StripeInv, AloneInv, [Next]_vars
  PROVE  AloneInv'
<1>1. PICK A : TypedIn(A)
  BY DEF StripeInv, Typed
<1>2. \A k \in DOMAIN rows : rows[k] \in RowTypes(A) /\ rows[k].session \in Sessions
  <2>1. \A k \in DOMAIN rows : rows[k] \in RowTypes(A)
    BY <1>1, ElementOfSeq, LenProperties DEF TypedIn
  <2> QED
    BY <2>1 DEF RowTypes
<1>3. reqs \in [Requests -> RequestTypes(A)] /\ stripe \in [Sessions -> SessionTypes(A)]
  BY <1>1 DEF TypedIn
\* No row is opened, and no request begins to create a session.
<1>4. ASSUME DOMAIN rows' = DOMAIN rows,
             \A k \in DOMAIN rows : /\ rows'[k].invoice = rows[k].invoice
                                    /\ Open(k)' => Open(k),
             \A r \in Requests : reqs'[r].pc \in {"create", "insert"} =>
               reqs[r].pc \in {"create", "insert"} /\ reqs'[r].invoice = reqs[r].invoice
      PROVE  AloneInv'
  BY <1>4 DEF AloneInv
<1>5. ASSUME UNCHANGED <<rows, stripe>>,
             \A r \in Requests : reqs'[r].pc \in {"create", "insert"} =>
               reqs[r].pc \in {"create", "insert"} /\ reqs'[r].invoice = reqs[r].invoice
      PROVE  AloneInv'
  BY <1>4, <1>5 DEF Open
<1>6. ASSUME NEW r \in Requests, \/ resolveInvoice(r) \/ reusePending(r) \/ requestFails(r)
      PROVE  AloneInv'
  <2>1. UNCHANGED <<rows, stripe>> /\ reqs'[r].pc \notin {"create", "insert"}
    <3>1. CASE resolveInvoice(r)
      BY <1>3, <3>1 DEF resolveInvoice
    <3>2. CASE reusePending(r)
      BY <1>3, <3>2 DEF reusePending, RequestTypes
    <3>3. CASE requestFails(r)
      BY <1>3, <3>3 DEF requestFails, NoReq
    <3> QED
      BY <1>6, <3>1, <3>2, <3>3
  <2> QED
    BY <1>5, <1>6, <2>1
<1>7. ASSUME NEW r \in Requests, noPending(r) PROVE AloneInv'
  <2>1. /\ activePending(reqs[r].invoice) = {} /\ UNCHANGED <<rows, stripe>>
        /\ reqs' = [reqs EXCEPT ![r].pc = "create"]
    BY <1>7 DEF noPending
  <2>2. reqs'[r].invoice = reqs[r].invoice
    BY <1>3, <2>1 DEF RequestTypes
  <2>3. \A k \in DOMAIN rows : rows[k].invoice = reqs[r].invoice => ~Open(k)
    BY <2>1 DEF activePending, Open, StripeInv, RowsSound
  <2> QED
    BY <1>7, <2>1, <2>2, <2>3 DEF AloneInv, Open
<1>8. ASSUME NEW r \in Requests, createSession(r) PROVE AloneInv'
  <2>1. PICK s \in Sessions :
          /\ reqs[r].pc = "create" /\ stripe[s].state = "none" /\ UNCHANGED rows
          /\ stripe' = [stripe EXCEPT ![s] = [state |-> "open", amount |-> reqs[r].amount]]
          /\ reqs' = [reqs EXCEPT ![r].pc = "insert", ![r].session = s]
    BY <1>8 DEF createSession
  <2>2. reqs'[r].invoice = reqs[r].invoice
    BY <1>3, <2>1 DEF RequestTypes
  <2>3. \A k \in DOMAIN rows : rows[k].session # s
    BY <2>1 DEF StripeInv, RowsSound
  <2>4. \A k \in DOMAIN rows : stripe'[rows[k].session] = stripe[rows[k].session]
    BY <1>2, <1>3, <2>1, <2>3
  <2> QED
    BY <1>4, <1>8, <2>1, <2>2, <2>4 DEF Open
<1>9. ASSUME NEW r \in Requests, insertPending(r) PROVE AloneInv'
  <2> DEFINE i == reqs[r].invoice
             row == [session |-> reqs[r].session, invoice |-> i,
                     amount |-> reqs[r].amount, paid |-> FALSE]
             n == Len(rows) + 1
  <2>1. /\ reqs[r].pc = "insert" /\ rows' = Append(rows, row) /\ UNCHANGED stripe
        /\ reqs' = [reqs EXCEPT ![r].pc = "answered"]
    BY <1>9 DEF insertPending
  <2>2. reqs[r] \in RequestTypes(A) /\ reqs[r].session \in Sessions
    BY <1>3, <2>1 DEF StripeInv, CreatedApart
  <2>3. row \in RowTypes(A) /\ row.invoice = i
    BY <2>2 DEF RequestTypes, RowTypes
  <2>4. reqs'[r].pc = "answered"
    BY <1>3, <2>1 DEF RequestTypes
  <2>5. \A k \in DOMAIN rows : rows[k].invoice = i => ~Open(k)
    BY <2>1 DEF AloneInv
  <2> HIDE DEF i, row
  <2>6. /\ DOMAIN rows' = DOMAIN rows \cup {n} /\ \A k \in DOMAIN rows : rows'[k] = rows[k]
        /\ rows'[n] = row
    BY <1>1, <2>1, <2>3, Appended DEF TypedIn
  <2> HIDE DEF n
  <2>7. \A k, l \in DOMAIN rows' :
          rows'[k].invoice = rows'[l].invoice /\ Open(k)' /\ Open(l)' => k = l
    BY <2>1, <2>3, <2>5, <2>6 DEF AloneInv, Open
  <2>8. \A q \in Requests : reqs'[q].pc \notin {"create", "insert"}
    BY <1>9, <2>4
  <2> QED
    BY <2>7, <2>8 DEF AloneInv
<1>10. ASSUME NEW s \in Sessions, completeSession(s) \/ expireSession(s) \/ repeatDelivery(s)
       PROVE  AloneInv'
  <2>1. /\ UNCHANGED <<rows, reqs>>
        /\ \/ UNCHANGED stripe
           \/ \E to \in {"complete", "expired"} : stripe' = [stripe EXCEPT ![s].state = to]
    BY <1>10 DEF completeSession, expireSession, repeatDelivery
  <2>2. \A x \in Sessions : stripe'[x].state = "open" => stripe[x].state = "open"
    BY <1>3, <2>1 DEF SessionTypes
  <2> QED
    BY <1>2, <1>4, <2>1, <2>2 DEF Open
<1>11. ASSUME NEW h \in Hooks, markPaid(h) PROVE AloneInv'
  <2> DEFINE k == Row(hooks[h].session)
  <2>1. rows' = [rows EXCEPT ![k].paid = TRUE] /\ UNCHANGED <<stripe, reqs>>
    BY <1>11 DEF markPaid
  <2> HIDE DEF k
  <2>2. DOMAIN rows' = DOMAIN rows
    BY <1>1, <2>1 DEF TypedIn
  <2>3. \A l \in DOMAIN rows : /\ rows'[l].invoice = rows[l].invoice
                               /\ rows'[l].session = rows[l].session
    <3> SUFFICES ASSUME NEW l \in DOMAIN rows
                 PROVE  rows'[l].invoice = rows[l].invoice /\ rows'[l].session = rows[l].session
      OBVIOUS
    <3>1. CASE l = k
      <4>1. rows'[l] = [rows[l] EXCEPT !.paid = TRUE]
        BY <2>1, <3>1
      <4> QED
        BY <1>2, <4>1 DEF RowTypes
    <3>2. CASE l # k
      BY <2>1, <3>2
    <3> QED
      BY <3>1, <3>2
  <2> QED
    BY <1>4, <2>1, <2>2, <2>3 DEF Open
<1>12. ASSUME NEW h \in Hooks, HookStep(h) PROVE AloneInv'
  BY <1>5, <1>11, <1>12 DEF HookStep, findBySessionId, resolveForBooking, alreadyPaid, hookFails
<1>13. CASE BillingStep \/ bankPayment \/ createReminder
  BY <1>5, <1>13 DEF BillingStep, bookEvent, bankPayment, createReminder
<1>14. CASE UNCHANGED vars
  BY <1>5, <1>14 DEF vars
<1> QED
  BY <1>6, <1>7, <1>8, <1>9, <1>10, <1>12, <1>13, <1>14 DEF Next, RequestStep

(***************************************************************************)
(* Where the pay requests come one after another, an invoice has at most   *)
(* one session that can be paid.                                           *)
(***************************************************************************)
THEOREM OnePayableHolds ==
  ASSUME \A r, q \in Requests : r = q PROVE Spec => []OnePayable
<1>1. Init => AloneInv
  BY DEF Init, AloneInv, NoReq
<1>2. StripeInv /\ AloneInv /\ [Next]_vars => AloneInv'
  BY AloneNext
<1>3. AloneInv => OnePayable
  <2> SUFFICES ASSUME AloneInv, NEW i \in Invoices
               PROVE  Cardinality({k \in DOMAIN rows :
                        rows[k].invoice = i /\ stripe[rows[k].session].state = "open"}) <= 1
    BY DEF OnePayable
  <2> QED
    BY AtMostOne DEF AloneInv, Open
<1> QED
  BY <1>1, <1>2, <1>3, StripeSound, PTL DEF Spec

-----------------------------------------------------------------------------
(* Types: every amount, and what billing makes of them, is a natural       *)
(* number, and no row and no pay request is for nothing.                   *)

InvoiceTypes == [status : {"none", "sent", "paid", "superseded"}, total : Nat]
PricedRow == [session : Sessions, invoice : Invoices, amount : Nat \ {0}, paid : BOOLEAN]
PricedEvent == [session : Sessions, invoice : Invoices, amount : Nat]

BillingTyped ==
    /\ invoices \in [Invoices -> InvoiceTypes]
    /\ bank \in [Invoices -> Nat] /\ bank[1] + bank[2] <= MaxBank
    /\ booked \subseteq Invoices \X Sessions /\ IsFiniteSet(booked)
    /\ consumed \subseteq DOMAIN events

RequestsTyped ==
    /\ reqs \in [Requests -> RequestTypes(Nat)]
    /\ \A r \in Requests : reqs[r].pc \in {"resolved", "create", "insert"} =>
         reqs[r].invoice \in Invoices /\ reqs[r].amount # 0

HooksTyped ==
    /\ hooks \in [Hooks -> HookTypes]
    /\ \A h \in Hooks : hooks[h].pc = "deciding" => hooks[h].invoice \in Invoices

TablesTyped ==
    /\ stripe \in [Sessions -> SessionTypes(Nat)]
    /\ rows \in Seq(PricedRow) /\ events \in Seq(PricedEvent)
    /\ handed \subseteq Sessions /\ due \subseteq Sessions
    /\ faults \in 0..MaxFaults /\ repeats \in 0..MaxRepeats

MoneyTyped == BillingTyped /\ RequestsTyped /\ HooksTyped /\ TablesTyped

\* What is paid of an invoice is a natural number: its sessions are booked one
\* by one, and each has charged one.
LEMMA PaidIsNat ==
  ASSUME BillingTyped, TablesTyped, NEW i \in Invoices
  PROVE  paidOre(i) \in Nat
<1> DEFINE S == {s \in Sessions : <<i, s>> \in booked}
           units(s) == {s} \X (1..Amount(s))
           all == {units(s) : s \in S}
           f == [s \in S |-> units(s)]
           pairs == {b \in booked : b[1] = i}
           g == [b \in pairs |-> b[2]]
<1>1. IsFiniteSet(S)
  <2>1. IsFiniteSet(pairs)
    BY FS_Subset DEF BillingTyped
  <2>2. \A b \in pairs : b[2] \in S
    BY DEF BillingTyped
  <2>3. \A s \in S : <<i, s>> \in pairs /\ <<i, s>>[2] = s
    OBVIOUS
  <2>4. g \in Surjection(pairs, S)
    BY <2>2, <2>3 DEF Surjection
  <2> QED
    BY <2>1, <2>4, FS_Surjection
<1>2. f \in Surjection(S, all)
  BY DEF Surjection
<1>3. IsFiniteSet(all)
  BY <1>1, <1>2, FS_Surjection
<1>4. ASSUME NEW T \in all PROVE IsFiniteSet(T)
  <2>1. PICK s \in S : T = units(s)
    OBVIOUS
  <2>2. Amount(s) \in Int
    BY DEF TablesTyped, SessionTypes, Amount
  <2>3. IsFiniteSet({s})
    BY FS_Singleton
  <2>4. IsFiniteSet(1..Amount(s))
    BY <2>2, FS_Interval
  <2> QED
    BY <2>1, <2>3, <2>4, FS_Product
<1>5. Cardinality(UNION all) \in Nat
  BY <1>3, <1>4, FS_UNION, FS_CardinalityType
<1>6. bank[i] \in Nat
  BY DEF BillingTyped
<1>7. paidOre(i) = bank[i] + Cardinality(UNION all)
  BY DEF paidOre, Charged
<1> HIDE DEF all
<1> QED
  BY <1>5, <1>6, <1>7

LEMMA RemainingIsNat ==
  ASSUME BillingTyped, TablesTyped, NEW i \in Invoices
  PROVE  remainingOre(i) \in Nat
<1>1. paidOre(i) \in Nat
  BY PaidIsNat
<1>2. invoices[i].total \in Nat
  BY DEF BillingTyped, InvoiceTypes
<1> QED
  BY <1>1, <1>2 DEF remainingOre

LEMMA CurrentInvoice == Current \in Invoices
BY DEF Current, Invoices

LEMMA RequestsKeepTypes ==
  ASSUME StripeAssumption, StripeInv, MoneyTyped, NEW r \in Requests, RequestStep(r)
  PROVE  MoneyTyped'
<1> USE DEF MoneyTyped
<1>0. reqs[r] \in RequestTypes(Nat) /\ MaxFaults \in Nat
  BY DEF RequestsTyped, StripeAssumption
<1>1. BillingTyped' /\ HooksTyped'
  BY DEF RequestStep, resolveInvoice, reusePending, noPending, createSession, insertPending,
         requestFails, billing, BillingTyped, HooksTyped
<1>2. ASSUME NEW q \in RequestTypes(Nat), reqs' = [reqs EXCEPT ![r] = q],
             q.pc \in {"resolved", "create", "insert"} => q.invoice \in Invoices /\ q.amount # 0
      PROVE  RequestsTyped'
  <2>1. /\ reqs' \in [Requests -> RequestTypes(Nat)] /\ reqs'[r] = q
        /\ \A p \in Requests \ {r} : reqs'[p] = reqs[p]
    BY <1>2 DEF RequestsTyped
  <2> QED
    BY <1>2, <2>1 DEF RequestsTyped
<1>3. CASE resolveInvoice(r)
  <2>0. PICK a, q : /\ a = remainingOre(Current)
                    /\ q = [pc |-> "resolved", invoice |-> Current, amount |-> a,
                            session |-> NULL]
    OBVIOUS
  <2>1. a \in Nat /\ a > 0 /\ Current \in Invoices
    BY <1>3, <2>0, CurrentInvoice, RemainingIsNat DEF resolveInvoice
  <2>2. /\ reqs' = [reqs EXCEPT ![r] = q]
        /\ UNCHANGED <<stripe, rows, handed, due, events, faults, repeats>>
    BY <1>3, <2>0 DEF resolveInvoice
  <2>3. q \in RequestTypes(Nat)
    BY <2>0, <2>1 DEF RequestTypes
  <2>4. RequestsTyped'
    <3>1. q.invoice \in Invoices /\ q.amount # 0
      BY <2>0, <2>1
    <3> QED
      BY <1>2, <2>2, <2>3, <3>1
  <2>5. TablesTyped'
    BY <2>2 DEF TablesTyped
  <2> QED
    BY <1>1, <2>4, <2>5
<1>4. CASE reusePending(r)
  <2>1. PICK k \in DOMAIN rows :
          /\ reqs' = [reqs EXCEPT ![r].pc = "answered", ![r].session = rows[k].session]
          /\ handed' = handed \cup {rows[k].session}
          /\ UNCHANGED <<stripe, rows, due, events, faults, repeats>>
    BY <1>4 DEF reusePending, activePending
  <2>2. PICK s : s = rows[k].session
    OBVIOUS
  <2>3. rows[k] \in PricedRow
    BY ElementOfSeq, LenProperties DEF TablesTyped
  <2>4. s \in Sessions
    BY <2>2, <2>3 DEF PricedRow
  <2>5. PICK q : q = [reqs[r] EXCEPT !.pc = "answered", !.session = s]
    OBVIOUS
  <2>6. q \in RequestTypes(Nat) /\ q.pc = "answered"
    BY <1>0, <2>4, <2>5 DEF RequestTypes
  <2>7. reqs' = [reqs EXCEPT ![r] = q]
    BY <2>1, <2>2, <2>5
  <2>8. RequestsTyped'
    BY <1>2, <2>6, <2>7
  <2>9. TablesTyped'
    BY <2>1, <2>2, <2>4 DEF TablesTyped
  <2> QED
    BY <1>1, <2>8, <2>9
<1>5. CASE noPending(r)
  <2>1. PICK q : q = [reqs[r] EXCEPT !.pc = "create"]
    OBVIOUS
  <2>2. q \in RequestTypes(Nat) /\ q.invoice = reqs[r].invoice /\ q.amount = reqs[r].amount
    BY <1>0, <2>1 DEF RequestTypes
  <2>3. reqs' = [reqs EXCEPT ![r] = q] /\ reqs[r].pc = "resolved"
        /\ UNCHANGED <<stripe, rows, handed, due, events, faults, repeats>>
    BY <1>5, <2>1 DEF noPending
  <2>4. reqs[r].invoice \in Invoices /\ reqs[r].amount # 0
    BY <2>3 DEF RequestsTyped
  <2>5. RequestsTyped'
    BY <1>2, <2>2, <2>3, <2>4
  <2>6. TablesTyped'
    BY <2>3 DEF TablesTyped
  <2> QED
    BY <1>1, <2>5, <2>6
<1>6. CASE createSession(r)
  <2>1. PICK s \in Sessions :
          /\ reqs[r].pc = "create"
          /\ stripe' = [stripe EXCEPT ![s] = [state |-> "open", amount |-> reqs[r].amount]]
          /\ reqs' = [reqs EXCEPT ![r].pc = "insert", ![r].session = s]
          /\ UNCHANGED <<rows, handed, due, events, faults, repeats>>
    BY <1>6 DEF createSession
  <2>2. PICK q : q = [reqs[r] EXCEPT !.pc = "insert", !.session = s]
    OBVIOUS
  <2>3. q \in RequestTypes(Nat) /\ q.invoice = reqs[r].invoice /\ q.amount = reqs[r].amount
    BY <1>0, <2>2 DEF RequestTypes
  <2>4. reqs' = [reqs EXCEPT ![r] = q]
    BY <2>1, <2>2
  <2>5. reqs[r].invoice \in Invoices /\ reqs[r].amount # 0
    BY <2>1 DEF RequestsTyped
  <2>6. RequestsTyped'
    BY <1>2, <2>3, <2>4, <2>5
  <2>7. [state |-> "open", amount |-> reqs[r].amount] \in SessionTypes(Nat)
    BY <1>0 DEF RequestTypes, SessionTypes
  <2>8. TablesTyped'
    BY <2>1, <2>7 DEF TablesTyped
  <2> QED
    BY <1>1, <2>6, <2>8
<1>7. CASE insertPending(r)
  <2>1. PICK row : row = [session |-> reqs[r].session, invoice |-> reqs[r].invoice,
                          amount |-> reqs[r].amount, paid |-> FALSE]
    OBVIOUS
  <2>2. PICK q : q = [reqs[r] EXCEPT !.pc = "answered"]
    OBVIOUS
  <2>3. /\ reqs[r].pc = "insert" /\ rows' = Append(rows, row)
        /\ handed' = handed \cup {reqs[r].session} /\ reqs' = [reqs EXCEPT ![r] = q]
        /\ UNCHANGED <<stripe, due, events, faults, repeats>>
    BY <1>7, <2>1, <2>2 DEF insertPending
  <2>4. reqs[r].session \in Sessions
    BY <2>3 DEF StripeInv, CreatedApart
  <2>5. reqs[r].invoice \in Invoices /\ reqs[r].amount \in Nat \ {0}
    BY <1>0, <2>3 DEF RequestsTyped, RequestTypes
  <2>6. row \in PricedRow
    BY <2>1, <2>4, <2>5 DEF PricedRow
  <2>7. rows' \in Seq(PricedRow)
    BY <2>3, <2>6, Appended DEF TablesTyped
  <2>8. q \in RequestTypes(Nat) /\ q.pc = "answered"
    BY <1>0, <2>2 DEF RequestTypes
  <2>9. RequestsTyped'
    BY <1>2, <2>3, <2>8
  <2>10. TablesTyped'
    BY <2>3, <2>4, <2>7 DEF TablesTyped
  <2> QED
    BY <1>1, <2>9, <2>10
<1>8. CASE requestFails(r)
  <2>1. NoReq \in RequestTypes(Nat) /\ NoReq.pc = "idle"
    BY DEF NoReq, RequestTypes
  <2>2. RequestsTyped'
    BY <1>2, <1>8, <2>1 DEF requestFails
  <2>3. TablesTyped'
    BY <1>0, <1>8 DEF requestFails, TablesTyped
  <2> QED
    BY <1>1, <2>2, <2>3
<1> QED
  BY <1>3, <1>4, <1>5, <1>6, <1>7, <1>8 DEF RequestStep

LEMMA SessionsKeepTypes ==
  ASSUME StripeAssumption, MoneyTyped, NEW s \in Sessions,
         completeSession(s) \/ expireSession(s) \/ repeatDelivery(s)
  PROVE  MoneyTyped'
<1> USE DEF MoneyTyped
<1>1. BillingTyped' /\ HooksTyped' /\ RequestsTyped'
  BY DEF completeSession, expireSession, repeatDelivery, billing, BillingTyped, HooksTyped,
         RequestsTyped
<1>2. stripe' \in [Sessions -> SessionTypes(Nat)]
  BY DEF completeSession, expireSession, repeatDelivery, TablesTyped, SessionTypes
<1>3. repeats' \in 0..MaxRepeats
  BY DEF completeSession, expireSession, repeatDelivery, TablesTyped, StripeAssumption
<1>4. due' \subseteq Sessions /\ UNCHANGED <<rows, events, handed, faults>>
  BY DEF completeSession, expireSession, repeatDelivery, TablesTyped
<1>5. TablesTyped'
  BY <1>2, <1>3, <1>4 DEF TablesTyped
<1> QED
  BY <1>1, <1>5

LEMMA HooksKeepTypes ==
  ASSUME StripeAssumption, StripeInv, MoneyTyped, NEW h \in Hooks, HookStep(h)
  PROVE  MoneyTyped'
<1> USE DEF MoneyTyped
<1>0. hooks[h] \in HookTypes /\ MaxFaults \in Nat
  BY DEF HooksTyped, StripeAssumption
<1>1. UNCHANGED <<billing, stripe, handed, reqs, repeats>>
  BY DEF HookStep, findBySessionId, resolveForBooking, markPaid, alreadyPaid, hookFails
<1>2. RequestsTyped'
  BY <1>1 DEF RequestsTyped
<1>3. ASSUME NEW w \in HookTypes, hooks' = [hooks EXCEPT ![h] = w],
             w.pc = "deciding" => w.invoice \in Invoices
      PROVE  HooksTyped'
  <2>1. /\ hooks' \in [Hooks -> HookTypes] /\ hooks'[h] = w
        /\ \A g \in Hooks \ {h} : hooks'[g] = hooks[g]
    BY <1>3 DEF HooksTyped
  <2> QED
    BY <1>3, <2>1 DEF HooksTyped
<1>4. NoHook \in HookTypes /\ NoHook.pc = "idle"
  BY DEF NoHook, HookTypes
<1>5. ASSUME UNCHANGED <<rows, events>>, due' \subseteq due, faults' \in 0..MaxFaults, HooksTyped'
      PROVE  MoneyTyped'
  <2>1. BillingTyped'
    BY <1>1, <1>5 DEF billing, BillingTyped
  <2>2. TablesTyped'
    BY <1>1, <1>5 DEF TablesTyped
  <2> QED
    BY <1>2, <1>5, <2>1, <2>2
<1>6. ASSUME NEW s \in Sessions, findBySessionId(h, s) PROVE MoneyTyped'
  <2>1. PICK w : w = [pc |-> "found", session |-> s, invoice |-> NULL]
    OBVIOUS
  <2>2. w \in HookTypes /\ w.pc = "found" /\ hooks' = [hooks EXCEPT ![h] = w]
    BY <1>6, <2>1 DEF findBySessionId, HookTypes
  <2>3. HooksTyped'
    BY <1>3, <2>2
  <2>4. UNCHANGED <<rows, events, due, faults>> /\ faults \in 0..MaxFaults
    BY <1>6 DEF findBySessionId, TablesTyped
  <2> QED
    BY <1>5, <2>3, <2>4
<1>7. CASE resolveForBooking(h)
  <2>1. PICK w : w = [hooks[h] EXCEPT !.pc = "deciding", !.invoice = Current]
    OBVIOUS
  <2>2. w \in HookTypes /\ w.invoice \in Invoices /\ hooks' = [hooks EXCEPT ![h] = w]
    BY <1>0, <1>7, <2>1, CurrentInvoice DEF resolveForBooking, HookTypes
  <2>3. HooksTyped'
    BY <1>3, <2>2
  <2>4. UNCHANGED <<rows, events, due, faults>> /\ faults \in 0..MaxFaults
    BY <1>7 DEF resolveForBooking, TablesTyped
  <2> QED
    BY <1>5, <2>3, <2>4
<1>8. CASE alreadyPaid(h) \/ hookFails(h)
  <2>1. hooks' = [hooks EXCEPT ![h] = NoHook]
    BY <1>8 DEF alreadyPaid, hookFails, Answer200
  <2>2. HooksTyped'
    BY <1>3, <1>4, <2>1
  <2>3. UNCHANGED <<rows, events>> /\ due' \subseteq due /\ faults' \in 0..MaxFaults
    BY <1>0, <1>8 DEF alreadyPaid, hookFails, Answer200, TablesTyped
  <2> QED
    BY <1>5, <2>2, <2>3
<1>9. CASE markPaid(h)
  <2>1. PICK s, k, e : s = hooks[h].session /\ k = Row(s) /\ e = PaymentOf(h)
    OBVIOUS
  <2>2. /\ hooks[h].pc = "deciding" /\ rows' = [rows EXCEPT ![k].paid = TRUE]
        /\ events' = Append(events, e) /\ due' \subseteq due
        /\ hooks' = [hooks EXCEPT ![h] = NoHook] /\ UNCHANGED faults
    BY <1>9, <2>1 DEF markPaid, Answer200
  <2>3. s \in Sessions /\ HasRow(s)
    BY <2>1, <2>2 DEF StripeInv, OnRecord
  <2>4. k \in DOMAIN rows
    BY <2>1, <2>3 DEF HasRow, Row
  <2>5. rows \in Seq(PricedRow) /\ rows[k] \in PricedRow
    BY <2>4, ElementOfSeq, LenProperties DEF TablesTyped
  <2>6. hooks[h].invoice \in Invoices
    BY <2>2 DEF HooksTyped
  <2>7. e = [session |-> s, invoice |-> hooks[h].invoice, amount |-> rows[k].amount]
    BY <2>1 DEF PaymentOf
  <2>8. e \in PricedEvent
    BY <2>3, <2>5, <2>6, <2>7 DEF PricedEvent, PricedRow
  <2>9. PICK w : w = [rows[k] EXCEPT !.paid = TRUE]
    OBVIOUS
  <2>10. w \in PricedRow
    BY <2>5, <2>9 DEF PricedRow
  <2>11. rows' = [rows EXCEPT ![k] = w]
    BY <2>2, <2>9
  <2>12. rows' \in Seq(PricedRow)
    BY <2>4, <2>5, <2>10, <2>11, ExceptSeq, LenProperties
  <2>13. events' \in Seq(PricedEvent) /\ DOMAIN events \subseteq DOMAIN events'
    BY <2>2, <2>8, Appended DEF TablesTyped
  <2>14. HooksTyped'
    BY <1>3, <1>4, <2>2
  <2>15. TablesTyped'
    BY <1>1, <2>2, <2>12, <2>13 DEF TablesTyped
  <2>16. BillingTyped'
    BY <1>1, <2>13 DEF billing, BillingTyped
  <2> QED
    BY <1>2, <2>14, <2>15, <2>16
<1> QED
  BY <1>6, <1>7, <1>8, <1>9 DEF HookStep

\* An invoice that is covered is paid; nothing else of it changes.
LEMMA CoveredTypes ==
  ASSUME BillingTyped, NEW i \in Invoices, NEW paid
  PROVE  SetPaidIfCovered(i, paid) \in [Invoices -> InvoiceTypes]
BY DEF BillingTyped, InvoiceTypes, SetPaidIfCovered

LEMMA BillingKeepsTypes ==
  ASSUME StripeAssumption, MoneyTyped, BillingStep \/ bankPayment \/ createReminder
  PROVE  MoneyTyped'
<1> USE DEF MoneyTyped
<1>1. RequestsTyped' /\ HooksTyped' /\ TablesTyped' /\ UNCHANGED events
  BY DEF BillingStep, bookEvent, bankPayment, createReminder, RequestsTyped, HooksTyped, TablesTyped
<1>2. CASE BillingStep
  <2>1. PICK k \in DOMAIN events :
          /\ consumed' = consumed \cup {k}
          /\ booked' = booked \cup {<<events[k].invoice, events[k].session>>}
          /\ invoices' = SetPaidIfCovered(events[k].invoice,
                                          paidOre(events[k].invoice) + events[k].amount)
          /\ UNCHANGED bank
    BY <1>2 DEF BillingStep, bookEvent
  <2>2. events[k] \in PricedEvent
    BY ElementOfSeq, LenProperties DEF TablesTyped
  <2>3. events[k].invoice \in Invoices /\ events[k].session \in Sessions
    BY <2>2 DEF PricedEvent
  <2>4. invoices' \in [Invoices -> InvoiceTypes]
    BY <2>1, <2>3, CoveredTypes
  <2>5. booked' \subseteq Invoices \X Sessions /\ IsFiniteSet(booked')
    <3>1. PICK b : b = <<events[k].invoice, events[k].session>>
      OBVIOUS
    <3>2. b \in Invoices \X Sessions /\ booked' = booked \cup {b}
      BY <2>1, <2>3, <3>1
    <3>3. IsFiniteSet(booked \cup {b})
      BY FS_AddElement DEF BillingTyped
    <3> QED
      BY <3>2, <3>3 DEF BillingTyped
  <2>6. consumed' \subseteq DOMAIN events
    BY <2>1 DEF BillingTyped
  <2> QED
    BY <1>1, <2>1, <2>4, <2>5, <2>6 DEF BillingTyped
<1>3. CASE bankPayment
  <2>1. /\ Current \in Invoices /\ bank[1] + bank[2] < MaxBank
        /\ bank' = [bank EXCEPT ![Current] = bank[Current] + 1]
        /\ invoices' = SetPaidIfCovered(Current, paidOre(Current) + 1)
        /\ UNCHANGED <<booked, consumed>>
    BY <1>3, CurrentInvoice DEF bankPayment
  <2>2. invoices' \in [Invoices -> InvoiceTypes]
    BY <2>1, CoveredTypes
  <2>3. bank[1] \in Nat /\ bank[2] \in Nat /\ MaxBank \in Nat
    BY DEF BillingTyped, Invoices, StripeAssumption
  <2>4. bank' \in [Invoices -> Nat] /\ bank'[1] + bank'[2] <= MaxBank
    <3>1. CASE Current = 1
      BY <2>1, <2>3, <3>1 DEF BillingTyped, Invoices
    <3>2. CASE Current = 2
      BY <2>1, <2>3, <3>2 DEF BillingTyped, Invoices
    <3> QED
      BY <3>1, <3>2 DEF Current
  <2> QED
    BY <1>1, <2>1, <2>2, <2>4 DEF BillingTyped
<1>4. CASE createReminder
  <2> DEFINE total == remainingOre(1) + Fee
  <2>1. total \in Nat
    <3>1. remainingOre(1) \in Nat
      BY RemainingIsNat DEF Invoices
    <3> QED
      BY <3>1 DEF StripeAssumption
  <2>2. /\ invoices' = [invoices EXCEPT ![1].status = "superseded",
                                        ![2] = [status |-> "sent", total |-> total]]
        /\ UNCHANGED <<bank, booked, consumed>>
    BY <1>4 DEF createReminder
  <2> HIDE DEF total
  <2>3. invoices' \in [Invoices -> InvoiceTypes]
    BY <2>1, <2>2 DEF BillingTyped, InvoiceTypes, Invoices
  <2> QED
    BY <1>1, <2>2, <2>3 DEF BillingTyped
<1> QED
  BY <1>2, <1>3, <1>4

LEMMA InitTypes == ASSUME StripeAssumption, Init PROVE MoneyTyped
<1>1. BillingTyped
  <2>1. invoices \in [Invoices -> InvoiceTypes]
    BY DEF Init, StripeAssumption, InvoiceTypes
  <2>2. bank \in [Invoices -> Nat] /\ bank[1] + bank[2] <= MaxBank
    BY DEF Init, StripeAssumption, Invoices
  <2> QED
    BY <2>1, <2>2, FS_EmptySet DEF Init, BillingTyped
<1>2. RequestsTyped /\ HooksTyped
  BY DEF Init, RequestsTyped, HooksTyped, NoReq, NoHook, RequestTypes, HookTypes
<1>3. TablesTyped
  BY DEF Init, TablesTyped, SessionTypes, StripeAssumption
<1> QED
  BY <1>1, <1>2, <1>3 DEF MoneyTyped

LEMMA TypesStep ==
  ASSUME StripeAssumption, StripeInv, MoneyTyped, [Next]_vars PROVE MoneyTyped'
<1>1. CASE UNCHANGED vars
  BY <1>1 DEF vars, MoneyTyped, BillingTyped, RequestsTyped, HooksTyped, TablesTyped
<1>2. CASE Next
  BY <1>2, RequestsKeepTypes, SessionsKeepTypes, HooksKeepTypes, BillingKeepsTypes DEF Next
<1> QED
  BY <1>1, <1>2

\* The types of the tables of payments and of what billing keeps. That every
\* amount is a natural number rests on the sums over the bookings: there are
\* finitely many, each of a session's own amount; that no row is for nothing
\* rests on the check of remainingOre before anything is created (service.ts).
THEOREM TypeOKHolds == ASSUME StripeAssumption PROVE Spec => []TypeOK
<1>1. Init => StripeInv /\ MoneyTyped
  BY InitInv, InitTypes
<1>2. StripeInv /\ MoneyTyped /\ [Next]_vars => (StripeInv /\ MoneyTyped)'
  BY NextInv, TypesStep
<1>3. StripeInv /\ MoneyTyped => TypeOK
  <2> SUFFICES ASSUME MoneyTyped PROVE TypeOK
    OBVIOUS
  <2>1. bank \in [Invoices -> 0..MaxBank]
    BY DEF MoneyTyped, BillingTyped, Invoices, StripeAssumption
  <2>2. \A k \in DOMAIN rows : rows[k] \in PricedRow
    BY ElementOfSeq, LenProperties DEF MoneyTyped, TablesTyped
  <2> QED
    BY <2>1, <2>2 DEF TypeOK, MoneyTyped, BillingTyped, RequestsTyped, HooksTyped, TablesTyped,
       InvoiceTypes, PricedRow, RequestTypes, SessionTypes, HookTypes
<1> QED
  BY <1>1, <1>2, <1>3, PTL DEF Spec
=============================================================================
