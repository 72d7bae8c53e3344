--------------------------- MODULE DatabaseLocks ---------------------------
(***************************************************************************)
(* The database transactions of the billing service: the row locks that    *)
(* each takes, in the order of its statements, and the connections of the  *)
(* pool that all of them share (createDbClient, max 10).                   *)
(*                                                                         *)
(* A transaction holds one connection from BEGIN to COMMIT.  A row lock    *)
(* that is not free is waited for, and Postgres aborts one transaction of  *)
(* a cycle of such waits.  A statement on the pool instead of the          *)
(* transaction waits for a free connection; nothing breaks a cycle of      *)
(* those waits.  A row's content is left out: only who waits for whom.     *)
(***************************************************************************)
EXTENDS Naturals, Sequences, FiniteSets

CONSTANTS Request,     \* what may be in progress at a time: requests, consumers, the nightly run
          Task,        \* Task[r]: the operations r may carry out
          Invoice, Template, Customer, EventId,
          Owner,       \* the customer of an invoice or a template
          Parent,      \* the template an invoice was generated from, or none
          PoolMax      \* connections in the pool

(* The tenant's row of company_settings.                                   *)
settings == "company_settings"

\* What is assumed of the constants; asserted where they get their values. The rows
\* of different tables are different.
LocksAssumption ==
    /\ PoolMax \in Nat \ {0} /\ IsFiniteSet(Request)
    /\ Owner \in [Invoice \cup Template -> Customer]
    /\ \A r \in Request : Task[r] # {}
    /\ EventId \cap (Template \cup Invoice \cup Customer) = {}
    /\ Template \cap (Invoice \cup Customer) = {} /\ Invoice \cap Customer = {}
    /\ {settings, "pool"} \cap (EventId \cup Template \cup Invoice \cup Customer) = {}

VARIABLES task,   \* what r carries out
          phase,  \* idle, queued (for a connection), open (in its transaction) or ended
          todo,   \* the statements before r: a sequence of sets, each done in any order
          held,   \* the row locks of r's transaction
          result  \* how r's last transaction ended

lockVars == <<task, phase, todo, held, result>>

---------------------------------------------------------------------------
(* The lock modes of Postgres that the statements take: SELECT FOR UPDATE  *)
(* and DELETE, UPDATE of other columns than keys, the check of a foreign   *)
(* key.                                                                    *)

Update(row) == [row |-> row, mode |-> "Update"]

NoKeyUpdate(row) == [row |-> row, mode |-> "NoKeyUpdate"]

KeyShare(row) == [row |-> row, mode |-> "KeyShare"]

conflicting == {<<"Update", "Update">>, <<"Update", "NoKeyUpdate">>, <<"Update", "KeyShare">>,
                <<"NoKeyUpdate", "Update">>, <<"NoKeyUpdate", "NoKeyUpdate">>,
                <<"KeyShare", "Update">>}

(* A statement on the pool.                                                *)
poolRead == [row |-> "pool", mode |-> "Read"]

---------------------------------------------------------------------------
(* The statements of each transaction that lock a row or need another      *)
(* connection, in order.                                                   *)

(* csRepo(ctx).find() reads the settings on the pool, inside the           *)
(* transaction; the new invoice refers to its customer.                    *)
createInTx(c) == <<{poolRead}, {KeyShare(c)}>>

createTemplateInTx(c) == <<{KeyShare(c)}>>

editDraft(i) == <<{Update(i)}>>

\* Mutant of sendInTx: the number series is locked before the invoice.
sendInTxSettingsFirst(i) == <<{Update(settings)}, {Update(i)}>>

sendInTx(i) == <<{Update(i)}, {Update(settings)}>>

\* Mutant of creditInTx: the customer is read on the pool, as in createInTx.
creditInTxReadsPool(i) ==
    <<{Update(i)}, {poolRead}, {Update(settings)}, {KeyShare(Owner[i])}>>

creditInTx(i) == <<{Update(i)}, {Update(settings)}, {KeyShare(Owner[i])}>>

createReminderInTx(i) == <<{Update(i)}, {Update(settings)}, {KeyShare(Owner[i])}>>

(* Settings are read on the pool when the customer has no terms of its own.*)
generateFromTemplateInTx(t, ownTerms) ==
    <<{Update(t)}>> \o (IF ownTerms THEN <<>> ELSE <<{poolRead}>>)
                    \o <<{Update(settings)}, {KeyShare(Owner[t])}>>

(* One statement updates all invoices that became overdue, in any order.   *)
markOverdueBulk(is) == <<{NoKeyUpdate(i) : i \in is}>>

updateTemplate(t) == <<{NoKeyUpdate(t)}>>

(* ON DELETE SET NULL updates the invoices that came from the template.    *)
removeTemplate(t) == <<{Update(t)}, {NoKeyUpdate(i) : i \in {j \in Invoice : Parent[j] = t}}>>

updateSettings == <<{NoKeyUpdate(settings)}>>

updateCustomer(c) == <<{NoKeyUpdate(c)}>>

(* ON DELETE RESTRICT looks for one template, then for one invoice, of the *)
(* customer and refuses when it has locked one.                            *)
documentsOf(c) == LET owned(S) == {d \in S : Owner[d] = c}
                  IN  IF owned(Template) # {} THEN owned(Template) ELSE owned(Invoice)

removeCustomer(c, d) == <<{Update(c)}, {KeyShare(d)}>>

(* The row of processed_events is the lock on an event: a second insert    *)
(* waits for the first.                                                    *)
applyPayment(e, i) == <<{Update(e)}, {Update(i)}>>

applyDelivery(e, i, hardBounce) ==
    <<{Update(e)}, {NoKeyUpdate(i)}>> \o (IF hardBounce THEN <<{NoKeyUpdate(Owner[i])}>> ELSE <<>>)

(* The publisher keeps its transaction, and so a connection, while it      *)
(* waits for the broker; the rows it locks are skipped by the others.      *)
publishTick == <<>>

(* The ways a transaction for t may go.                                    *)
programs(t) ==
    CASE t.op = "create"         -> {createInTx(t.on)}
      [] t.op = "createTemplate" -> {createTemplateInTx(t.on)}
      [] t.op = "edit"           -> {editDraft(t.on)}
      [] t.op = "send"           -> {sendInTx(t.on)}
      [] t.op = "credit"         -> {creditInTx(t.on)}
      [] t.op = "remind"         -> {createReminderInTx(t.on)}
      [] t.op = "generate"       -> {generateFromTemplateInTx(t.on, own) : own \in BOOLEAN}
      [] t.op = "overdue"        -> {markOverdueBulk(t.on)}
      [] t.op = "updateTemplate" -> {updateTemplate(t.on)}
      [] t.op = "removeTemplate" -> {removeTemplate(t.on)}
      [] t.op = "settings"       -> {updateSettings}
      [] t.op = "updateCustomer" -> {updateCustomer(t.on)}
      [] t.op = "removeCustomer" -> {removeCustomer(t.on, d) : d \in documentsOf(t.on)}
      [] t.op = "payment"        -> {applyPayment(e, t.on) : e \in EventId}
      [] t.op = "delivery"       -> {applyDelivery(e, t.on, hard) : e \in EventId, hard \in BOOLEAN}
      [] t.op = "publish"        -> {publishTick}

---------------------------------------------------------------------------
LocksInit ==
    /\ task = [r \in Request |-> CHOOSE t \in Task[r] : TRUE]
    /\ phase = [r \in Request |-> "idle"]
    /\ todo = [r \in Request |-> <<>>]
    /\ held = [r \in Request |-> {}]
    /\ result = [r \in Request |-> "none"]

(* A request arrives and asks the pool for a connection.                   *)
arrive(r) == /\ phase[r] \in {"idle", "ended"}
             /\ \E t \in Task[r] : \E p \in programs(t) :
                  /\ task' = [task EXCEPT ![r] = t]
                  /\ todo' = [todo EXCEPT ![r] = p]
             /\ phase' = [phase EXCEPT ![r] = "queued"]
             /\ result' = [result EXCEPT ![r] = "none"]
             /\ UNCHANGED held

freeConnections == PoolMax - Cardinality({r \in Request : phase[r] = "open"})

begin(r) == /\ phase[r] = "queued"
            /\ freeConnections > 0
            /\ phase' = [phase EXCEPT ![r] = "open"]
            /\ UNCHANGED <<task, todo, held, result>>

(* The transactions that keep r from lock l.                               *)
blockers(r, l) == {q \in Request \ {r} : \E h \in held[q] :
                     h.row = l.row /\ <<h.mode, l.mode>> \in conflicting}

(* One statement, or one row of a statement that locks several.            *)
execute(r) ==
    /\ phase[r] = "open"
    /\ todo[r] # <<>>
    /\ \/ /\ Head(todo[r]) = {}
          /\ todo' = [todo EXCEPT ![r] = Tail(@)]
          /\ UNCHANGED held
       \/ \E l \in Head(todo[r]) :
            /\ IF l = poolRead
               THEN freeConnections > 0 /\ UNCHANGED held
               ELSE blockers(r, l) = {} /\ held' = [held EXCEPT ![r] = @ \cup {l}]
            /\ todo' = [todo EXCEPT ![r] = IF Head(@) = {l} THEN Tail(@)
                                           ELSE <<Head(@) \ {l}>> \o Tail(@)]
    /\ UNCHANGED <<task, phase, result>>

endTransaction(r, how) == /\ phase' = [phase EXCEPT ![r] = "ended"]
                          /\ held' = [held EXCEPT ![r] = {}]
                          /\ todo' = [todo EXCEPT ![r] = <<>>]
                          /\ result' = [result EXCEPT ![r] = how]
                          /\ UNCHANGED task

(* COMMIT, or the 409 of a removal that found a document of the customer.  *)
finish(r) == /\ phase[r] = "open"
             /\ todo[r] = <<>>
             /\ endTransaction(r, IF task[r].op = "removeCustomer" THEN "conflict" ELSE "ok")

(* The operations that look at the rows they have locked and may stop      *)
(* there: a status that does not allow them, an event handled before.      *)
checked == {"edit", "send", "credit", "remind", "generate", "payment", "delivery"}

refuse(r) == /\ phase[r] = "open"
             /\ held[r] # {}
             /\ task[r].op \in checked
             /\ endTransaction(r, "refused")

(* Whom r waits for: all it could do next is blocked.                      *)
waitsFor(r) ==
    IF phase[r] = "open" /\ todo[r] # <<>> /\ Head(todo[r]) # {} /\ poolRead \notin Head(todo[r])
       /\ \A l \in Head(todo[r]) : blockers(r, l) # {}
    THEN UNION {blockers(r, l) : l \in Head(todo[r])} ELSE {}

(* A set of transactions each of which waits for one of the set.           *)
inCycle(r) == \E S \in SUBSET Request : r \in S /\ \A q \in S : waitsFor(q) \cap S # {}

(* The deadlock detector of Postgres ends one of them.                     *)
abortVictim(r) == /\ inCycle(r)
                  /\ endTransaction(r, "deadlock")

advance(r) == begin(r) \/ execute(r) \/ finish(r) \/ abortVictim(r)

LocksNext == \E r \in Request : arrive(r) \/ advance(r) \/ refuse(r)

LocksSpec == LocksInit /\ [][LocksNext]_lockVars

(* The pool and Postgres serve those who wait in turn, and the detector    *)
(* runs a second after a wait began.                                       *)
LocksFairSpec == LocksSpec /\ \A r \in Request : SF_lockVars(advance(r))

---------------------------------------------------------------------------
(* Only an open transaction holds locks, and no more are open than the     *)
(* pool has connections.                                                   *)
LocksTypeOK ==
    /\ \A r \in Request : task[r] \in Task[r]
    /\ phase \in [Request -> {"idle", "queued", "open", "ended"}]
    /\ result \in [Request -> {"none", "ok", "conflict", "refused", "deadlock"}]
    /\ \A r \in Request : held[r] # {} => phase[r] = "open"
    /\ freeConnections >= 0

(* What r may carry out but for the two removals, of a template and of a   *)
(* customer, whose locks are in another order.                             *)
LedgerTask(t) ==
    \/ t.op \in {"create", "createTemplate", "updateCustomer"} /\ t.on \in Customer
    \/ t.op \in {"edit", "send", "credit", "remind", "payment", "delivery"} /\ t.on \in Invoice
    \/ t.op \in {"generate", "updateTemplate"} /\ t.on \in Template
    \/ t.op = "overdue" /\ t.on \subseteq Invoice
    \/ t.op \in {"settings", "publish"}

MarksOverdue(r) == \E t \in Task[r] : t.op = "overdue"

(* No removals, and one nightly run at a time.                             *)
LedgerTasks ==
    /\ \A r \in Request : \A t \in Task[r] : LedgerTask(t)
    /\ \A r, q \in Request : MarksOverdue(r) /\ MarksOverdue(q) => r = q

(* The order of the locks in send, credit, reminder, generation, payments  *)
(* and delivery reports (event, document, number series, customer) leaves  *)
(* no transaction waiting for itself through others.                       *)
NoWaitCycle == \A r \in Request : ~inCycle(r)

(* Every request gets its connection and its locks and ends: no set of     *)
(* them waits for each other, for rows or for connections, for ever.       *)
EveryRequestEnds == \A r \in Request : phase[r] = "queued" ~> phase[r] = "ended"

-----------------------------------------------------------------------------
(* What the code does not keep, though its documents say so: see the README. *)

(* A customer with documents is refused with 409, as remove() in           *)
(* customers/services.ts answers it.                                       *)
RemovalIsRefused == \A r \in Request :
    task[r].op = "removeCustomer" => result[r] \in {"none", "conflict"}
=============================================================================
