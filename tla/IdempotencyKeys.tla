--------------------------- MODULE IdempotencyKeys ---------------------------
(***************************************************************************)
(* withIdempotency (billing and payments hold the same code) and the admin *)
(* forms that call it.  A form draws its Idempotency-Key when it opens and *)
(* sends it with every submit; the answer may be lost, the admin may then  *)
(* change the form and submit again, and the first request may still be    *)
(* running.  A request claims the key in a transaction of its own, does    *)
(* its work and completes the key in a second one, and removes its claim   *)
(* in a third one if the work failed.                                      *)
(*                                                                         *)
(* Time: a claim is fresh for STALE_MINUTES and stale from then on; a key  *)
(* is removed by the nightly clean-up once it is TTL_HOURS old, when every *)
(* request that carried it is long over and its form is closed.            *)
(***************************************************************************)
EXTENDS Integers, Sequences, FiniteSets

CONSTANTS
    Forms,          \* admins' form pages
    Keys,           \* idempotency keys
    Bodies,         \* endpoint and content of a submit, as far as their hashes differ
    Requests,       \* requests in progress at once
    SlowRequests,   \* may a request still run after STALE_MINUTES?
    MaxFailures     \* bound: failing work, crashes and lost answers

VARIABLES
    rows,       \* idempotency_keys
    effects,    \* Keys -> bodies of the committed work since the key was new
    req,        \* requests
    form,       \* forms
    failures

vars == <<rows, effects, req, form, failures>>

None == "none"

\* What is assumed of the constants; asserted where they get their values.
KeysAssumption ==
    /\ None \notin Keys \cup Forms
    /\ IsFiniteSet(Requests)
    /\ SlowRequests \in BOOLEAN /\ MaxFailures \in Nat

Absent == [state |-> "absent", hash |-> None, stale |-> FALSE, created |-> 0, whole |-> TRUE]
Idle == [at |-> "idle", key |-> None, body |-> None, client |-> None, seen |-> Absent]
Closed == [st |-> "closed", key |-> None, body |-> None]

Init ==
    /\ rows = [k \in Keys |-> Absent]
    /\ effects = [k \in Keys |-> <<>>]
    /\ req = [r \in Requests |-> Idle]
    /\ form = [f \in Forms |-> Closed]
    /\ failures = 0

Fails == failures < MaxFailures /\ failures' = failures + 1
Running(k) == { r \in Requests : req[r].key = k /\ req[r].at # "idle" }

-----------------------------------------------------------------------------
(* The admin's form. *)

InUse(k) == \/ \E f \in Forms : form[f].key = k
            \/ rows[k].state # "absent" \/ Running(k) # {}

\* useState(() => crypto.randomUUID()): the key is drawn when the form opens.
openForm(f, k, b) ==
    /\ form[f].st = "closed" /\ ~InUse(k)
    /\ form' = [form EXCEPT ![f] = [st |-> "editing", key |-> k, body |-> b]]
    /\ UNCHANGED <<rows, effects, req, failures>>

editForm(f, b) ==
    /\ form[f].st = "editing" /\ form[f].body # b
    /\ form' = [form EXCEPT ![f].body = b]
    /\ UNCHANGED <<rows, effects, req, failures>>

\* mutate(): the button is disabled until the answer is there.
submit(f, r) ==
    /\ form[f].st = "editing" /\ req[r].at = "idle"
    /\ req' = [req EXCEPT ![r] = [Idle EXCEPT !.at = "claim", !.key = form[f].key,
                                              !.body = form[f].body, !.client = f]]
    /\ form' = [form EXCEPT ![f].st = "waiting"]
    /\ UNCHANGED <<rows, effects, failures>>

\* onError on a lost connection: the form is usable again, the request runs on.
answerLost(f) ==
    /\ form[f].st = "waiting" /\ Fails
    /\ form' = [form EXCEPT ![f].st = "editing"]
    /\ req' = [r \in Requests |-> IF req[r].client = f
                                  THEN [req[r] EXCEPT !.client = None] ELSE req[r]]
    /\ UNCHANGED <<rows, effects>>

\* The admin leaves the page, or it navigated away on success.
closeForm(f) ==
    /\ form[f].st \in {"editing", "done"}
    /\ form' = [form EXCEPT ![f] = Closed]
    /\ UNCHANGED <<rows, effects, req, failures>>

-----------------------------------------------------------------------------
(* withIdempotency. *)

\* onSuccess or onError of the form that waits, if it still does.
Answer(r, st) ==
    /\ req' = [req EXCEPT ![r] = Idle]
    /\ form' = IF req[r].client = None THEN form
               ELSE [form EXCEPT ![req[r].client].st = st]

\* now(): an instant at which no claim was made that a request is about to take over.
Now == CHOOSE t \in 0 .. Cardinality(Requests) :
           \A q \in Requests : req[q].at = "reclaim" => req[q].seen.created # t

Claim(r) ==
    \E whole \in BOOLEAN :
        rows' = [rows EXCEPT ![req[r].key] =
                    [state |-> "in_progress", hash |-> req[r].body, stale |-> FALSE,
                     created |-> Now, whole |-> whole]]

\* Mutant of claimInsert: the claim is not checked for an existing row.
claimInsertMutUpsert(r) ==
    /\ req[r].at = "claim"
    /\ Claim(r)
    /\ req' = [req EXCEPT ![r].at = "run"]
    /\ UNCHANGED <<effects, form, failures>>

\* INSERT ... ON CONFLICT DO NOTHING
claimInsert(r) ==
    /\ req[r].at = "claim"
    /\ IF rows[req[r].key].state = "absent"
       THEN Claim(r) /\ req' = [req EXCEPT ![r].at = "run"]
       ELSE UNCHANGED rows /\ req' = [req EXCEPT ![r].at = "read"]
    /\ UNCHANGED <<effects, form, failures>>

\* Mutant of claimRead: a completed key is replayed whatever the body.
claimReadMutAnyHash(r) ==
    /\ req[r].at = "read"
    /\ LET row == rows[req[r].key] IN
         \/ /\ row.state = "absent" \/ (row.state = "in_progress" /\ ~row.stale)
            /\ Answer(r, "editing")
         \/ row.state = "completed" /\ Answer(r, "done")
         \/ /\ row.state = "in_progress" /\ row.stale
            /\ req' = [req EXCEPT ![r].at = "reclaim", ![r].seen = row]
            /\ UNCHANGED form
    /\ UNCHANGED <<rows, effects, failures>>

(***************************************************************************)
(* SELECT: 409 if the row is gone or the claim fresh, 422 if the body      *)
(* differs, the stored answer if completed; a stale claim is taken over.   *)
(***************************************************************************)
claimRead(r) ==
    /\ req[r].at = "read"
    /\ LET row == rows[req[r].key] IN
         \/ /\ row.state = "absent" \/ (row.state = "in_progress" /\ ~row.stale)
            /\ Answer(r, "editing")
         \/ /\ row.state = "completed"
            /\ Answer(r, IF row.hash = req[r].body THEN "done" ELSE "editing")
         \/ /\ row.state = "in_progress" /\ row.stale
            /\ req' = [req EXCEPT ![r].at = "reclaim", ![r].seen = row]
            /\ UNCHANGED form
    /\ UNCHANGED <<rows, effects, failures>>

(***************************************************************************)
(* UPDATE ... WHERE state = 'in_progress' AND created_at = seen.  The      *)
(* column has microseconds and the Date it is compared with milliseconds,  *)
(* so only a claim made on a whole millisecond can be taken over.          *)
(***************************************************************************)
Reclaimable(r) ==
    LET row == rows[req[r].key]
    IN  row.state = "in_progress" /\ row.created = req[r].seen.created /\ row.whole

reclaim(r) ==
    /\ req[r].at = "reclaim" /\ Reclaimable(r)
    /\ Claim(r)
    /\ req' = [req EXCEPT ![r].at = "run"]
    /\ UNCHANGED <<effects, form, failures>>

reclaimRefused(r) ==
    /\ req[r].at = "reclaim" /\ ~Reclaimable(r)
    /\ Answer(r, "editing")
    /\ UNCHANGED <<rows, effects, failures>>

\* The work and the completion of the key commit together; the UPDATE names
\* only the key, and changes nothing when its row is gone.
runCommits(r) ==
    /\ req[r].at = "run"
    /\ effects' = [effects EXCEPT ![req[r].key] = Append(@, req[r].body)]
    /\ rows' = [rows EXCEPT ![req[r].key].state =
                    IF @ = "absent" THEN "absent" ELSE "completed"]
    /\ Answer(r, "done")
    /\ UNCHANGED failures

runFails(r) ==
    /\ req[r].at = "run" /\ Fails
    /\ req' = [req EXCEPT ![r].at = "cleanup"]
    /\ UNCHANGED <<rows, effects, form>>

\* DELETE ... WHERE state = 'in_progress', whoever holds the claim by now.
removeClaim(r) ==
    /\ req[r].at = "cleanup"
    /\ rows' = [rows EXCEPT ![req[r].key] = IF @.state = "in_progress" THEN Absent ELSE @]
    /\ Answer(r, "editing")
    /\ UNCHANGED <<effects, failures>>

processDies(r) ==
    /\ req[r].at # "idle" /\ Fails
    /\ Answer(r, "editing")
    /\ UNCHANGED <<rows, effects>>

-----------------------------------------------------------------------------
\* STALE_MINUTES pass since the claim.
claimGoesStale(k) ==
    /\ rows[k].state = "in_progress" /\ ~rows[k].stale
    /\ SlowRequests \/ \A r \in Running(k) : req[r].at \notin {"run", "cleanup"}
    /\ rows' = [rows EXCEPT ![k].stale = TRUE]
    /\ UNCHANGED <<effects, req, form, failures>>

\* Mutant of cleanupExpiredIdempotencyKeys: every retry renews the expiry, so only a
\* key whose form is closed is removed.
cleanupMutRenewed(k) ==
    /\ \A f \in Forms : form[f].key # k
    /\ rows[k].state = "in_progress" => rows[k].stale
    /\ rows[k].state # "absent" /\ Running(k) = {}
    /\ rows' = [rows EXCEPT ![k] = Absent]
    /\ effects' = [effects EXCEPT ![k] = <<>>]
    /\ UNCHANGED <<req, form, failures>>

\* DELETE FROM idempotency_keys WHERE expires_at < now()
cleanupExpiredIdempotencyKeys(k) ==
    /\ rows[k].state = "completed" => \A f \in Forms : form[f].key # k
    /\ rows[k].state = "in_progress" => rows[k].stale
    /\ rows[k].state # "absent" /\ Running(k) = {}
    /\ rows' = [rows EXCEPT ![k] = Absent]
    /\ effects' = [effects EXCEPT ![k] = <<>>]
    /\ UNCHANGED <<req, form, failures>>

-----------------------------------------------------------------------------
RequestStep(r) ==
    \/ claimInsert(r) \/ claimRead(r) \/ reclaim(r) \/ reclaimRefused(r)
    \/ runCommits(r) \/ removeClaim(r)

FormStep(f) ==
    \/ \E k \in Keys, b \in Bodies : openForm(f, k, b)
    \/ \E b \in Bodies : editForm(f, b)
    \/ answerLost(f) \/ closeForm(f)

Next ==
    \/ \E f \in Forms : FormStep(f) \/ \E r \in Requests : submit(f, r)
    \/ \E r \in Requests : RequestStep(r) \/ runFails(r) \/ processDies(r)
    \/ \E k \in Keys : claimGoesStale(k) \/ cleanupExpiredIdempotencyKeys(k)

Spec == Init /\ [][Next]_vars

\* Requests run on, time passes, and the clean-up runs every night: a client that
\* keeps resubmitting does not hold it off.
FairSpec ==
    /\ Spec
    /\ \A r \in Requests : WF_vars(RequestStep(r))
    /\ \A k \in Keys : /\ WF_vars(claimGoesStale(k))
                       /\ SF_vars(cleanupExpiredIdempotencyKeys(k))

-----------------------------------------------------------------------------
TypeOK ==
    /\ \A k \in Keys : /\ rows[k].state \in {"absent", "in_progress", "completed"}
                       /\ rows[k].hash \in Bodies \cup {None}
                       /\ effects[k] \in Seq(Bodies)
    /\ \A r \in Requests :
         /\ req[r].at \in {"idle", "claim", "read", "reclaim", "run", "cleanup"}
         /\ req[r].client \in Forms \cup {None}
    /\ \A f \in Forms : /\ form[f].st \in {"closed", "editing", "waiting", "done"}
                        /\ form[f].key \in Keys \cup {None}
                        /\ form[f].st = "closed" <=> form[f].key = None
    /\ failures \in 0 .. MaxFailures

(***************************************************************************)
(* One opened form creates at most one invoice, customer or booking,       *)
(* however often it is submitted, whatever answers were lost and whichever *)
(* processes died.                                                         *)
(***************************************************************************)
OneEffectPerKey == \A k \in Keys : Len(effects[k]) <= 1

(***************************************************************************)
(* A form that reports success was carried out with the content it shows,  *)
(* even when the answer is a replay of an earlier submit.                  *)
(***************************************************************************)
SuccessIsTrue == \A f \in Forms : form[f].st = "done" => effects[form[f].key] = <<form[f].body>>

\* What a caller of withIdempotency relies on, as long as no request outlives the
\* time after which its claim may be taken over.
KeyedOnce == OneEffectPerKey /\ SuccessIsTrue

(***************************************************************************)
(* A key is never blocked for good: a claim left behind by a dead process  *)
(* is taken over, completed, or removed by the clean-up.                   *)
(***************************************************************************)
ClaimsAreReleased ==
    \A k \in Keys : (rows[k].state = "in_progress") ~> (rows[k].state # "in_progress")

-----------------------------------------------------------------------------
(* What the code does not keep, though its documents say so: see the README. *)

(***************************************************************************)
(* "En identisk request pågår redan": a stale claim is refused only        *)
(* because another request changed it meanwhile.                           *)
(***************************************************************************)
ConflictMeansRunning ==
    [][\A r \in Requests :
         req[r].at = "reclaim" /\ req'[r].at = "idle" /\ failures' = failures =>
             \/ rows[req[r].key].state # "in_progress"
             \/ rows[req[r].key].created # req[r].seen.created]_vars
==============================================================================
