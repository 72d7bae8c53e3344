------------------------- MODULE LocksAndKeys_proofs -------------------------
(***************************************************************************)
(* Theorems about requests beside each other.                              *)
(*                                                                         *)
(* IdempotencyKeys: for any number of forms, keys, contents and requests   *)
(* and any failures, as long as no request outlives the time after which   *)
(* its claim may be taken over (SlowRequests = FALSE), a key has one       *)
(* effect, and a form that reports success shows what was done.            *)
(*                                                                         *)
(* DatabaseLocks: whichever operations of the ledger run beside each       *)
(* other, but for the two removals, the order of their locks leaves no     *)
(* cycle of waits.  Rows are ranked in that order; a transaction holds     *)
(* lower ranks than it waits for, and along a chain of waits the ranks     *)
(* rise.                                                                   *)
(***************************************************************************)
EXTENDS IdempotencyKeys, DatabaseLocks, SequenceTheorems, FiniteSetTheorems, TLAPS

-----------------------------------------------------------------------------
(* Idempotency keys *)

States == {"absent", "in_progress", "completed"}
RowTypes == [state : States, hash : Bodies \cup {None}, stale : BOOLEAN,
             created : Int, whole : BOOLEAN]
RequestTypes == [at : {"idle", "claim", "read", "reclaim", "run", "cleanup"},
                 key : Keys \cup {None}, body : Bodies \cup {None},
                 client : Forms \cup {None}, seen : RowTypes]
FormTypes == [st : {"closed", "editing", "waiting", "done"},
              key : Keys \cup {None}, body : Bodies \cup {None}]

Typed ==
    /\ rows \in [Keys -> RowTypes]
    /\ effects \in [Keys -> Seq(Bodies)]
    /\ req \in [Requests -> RequestTypes]
    /\ form \in [Forms -> FormTypes]
    /\ failures \in 0 .. MaxFailures

\* A key has its effect exactly when it is completed, and it is the effect of
\* the body whose hash the row holds.
EffectsMatch ==
    \A k \in Keys :
        effects[k] = IF rows[k].state = "completed" THEN <<rows[k].hash>> ELSE <<>>

Holds(r) == req[r].at \in {"run", "cleanup"}

\* A request that has claimed its key and not given it back is alone with it.
ClaimHeld ==
    /\ \A r \in Requests : Holds(r) =>
         LET row == rows[req[r].key] IN
         row.state = "in_progress" /\ ~row.stale /\ row.hash = req[r].body
    /\ \A r, q \in Requests : Holds(r) /\ Holds(q) /\ req[r].key = req[q].key => r = q

\* A request about to take a claim over has seen it stale; a claim made since
\* has another created_at.
SeenStale ==
    \A r \in Requests :
        req[r].at = "reclaim" /\ rows[req[r].key].created = req[r].seen.created
                              /\ rows[req[r].key].state = "in_progress"
            => rows[req[r].key].stale

\* A request that has a client works for the submit the form waits for.
RequestsBelong ==
    /\ \A r \in Requests :
         /\ req[r].at # "idle" => req[r].key \in Keys /\ req[r].body \in Bodies
         /\ req[r].client # None =>
              LET f == req[r].client IN
              /\ req[r].at # "idle" /\ form[f].st = "waiting"
              /\ form[f].key = req[r].key /\ form[f].body = req[r].body
    /\ \A r, q \in Requests :
         req[r].client # None /\ req[r].client = req[q].client => r = q

\* A form that reports success shows the body of its completed key.
FormsSound ==
    \A f \in Forms :
        /\ form[f].st = "closed" <=> form[f].key = None
        /\ form[f].st # "closed" => form[f].body \in Bodies
        /\ form[f].st = "done" => /\ rows[form[f].key].state = "completed"
                                  /\ rows[form[f].key].hash = form[f].body

KeysInv == /\ Typed /\ EffectsMatch /\ ClaimHeld /\ SeenStale
           /\ RequestsBelong /\ FormsSound

-----------------------------------------------------------------------------
LEMMA ConstantsTyped ==
  Absent \in RowTypes /\ Idle \in RequestTypes /\ Closed \in FormTypes
<1>1. Absent \in RowTypes
  BY DEF Absent, RowTypes, States
<1> QED
  BY <1>1 DEF Idle, RequestTypes, Closed, FormTypes

LEMMA InitInv == KeysAssumption /\ Init => KeysInv
<1> SUFFICES ASSUME KeysAssumption, Init PROVE KeysInv
  OBVIOUS
<1>1. Typed
  BY ConstantsTyped DEF Init, Typed, KeysAssumption
<1>2. EffectsMatch
  BY DEF Init, EffectsMatch, Absent
<1>3. ClaimHeld /\ SeenStale
  BY DEF Init, ClaimHeld, Holds, SeenStale, Idle
<1>4. RequestsBelong
  BY DEF Init, RequestsBelong, Idle
<1>5. FormsSound
  BY DEF Init, FormsSound, Closed
<1> QED
  BY <1>1, <1>2, <1>3, <1>4, <1>5 DEF KeysInv

\* There are more instants to choose from than claims to tell a new one from.
LEMMA NowIsNew ==
  ASSUME IsFiniteSet(Requests)
  PROVE  /\ Now \in Int
         /\ \A q \in Requests : req[q].at = "reclaim" => req[q].seen.created # Now
<1> DEFINE n == Cardinality(Requests)
           seen == [q \in Requests |-> req[q].seen.created]
           S == { seen[q] : q \in Requests }
<1>1. n \in Nat
  BY FS_CardinalityType
<1>2. IsFiniteSet(0 .. n) /\ Cardinality(0 .. n) = n + 1
  BY <1>1, FS_Interval
<1>3. seen \in Surjection(Requests, S)
  BY DEF Surjection
<1>4. IsFiniteSet(S) /\ Cardinality(S) <= n /\ Cardinality(S) \in Nat
  BY <1>3, FS_Surjection, FS_CardinalityType
<1>5. ~(0 .. n \subseteq S)
  <2>1. SUFFICES ASSUME 0 .. n \in SUBSET S PROVE FALSE
    OBVIOUS
  <2>2. Cardinality(0 .. n) <= Cardinality(S)
    BY <1>4, <2>1, FS_Subset
  <2> QED
    BY <1>1, <1>2, <1>4, <2>2
<1>6. \E t \in 0 .. n : \A q \in Requests : req[q].at = "reclaim" => req[q].seen.created # t
  BY <1>5
<1> HIDE DEF seen, S
<1>7. /\ Now \in 0 .. n
      /\ \A q \in Requests : req[q].at = "reclaim" => req[q].seen.created # Now
  BY <1>6 DEF Now
<1> QED
  BY <1>1, <1>7

LEMMA FailureCounted ==
  ASSUME KeysAssumption, KeysInv, Fails PROVE failures' \in 0 .. MaxFailures
<1>1. failures \in 0 .. MaxFailures /\ MaxFailures \in Nat
  BY DEF KeysInv, Typed, KeysAssumption
<1> QED
  BY <1>1 DEF Fails

\* A form that does not wait has no request of its own.
LEMMA NoClient ==
  ASSUME KeysInv, NEW f \in Forms, form[f].st # "waiting"
  PROVE  \A r \in Requests : req[r].client # None => req[r].client \in Forms \ {f}
<1>1. \A r \in Requests : req[r].client \in Forms \cup {None}
  BY DEF KeysInv, Typed, RequestTypes
<1> QED
  BY <1>1 DEF KeysInv, RequestsBelong

-----------------------------------------------------------------------------
(* The admin's forms: neither rows nor effects change. *)

LEMMA OpenInv ==
  ASSUME KeysAssumption, KeysInv, NEW f \in Forms, NEW k \in Keys, NEW b \in Bodies,
         openForm(f, k, b)
  PROVE  KeysInv'
<1> DEFINE q == [st |-> "editing", key |-> k, body |-> b]
<1>1. /\ form[f].st = "closed" /\ form' = [form EXCEPT ![f] = q]
      /\ UNCHANGED <<rows, effects, req, failures>>
  BY DEF openForm
<1>2. q \in FormTypes /\ q.st = "editing" /\ q.key = k /\ q.body = b
  BY DEF FormTypes
<1> HIDE DEF q
<1>3. form \in [Forms -> FormTypes] /\ k # None
  BY DEF KeysInv, Typed, KeysAssumption
<1>4. /\ form' \in [Forms -> FormTypes] /\ form'[f] = q
      /\ \A g \in Forms \ {f} : form'[g] = form[g]
  BY <1>1, <1>2, <1>3
<1>5. Typed'
  BY <1>1, <1>4 DEF KeysInv, Typed, RowTypes, RequestTypes, FormTypes
<1>6. EffectsMatch' /\ ClaimHeld' /\ SeenStale'
  BY <1>1 DEF KeysInv, EffectsMatch, ClaimHeld, Holds, SeenStale
<1>7. \A r \in Requests : req[r].client # None => req[r].client \in Forms \ {f}
  BY <1>1, NoClient
<1>8. RequestsBelong'
  BY <1>1, <1>4, <1>7 DEF KeysInv, RequestsBelong
<1>9. FormsSound'
  BY <1>1, <1>2, <1>3, <1>4 DEF KeysInv, FormsSound
<1> QED
  BY <1>5, <1>6, <1>8, <1>9 DEF KeysInv

LEMMA EditInv ==
  ASSUME KeysInv, NEW f \in Forms, NEW b \in Bodies, editForm(f, b)
  PROVE  KeysInv'
<1>1. /\ form[f].st = "editing" /\ form' = [form EXCEPT ![f].body = b]
      /\ UNCHANGED <<rows, effects, req, failures>>
  BY DEF editForm
<1>2. form \in [Forms -> FormTypes]
  BY DEF KeysInv, Typed
<1>3. /\ form' \in [Forms -> FormTypes]
      /\ form'[f].st = form[f].st /\ form'[f].key = form[f].key /\ form'[f].body = b
      /\ \A g \in Forms \ {f} : form'[g] = form[g]
  BY <1>1, <1>2 DEF FormTypes
<1>4. Typed'
  BY <1>1, <1>3 DEF KeysInv, Typed, RowTypes, RequestTypes, FormTypes
<1>5. EffectsMatch' /\ ClaimHeld' /\ SeenStale'
  BY <1>1 DEF KeysInv, EffectsMatch, ClaimHeld, Holds, SeenStale
<1>6. \A r \in Requests : req[r].client # None => req[r].client \in Forms \ {f}
  BY <1>1, NoClient
<1>7. RequestsBelong'
  BY <1>1, <1>3, <1>6 DEF KeysInv, RequestsBelong
<1>8. FormsSound'
  BY <1>1, <1>3 DEF KeysInv, FormsSound
<1> QED
  BY <1>4, <1>5, <1>7, <1>8 DEF KeysInv

LEMMA SubmitInv ==
  ASSUME KeysInv, NEW f \in Forms, NEW r \in Requests, submit(f, r)
  PROVE  KeysInv'
<1> DEFINE q == [Idle EXCEPT !.at = "claim", !.key = form[f].key,
                             !.body = form[f].body, !.client = f]
<1>1. /\ form[f].st = "editing" /\ req[r].at = "idle"
      /\ req' = [req EXCEPT ![r] = q]
      /\ form' = [form EXCEPT ![f].st = "waiting"]
      /\ UNCHANGED <<rows, effects, failures>>
  BY DEF submit
<1>2. form \in [Forms -> FormTypes] /\ req \in [Requests -> RequestTypes]
  BY DEF KeysInv, Typed
<1>3. form[f].key \in Keys \cup {None} /\ form[f].body \in Bodies \cup {None}
  BY <1>2 DEF FormTypes
<1>4. /\ q \in RequestTypes /\ q.at = "claim" /\ q.key = form[f].key
      /\ q.body = form[f].body /\ q.client = f
  BY <1>3, ConstantsTyped DEF Idle, RequestTypes
<1> HIDE DEF q
<1>5. /\ req' \in [Requests -> RequestTypes] /\ req'[r] = q
      /\ \A p \in Requests \ {r} : req'[p] = req[p]
  BY <1>1, <1>2, <1>4
<1>6. /\ form' \in [Forms -> FormTypes]
      /\ form'[f].st = "waiting" /\ form'[f].key = form[f].key /\ form'[f].body = form[f].body
      /\ \A g \in Forms \ {f} : form'[g] = form[g]
  BY <1>1, <1>2 DEF FormTypes
<1>7. Typed'
  BY <1>1, <1>5, <1>6 DEF KeysInv, Typed, RowTypes, RequestTypes, FormTypes
<1>8. EffectsMatch' /\ ClaimHeld' /\ SeenStale'
  BY <1>1, <1>4, <1>5 DEF KeysInv, EffectsMatch, ClaimHeld, Holds, SeenStale
<1>9. \A p \in Requests : req[p].client # None => req[p].client \in Forms \ {f}
  BY <1>1, NoClient
<1>10. form[f].key \in Keys /\ form[f].body \in Bodies
  BY <1>1, <1>3 DEF KeysInv, FormsSound
<1>11. RequestsBelong'
  BY <1>4, <1>5, <1>6, <1>9, <1>10 DEF KeysInv, RequestsBelong
<1>12. FormsSound'
  BY <1>1, <1>6 DEF KeysInv, FormsSound
<1> QED
  BY <1>7, <1>8, <1>11, <1>12 DEF KeysInv

LEMMA AnswerLostInv ==
  ASSUME KeysAssumption, KeysInv, NEW f \in Forms, answerLost(f)
  PROVE  KeysInv'
<1>1. /\ form[f].st = "waiting" /\ form' = [form EXCEPT ![f].st = "editing"]
      /\ req' = [r \in Requests |-> IF req[r].client = f
                                    THEN [req[r] EXCEPT !.client = None] ELSE req[r]]
      /\ Fails /\ UNCHANGED <<rows, effects>>
  BY DEF answerLost
<1>2. form \in [Forms -> FormTypes] /\ req \in [Requests -> RequestTypes]
  BY DEF KeysInv, Typed
<1>3. \A r \in Requests :
        /\ req'[r] \in RequestTypes
        /\ req'[r].at = req[r].at /\ req'[r].key = req[r].key /\ req'[r].body = req[r].body
        /\ req'[r].seen = req[r].seen
        /\ req'[r].client = IF req[r].client = f THEN None ELSE req[r].client
  BY <1>1, <1>2 DEF RequestTypes
<1>4. req' \in [Requests -> RequestTypes]
  BY <1>1, <1>3
<1>5. /\ form' \in [Forms -> FormTypes]
      /\ form'[f].st = "editing" /\ form'[f].key = form[f].key /\ form'[f].body = form[f].body
      /\ \A g \in Forms \ {f} : form'[g] = form[g]
  BY <1>1, <1>2 DEF FormTypes
<1>6. Typed'
  <2>1. failures' \in 0 .. MaxFailures
    BY <1>1, FailureCounted
  <2> QED
    BY <1>1, <1>4, <1>5, <2>1 DEF KeysInv, Typed, RowTypes, RequestTypes, FormTypes
<1>7. EffectsMatch'
  BY <1>1 DEF KeysInv, EffectsMatch
<1>8. ClaimHeld' /\ SeenStale'
  BY <1>1, <1>3 DEF KeysInv, ClaimHeld, Holds, SeenStale
<1>9. RequestsBelong'
  <2>1. \A r \in Requests : req'[r].client # None =>
          req'[r].client = req[r].client /\ req[r].client \in Forms \ {f}
    BY <1>2, <1>3 DEF RequestTypes
  <2> QED
    BY <1>3, <1>5, <2>1 DEF KeysInv, RequestsBelong
<1>10. FormsSound'
  BY <1>1, <1>5 DEF KeysInv, FormsSound
<1> QED
  BY <1>6, <1>7, <1>8, <1>9, <1>10 DEF KeysInv

LEMMA CloseInv ==
  ASSUME KeysInv, NEW f \in Forms, closeForm(f)
  PROVE  KeysInv'
<1>1. /\ form[f].st \in {"editing", "done"} /\ form' = [form EXCEPT ![f] = Closed]
      /\ UNCHANGED <<rows, effects, req, failures>>
  BY DEF closeForm
<1>2. form \in [Forms -> FormTypes]
  BY DEF KeysInv, Typed
<1>3. /\ form' \in [Forms -> FormTypes] /\ form'[f].st = "closed" /\ form'[f].key = None
      /\ \A g \in Forms \ {f} : form'[g] = form[g]
  BY <1>1, <1>2, ConstantsTyped DEF Closed
<1>4. Typed'
  BY <1>1, <1>3 DEF KeysInv, Typed, RowTypes, RequestTypes, FormTypes
<1>5. EffectsMatch' /\ ClaimHeld' /\ SeenStale'
  BY <1>1 DEF KeysInv, EffectsMatch, ClaimHeld, Holds, SeenStale
<1>6. \A r \in Requests : req[r].client # None => req[r].client \in Forms \ {f}
  BY <1>1, NoClient
<1>7. RequestsBelong'
  BY <1>1, <1>3, <1>6 DEF KeysInv, RequestsBelong
<1>8. FormsSound'
  BY <1>1, <1>3 DEF KeysInv, FormsSound
<1> QED
  BY <1>4, <1>5, <1>7, <1>8 DEF KeysInv

-----------------------------------------------------------------------------
(* Requests. *)

\* A request that goes on keeps its key, body and client.
LEMMA GoesOn ==
  ASSUME KeysInv, NEW r \in Requests, NEW q \in RequestTypes,
         req' = [req EXCEPT ![r] = q], UNCHANGED form,
         q.at # "idle", req[r].at # "idle",
         q.key = req[r].key, q.body = req[r].body, q.client = req[r].client
  PROVE  /\ req' \in [Requests -> RequestTypes] /\ req'[r] = q
         /\ \A p \in Requests \ {r} : req'[p] = req[p]
         /\ RequestsBelong'
<1>1. req \in [Requests -> RequestTypes]
  BY DEF KeysInv, Typed
<1>2. /\ req' \in [Requests -> RequestTypes] /\ req'[r] = q
      /\ \A p \in Requests \ {r} : req'[p] = req[p]
  BY <1>1
<1>3. RequestsBelong'
  BY <1>2 DEF KeysInv, RequestsBelong
<1> QED
  BY <1>2, <1>3

\* A request that answers is over; the form that waits for it, if any, is in st.
LEMMA AnswerIs ==
  ASSUME KeysInv, NEW r \in Requests, NEW st \in {"editing", "done"}, Answer(r, st)
  PROVE  /\ req' \in [Requests -> RequestTypes] /\ req'[r] = Idle
         /\ \A p \in Requests \ {r} : req'[p] = req[p]
         /\ form' \in [Forms -> FormTypes]
         /\ \A f \in Forms : /\ form'[f].key = form[f].key /\ form'[f].body = form[f].body
                             /\ form'[f].st = IF f = req[r].client /\ f # None THEN st
                                              ELSE form[f].st
<1>1. req \in [Requests -> RequestTypes] /\ form \in [Forms -> FormTypes]
  BY DEF KeysInv, Typed
<1>2. /\ req' \in [Requests -> RequestTypes] /\ req'[r] = Idle
      /\ \A p \in Requests \ {r} : req'[p] = req[p]
  BY <1>1, ConstantsTyped DEF Answer
<1>3. CASE req[r].client = None
  BY <1>1, <1>2, <1>3 DEF Answer
<1>4. CASE req[r].client # None
  <2> DEFINE c == req[r].client
  <2>1. c \in Forms
    BY <1>1, <1>4 DEF RequestTypes
  <2>2. form' = [form EXCEPT ![c].st = st]
    BY <1>4 DEF Answer
  <2> HIDE DEF c
  <2>3. /\ form' \in [Forms -> FormTypes]
        /\ \A f \in Forms : /\ form'[f].key = form[f].key /\ form'[f].body = form[f].body
                            /\ form'[f].st = IF f = c THEN st ELSE form[f].st
    BY <1>1, <2>1, <2>2 DEF FormTypes
  <2> QED
    BY <1>2, <1>4, <2>3 DEF c
<1> QED
  BY <1>3, <1>4

LEMMA AnswerBelongs ==
  ASSUME KeysInv, NEW r \in Requests, NEW st \in {"editing", "done"}, Answer(r, st)
  PROVE  RequestsBelong'
<1>1. /\ req'[r] = Idle /\ \A p \in Requests \ {r} : req'[p] = req[p]
      /\ \A f \in Forms : /\ form'[f].key = form[f].key /\ form'[f].body = form[f].body
                          /\ form'[f].st = IF f = req[r].client /\ f # None THEN st
                                           ELSE form[f].st
  BY AnswerIs
<1>2. Idle.at = "idle" /\ Idle.client = None
  BY DEF Idle
<1>3. \A p \in Requests : req[p].client \in Forms \cup {None}
  BY DEF KeysInv, Typed, RequestTypes
<1>4. \A p \in Requests \ {r} : req[p].client # None => req[p].client # req[r].client
  BY DEF KeysInv, RequestsBelong
<1> QED
  BY <1>1, <1>2, <1>3, <1>4 DEF KeysInv, RequestsBelong

\* A form told of success shows what its key was completed with, and the forms
\* told earlier still do.
LEMMA AnswerForms ==
  ASSUME KeysInv, NEW r \in Requests, NEW st \in {"editing", "done"}, Answer(r, st),
         \A f \in Forms : form[f].st = "done" => rows'[form[f].key] = rows[form[f].key],
         st = "done" => /\ rows'[req[r].key].state = "completed"
                        /\ rows'[req[r].key].hash = req[r].body
  PROVE  FormsSound'
<1>1. \A f \in Forms : /\ form'[f].key = form[f].key /\ form'[f].body = form[f].body
                       /\ form'[f].st = IF f = req[r].client /\ f # None THEN st
                                        ELSE form[f].st
  BY AnswerIs
<1>2. \A f \in Forms : f = req[r].client /\ f # None =>
        form[f].st = "waiting" /\ form[f].key = req[r].key /\ form[f].body = req[r].body
  BY DEF KeysInv, RequestsBelong
<1> QED
  BY <1>1, <1>2 DEF KeysInv, FormsSound

\* A request that ends without touching the rows.
LEMMA EndsInv ==
  ASSUME KeysInv, NEW r \in Requests, NEW st \in {"editing", "done"}, Answer(r, st),
         UNCHANGED <<rows, effects>>, failures' \in 0 .. MaxFailures,
         st = "done" => /\ rows[req[r].key].state = "completed"
                        /\ rows[req[r].key].hash = req[r].body
  PROVE  KeysInv'
<1>1. /\ req' \in [Requests -> RequestTypes] /\ req'[r] = Idle
      /\ \A p \in Requests \ {r} : req'[p] = req[p]
      /\ form' \in [Forms -> FormTypes]
  BY AnswerIs
<1>2. Typed'
  BY <1>1 DEF KeysInv, Typed, RowTypes, RequestTypes, FormTypes
<1>3. EffectsMatch'
  BY DEF KeysInv, EffectsMatch
<1>4. ClaimHeld' /\ SeenStale'
  BY <1>1 DEF KeysInv, ClaimHeld, Holds, SeenStale, Idle
<1>5. RequestsBelong' /\ FormsSound'
  BY AnswerBelongs, AnswerForms
<1> QED
  BY <1>2, <1>3, <1>4, <1>5 DEF KeysInv

\* The row a request is about, as the invariant sees it.
LEMMA ItsRow ==
  ASSUME KeysInv, NEW r \in Requests, req[r].at # "idle"
  PROVE  /\ req[r].key \in Keys /\ req[r].body \in Bodies
         /\ rows[req[r].key] \in RowTypes /\ req[r] \in RequestTypes
<1>1. req[r].key \in Keys /\ req[r].body \in Bodies
  BY DEF KeysInv, RequestsBelong
<1> QED
  BY <1>1 DEF KeysInv, Typed

\* It claims its key, which nobody holds and which has no effect yet.
LEMMA ClaimInv ==
  ASSUME KeysAssumption, KeysInv, NEW r \in Requests, req[r].at \in {"claim", "reclaim"},
         Claim(r), req' = [req EXCEPT ![r].at = "run"], UNCHANGED <<effects, form, failures>>,
         rows[req[r].key].state # "completed",
         \A p \in Requests : Holds(p) => req[p].key # req[r].key
  PROVE  KeysInv'
<1> DEFINE k == req[r].key
           b == req[r].body
           q == [req[r] EXCEPT !.at = "run"]
<1>1. k \in Keys /\ b \in Bodies /\ req[r] \in RequestTypes
  BY ItsRow
<1>2. /\ q \in RequestTypes /\ q.at = "run" /\ q.key = k /\ q.body = b
      /\ q.client = req[r].client
  BY <1>1 DEF RequestTypes
<1>3. req' = [req EXCEPT ![r] = q]
  OBVIOUS
<1>4. PICK whole \in BOOLEAN :
        rows' = [rows EXCEPT ![k] = [state |-> "in_progress", hash |-> b, stale |-> FALSE,
                                     created |-> Now, whole |-> whole]]
  BY DEF Claim
<1>5. /\ Now \in Int
      /\ \A p \in Requests : req[p].at = "reclaim" => req[p].seen.created # Now
  BY NowIsNew DEF KeysAssumption
<1> DEFINE row == [state |-> "in_progress", hash |-> b, stale |-> FALSE,
                   created |-> Now, whole |-> whole]
<1>6. /\ row \in RowTypes /\ row.state = "in_progress" /\ row.hash = b /\ ~row.stale
      /\ row.created = Now
  BY <1>1, <1>5 DEF RowTypes, States
<1> HIDE DEF q, row
<1>7. /\ req' \in [Requests -> RequestTypes] /\ req'[r] = q
      /\ \A p \in Requests \ {r} : req'[p] = req[p]
      /\ RequestsBelong'
  BY <1>2, <1>3, GoesOn
<1> HIDE DEF k, b
<1>8. /\ rows' \in [Keys -> RowTypes] /\ rows'[k] = row
      /\ \A l \in Keys \ {k} : rows'[l] = rows[l]
  BY <1>1, <1>4, <1>6 DEF KeysInv, Typed, row
<1>9. Typed'
  BY <1>7, <1>8 DEF KeysInv, Typed, RowTypes, RequestTypes, FormTypes
<1>10. EffectsMatch'
  BY <1>1, <1>6, <1>8 DEF KeysInv, EffectsMatch, k
<1>11. \A p \in Requests \ {r} : Holds(p) => req[p].key \in Keys \ {k}
  BY DEF KeysInv, RequestsBelong, Holds, k
<1>12. ClaimHeld'
  <2>1. /\ req'[r].key = k /\ req'[r].body = b /\ rows'[k].state = "in_progress"
        /\ ~rows'[k].stale /\ rows'[k].hash = b
    BY <1>2, <1>6, <1>7, <1>8
  <2>2. ASSUME NEW p \in Requests \ {r}, Holds(p)'
        PROVE  /\ Holds(p) /\ req'[p] = req[p] /\ req[p].key \in Keys \ {k}
               /\ rows'[req[p].key] = rows[req[p].key]
    BY <1>7, <1>8, <1>11, <2>2 DEF Holds
  <2>3. \A p \in Requests : Holds(p)' =>
          LET row2 == rows'[req'[p].key] IN
          row2.state = "in_progress" /\ ~row2.stale /\ row2.hash = req'[p].body
    BY <2>1, <2>2 DEF KeysInv, ClaimHeld
  <2>4. \A p, o \in Requests : Holds(p)' /\ Holds(o)' /\ req'[p].key = req'[o].key => p = o
    BY <2>1, <2>2 DEF KeysInv, ClaimHeld
  <2> QED
    BY <2>3, <2>4 DEF ClaimHeld
<1>13. \A p \in Requests : req[p].at = "reclaim" => req[p].key \in Keys
  BY DEF KeysInv, RequestsBelong
<1>14. SeenStale'
  BY <1>2, <1>5, <1>6, <1>7, <1>8, <1>13 DEF KeysInv, SeenStale
<1>15. \A f \in Forms : form[f].st = "done" => form[f].key \in Keys \ {k}
  <2>1. \A f \in Forms : form[f].key \in Keys \cup {None}
    BY DEF KeysInv, Typed, FormTypes
  <2> QED
    BY <2>1 DEF KeysInv, FormsSound, k
<1>16. FormsSound'
  BY <1>8, <1>15 DEF KeysInv, FormsSound
<1> QED
  BY <1>7, <1>9, <1>10, <1>12, <1>14, <1>16 DEF KeysInv

LEMMA ClaimInsertInv ==
  ASSUME KeysAssumption, KeysInv, NEW r \in Requests, claimInsert(r)
  PROVE  KeysInv'
<1>1. CASE rows[req[r].key].state = "absent"
  <2>1. /\ req[r].at = "claim" /\ Claim(r) /\ req' = [req EXCEPT ![r].at = "run"]
        /\ UNCHANGED <<effects, form, failures>>
    BY <1>1 DEF claimInsert
  <2>2. \A p \in Requests : Holds(p) => req[p].key # req[r].key
    BY <1>1 DEF KeysInv, ClaimHeld
  <2> QED
    BY <1>1, <2>1, <2>2, ClaimInv
<1>2. CASE rows[req[r].key].state # "absent"
  <2> DEFINE q == [req[r] EXCEPT !.at = "read"]
  <2>1. /\ req[r].at = "claim" /\ req' = [req EXCEPT ![r] = q]
        /\ UNCHANGED <<rows, effects, form, failures>>
    BY <1>2 DEF claimInsert
  <2>2. req[r] \in RequestTypes
    BY <2>1, ItsRow
  <2>3. /\ q \in RequestTypes /\ q.at = "read" /\ q.key = req[r].key /\ q.body = req[r].body
        /\ q.client = req[r].client
    BY <2>2 DEF RequestTypes
  <2> HIDE DEF q
  <2>4. /\ req' \in [Requests -> RequestTypes] /\ req'[r] = q
        /\ \A p \in Requests \ {r} : req'[p] = req[p]
        /\ RequestsBelong'
    BY <2>1, <2>3, GoesOn
  <2>5. Typed'
    BY <2>1, <2>4 DEF KeysInv, Typed, RowTypes, RequestTypes, FormTypes
  <2>6. EffectsMatch' /\ ClaimHeld' /\ SeenStale' /\ FormsSound'
    BY <2>1, <2>3, <2>4 DEF KeysInv, EffectsMatch, ClaimHeld, Holds, SeenStale, FormsSound
  <2> QED
    BY <2>4, <2>5, <2>6 DEF KeysInv
<1> QED
  BY <1>1, <1>2

LEMMA ClaimReadInv ==
  ASSUME KeysInv, NEW r \in Requests, claimRead(r)
  PROVE  KeysInv'
<1> DEFINE row == rows[req[r].key]
<1>1. req[r].at = "read" /\ UNCHANGED <<rows, effects, failures>>
  BY DEF claimRead
<1>2. failures' \in 0 .. MaxFailures
  BY <1>1 DEF KeysInv, Typed
<1>3. CASE Answer(r, "editing")
  BY <1>1, <1>2, <1>3, EndsInv
<1>4. CASE row.state = "completed" /\ row.hash = req[r].body /\ Answer(r, "done")
  BY <1>1, <1>2, <1>4, EndsInv
<1>5. CASE /\ row.state = "in_progress" /\ row.stale
           /\ req' = [req EXCEPT ![r].at = "reclaim", ![r].seen = row]
           /\ UNCHANGED form
  <2>1. req[r] \in RequestTypes /\ row \in RowTypes
    BY <1>1, ItsRow
  <2> DEFINE q == [req[r] EXCEPT !.at = "reclaim", !.seen = row]
  <2>2. row.state = "in_progress" /\ row.stale /\ req' = [req EXCEPT ![r] = q] /\ UNCHANGED form
    BY <1>5
  <2> DEFINE w == row
  <2> HIDE DEF row
  <2>3. /\ q \in RequestTypes /\ q.at = "reclaim" /\ q.key = req[r].key /\ q.body = req[r].body
        /\ q.client = req[r].client
    BY <2>1 DEF RequestTypes
  <2> HIDE DEF q
  <2>4. /\ req' \in [Requests -> RequestTypes] /\ req'[r] = q
        /\ \A p \in Requests \ {r} : req'[p] = req[p]
        /\ RequestsBelong'
    BY <1>1, <2>2, <2>3, GoesOn
  <2>5. Typed'
    BY <1>1, <2>2, <2>4 DEF KeysInv, Typed, RowTypes, RequestTypes, FormTypes
  <2>6. EffectsMatch' /\ ClaimHeld' /\ FormsSound'
    BY <1>1, <2>2, <2>3, <2>4 DEF KeysInv, EffectsMatch, ClaimHeld, Holds, FormsSound
  <2>7. SeenStale'
    BY <1>1, <2>2, <2>3, <2>4 DEF KeysInv, SeenStale, row
  <2> QED
    BY <2>4, <2>5, <2>6, <2>7 DEF KeysInv
<1> QED
  BY <1>3, <1>4, <1>5 DEF claimRead

LEMMA ReclaimInv ==
  ASSUME KeysAssumption, KeysInv, NEW r \in Requests, reclaim(r)
  PROVE  KeysInv'
<1>1. /\ req[r].at = "reclaim" /\ Claim(r) /\ req' = [req EXCEPT ![r].at = "run"]
      /\ UNCHANGED <<effects, form, failures>>
      /\ rows[req[r].key].state = "in_progress"
      /\ rows[req[r].key].created = req[r].seen.created
  BY DEF reclaim, Reclaimable
<1>2. rows[req[r].key].stale
  BY <1>1 DEF KeysInv, SeenStale
<1>3. \A p \in Requests : Holds(p) => req[p].key # req[r].key
  BY <1>2 DEF KeysInv, ClaimHeld
<1> QED
  BY <1>1, <1>3, ClaimInv

LEMMA RunFailsInv ==
  ASSUME KeysAssumption, KeysInv, NEW r \in Requests, runFails(r)
  PROVE  KeysInv'
<1> DEFINE q == [req[r] EXCEPT !.at = "cleanup"]
<1>1. /\ req[r].at = "run" /\ req' = [req EXCEPT ![r] = q] /\ Fails
      /\ UNCHANGED <<rows, effects, form>>
  BY DEF runFails
<1>2. req[r] \in RequestTypes
  BY <1>1, ItsRow
<1>3. /\ q \in RequestTypes /\ q.at = "cleanup" /\ q.key = req[r].key /\ q.body = req[r].body
      /\ q.client = req[r].client
  BY <1>2 DEF RequestTypes
<1> HIDE DEF q
<1>4. /\ req' \in [Requests -> RequestTypes] /\ req'[r] = q
      /\ \A p \in Requests \ {r} : req'[p] = req[p]
      /\ RequestsBelong'
  BY <1>1, <1>3, GoesOn
<1>5. Typed'
  BY <1>1, <1>4, FailureCounted DEF KeysInv, Typed, RowTypes, RequestTypes, FormTypes
<1>6. EffectsMatch' /\ SeenStale' /\ FormsSound'
  BY <1>1, <1>3, <1>4 DEF KeysInv, EffectsMatch, SeenStale, FormsSound
<1>7. ClaimHeld'
  <2>1. \A p \in Requests : /\ Holds(p)' <=> Holds(p)
                            /\ req'[p].key = req[p].key /\ req'[p].body = req[p].body
    BY <1>1, <1>3, <1>4 DEF Holds
  <2> QED
    BY <1>1, <2>1 DEF KeysInv, ClaimHeld
<1> QED
  BY <1>4, <1>5, <1>6, <1>7 DEF KeysInv

\* The holder's work and the completion of its key.
LEMMA RunCommitsInv ==
  ASSUME KeysInv, NEW r \in Requests, runCommits(r)
  PROVE  KeysInv'
<1> DEFINE k == req[r].key
           b == req[r].body
<1>1. /\ req[r].at = "run" /\ Answer(r, "done") /\ UNCHANGED failures
      /\ effects' = [effects EXCEPT ![k] = Append(@, b)]
      /\ rows' = [rows EXCEPT ![k].state = IF @ = "absent" THEN "absent" ELSE "completed"]
  BY DEF runCommits
<1>2. /\ k \in Keys /\ b \in Bodies /\ rows[k].state = "in_progress" /\ rows[k].hash = b
      /\ effects[k] = <<>>
  BY <1>1, ItsRow DEF KeysInv, ClaimHeld, Holds, EffectsMatch
<1>3. /\ req' \in [Requests -> RequestTypes] /\ req'[r] = Idle
      /\ \A p \in Requests \ {r} : req'[p] = req[p]
      /\ form' \in [Forms -> FormTypes]
  BY <1>1, AnswerIs
<1>4. \A p \in Requests \ {r} : Holds(p) => req[p].key \in Keys \ {k}
  BY <1>1 DEF KeysInv, RequestsBelong, ClaimHeld, Holds
<1>5. \A f \in Forms : form[f].st = "done" => form[f].key \in Keys \ {k}
  <2>1. \A f \in Forms : form[f].key \in Keys \cup {None}
    BY DEF KeysInv, Typed, FormTypes
  <2> QED
    BY <1>2, <2>1 DEF KeysInv, FormsSound
<1> HIDE DEF k, b
<1>6. rows \in [Keys -> RowTypes] /\ effects \in [Keys -> Seq(Bodies)]
  BY DEF KeysInv, Typed
<1>7. /\ rows' \in [Keys -> RowTypes] /\ rows'[k].state = "completed" /\ rows'[k].hash = b
      /\ \A l \in Keys \ {k} : rows'[l] = rows[l]
  BY <1>1, <1>2, <1>6 DEF RowTypes, States
<1>8. /\ effects' \in [Keys -> Seq(Bodies)] /\ effects'[k] = <<b>>
      /\ \A l \in Keys \ {k} : effects'[l] = effects[l]
  BY <1>1, <1>2, <1>6
<1>9. Typed'
  BY <1>1, <1>3, <1>7, <1>8 DEF KeysInv, Typed, RowTypes, RequestTypes, FormTypes
<1>10. EffectsMatch'
  BY <1>7, <1>8 DEF KeysInv, EffectsMatch
<1>11. ClaimHeld'
  BY <1>3, <1>4, <1>7 DEF KeysInv, ClaimHeld, Holds, Idle
<1>12. \A p \in Requests : req[p].at = "reclaim" => req[p].key \in Keys
  BY DEF KeysInv, RequestsBelong
<1>13. SeenStale'
  BY <1>3, <1>7, <1>12 DEF KeysInv, SeenStale, Idle
<1>14. RequestsBelong'
  BY <1>1, AnswerBelongs
<1>15. FormsSound'
  BY <1>1, <1>5, <1>7, AnswerForms DEF k, b
<1> QED
  BY <1>9, <1>10, <1>11, <1>13, <1>14, <1>15 DEF KeysInv

\* A row that is removed held no completed key that a form shows, and nobody's claim
\* but that of a request that ends with this step.
LEMMA RemovedInv ==
  ASSUME KeysInv, NEW k \in Keys, rows' = [rows EXCEPT ![k] = Absent],
         effects' = [effects EXCEPT ![k] = <<>>],
         \A f \in Forms : form[f].st = "done" => form[f].key # k,
         req' \in [Requests -> RequestTypes],
         \A p \in Requests : req'[p] \in {req[p], Idle},
         \A p \in Requests : Holds(p)' => req[p].key # k
  PROVE  /\ rows' \in [Keys -> RowTypes] /\ effects' \in [Keys -> Seq(Bodies)]
         /\ EffectsMatch' /\ ClaimHeld' /\ SeenStale'
         /\ \A f \in Forms : form[f].st = "done" => rows'[form[f].key] = rows[form[f].key]
<1>1. rows \in [Keys -> RowTypes] /\ effects \in [Keys -> Seq(Bodies)]
  BY DEF KeysInv, Typed
<1>2. /\ rows' \in [Keys -> RowTypes] /\ rows'[k] = Absent
      /\ \A l \in Keys \ {k} : rows'[l] = rows[l]
  BY <1>1, ConstantsTyped
<1>3. /\ effects' \in [Keys -> Seq(Bodies)] /\ effects'[k] = <<>>
      /\ \A l \in Keys \ {k} : effects'[l] = effects[l]
  BY <1>1
<1>4. Absent.state = "absent"
  BY DEF Absent
<1>5. EffectsMatch'
  BY <1>2, <1>3, <1>4 DEF KeysInv, EffectsMatch
<1>6. \A p \in Requests : Holds(p)' => /\ Holds(p) /\ req'[p] = req[p]
                                       /\ req[p].key \in Keys \ {k}
  <2>1. \A p \in Requests : Holds(p)' => Holds(p) /\ req'[p] = req[p]
    BY DEF Holds, Idle
  <2> QED
    BY <2>1 DEF KeysInv, RequestsBelong, Holds
<1>7. ClaimHeld'
  BY <1>2, <1>6 DEF KeysInv, ClaimHeld
<1>8. \A p \in Requests : req'[p].at = "reclaim" => req'[p] = req[p] /\ req[p].key \in Keys
  BY DEF KeysInv, RequestsBelong, Idle
<1>9. SeenStale'
  BY <1>2, <1>4, <1>8 DEF KeysInv, SeenStale
<1>10. \A f \in Forms : form[f].st = "done" => form[f].key \in Keys \ {k}
  <2>1. \A f \in Forms : form[f].key \in Keys \cup {None}
    BY DEF KeysInv, Typed, FormTypes
  <2> QED
    BY <2>1 DEF KeysInv, FormsSound
<1> QED
  BY <1>2, <1>3, <1>5, <1>7, <1>9, <1>10

LEMMA RemoveClaimInv ==
  ASSUME KeysInv, NEW r \in Requests, removeClaim(r)
  PROVE  KeysInv'
<1> DEFINE k == req[r].key
<1>1. /\ req[r].at = "cleanup" /\ Answer(r, "editing") /\ UNCHANGED <<effects, failures>>
      /\ rows' = [rows EXCEPT ![k] = IF @.state = "in_progress" THEN Absent ELSE @]
  BY DEF removeClaim
<1>2. k \in Keys /\ rows[k].state = "in_progress" /\ effects[k] = <<>>
  BY <1>1, ItsRow DEF KeysInv, ClaimHeld, Holds, EffectsMatch
<1>3. \A f \in Forms : form[f].st = "done" => form[f].key # k
  BY <1>2 DEF KeysInv, FormsSound
<1>4. /\ req' \in [Requests -> RequestTypes] /\ req'[r] = Idle
      /\ \A p \in Requests \ {r} : req'[p] = req[p]
      /\ form' \in [Forms -> FormTypes]
  BY <1>1, AnswerIs
<1>5. \A p \in Requests : Holds(p)' => req[p].key # k
  BY <1>1, <1>4 DEF KeysInv, ClaimHeld, Holds, Idle
<1> HIDE DEF k
<1>6. rows \in [Keys -> RowTypes] /\ effects \in [Keys -> Seq(Bodies)]
  BY DEF KeysInv, Typed
<1>7. rows' = [rows EXCEPT ![k] = Absent] /\ effects' = [effects EXCEPT ![k] = <<>>]
  BY <1>1, <1>2, <1>6
<1>8. \A p \in Requests : req'[p] \in {req[p], Idle}
  BY <1>4
<1>9. /\ rows' \in [Keys -> RowTypes] /\ effects' \in [Keys -> Seq(Bodies)]
      /\ EffectsMatch' /\ ClaimHeld' /\ SeenStale'
      /\ \A f \in Forms : form[f].st = "done" => rows'[form[f].key] = rows[form[f].key]
  BY <1>2, <1>3, <1>4, <1>5, <1>7, <1>8, RemovedInv
<1>10. Typed'
  BY <1>1, <1>4, <1>9 DEF KeysInv, Typed, RowTypes, RequestTypes, FormTypes
<1>11. RequestsBelong' /\ FormsSound'
  BY <1>1, <1>9, AnswerBelongs, AnswerForms
<1> QED
  BY <1>9, <1>10, <1>11 DEF KeysInv

-----------------------------------------------------------------------------
(* Time. *)

LEMMA StaleInv ==
  ASSUME SlowRequests = FALSE, KeysInv, NEW k \in Keys, claimGoesStale(k)
  PROVE  KeysInv'
<1>1. /\ rows' = [rows EXCEPT ![k].stale = TRUE]
      /\ UNCHANGED <<effects, req, form, failures>>
  BY DEF claimGoesStale
<1>2. \A r \in Requests : Holds(r) => req[r].key \in Keys \ {k}
  <2>1. \A r \in Requests : Holds(r) => req[r].key # k
    BY DEF claimGoesStale, Running, Holds
  <2> QED
    BY <2>1 DEF KeysInv, RequestsBelong, Holds
<1>3. rows \in [Keys -> RowTypes]
  BY DEF KeysInv, Typed
<1>4. /\ rows' \in [Keys -> RowTypes] /\ rows'[k].stale
      /\ rows'[k].state = rows[k].state /\ rows'[k].hash = rows[k].hash
      /\ rows'[k].created = rows[k].created
      /\ \A l \in Keys \ {k} : rows'[l] = rows[l]
  BY <1>1, <1>3 DEF RowTypes
<1>5. Typed'
  BY <1>1, <1>4 DEF KeysInv, Typed, RowTypes, RequestTypes, FormTypes
<1>6. EffectsMatch'
  BY <1>1, <1>4 DEF KeysInv, EffectsMatch
<1>7. ClaimHeld'
  BY <1>1, <1>2, <1>4 DEF KeysInv, ClaimHeld, Holds
<1>8. \A r \in Requests : req[r].at = "reclaim" => req[r].key \in Keys
  BY DEF KeysInv, RequestsBelong
<1>9. SeenStale'
  BY <1>1, <1>4, <1>8 DEF KeysInv, SeenStale
<1>10. RequestsBelong'
  BY <1>1 DEF KeysInv, RequestsBelong
<1>11. \A f \in Forms : form[f].st = "done" => form[f].key \in Keys
  <2>1. \A f \in Forms : form[f].key \in Keys \cup {None}
    BY DEF KeysInv, Typed, FormTypes
  <2> QED
    BY <2>1 DEF KeysInv, FormsSound
<1>12. FormsSound'
  BY <1>1, <1>4, <1>11 DEF KeysInv, FormsSound
<1> QED
  BY <1>5, <1>6, <1>7, <1>9, <1>10, <1>12 DEF KeysInv

LEMMA CleanupInv ==
  ASSUME KeysInv, NEW k \in Keys, cleanupExpiredIdempotencyKeys(k)
  PROVE  KeysInv'
<1>1. /\ rows' = [rows EXCEPT ![k] = Absent] /\ effects' = [effects EXCEPT ![k] = <<>>]
      /\ UNCHANGED <<req, form, failures>>
      /\ rows[k].state = "completed" => \A f \in Forms : form[f].key # k
      /\ Running(k) = {}
  BY DEF cleanupExpiredIdempotencyKeys
<1>2. \A f \in Forms : form[f].st = "done" => form[f].key # k
  BY <1>1 DEF KeysInv, FormsSound
<1>3. \A p \in Requests : Holds(p)' => req[p].key # k
  BY <1>1 DEF Running, Holds
<1>4. req' \in [Requests -> RequestTypes] /\ \A p \in Requests : req'[p] \in {req[p], Idle}
  BY <1>1 DEF KeysInv, Typed
<1>5. /\ rows' \in [Keys -> RowTypes] /\ effects' \in [Keys -> Seq(Bodies)]
      /\ EffectsMatch' /\ ClaimHeld' /\ SeenStale'
      /\ \A f \in Forms : form[f].st = "done" => rows'[form[f].key] = rows[form[f].key]
  BY <1>1, <1>2, <1>3, <1>4, RemovedInv
<1>6. Typed'
  BY <1>1, <1>4, <1>5 DEF KeysInv, Typed, RowTypes, RequestTypes, FormTypes
<1>7. RequestsBelong' /\ FormsSound'
  BY <1>1, <1>5 DEF KeysInv, RequestsBelong, FormsSound
<1> QED
  BY <1>5, <1>6, <1>7 DEF KeysInv

-----------------------------------------------------------------------------
LEMMA NextInv ==
  ASSUME KeysAssumption, SlowRequests = FALSE, KeysInv, [Next]_vars
  PROVE  KeysInv'
<1>1. ASSUME NEW f \in Forms, FormStep(f) \/ \E r \in Requests : submit(f, r)
      PROVE  KeysInv'
  BY <1>1, OpenInv, EditInv, AnswerLostInv, CloseInv, SubmitInv DEF FormStep
<1>2. ASSUME NEW r \in Requests, RequestStep(r) \/ runFails(r) \/ processDies(r)
      PROVE  KeysInv'
  <2>1. CASE reclaimRefused(r)
    <3>1. Answer(r, "editing") /\ UNCHANGED <<rows, effects, failures>>
      BY <2>1 DEF reclaimRefused
    <3> QED
      BY <3>1, EndsInv DEF KeysInv, Typed
  <2>2. CASE processDies(r)
    <3>1. Answer(r, "editing") /\ Fails /\ UNCHANGED <<rows, effects>>
      BY <2>2 DEF processDies
    <3> QED
      BY <3>1, FailureCounted, EndsInv
  <2> QED
    BY <1>2, <2>1, <2>2, ClaimInsertInv, ClaimReadInv, ReclaimInv, RunCommitsInv,
       RunFailsInv, RemoveClaimInv DEF RequestStep
<1>3. ASSUME NEW k \in Keys, claimGoesStale(k) \/ cleanupExpiredIdempotencyKeys(k)
      PROVE  KeysInv'
  BY <1>3, StaleInv, CleanupInv
<1>4. CASE UNCHANGED vars
  BY <1>4 DEF vars, KeysInv, Typed, RowTypes, RequestTypes, FormTypes, EffectsMatch,
              ClaimHeld, Holds, SeenStale, RequestsBelong, FormsSound
<1> QED
  BY <1>1, <1>2, <1>3, <1>4 DEF Next

THEOREM KeysSound ==
  ASSUME KeysAssumption, SlowRequests = FALSE PROVE Spec => []KeysInv
  BY InitInv, NextInv, PTL DEF Spec

(***************************************************************************)
(* Rows, effects, requests, forms and the failure count keep their types.  *)
(***************************************************************************)
THEOREM KeyTypes ==
  ASSUME KeysAssumption, SlowRequests = FALSE PROVE Spec => []TypeOK
<1>1. KeysInv => TypeOK
  <2> SUFFICES ASSUME KeysInv PROVE TypeOK
    OBVIOUS
  <2>1. Typed /\ FormsSound
    BY DEF KeysInv
  <2>2. \A k \in Keys : /\ rows[k].state \in {"absent", "in_progress", "completed"}
                        /\ rows[k].hash \in Bodies \cup {None}
                        /\ effects[k] \in Seq(Bodies)
    BY <2>1 DEF Typed, RowTypes, States
  <2>3. \A r \in Requests :
          /\ req[r].at \in {"idle", "claim", "read", "reclaim", "run", "cleanup"}
          /\ req[r].client \in Forms \cup {None}
    BY <2>1 DEF Typed, RequestTypes
  <2>4. \A f \in Forms : /\ form[f].st \in {"closed", "editing", "waiting", "done"}
                         /\ form[f].key \in Keys \cup {None}
                         /\ form[f].st = "closed" <=> form[f].key = None
    BY <2>1 DEF Typed, FormTypes, FormsSound
  <2> QED
    BY <2>1, <2>2, <2>3, <2>4 DEF Typed, TypeOK
<1> QED
  BY <1>1, KeysSound, PTL

(***************************************************************************)
(* One key, one effect, and a success that is reported is true, whatever   *)
(* answers are lost, whichever processes die and however often a form is   *)
(* changed and sent again.                                                 *)
(***************************************************************************)
THEOREM KeyedOnceHolds ==
  ASSUME KeysAssumption, SlowRequests = FALSE PROVE Spec => []KeyedOnce
<1>1. KeysInv => KeyedOnce
  <2> SUFFICES ASSUME KeysInv PROVE KeyedOnce
    OBVIOUS
  <2>1. \A k \in Keys : effects[k] = <<>> \/ effects[k] = <<rows[k].hash>>
    BY DEF KeysInv, EffectsMatch
  <2>2. OneEffectPerKey
    <3>1. Len(<<>>) = 0 /\ \A b : Len(<<b>>) = 1
      OBVIOUS
    <3>2. \A k \in Keys : Len(effects[k]) \in {0, 1}
      BY <2>1, <3>1
    <3>3. \A n \in {0, 1} : n <= 1
      OBVIOUS
    <3> QED
      BY <3>2, <3>3 DEF OneEffectPerKey
  <2>3. \A f \in Forms : form[f].st = "done" => form[f].key \in Keys
    BY DEF KeysInv, Typed, FormTypes, FormsSound
  <2>4. SuccessIsTrue
    BY <2>3 DEF KeysInv, EffectsMatch, FormsSound, SuccessIsTrue
  <2> QED
    BY <2>2, <2>4 DEF KeyedOnce
<1> QED
  BY <1>1, KeysSound, PTL

-----------------------------------------------------------------------------
(* The order of the rows *)

Rows == EventId \cup Template \cup Invoice \cup Customer \cup {settings}

Lock == [row : Rows, mode : {"Update", "NoKeyUpdate", "KeyShare"}]

\* Event, template, invoice, number series, customer.
Rank(row) == IF row \in EventId THEN 1
             ELSE IF row \in Template THEN 2
             ELSE IF row \in Invoice THEN 3
             ELSE IF row = settings THEN 4 ELSE 5

\* A statement that locks one row, one that reads on the pool, or one that locks invoices.
Single(s) == \E l \in Lock : s = {l}

\* Statements that lock single rows, each of a higher rank than those before.
Ordered(p) ==
  /\ p \in Seq(SUBSET (Lock \cup {poolRead}))
  /\ \A k \in 1 .. Len(p) : p[k] = {poolRead} \/ Single(p[k])
  /\ \A j, k \in 1 .. Len(p) : \A l \in p[j], m \in p[k] :
       j < k /\ l \in Lock /\ m \in Lock => Rank(l.row) < Rank(m.row)

\* The bulk statement of the nightly run, or what is left of it.
Bulk(p) ==
  /\ p \in Seq(SUBSET (Lock \cup {poolRead}))
  /\ \A k \in 1 .. Len(p) : \A l \in p[k] : l \in Lock /\ Rank(l.row) = 3

\* What is before r, and what it holds, in the order of its operation.
OrderOf(r) ==
  /\ task[r] \in Task[r]
  /\ held[r] \subseteq Lock
  /\ task[r].op # "overdue" =>
       /\ Ordered(todo[r])
       /\ \A h \in held[r] : \A k \in 1 .. Len(todo[r]) : \A l \in todo[r][k] :
            l \in Lock => Rank(h.row) < Rank(l.row)
  /\ task[r].op = "overdue" =>
       Bulk(todo[r]) /\ \A h \in held[r] : Rank(h.row) = 3

OrderInv ==
  /\ DOMAIN task = Request /\ DOMAIN todo = Request
  /\ DOMAIN held = Request /\ DOMAIN phase = Request
  /\ \A r \in Request : OrderOf(r)
  /\ \A r \in Request : phase[r] \in {"idle", "queued", "ended"} => held[r] = {}

-----------------------------------------------------------------------------
(* Ranks and programs *)

LEMMA Ranks ==
  ASSUME LocksAssumption
  PROVE  /\ \A e \in EventId : Rank(e) = 1
         /\ \A t \in Template : Rank(t) = 2
         /\ \A i \in Invoice : Rank(i) = 3
         /\ Rank(settings) = 4
         /\ \A c \in Customer : Rank(c) = 5
         /\ \A x : Rank(x) \in 1 .. 5
         /\ poolRead \notin Lock
<1>1. "pool" \notin Rows
  BY DEF LocksAssumption, Rows, settings
<1>2. poolRead \notin Lock
  BY <1>1 DEF Lock, poolRead
<1> QED
  BY <1>2 DEF LocksAssumption, Rank, settings

LEMMA LocksOfRows ==
  ASSUME NEW x \in Rows
  PROVE  /\ Update(x) \in Lock /\ NoKeyUpdate(x) \in Lock /\ KeyShare(x) \in Lock
         /\ Update(x).row = x /\ NoKeyUpdate(x).row = x /\ KeyShare(x).row = x
BY DEF Update, NoKeyUpdate, KeyShare, Lock

LEMMA OneStatement ==
  ASSUME NEW a \in Lock
  PROVE  Ordered(<<{a}>>)
BY DEF Ordered, Single

LEMMA TwoStatements ==
  ASSUME NEW a \in Lock, NEW b \in Lock, Rank(a.row) < Rank(b.row)
  PROVE  Ordered(<<{a}, {b}>>)
BY DEF Ordered, Single

LEMMA ThreeStatements ==
  ASSUME NEW a \in Lock, NEW b \in Lock, NEW c \in Lock, LocksAssumption,
         Rank(a.row) < Rank(b.row), Rank(b.row) < Rank(c.row)
  PROVE  Ordered(<<{a}, {b}, {c}>>)
<1> Rank(a.row) \in Int /\ Rank(b.row) \in Int /\ Rank(c.row) \in Int
  BY Ranks
<1> QED
  BY DEF Ordered, Single

LEMMA PoolFirst ==
  ASSUME NEW c \in Lock, LocksAssumption
  PROVE  Ordered(<<{poolRead}, {c}>>)
BY Ranks DEF Ordered, Single

LEMMA PoolSecond ==
  ASSUME NEW a \in Lock, NEW b \in Lock, NEW c \in Lock, LocksAssumption,
         Rank(a.row) < Rank(b.row), Rank(b.row) < Rank(c.row)
  PROVE  Ordered(<<{a}, {poolRead}, {b}, {c}>>)
<1> Rank(a.row) \in Int /\ Rank(b.row) \in Int /\ Rank(c.row) \in Int /\ poolRead \notin Lock
  BY Ranks
<1> QED
  BY DEF Ordered, Single

LEMMA JoinOneOne ==
  ASSUME NEW a, NEW b
  PROVE  <<a>> \o <<b>> = <<a, b>>
<1> DEFINE S == {a, b}
<1>1. /\ <<a>> \in Seq(S) /\ <<b>> \in Seq(S) /\ <<a, b>> \in Seq(S)
  OBVIOUS
<1>2. /\ <<a>> \o <<b>> \in Seq(S) /\ Len(<<a>> \o <<b>>) = Len(<<a, b>>)
      /\ \A k \in 1 .. Len(<<a, b>>) : (<<a>> \o <<b>>)[k] = <<a, b>>[k]
  BY <1>1, ConcatProperties
<1> QED
  BY <1>1, <1>2, SeqEqual

LEMMA JoinOneTwo ==
  ASSUME NEW a, NEW b, NEW c
  PROVE  <<a>> \o <<b, c>> = <<a, b, c>>
<1> DEFINE S == {a, b, c}
<1>1. /\ <<a>> \in Seq(S) /\ <<b, c>> \in Seq(S) /\ <<a, b, c>> \in Seq(S)
  OBVIOUS
<1>2. /\ <<a>> \o <<b, c>> \in Seq(S) /\ Len(<<a>> \o <<b, c>>) = Len(<<a, b, c>>)
      /\ \A k \in 1 .. Len(<<a, b, c>>) : (<<a>> \o <<b, c>>)[k] = <<a, b, c>>[k]
  BY <1>1, ConcatProperties
<1> QED
  BY <1>1, <1>2, SeqEqual

LEMMA JoinTwoOne ==
  ASSUME NEW a, NEW b, NEW c
  PROVE  <<a, b>> \o <<c>> = <<a, b, c>>
<1> DEFINE S == {a, b, c}
<1>1. /\ <<a, b>> \in Seq(S) /\ <<c>> \in Seq(S) /\ <<a, b, c>> \in Seq(S)
  OBVIOUS
<1>2. /\ <<a, b>> \o <<c>> \in Seq(S) /\ Len(<<a, b>> \o <<c>>) = Len(<<a, b, c>>)
      /\ \A k \in 1 .. Len(<<a, b, c>>) : (<<a, b>> \o <<c>>)[k] = <<a, b, c>>[k]
  BY <1>1, ConcatProperties
<1> QED
  BY <1>1, <1>2, SeqEqual

LEMMA JoinTwoTwo ==
  ASSUME NEW a, NEW b, NEW c, NEW d
  PROVE  <<a, b>> \o <<c, d>> = <<a, b, c, d>>
<1> DEFINE S == {a, b, c, d}
<1>1. /\ <<a, b>> \in Seq(S) /\ <<c, d>> \in Seq(S) /\ <<a, b, c, d>> \in Seq(S)
  OBVIOUS
<1>2. /\ <<a, b>> \o <<c, d>> \in Seq(S) /\ Len(<<a, b>> \o <<c, d>>) = Len(<<a, b, c, d>>)
      /\ \A k \in 1 .. Len(<<a, b, c, d>>) : (<<a, b>> \o <<c, d>>)[k] = <<a, b, c, d>>[k]
  BY <1>1, ConcatProperties
<1> QED
  BY <1>1, <1>2, SeqEqual

LEMMA JoinNone ==
  ASSUME NEW a, NEW b
  PROVE  <<a>> \o <<>> = <<a>> /\ <<a, b>> \o <<>> = <<a, b>>
<1>1. <<a>> \in Seq({a, b}) /\ <<a, b>> \in Seq({a, b})
  OBVIOUS
<1> QED
  BY <1>1, ConcatEmptySeq

\* Every operation of the ledger but the removals locks in the order of the ranks.
LEMMA ProgramsOrdered ==
  ASSUME LocksAssumption, NEW t, LedgerTask(t), NEW p \in programs(t)
  PROVE  /\ t.op # "overdue" => Ordered(p)
         /\ t.op = "overdue" => Bulk(p)
<1> DEFINE Own == Invoice \cup Template
<1>1. \A d \in Own : Owner[d] \in Customer
  BY DEF LocksAssumption
<1>2. /\ \A x \in EventId \cup Template \cup Invoice \cup Customer : x \in Rows
      /\ settings \in Rows
  BY DEF Rows
<1>3. CASE t.op \in {"create", "createTemplate", "updateCustomer"} /\ t.on \in Customer
  <2>1. \/ p = <<{poolRead}, {KeyShare(t.on)}>>
        \/ p = <<{KeyShare(t.on)}>>
        \/ p = <<{NoKeyUpdate(t.on)}>>
    BY <1>3 DEF programs, createInTx, createTemplateInTx, updateCustomer
  <2> QED
    BY <1>2, <1>3, <2>1, LocksOfRows, OneStatement, PoolFirst
<1>4. CASE t.op \in {"generate", "updateTemplate"} /\ t.on \in Template
  <2>1. CASE t.op = "updateTemplate"
    <3>1. p = <<{NoKeyUpdate(t.on)}>>
      BY <1>4, <2>1 DEF programs, updateTemplate
    <3> QED
      BY <1>2, <1>4, <2>1, <3>1, LocksOfRows, OneStatement
  <2>2. CASE t.op = "generate"
    <3> DEFINE a == Update(t.on)  b == Update(settings)  c == KeyShare(Owner[t.on])
    <3>1. PICK own \in BOOLEAN : p = generateFromTemplateInTx(t.on, own)
      BY <1>4, <2>2 DEF programs
    <3>2. p = <<{a}, {b}, {c}>> \/ p = <<{a}, {poolRead}, {b}, {c}>>
      <4>1. CASE own
        <5>1. p = <<{a}>> \o <<>> \o <<{b}, {c}>>
          BY <3>1, <4>1 DEF generateFromTemplateInTx
        <5>2. <<{a}>> \o <<>> = <<{a}>> /\ <<{a}>> \o <<{b}, {c}>> = <<{a}, {b}, {c}>>
          BY JoinNone, JoinOneTwo, Zenon
        <5> QED
          BY <5>1, <5>2
      <4>2. CASE ~own
        <5>1. p = <<{a}>> \o <<{poolRead}>> \o <<{b}, {c}>>
          BY <3>1, <4>2 DEF generateFromTemplateInTx
        <5>2. <<{a}>> \o <<{poolRead}>> = <<{a}, {poolRead}>>
          BY JoinOneOne, Zenon
        <5>3. <<{a}, {poolRead}>> \o <<{b}, {c}>> = <<{a}, {poolRead}, {b}, {c}>>
          BY JoinTwoTwo, Zenon
        <5> QED
          BY <5>1, <5>2, <5>3
      <4> QED
        BY <4>1, <4>2
    <3>3. /\ a \in Lock /\ b \in Lock /\ c \in Lock
          /\ Rank(a.row) = 2 /\ Rank(b.row) = 4 /\ Rank(c.row) = 5
      BY <1>1, <1>2, <1>4, LocksOfRows, Ranks
    <3> QED
      BY <2>2, <3>2, <3>3, ThreeStatements, PoolSecond
  <2> QED
    BY <1>4, <2>1, <2>2
<1>5. CASE /\ t.op \in {"edit", "send", "credit", "remind", "payment", "delivery"}
           /\ t.on \in Invoice
  <2> DEFINE a == Update(t.on)  b == Update(settings)  c == KeyShare(Owner[t.on])
             n == NoKeyUpdate(t.on)  o == NoKeyUpdate(Owner[t.on])
  <2>1. /\ a \in Lock /\ b \in Lock /\ c \in Lock /\ n \in Lock /\ o \in Lock
        /\ Rank(a.row) = 3 /\ Rank(b.row) = 4 /\ Rank(c.row) = 5
        /\ Rank(n.row) = 3 /\ Rank(o.row) = 5
    BY <1>1, <1>2, <1>5, LocksOfRows, Ranks
  <2>2. CASE t.op \in {"edit", "send", "credit", "remind"}
    <3>1. p = <<{a}>> \/ p = <<{a}, {b}>> \/ p = <<{a}, {b}, {c}>>
      BY <2>2 DEF programs, editDraft, sendInTx, creditInTx, createReminderInTx
    <3> QED
      BY <2>1, <2>2, <3>1, OneStatement, TwoStatements, ThreeStatements
  <2>3. CASE t.op = "payment"
    <3>1. PICK e \in EventId : p = <<{Update(e)}, {a}>>
      BY <2>3 DEF programs, applyPayment
    <3>2. Update(e) \in Lock /\ Rank(Update(e).row) = 1
      BY <1>2, LocksOfRows, Ranks
    <3> QED
      BY <2>1, <2>3, <3>1, <3>2, TwoStatements
  <2>4. CASE t.op = "delivery"
    <3>1. PICK e \in EventId, hard \in BOOLEAN : p = applyDelivery(e, t.on, hard)
      BY <2>4 DEF programs
    <3>2. p = <<{Update(e)}, {n}>> \/ p = <<{Update(e)}, {n}, {o}>>
      <4>1. /\ <<{Update(e)}, {n}>> \o <<{o}>> = <<{Update(e)}, {n}, {o}>>
            /\ <<{Update(e)}, {n}>> \o <<>> = <<{Update(e)}, {n}>>
        BY JoinNone, JoinTwoOne, Zenon
      <4> QED
        BY <3>1, <4>1 DEF applyDelivery
    <3>3. Update(e) \in Lock /\ Rank(Update(e).row) = 1
      BY <1>2, LocksOfRows, Ranks
    <3> QED
      BY <2>1, <2>4, <3>2, <3>3, TwoStatements, ThreeStatements
  <2> QED
    BY <1>5, <2>2, <2>3, <2>4
<1>6. CASE t.op = "overdue" /\ t.on \subseteq Invoice
  <2> DEFINE s == {NoKeyUpdate(i) : i \in t.on}
  <2>1. p = <<s>>
    BY <1>6 DEF programs, markOverdueBulk
  <2>2. \A l \in s : l \in Lock /\ Rank(l.row) = 3
    BY <1>2, <1>6, LocksOfRows, Ranks
  <2> QED
    BY <1>6, <2>1, <2>2 DEF Bulk
<1>7. CASE t.op \in {"settings", "publish"}
  <2>1. p = <<{NoKeyUpdate(settings)}>> \/ p = <<>>
    BY <1>7 DEF programs, updateSettings, publishTick
  <2>2. Ordered(<<>>)
    BY DEF Ordered
  <2> QED
    BY <1>2, <1>7, <2>1, <2>2, LocksOfRows, OneStatement
<1> QED
  BY <1>3, <1>4, <1>5, <1>6, <1>7 DEF LedgerTask

-----------------------------------------------------------------------------
(* The order is kept *)

LEMMA TailOrdered ==
  ASSUME NEW p, Ordered(p), p # <<>>
  PROVE  /\ Ordered(Tail(p))
         /\ \A k \in 1 .. Len(Tail(p)) : Tail(p)[k] = p[k + 1] /\ k + 1 \in 1 .. Len(p)
<1> DEFINE S == SUBSET (Lock \cup {poolRead})
<1>1. /\ p \in Seq(S) /\ Tail(p) \in Seq(S) /\ Len(Tail(p)) = Len(p) - 1 /\ Len(p) \in Nat
      /\ \A k \in 1 .. Len(Tail(p)) : Tail(p)[k] = p[k + 1]
  BY HeadTailProperties DEF Ordered
<1>2. \A k \in 1 .. Len(Tail(p)) : Tail(p)[k] = p[k + 1] /\ k + 1 \in 1 .. Len(p)
  BY <1>1
<1>3. \A k \in 1 .. Len(Tail(p)) : Tail(p)[k] = {poolRead} \/ Single(Tail(p)[k])
  BY <1>2 DEF Ordered
<1>4. ASSUME NEW j \in 1 .. Len(Tail(p)), NEW k \in 1 .. Len(Tail(p)),
             NEW l \in Tail(p)[j], NEW m \in Tail(p)[k], j < k, l \in Lock, m \in Lock
      PROVE  Rank(l.row) < Rank(m.row)
  BY <1>2, <1>4 DEF Ordered
<1> QED
  BY <1>1, <1>2, <1>3, <1>4 DEF Ordered

LEMMA TailBulk ==
  ASSUME NEW p, Bulk(p), p # <<>>
  PROVE  Bulk(Tail(p))
<1> DEFINE S == SUBSET (Lock \cup {poolRead})
<1>1. /\ p \in Seq(S) /\ Tail(p) \in Seq(S) /\ Len(Tail(p)) = Len(p) - 1 /\ Len(p) \in Nat
      /\ \A k \in 1 .. Len(Tail(p)) : Tail(p)[k] = p[k + 1]
  BY HeadTailProperties DEF Bulk
<1> QED
  BY <1>1 DEF Bulk

LEMMA RestBulk ==
  ASSUME NEW p, Bulk(p), p # <<>>, NEW l
  PROVE  Bulk(<<Head(p) \ {l}>> \o Tail(p))
<1> DEFINE S == SUBSET (Lock \cup {poolRead})
           rest == <<Head(p) \ {l}>> \o Tail(p)
<1>1. /\ p \in Seq(S) /\ Head(p) = p[1] /\ 1 \in 1 .. Len(p)
  BY DEF Bulk
<1>2. Head(p) \in S /\ Bulk(Tail(p)) /\ Tail(p) \in Seq(S)
  BY <1>1, TailBulk, HeadTailProperties DEF Bulk
<1>3. Head(p) \ {l} \in S
  BY <1>2
<1>4. <<Head(p) \ {l}>> \in Seq(S) /\ Len(<<Head(p) \ {l}>>) = 1
      /\ <<Head(p) \ {l}>>[1] = Head(p) \ {l}
  BY <1>3
<1>5. /\ rest \in Seq(S) /\ Len(rest) = 1 + Len(Tail(p))
      /\ \A k \in 1 .. 1 + Len(Tail(p)) :
           rest[k] = IF k <= 1 THEN <<Head(p) \ {l}>>[k] ELSE Tail(p)[k - 1]
  BY <1>2, <1>4, ConcatProperties
<1>6. ASSUME NEW k \in 1 .. Len(rest), NEW m \in rest[k]
      PROVE  m \in Lock /\ Rank(m.row) = 3
  <2>1. CASE k = 1
    <3>1. m \in p[1]
      BY <1>1, <1>4, <1>5, <1>6, <2>1
    <3> QED
      BY <1>1, <3>1 DEF Bulk
  <2>2. CASE k # 1
    <3>1. k - 1 \in 1 .. Len(Tail(p)) /\ m \in Tail(p)[k - 1]
      BY <1>2, <1>5, <1>6, <2>2
    <3> QED
      BY <1>2, <3>1 DEF Bulk
  <2> QED
    BY <2>1, <2>2
<1> QED
  BY <1>5, <1>6 DEF Bulk

\* What a request of its own leaves alone.
LEMMA OrderKept ==
  ASSUME OrderInv, NEW r \in Request,
         UNCHANGED task,
         DOMAIN todo' = Request, DOMAIN held' = Request, DOMAIN phase' = Request,
         \A q \in Request \ {r} : /\ todo'[q] = todo[q] /\ held'[q] = held[q]
                                   /\ phase'[q] = phase[q],
         OrderOf(r)', phase'[r] \in {"idle", "queued", "ended"} => held'[r] = {}
  PROVE  OrderInv'
BY DEF OrderInv, OrderOf

LEMMA OrderInitial ==
  ASSUME LocksAssumption, LedgerTasks
  PROVE  LocksInit => OrderInv
<1> SUFFICES ASSUME LocksInit
             PROVE  OrderInv
  OBVIOUS
<1>1. Ordered(<<>>) /\ Bulk(<<>>)
  BY DEF Ordered, Bulk
<1>2. \A r \in Request : task[r] \in Task[r]
  BY DEF LocksInit, LocksAssumption
<1> QED
  BY <1>1, <1>2 DEF LocksInit, OrderInv, OrderOf

LEMMA ArriveOrder ==
  ASSUME LocksAssumption, LedgerTasks, OrderInv, NEW r \in Request, arrive(r)
  PROVE  OrderInv'
<1>1. PICK t \in Task[r] : \E p \in programs(t) :
        task' = [task EXCEPT ![r] = t] /\ todo' = [todo EXCEPT ![r] = p]
  BY DEF arrive
<1>0. PICK p \in programs(t) :
        task' = [task EXCEPT ![r] = t] /\ todo' = [todo EXCEPT ![r] = p]
  BY <1>1
<1>2. (t.op # "overdue" => Ordered(p)) /\ (t.op = "overdue" => Bulk(p))
  BY ProgramsOrdered DEF LedgerTasks
<1>3. /\ task'[r] = t /\ todo'[r] = p /\ held' = held /\ held[r] = {}
      /\ phase' = [phase EXCEPT ![r] = "queued"]
      /\ \A q \in Request \ {r} : task'[q] = task[q] /\ todo'[q] = todo[q] /\ phase'[q] = phase[q]
      /\ DOMAIN task' = Request /\ DOMAIN todo' = Request /\ DOMAIN held' = Request
      /\ DOMAIN phase' = Request
  BY <1>0 DEF arrive, OrderInv
<1>4. OrderOf(r)'
  BY <1>2, <1>3 DEF OrderOf
<1>5. \A q \in Request \ {r} : OrderOf(q)'
  BY <1>3 DEF OrderInv, OrderOf
<1>6. \A q \in Request : phase'[q] \in {"idle", "queued", "ended"} => held'[q] = {}
  BY <1>3 DEF OrderInv
<1> QED
  BY <1>3, <1>4, <1>5, <1>6 DEF OrderInv

LEMMA EndOrder ==
  ASSUME OrderInv, NEW r \in Request, NEW how, endTransaction(r, how)
  PROVE  OrderInv'
<1>1. /\ task' = task /\ todo'[r] = <<>> /\ held'[r] = {} /\ phase'[r] = "ended"
      /\ \A q \in Request \ {r} : /\ todo'[q] = todo[q] /\ held'[q] = held[q]
                                   /\ phase'[q] = phase[q]
      /\ DOMAIN todo' = Request /\ DOMAIN held' = Request /\ DOMAIN phase' = Request
  BY DEF endTransaction, OrderInv
<1>2. Ordered(<<>>) /\ Bulk(<<>>)
  BY DEF Ordered, Bulk
<1>3. OrderOf(r)'
  BY <1>1, <1>2 DEF OrderInv, OrderOf
<1> QED
  BY <1>1, <1>3, OrderKept

LEMMA ExecuteOrder ==
  ASSUME LocksAssumption, OrderInv, NEW r \in Request, execute(r)
  PROVE  OrderInv'
<1> DEFINE p == todo[r]
<1>1. /\ p # <<>> /\ task' = task /\ phase' = phase /\ phase[r] = "open" /\ OrderOf(r)
      /\ poolRead \notin Lock
  BY Ranks DEF execute, OrderInv
<1>2. CASE Head(p) = {}
  <2>1. todo' = [todo EXCEPT ![r] = Tail(p)] /\ held' = held
    BY <1>2 DEF execute
  <2>2. /\ todo'[r] = Tail(p) /\ DOMAIN todo' = Request
        /\ \A q \in Request \ {r} : todo'[q] = todo[q]
    BY <2>1 DEF OrderInv
  <2>3. task[r].op # "overdue" => Head(p) # {}
    BY <1>1 DEF OrderOf, Ordered, Single
  <2>4. OrderOf(r)'
    BY <1>1, <1>2, <2>1, <2>2, <2>3, TailBulk DEF OrderOf
  <2> QED
    BY <1>1, <2>1, <2>2, <2>4, OrderKept DEF OrderInv
<1>3. CASE Head(p) # {}
  <2>1. PICK l \in Head(p) :
          /\ IF l = poolRead THEN UNCHANGED held ELSE held' = [held EXCEPT ![r] = @ \cup {l}]
          /\ todo' = [todo EXCEPT ![r] = IF Head(@) = {l} THEN Tail(@)
                                         ELSE <<Head(@) \ {l}>> \o Tail(@)]
    BY <1>3 DEF execute
  <2>2. /\ todo'[r] = IF Head(p) = {l} THEN Tail(p) ELSE <<Head(p) \ {l}>> \o Tail(p)
        /\ \A q \in Request \ {r} : todo'[q] = todo[q] /\ held'[q] = held[q]
        /\ held'[r] = IF l = poolRead THEN held[r] ELSE held[r] \cup {l}
        /\ DOMAIN todo' = Request /\ DOMAIN held' = Request
    BY <2>1 DEF OrderInv
  <2>3. CASE task[r].op = "overdue"
    <3>1. l \in Lock /\ Rank(l.row) = 3 /\ Bulk(p)
      BY <1>1, <2>3 DEF OrderOf, Bulk
    <3>2. Bulk(todo'[r])
      <4>1. Bulk(Tail(p))
        BY <1>1, <3>1, TailBulk
      <4>2. Bulk(<<Head(p) \ {l}>> \o Tail(p))
        BY <1>1, <3>1, RestBulk
      <4> QED
        BY <2>2, <4>1, <4>2
    <3>3. OrderOf(r)'
      BY <1>1, <2>2, <2>3, <3>1, <3>2 DEF OrderOf
    <3> QED
      BY <1>1, <2>2, <3>3, OrderKept DEF OrderInv
  <2>4. CASE task[r].op # "overdue"
    <3>1. Ordered(p) /\ Head(p) = p[1] /\ 1 \in 1 .. Len(p)
      BY <1>1, <2>4 DEF OrderOf, Ordered
    <3>2. Head(p) = {l} /\ (l = poolRead \/ l \in Lock)
      BY <2>1, <3>1 DEF Ordered, Single
    <3>3. Ordered(Tail(p)) /\ todo'[r] = Tail(p)
      BY <1>1, <2>2, <3>1, <3>2, TailOrdered
    <3>4. ASSUME NEW h \in held'[r], NEW k \in 1 .. Len(Tail(p)), NEW m \in Tail(p)[k],
                 m \in Lock
          PROVE  Rank(h.row) < Rank(m.row)
      <4>1. m \in p[k + 1] /\ k + 1 \in 1 .. Len(p) /\ 1 < k + 1
        BY <1>1, <3>1, <3>4, TailOrdered
      <4>2. CASE h \in held[r]
        BY <1>1, <2>4, <3>4, <4>1, <4>2 DEF OrderOf
      <4>3. CASE h = l /\ l \in Lock
        BY <3>1, <3>2, <3>4, <4>1, <4>3 DEF Ordered
      <4> QED
        BY <2>2, <3>2, <4>2, <4>3
    <3>5. held'[r] \subseteq Lock
      BY <1>1, <2>2, <3>2 DEF OrderOf
    <3>6. OrderOf(r)'
      BY <1>1, <2>4, <3>3, <3>4, <3>5 DEF OrderOf
    <3> QED
      BY <1>1, <2>2, <3>6, OrderKept DEF OrderInv
  <2> QED
    BY <2>3, <2>4
<1> QED
  BY <1>2, <1>3

LEMMA OrderStep ==
  ASSUME LocksAssumption, LedgerTasks
  PROVE  OrderInv /\ [LocksNext]_lockVars => OrderInv'
<1> SUFFICES ASSUME OrderInv, [LocksNext]_lockVars
             PROVE  OrderInv'
  OBVIOUS
<1>1. CASE UNCHANGED lockVars
  BY <1>1 DEF lockVars, OrderInv, OrderOf
<1>2. ASSUME NEW r \in Request, arrive(r) \/ advance(r) \/ refuse(r)
      PROVE  OrderInv'
  <2>1. CASE begin(r)
    <3>1. /\ UNCHANGED <<task, todo, held>> /\ phase'[r] = "open" /\ DOMAIN phase' = Request
          /\ \A q \in Request \ {r} : phase'[q] = phase[q]
      BY <2>1 DEF begin, OrderInv
    <3> QED
      BY <3>1 DEF OrderInv, OrderOf
  <2>2. CASE finish(r) \/ abortVictim(r) \/ refuse(r)
    <3>1. \E how : endTransaction(r, how)
      BY <2>2 DEF finish, abortVictim, refuse
    <3> QED
      BY <3>1, EndOrder
  <2> QED
    BY <1>2, <2>1, <2>2, ArriveOrder, ExecuteOrder DEF advance
<1> QED
  BY <1>1, <1>2 DEF LocksNext

-----------------------------------------------------------------------------
(* No cycle of waits *)

\* How far along a chain of waits the wait for l is: the nightly run waits for
\* others that hold a document, and nobody else who holds one waits for another.
Depth(r, l) == 2 * Rank(l.row) + (IF task[r].op = "overdue" THEN 1 ELSE 0)

LEMMA WaitsAreOrdered ==
  ASSUME LocksAssumption, OrderInv, NEW r \in Request, waitsFor(r) # {},
         NEW l \in Head(todo[r])
  PROVE  /\ l \in Lock
         /\ task[r].op # "overdue" =>
              Head(todo[r]) = {l} /\ \A h \in held[r] : Rank(h.row) < Rank(l.row)
         /\ task[r].op = "overdue" =>
              Rank(l.row) = 3 /\ \A h \in held[r] : Rank(h.row) = 3
<1>1. todo[r] # <<>> /\ poolRead \notin Head(todo[r]) /\ OrderOf(r)
  BY DEF waitsFor, OrderInv
<1>2. CASE task[r].op = "overdue"
  <2>1. Head(todo[r]) = todo[r][1] /\ 1 \in 1 .. Len(todo[r])
    BY <1>1, <1>2 DEF OrderOf, Bulk
  <2> QED
    BY <1>1, <1>2, <2>1 DEF OrderOf, Bulk
<1>3. CASE task[r].op # "overdue"
  <2>1. Head(todo[r]) = todo[r][1] /\ 1 \in 1 .. Len(todo[r]) /\ Ordered(todo[r])
    BY <1>1, <1>3 DEF OrderOf, Ordered
  <2>2. Head(todo[r]) = {l} /\ l \in Lock
    BY <1>1, <2>1 DEF Ordered, Single
  <2> QED
    BY <1>1, <1>3, <2>1, <2>2 DEF OrderOf
<1> QED
  BY <1>2, <1>3

\* Who waits for somebody waits for one who waits deeper.
LEMMA WaitsDeepen ==
  ASSUME LocksAssumption, LedgerTasks, OrderInv, NEW r \in Request, NEW l \in Head(todo[r]),
         NEW q \in waitsFor(r), waitsFor(q) # {}, NEW m \in Head(todo[q])
  PROVE  q \in Request /\ Depth(r, l) < Depth(q, m)
<1>1. PICK k \in Head(todo[r]) : q \in blockers(r, k)
  BY DEF waitsFor
<1>2. PICK h \in held[q] : h.row = k.row
  BY <1>1 DEF blockers
<1>3. q \in Request /\ q # r
  BY <1>1 DEF blockers
<1>4. /\ Rank(k.row) \in 1 .. 5 /\ Rank(l.row) \in 1 .. 5 /\ Rank(m.row) \in 1 .. 5
      /\ Rank(h.row) = Rank(k.row)
  BY <1>2, Ranks
<1>5. Rank(k.row) = Rank(l.row)
  <2>1. waitsFor(r) # {}
    OBVIOUS
  <2>2. CASE task[r].op = "overdue"
    BY <2>1, <2>2, WaitsAreOrdered
  <2>3. CASE task[r].op # "overdue"
    <3>1. Head(todo[r]) = {l}
      BY <2>1, <2>3, WaitsAreOrdered
    <3> QED
      BY <3>1
  <2> QED
    BY <2>2, <2>3
<1>6. CASE task[q].op # "overdue"
  <2>1. Rank(h.row) < Rank(m.row)
    BY <1>2, <1>3, <1>6, WaitsAreOrdered
  <2> QED
    BY <1>3, <1>4, <1>5, <1>6, <2>1 DEF Depth
<1>7. CASE task[q].op = "overdue"
  <2>1. Rank(h.row) = 3 /\ Rank(m.row) = 3
    BY <1>2, <1>3, <1>7, WaitsAreOrdered
  <2>2. task[r].op # "overdue"
    <3>1. task[q] \in Task[q] /\ task[r] \in Task[r]
      BY <1>3 DEF OrderInv, OrderOf
    <3> QED
      BY <1>3, <1>7, <3>1 DEF LedgerTasks, MarksOverdue
  <2> QED
    BY <1>3, <1>4, <1>5, <1>7, <2>1, <2>2 DEF Depth
<1> QED
  BY <1>6, <1>7

LEMMA NoCycle ==
  ASSUME LocksAssumption, LedgerTasks, OrderInv
  PROVE  NoWaitCycle
<1> SUFFICES ASSUME NEW r \in Request, NEW S \in SUBSET Request, r \in S,
                    \A q \in S : waitsFor(q) \cap S # {}
             PROVE  FALSE
  BY DEF NoWaitCycle, inCycle
<1> DEFINE Reached(n) == \E q \in S : \E l \in Head(todo[q]) : n <= Depth(q, l)
<1>1. \A q \in S : Head(todo[q]) # {}
  BY DEF waitsFor
<1>2. \A q, l : Depth(q, l) \in 2 .. 11
  BY Ranks DEF Depth
<1>3. ASSUME NEW n \in 0 .. 11, Reached(n)
      PROVE  Reached(n + 1)
  <2>1. PICK q \in S : \E l \in Head(todo[q]) : n <= Depth(q, l)
    BY <1>3
  <2>2. PICK l \in Head(todo[q]) : n <= Depth(q, l)
    BY <2>1
  <2>3. PICK p \in waitsFor(q) : p \in S
    OBVIOUS
  <2>4. PICK m \in Head(todo[p]) : TRUE
    BY <1>1, <2>3
  <2>5. waitsFor(p) # {}
    BY <2>3
  <2>6. Depth(q, l) < Depth(p, m)
    BY <2>5, WaitsDeepen
  <2>7. n + 1 <= Depth(p, m)
    BY <1>2, <2>2, <2>6
  <2> QED
    BY <2>3, <2>7
<1>4. Reached(0)
  BY <1>1, <1>2
<1> HIDE DEF Reached
<1>5. Reached(1) /\ Reached(2) /\ Reached(3) /\ Reached(4)
  BY <1>3, <1>4
<1>6. Reached(5) /\ Reached(6) /\ Reached(7) /\ Reached(8)
  BY <1>3, <1>5
<1>7. Reached(9) /\ Reached(10) /\ Reached(11) /\ Reached(12)
  BY <1>3, <1>6
<1> QED
  BY <1>2, <1>7 DEF Reached

(***************************************************************************)
(* The order of the locks of the ledger's operations (event, template,     *)
(* document, number series, customer) admits no cycle of waits, however    *)
(* many requests, consumers and templates there are: Postgres never has to *)
(* abort one of them.  The hypothesis leaves out the removal of a template *)
(* and of a customer, which lock against the order, and a second nightly   *)
(* run beside the first (invoices/services.ts, invoice-templates/          *)
(* services.ts, payments/services.ts).                                     *)
(***************************************************************************)
THEOREM NoWaitCycleHolds ==
  ASSUME LocksAssumption, LedgerTasks
  PROVE  LocksSpec => []NoWaitCycle
<1>1. LocksInit => OrderInv
  BY OrderInitial
<1>2. OrderInv /\ [LocksNext]_lockVars => OrderInv'
  BY OrderStep
<1>3. OrderInv => NoWaitCycle
  BY NoCycle
<1> QED
  BY <1>1, <1>2, <1>3, PTL DEF LocksSpec

-----------------------------------------------------------------------------
(* Connections *)

Open == {r \in Request : phase[r] = "open"}

PoolInv ==
  /\ LocksTypeOK
  /\ DOMAIN task = Request /\ DOMAIN todo = Request /\ DOMAIN held = Request

LEMMA FreeIsNat ==
  ASSUME LocksAssumption, NEW S \in SUBSET Request
  PROVE  IsFiniteSet(S) /\ Cardinality(S) \in Nat /\ PoolMax \in Nat
BY FS_Subset, FS_CardinalityType DEF LocksAssumption

LEMMA PoolStep ==
  ASSUME LocksAssumption
  PROVE  PoolInv /\ [LocksNext]_lockVars => PoolInv'
<1> SUFFICES ASSUME PoolInv, [LocksNext]_lockVars
             PROVE  PoolInv'
  OBVIOUS
<1>0. /\ IsFiniteSet(Open) /\ Cardinality(Open) \in Nat /\ PoolMax \in Nat
      /\ freeConnections = PoolMax - Cardinality(Open) /\ freeConnections >= 0
      /\ freeConnections' = PoolMax - Cardinality(Open')
  BY FreeIsNat DEF freeConnections, Open, PoolInv, LocksTypeOK
<1>1. CASE UNCHANGED lockVars
  BY <1>1 DEF lockVars, PoolInv, LocksTypeOK, freeConnections
<1>2. ASSUME Open' \subseteq Open
      PROVE  freeConnections' >= 0
  <2>1. Cardinality(Open') <= Cardinality(Open) /\ Cardinality(Open') \in Nat
    BY <1>0, <1>2, FS_Subset, FS_CardinalityType
  <2> QED
    BY <1>0, <2>1
<1>3. ASSUME NEW r \in Request, arrive(r)
      PROVE  PoolInv'
  <2>1. PICK t \in Task[r] : task' = [task EXCEPT ![r] = t]
    BY <1>3 DEF arrive
  <2>2. /\ phase' = [phase EXCEPT ![r] = "queued"] /\ result' = [result EXCEPT ![r] = "none"]
        /\ held' = held /\ DOMAIN todo' = Request /\ phase[r] # "open"
    BY <1>3 DEF arrive, PoolInv
  <2>3. Open' \subseteq Open
    BY <2>2 DEF Open, PoolInv, LocksTypeOK
  <2> QED
    BY <1>2, <2>1, <2>2, <2>3 DEF PoolInv, LocksTypeOK
<1>4. ASSUME NEW r \in Request, begin(r)
      PROVE  PoolInv'
  <2>1. phase' = [phase EXCEPT ![r] = "open"] /\ UNCHANGED <<task, todo, held, result>>
        /\ phase[r] = "queued" /\ freeConnections > 0
    BY <1>4 DEF begin
  <2>2. Open' = Open \cup {r} /\ r \notin Open
    BY <2>1 DEF Open, PoolInv, LocksTypeOK
  <2>3. Cardinality(Open') = Cardinality(Open) + 1
    BY <1>0, <2>2, FS_AddElement
  <2>4. freeConnections' >= 0
    BY <1>0, <2>1, <2>3
  <2> QED
    BY <2>1, <2>4 DEF PoolInv, LocksTypeOK
<1>5. ASSUME NEW r \in Request, execute(r)
      PROVE  PoolInv'
  <2>1. /\ UNCHANGED <<task, phase, result>> /\ DOMAIN todo' = Request /\ DOMAIN held' = Request
        /\ \A q \in Request \ {r} : held'[q] = held[q]
        /\ phase[r] = "open"
    BY <1>5 DEF execute, PoolInv
  <2>2. freeConnections' = freeConnections
    BY <2>1 DEF freeConnections
  <2> QED
    BY <2>1, <2>2 DEF PoolInv, LocksTypeOK
<1>6. ASSUME NEW r \in Request, finish(r) \/ abortVictim(r) \/ refuse(r)
      PROVE  PoolInv'
  <2>1. PICK how \in {"ok", "conflict", "deadlock", "refused"} : endTransaction(r, how)
    BY <1>6 DEF finish, abortVictim, refuse
  <2>2. /\ task' = task /\ phase' = [phase EXCEPT ![r] = "ended"]
        /\ held' = [held EXCEPT ![r] = {}] /\ DOMAIN todo' = Request
        /\ result' = [result EXCEPT ![r] = how]
    BY <2>1 DEF endTransaction, PoolInv
  <2>3. Open' \subseteq Open
    BY <2>2 DEF Open, PoolInv, LocksTypeOK
  <2> QED
    BY <1>2, <2>2, <2>3 DEF PoolInv, LocksTypeOK
<1> QED
  BY <1>1, <1>3, <1>4, <1>5, <1>6 DEF LocksNext, advance

(***************************************************************************)
(* Type correctness: no more transactions are open than the pool has       *)
(* connections, and only an open one holds locks.                          *)
(***************************************************************************)
THEOREM LockTypes ==
  ASSUME LocksAssumption
  PROVE  LocksSpec => []LocksTypeOK
<1>1. LocksInit => PoolInv
  <2> SUFFICES ASSUME LocksInit
               PROVE  PoolInv
    OBVIOUS
  <2>1. Open = {}
    BY DEF LocksInit, Open
  <2>2. freeConnections >= 0
    <3>1. freeConnections = PoolMax - Cardinality(Open)
      BY DEF freeConnections, Open
    <3>2. Cardinality(Open) = 0 /\ PoolMax \in Nat
      BY <2>1, FS_EmptySet DEF LocksAssumption
    <3> QED
      BY <3>1, <3>2
  <2>3. \A r \in Request : task[r] \in Task[r]
    BY DEF LocksInit, LocksAssumption
  <2> QED
    BY <2>2, <2>3 DEF LocksInit, PoolInv, LocksTypeOK
<1>2. PoolInv /\ [LocksNext]_lockVars => PoolInv'
  BY PoolStep
<1>3. PoolInv => LocksTypeOK
  BY DEF PoolInv
<1> QED
  BY <1>1, <1>2, <1>3, PTL DEF LocksSpec
=============================================================================
