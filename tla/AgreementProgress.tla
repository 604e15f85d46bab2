-------------------------- MODULE AgreementProgress --------------------------
(***************************************************************************)
(* What AgreementProgressService shows each party of an agreement: five    *)
(* steps with a status each, computed from the rows of AgreementLifecycle  *)
(* and from what the readers of other services answer.  It writes nothing. *)
(*                                                                         *)
(* The view decides on its own who is to act next; the services decide     *)
(* again when the party acts.                                              *)
(***************************************************************************)
EXTENDS AgreementLifecycle

\* computePaymentReadiness: no relationship, a reader that failed, or what has
\* been set up so far.
Readiness ==
  {[known |-> FALSE, linked |-> linked, funding |-> FALSE, mandate |-> FALSE, payout |-> FALSE] :
     linked \in BOOLEAN}
  \cup [known : {TRUE}, linked : {TRUE}, funding : BOOLEAN, mandate : BOOLEAN, payout : BOOLEAN]

IsReady(ready) == ready.known /\ ready.funding /\ ready.mandate /\ ready.payout

\* The first installment with something left to pay, and the last attempts at it.
NextUnpaid == [due : {"scheduled", "past_due"}, attempt : {"none", "open", "failed"}]
              \cup {[due |-> "paid", attempt |-> "none"]}

PRE_ACCEPTANCE_STATUSES == InNegotiation

------------------------------------------------------------------------------
\* The steps, for a party to an agreement that has not been canceled.

acceptanceStep(role) ==
  CASE agreement.status \notin PRE_ACCEPTANCE_STATUSES -> "complete"
    [] agreement.status = "draft"                      -> "action_required"
    [] agreement.status = "awaiting_debtor_acknowledgment" ->
         IF role = "debtor" THEN "action_required" ELSE "waiting"
    [] agreement.status = "awaiting_creditor_acceptance" ->
         IF role = "creditor" THEN "action_required" ELSE "waiting"

paymentMethodStep(role, ready) ==
  LET debtorReady == ready.funding /\ ready.mandate
      mine == IF role = "debtor" THEN debtorReady ELSE ready.payout
  IN CASE ~ready.known /\ ~ready.linked ->
            IF agreement.status \in PRE_ACCEPTANCE_STATUSES THEN "not_started" ELSE "action_required"
       [] ~ready.known /\ ready.linked   -> "blocked"
       [] IsReady(ready)                 -> "complete"
       [] ready.known /\ ~IsReady(ready) -> IF mine THEN "waiting" ELSE "action_required"

\* Mutant: the originator need not wait for the other party.
AnyoneSigns(role) ==
  CASE agreement.status \in PRE_ACCEPTANCE_STATUSES -> "not_started"
    [] agreement.status \notin PRE_ACCEPTANCE_STATUSES \cup {"awaiting_signatures"} -> "complete"
    [] agreement.status = "awaiting_signatures" ->
         IF role \in Current.signed THEN "waiting"
         ELSE IF Current.past THEN "blocked" ELSE "action_required"

\* The party that drew the agreement up signs last.
signaturesStep(role) ==
  CASE agreement.status \in PRE_ACCEPTANCE_STATUSES -> "not_started"
    [] agreement.status \notin PRE_ACCEPTANCE_STATUSES \cup {"awaiting_signatures"} -> "complete"
    [] agreement.status = "awaiting_signatures" ->
         IF role \in Current.signed THEN "waiting"
         ELSE IF Current.past THEN "blocked"
         ELSE IF role = Originator /\ Other(role) \notin Current.signed THEN "waiting"
         ELSE "action_required"

activeStep(role, ready, unpaid) ==
  CASE agreement.status \in {"paid_in_full", "settled_in_full"} -> "complete"
    [] agreement.status = "paused_by_amendment" -> "blocked"
    [] agreement.status \in PRE_ACCEPTANCE_STATUSES \cup {"awaiting_signatures"} -> "not_started"
    [] agreement.status \in InForce ->
         IF ~IsReady(ready) THEN "waiting"
         ELSE IF unpaid.due = "paid" THEN "complete"
         ELSE IF /\ role = "debtor" /\ unpaid.attempt # "open"
                 /\ unpaid.attempt = "failed" \/ unpaid.due = "past_due"
           THEN "action_required" ELSE "waiting"

\* getProgress; buildCancelledProgress asks for nothing.
getProgress(role, ready, unpaid) ==
  IF agreement.status = "mutually_canceled"
    THEN [acceptance |-> "cancelled", payment_method |-> "optional",
          signatures |-> "cancelled", active |-> "cancelled"]
    ELSE [acceptance |-> acceptanceStep(role), payment_method |-> paymentMethodStep(role, ready),
          signatures |-> signaturesStep(role), active |-> activeStep(role, ready, unpaid)]

------------------------------------------------------------------------------
\* Properties.  The view reads no request, and a request can die at any time:
\* every agreement the view can be asked about is also reached with no
\* request under way, and it is enough to look there.

Viewed == Exists /\ agreement.version # 0 /\ \A s \in Session : session[s].pc = "idle"

\* The view and the services agree on whose turn it is: a party is told to
\* submit, to review or to sign exactly when the service would let it.
AskedIsAllowed ==
  Viewed => \A role \in Role :
    /\ acceptanceStep(role) = "action_required" <=>
         \/ agreement.status = "draft"
         \/ agreement.status \in InNegotiation \ {"draft"} /\ role = Reviewer(agreement.status)
    /\ signaturesStep(role) = "action_required" <=>
         agreement.status = "awaiting_signatures" /\ MaySign(Current, role)

\* Who is told to wait for the other one sees it asked to act, or a lapsed date
\* must be revised first.  A version that both had signed before a late write
\* put the agreement back (see SignedNeverNegotiates) is left aside: nobody can
\* act on it.
HasItsTurn(mine, theirs) ==
  /\ mine.acceptance = "waiting" => theirs.acceptance = "action_required"
  /\ mine.payment_method = "waiting" => theirs.payment_method = "action_required"
  /\ mine.signatures = "waiting" /\ ~Current.locked =>
       theirs.signatures \in {"action_required", "blocked"}

\* No two parties wait for each other, for the payment setup only while
\* somebody is asked for it, and for a payment only while one is under way, is
\* yet to fall due, or the debtor is asked for it.  (Each view is bound to a name
\* so that it is computed once.)
WaitsForSomeone ==
  Viewed => \A ready \in Readiness, unpaid \in NextUnpaid :
    \A debtor \in {getProgress("debtor", ready, unpaid)},
       creditor \in {getProgress("creditor", ready, unpaid)} :
    /\ HasItsTurn(debtor, creditor) /\ HasItsTurn(creditor, debtor)
    /\ "waiting" \in {debtor.active, creditor.active} =>
         \/ {debtor.payment_method, creditor.payment_method} \cap {"action_required", "blocked"} # {}
         \/ unpaid.attempt = "open" \/ unpaid.due = "scheduled"
         \/ debtor.active = "action_required"

\* What the parties are shown is right: whatever changes the agreement, each
\* is then asked for what the services let it do, and no two wait for each
\* other.
TurnsAreClear ==
  [][agreement' # agreement \/ versions' # versions =>
       AskedIsAllowed' /\ WaitsForSomeone']_vars
==============================================================================
