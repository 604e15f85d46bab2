--------------------------- MODULE PaymentLifecycle ---------------------------
(***************************************************************************)
(* What the payment pipeline promises about one payment, whatever order    *)
(* its events arrive in: it is submitted, has one outcome, may be          *)
(* superseded once if the outcome was a success, and the ledger follows:   *)
(* clearing once after a success, one reversal of the kind that superseded *)
(* it after the clearing, one payout after the clearing.  Nothing is ever  *)
(* taken back.                                                             *)
(***************************************************************************)
CONSTANT Payment

VARIABLES
  status,  \* [Payment -> ...], the payment's status
  posted   \* [Payment -> SUBSET ...], the kinds of ledger entries it has

lifecycleVars == <<status, posted>>

Outcome  == {"succeeded", "failed"}
Reversed == {"refunded", "returned", "disputed", "reversed"}

\* The ledger's word for a supersession.
EntryFor(s) == CASE s = "refunded" -> "refund"
                 [] s = "disputed" -> "dispute_adjustment"
                 [] OTHER          -> "reversal"

LInit ==
  /\ status = [p \in Payment |-> "submitted"]
  /\ posted = [p \in Payment |-> {}]

\* The provider has taken the payment on.
Accept(p) ==
  /\ status[p] = "submitted"
  /\ status' = [status EXCEPT ![p] = "processing"]
  /\ UNCHANGED posted

Resolve(p) ==
  /\ status[p] = "processing"
  /\ \E s \in Outcome : status' = [status EXCEPT ![p] = s]
  /\ UNCHANGED posted

Supersede(p) ==
  /\ status[p] = "succeeded"
  /\ \E s \in Reversed : status' = [status EXCEPT ![p] = s]
  /\ UNCHANGED posted

Post(p, t) ==
  /\ t \notin posted[p]
  /\ posted' = [posted EXCEPT ![p] = @ \cup {t}]
  /\ UNCHANGED status

\* The clearing may be posted late, when the payment is superseded already.
Clear(p) ==
  status[p] \in {"succeeded"} \cup Reversed /\ Post(p, "payment_cleared")

Reverse(p) ==
  /\ status[p] \in Reversed
  /\ "payment_cleared" \in posted[p]
  /\ Post(p, EntryFor(status[p]))

PayOut(p) == "payment_cleared" \in posted[p] /\ Post(p, "payout")

LNext ==
  \E p \in Payment : \/ Accept(p) \/ Resolve(p) \/ Supersede(p)
                     \/ Clear(p) \/ Reverse(p) \/ PayOut(p)

LSpec == LInit /\ [][LNext]_lifecycleVars
==============================================================================
