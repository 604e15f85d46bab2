---------------------------- MODULE PaymentStatus ----------------------------
(***************************************************************************)
(* The payment_attempt status vocabulary of lib/payments/paymentService.ts *)
(* and the two decisions every other payment component takes from it:      *)
(* whether a transition is legal now, and whether a rejected transition    *)
(* could still become legal later.  Pure operators, no state.              *)
(***************************************************************************)

\* PaymentAttemptStatus.
PaymentAttemptStatus ==
  {"pending", "scheduled", "submitted", "processing", "succeeded", "failed",
   "canceled", "refunded", "returned", "disputed", "reversed"}

\* UNRESOLVED_PAYMENT_ATTEMPT_STATUSES: may still succeed or fail.
Unresolved == {"pending", "scheduled", "submitted", "processing"}

\* The four outcomes that supersede an earlier success.
Superseding == {"refunded", "returned", "disputed", "reversed"}

\* ALLOWED_SOURCE_STATUSES_FOR_DESTINATION, with `?? []` for the
\* destinations the table does not list.
AllowedSources(dest) ==
  CASE dest \in {"succeeded", "failed"} -> Unresolved
    [] dest \in Superseding             -> {"succeeded"}
    [] dest = "canceled"                -> {"pending", "scheduled"}
    [] OTHER                            -> {}

\* The statuses a payment in `status` may legally take in one step.
ReachableNext(status) ==
  {dest \in PaymentAttemptStatus : status \in AllowedSources(dest)}

\* Mutant: the look-ahead forgotten, only the present status counts.
NoLookAhead(status, dest) == status \notin AllowedSources(dest)

\* isTransitionPermanentlyIllegal: a status that is nobody's source is dead;
\* any other may look one hop ahead.
isTransitionPermanentlyIllegal(status, dest) ==
  \/ ReachableNext(status) = {}
  \/ /\ status \notin AllowedSources(dest)
     /\ ReachableNext(status) \cap AllowedSources(dest) = {}

==============================================================================
