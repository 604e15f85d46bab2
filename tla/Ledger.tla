------------------------------- MODULE Ledger --------------------------------
(***************************************************************************)
(* The double-entry posting engine of lib/ledger/ledgerService.ts and the  *)
(* balance reconstruction of lib/ledger/balanceService.ts, as operators    *)
(* over a ledger: a set of journal entries, at most one for each           *)
(* (payment_attempt_id, entry_type).                                       *)
(*                                                                         *)
(* A method of LedgerService reads the ledger, decides what to post, and   *)
(* inserts it in a later statement.  The operators keep the two apart:     *)
(* ...Plan is the entry the reads decide on, InsertIdempotently the        *)
(* insert.  An entry carries the figures of the clearing it descends from, *)
(* and its shape says which postings they become.                          *)
(***************************************************************************)
EXTENDS Integers, FiniteSets, FiniteSetsExt

ReversalType == {"refund", "reversal", "dispute_adjustment"}
EntryType    == {"payment_cleared", "payout"} \cup ReversalType
Shape        == {"clear", "payout", "mirror", "clawback"}

AccountType ==
  {"processor_clearing", "creditor_proceeds_payable", "platform_fee_revenue",
   "processor_fee_expense", "creditor_clawback_exposure"}

Entry(Payments) ==
  [payment : Payments, entryType : EntryType, shape : Shape, gross : Nat,
   processorFee : Nat, platformFee : Nat]

------------------------------------------------------------------------------
\* findByPaymentAndType.
Posted(ledger, p, t) == \E en \in ledger : en.payment = p /\ en.entryType = t
Find(ledger, p, t) ==
  CHOOSE en \in ledger : en.payment = p /\ en.entryType = t

IsReversed(ledger, p) == \E t \in ReversalType : Posted(ledger, p, t)

CreditorNet(en) == en.gross - en.processorFee - en.platformFee

\* Mutant: the fees are not held against the gross amount.
OnlyZeroIsRefused(gross, processorFee, platformFee) == gross = 0

\* postPaymentCleared: throws FinancialIntegrityError for these figures.
FeesExceedGross(gross, processorFee, platformFee) ==
  gross = 0 \/ processorFee + platformFee > gross

ClearedPlan(p, gross, processorFee, platformFee) ==
  [payment |-> p, entryType |-> "payment_cleared", shape |-> "clear",
   gross |-> gross, processorFee |-> processorFee, platformFee |-> platformFee]

\* reversePayment: the shape depends on whether a payout entry was seen.
ReversalPlan(ledger, p, t) ==
  [Find(ledger, p, "payment_cleared") EXCEPT
     !.entryType = t,
     !.shape = IF Posted(ledger, p, "payout") THEN "clawback" ELSE "mirror"]

\* Mutant: a reversal does not block the payout.
PayOutWhatCleared(ledger, p) ==
  /\ Posted(ledger, p, "payment_cleared")
  /\ CreditorNet(Find(ledger, p, "payment_cleared")) > 0

\* postPayout: blocked without a clearing entry, after a reversal, or when
\* the clearing entry has no creditor leg.
CanPayOut(ledger, p) ==
  /\ Posted(ledger, p, "payment_cleared")
  /\ ~IsReversed(ledger, p)
  /\ CreditorNet(Find(ledger, p, "payment_cleared")) > 0

PayoutPlan(ledger, p) ==
  [Find(ledger, p, "payment_cleared") EXCEPT
     !.entryType = "payout", !.shape = "payout"]

\* insertIdempotently: the unique index picks the winner, the loser returns
\* the winner's entry.
InsertIdempotently(ledger, en) ==
  IF Posted(ledger, en.payment, en.entryType) THEN ledger ELSE ledger \cup {en}

------------------------------------------------------------------------------
\* The postings of an entry, debit positive.
Postings(en) ==
  LET net == CreditorNet(en)
      leg == CASE en.shape = "clear" ->
                    [processor_clearing        |-> en.gross,
                     creditor_proceeds_payable |-> -net,
                     platform_fee_revenue      |-> -en.platformFee,
                     processor_fee_expense     |-> -en.processorFee]
               [] en.shape = "mirror" ->
                    [processor_clearing        |-> -en.gross,
                     creditor_proceeds_payable |-> net,
                     platform_fee_revenue      |-> en.platformFee,
                     processor_fee_expense     |-> en.processorFee]
               [] en.shape = "payout" ->
                    [processor_clearing        |-> -net,
                     creditor_proceeds_payable |-> net]
               [] en.shape = "clawback" ->
                    [processor_clearing         |-> -net,
                     creditor_clawback_exposure |-> net]
  IN [a \in AccountType |-> IF a \in DOMAIN leg THEN leg[a] ELSE 0]

\* What an account has been debited in excess of its credits.
DebitBalance(ledger, account) ==
  SumFunctionOnSet([en \in ledger |-> Postings(en)[account]], ledger)

------------------------------------------------------------------------------
\* classifyPaymentAttempts: cleared, and by no entry reversed.
CountsAsPaid(ledger, p) ==
  Posted(ledger, p, "payment_cleared") /\ ~IsReversed(ledger, p)

\* reconstructPaidAndReversed over the payments P.
AmountPaid(ledger, P) ==
  LET paid == {p \in P : CountsAsPaid(ledger, p)}
  IN SumFunctionOnSet([p \in paid |-> Find(ledger, p, "payment_cleared").gross], paid)

==============================================================================
