-------------------------- MODULE AgreementLifecycle --------------------------
(***************************************************************************)
(* An agreement from its draft to its signatures and its cancellation:     *)
(* AgreementService, AgreementCancellationService and their repositories.  *)
(*                                                                         *)
(* A session is a user in front of one request at a time, acting for the   *)
(* creditor or for the debtor (several users may act for one party).  A    *)
(* request reads the agreement, checks what it read and writes in a later  *)
(* statement; signing, revising and accepting check again under row locks, *)
(* the other writes do not.  A refused request leaves no trace.            *)
(***************************************************************************)
EXTENDS Integers, Sequences, FiniteSets, SequencesExt

CONSTANTS
  Session,
  RoleOf,         \* [Session -> Role]
  Originator,     \* the role of the agreement's creator
  MaxVersions,    \* bound on the versions of the agreement
  MaxCancellations

Role == {"creditor", "debtor"}
Other(role) == IF role = "creditor" THEN "debtor" ELSE "creditor"

ASSUME SessionAssumption ==
  /\ RoleOf \in [Session -> Role]
  /\ Originator \in Role
  /\ MaxVersions \in Nat \ {0}
  /\ MaxCancellations \in Nat

VARIABLES
  agreement,      \* the agreement row: status and current_version_id
  versions,       \* agreement_version rows, by version number
  session,        \* the requests under way
  cancellations,  \* agreement_cancellation_request rows
  consent         \* which party has reviewed and agreed to which terms

life == <<agreement, versions, cancellations, consent>>
vars == <<life, session>>

------------------------------------------------------------------------------
InNegotiation == {"draft", "awaiting_debtor_acknowledgment", "awaiting_creditor_acceptance"}
InForce       == {"first_payment_pending", "active", "past_due"}
AgreementStatus ==
  InNegotiation \cup InForce \cup
  {"awaiting_signatures", "paused_by_amendment", "paid_in_full",
   "settled_in_full", "mutually_canceled"}

\* terms stand for everything but the first payment date; past says that that
\* date lies behind; frozen that the parties' identities were snapshotted;
\* evidence the signature_event rows; parent the version it replaces.
Version(terms, parent) ==
  [terms |-> terms, parent |-> parent, past |-> FALSE, frozen |-> FALSE,
   signed |-> {}, evidence |-> {}, locked |-> FALSE]

NoRequest == [op |-> "none", pc |-> "idle", status |-> "none", version |-> 0, row |-> 0]

TypeOK ==
  /\ agreement.status \in AgreementStatus \cup {"absent", "deleted"}
  /\ agreement.version \in 0..Len(versions)
  /\ \A v \in DOMAIN versions :
       /\ versions[v].terms \in Nat
       /\ versions[v].signed \subseteq Role
       /\ versions[v].locked <=> versions[v].signed = Role
  /\ \A c \in DOMAIN cancellations :
       /\ cancellations[c].by \in Role
       /\ cancellations[c].status \in {"pending", "accepted", "rejected"}
  /\ \A s \in Session : session[s].row \in 0..Len(cancellations)
  /\ consent \subseteq Role \X Nat

Init ==
  /\ agreement = [status |-> "absent", version |-> 0]
  /\ versions = <<>>
  /\ session = [s \in Session |-> NoRequest]
  /\ cancellations = <<>>
  /\ consent = {}

------------------------------------------------------------------------------
\* The two halves of a request.

Current == versions[agreement.version]
Exists  == agreement.status \notin {"absent", "deleted"}

\* s reads the agreement for op and finds that ok holds.
Reads(s, op, ok) ==
  /\ session[s].pc = "idle"
  /\ Exists /\ ok
  /\ session' = [session EXCEPT ![s] =
       [op |-> op, pc |-> "write", status |-> agreement.status,
        version |-> agreement.version, row |-> 0]]
  /\ UNCHANGED life

\* s is at step pc of op, and goes on to next.
At(s, op, pc, next) ==
  /\ session[s].op = op /\ session[s].pc = pc
  /\ session' = [session EXCEPT ![s] = IF next = "done" THEN NoRequest
                                       ELSE [session[s] EXCEPT !.pc = next]]

Seen(s) == versions[session[s].version]

\* updateStatus: by id, whatever the status has become; no row, no effect.
updateStatus(status) ==
  agreement' = IF Exists THEN [agreement EXCEPT !.status = status] ELSE agreement

\* The request's process dies.
Abandon(s) ==
  /\ session[s].pc # "idle"
  /\ session' = [session EXCEPT ![s] = NoRequest]
  /\ UNCHANGED life

------------------------------------------------------------------------------
\* Drafts.

\* createDraft: the agreement, its first version and the link between them
\* are three statements.
createDraft(s) ==
  \/ /\ session[s].pc = "idle" /\ agreement.status = "absent"
     /\ RoleOf[s] = Originator
     /\ agreement' = [status |-> "draft", version |-> 0]
     /\ session' = [session EXCEPT ![s].op = "create", ![s].pc = "write"]
     /\ UNCHANGED <<versions, cancellations, consent>>
  \/ /\ At(s, "create", "write", "link")
     /\ versions' = IF Exists THEN <<Version(1, 0)>> ELSE versions
     /\ UNCHANGED <<agreement, cancellations, consent>>
  \/ /\ At(s, "create", "link", "done")
     /\ agreement' = [agreement EXCEPT !.version = Len(versions)]
     /\ UNCHANGED <<versions, cancellations, consent>>

\* The rows a foreign key ties to the agreement or to one of its versions.
NothingRefersToAgreement ==
  /\ cancellations = <<>>
  /\ \A v \in DOMAIN versions : versions[v].evidence = {} /\ ~versions[v].frozen

deleteDraft(s) ==
  \/ Reads(s, "delete", agreement.status = "draft" /\ RoleOf[s] = Originator)
  \/ /\ At(s, "delete", "write", "done")
     /\ agreement' = IF Exists /\ NothingRefersToAgreement
                       THEN [agreement EXCEPT !.status = "deleted"] ELSE agreement
     /\ UNCHANGED <<versions, cancellations, consent>>

submitDraft(s) ==
  \/ Reads(s, "submit", agreement.status = "draft")
  \/ /\ At(s, "submit", "write", "done")
     /\ updateStatus("awaiting_debtor_acknowledgment")
     /\ UNCHANGED <<versions, cancellations, consent>>

------------------------------------------------------------------------------
\* Review.

acknowledgeDebt(s) ==
  \/ Reads(s, "acknowledge", /\ agreement.status = "awaiting_debtor_acknowledgment"
                             /\ RoleOf[s] = "debtor")
  \/ /\ At(s, "acknowledge", "write", "done")
     /\ updateStatus("awaiting_creditor_acceptance")
     /\ consent' = IF session[s].version = 0 THEN consent
                   ELSE consent \cup {<<"debtor", Seen(s).terms>>}
     /\ UNCHANGED <<versions, cancellations>>

\* Mutant: the status alone is checked again.
AcceptanceStands(s) == agreement.status = "awaiting_creditor_acceptance"

\* applyAcceptanceTransitionAtomically, under the locks.
MayAccept(s) ==
  /\ agreement.status = "awaiting_creditor_acceptance"
  /\ agreement.version = session[s].version

\* creditorDecide, accept: the snapshot is best effort.
acceptAgreement(s) ==
  \/ Reads(s, "accept", /\ agreement.status = "awaiting_creditor_acceptance"
                        /\ RoleOf[s] = "creditor" /\ agreement.version # 0)
  \/ /\ At(s, "accept", "write", IF MayAccept(s) THEN "freeze" ELSE "done")
     /\ IF MayAccept(s)
          THEN /\ agreement' = [agreement EXCEPT !.status = "awaiting_signatures"]
               /\ consent' = consent \cup {<<"creditor", Seen(s).terms>>}
          ELSE UNCHANGED <<agreement, consent>>
     /\ UNCHANGED <<versions, cancellations>>
  \/ /\ At(s, "accept", "freeze", "done")
     /\ \/ Exists /\ versions' = [versions EXCEPT ![session[s].version].frozen = TRUE]
        \/ UNCHANGED versions
     /\ UNCHANGED <<agreement, cancellations, consent>>

rejectAgreement(s) ==
  \/ Reads(s, "reject", /\ agreement.status = "awaiting_creditor_acceptance"
                        /\ RoleOf[s] = "creditor")
  \/ /\ At(s, "reject", "write", "done")
     /\ updateStatus("draft")
     /\ UNCHANGED <<versions, cancellations, consent>>

\* Whose turn it is to review.
Reviewer(status) ==
  IF status = "awaiting_debtor_acknowledgment" THEN "debtor" ELSE "creditor"

NewVersion(v) ==
  /\ versions' = Append(versions, v)
  /\ agreement' = [agreement EXCEPT !.version = Len(versions) + 1]

\* reviseTermsBeforeSignature, also for a creditor's counterproposal; then
\* applyGeneralTermsRevisionAtomically.  The other party reviews next.
reviseTerms(s) ==
  \/ Reads(s, "revise", /\ agreement.status \in InNegotiation \ {"draft"}
                        /\ RoleOf[s] = Reviewer(agreement.status)
                        /\ agreement.version # 0 /\ ~Current.locked)
  \/ /\ At(s, "revise", "write", "done")
     /\ Len(versions) < MaxVersions
     /\ IF /\ agreement.status = session[s].status
           /\ agreement.version = session[s].version
           /\ ~Current.locked
          THEN /\ versions' = Append(versions, Version(Len(versions) + 1, agreement.version))
               /\ agreement' =
                    [status |-> IF RoleOf[s] = "debtor" THEN "awaiting_creditor_acceptance"
                                                        ELSE "awaiting_debtor_acknowledgment",
                     version |-> Len(versions) + 1]
               /\ consent' = consent \cup {<<RoleOf[s], Len(versions) + 1>>}
          ELSE UNCHANGED <<agreement, versions, consent>>
     /\ UNCHANGED cancellations

------------------------------------------------------------------------------
\* Signatures.

MaySign(v, role) ==
  /\ ~v.locked /\ role \notin v.signed
  /\ role = Originator => Other(role) \in v.signed
  /\ ~v.past

\* Mutant: the first signature locks the version.
LocksAtOnce(v, role) == TRUE

\* role's signature is the second one.
CompletesSignatures(v, role) == Other(role) \in v.signed

\* applySigningAtomically checks it all again, under the locks.
StillSignable(s) ==
  /\ agreement.status = "awaiting_signatures"
  /\ agreement.version = session[s].version

\* SignatureService.sign: signAgreementWithEvidence, then the transaction.
signAgreement(s) ==
  LET role == RoleOf[s]
      v == session[s].version
  IN
  \/ Reads(s, "sign", /\ agreement.status = "awaiting_signatures"
                      /\ agreement.version # 0 /\ MaySign(Current, role))
  \/ /\ At(s, "sign", "write", "done")
     /\ IF StillSignable(s) /\ MaySign(versions[v], role)
          THEN LET both == CompletesSignatures(versions[v], role) IN
               /\ versions' = [versions EXCEPT ![v].signed = @ \cup {role},
                                               ![v].evidence = @ \cup {role},
                                               ![v].locked = both]
               /\ agreement' = IF both THEN [agreement EXCEPT !.status = "first_payment_pending"]
                                       ELSE agreement
          ELSE UNCHANGED <<agreement, versions>>
     /\ UNCHANGED <<cancellations, consent>>

\* Mutant: the revision trusts what it read.
RevisesAnyway(s) == Exists

\* applyFirstPaymentDateRevisionAtomically, under the same locks as signing.
MayReviseDate(s) ==
  /\ agreement.status = "awaiting_signatures"
  /\ agreement.version = session[s].version
  /\ ~Current.locked

\* The same terms with a date to come, and no signature.
reviseFirstPaymentDate(s) ==
  \/ Reads(s, "reviseDate", /\ agreement.status = "awaiting_signatures"
                            /\ agreement.version # 0 /\ ~Current.locked)
  \/ /\ At(s, "reviseDate", "write", "done")
     /\ Len(versions) < MaxVersions
     /\ IF MayReviseDate(s) THEN NewVersion(Version(Seen(s).terms, agreement.version))
                            ELSE UNCHANGED <<agreement, versions>>
     /\ UNCHANGED <<cancellations, consent>>

\* The first payment date of the current version passes.
DatePasses ==
  /\ Exists /\ agreement.version # 0
  /\ ~Current.past /\ ~Current.locked
  /\ versions' = [versions EXCEPT ![agreement.version].past = TRUE]
  /\ UNCHANGED <<agreement, session, cancellations, consent>>

\* What payments make of an agreement in force, under its lock (see
\* PaymentWebhook).
decideAndApply ==
  /\ agreement.status \in InForce
  /\ \E status \in {"active", "paid_in_full"} \ {agreement.status} :
       agreement' = [agreement EXCEPT !.status = status]
  /\ UNCHANGED <<versions, session, cancellations, consent>>

------------------------------------------------------------------------------
\* Cancellation.

Cancellable ==
  {"awaiting_debtor_acknowledgment", "awaiting_creditor_acceptance", "awaiting_signatures"}

\* Mutant: the status was checked when it was read.
CancelAnyway == Exists

\* updateStatusIfCurrentlyIn.
StillCancellable == agreement.status \in Cancellable

cancelAgreement(s) ==
  \/ Reads(s, "cancel", agreement.status \in Cancellable)
  \/ /\ At(s, "cancel", "write", "done")
     /\ agreement' = IF StillCancellable
                       THEN [agreement EXCEPT !.status = "mutually_canceled"] ELSE agreement
     /\ UNCHANGED <<versions, cancellations, consent>>

\* The pending requests are read with the agreement.
requestCancellation(s) ==
  \/ Reads(s, "requestCancel", /\ agreement.status \in InForce
                               /\ \A c \in DOMAIN cancellations :
                                    cancellations[c].status # "pending")
  \/ /\ At(s, "requestCancel", "write", "done")
     /\ Len(cancellations) < MaxCancellations
     /\ cancellations' = Append(cancellations,
          [by |-> RoleOf[s], status |-> "pending"])
     /\ UNCHANGED <<agreement, versions, consent>>

\* decideCancellation: the request row, then markMutuallyCanceled, which reads
\* the agreement once more and writes by id.
decideCancellation(s) ==
  \/ /\ session[s].pc = "idle"
     /\ \E c \in DOMAIN cancellations :
          /\ cancellations[c].status = "pending" /\ cancellations[c].by # RoleOf[s]
          /\ session' = [session EXCEPT ![s] =
               [NoRequest EXCEPT !.op = "decideCancel", !.pc = "write", !.row = c]]
     /\ UNCHANGED life
  \/ /\ At(s, "decideCancel", "write", "mark")
     /\ cancellations' = [cancellations EXCEPT ![session[s].row].status = "accepted"]
     /\ UNCHANGED <<agreement, versions, consent>>
  \/ /\ At(s, "decideCancel", "write", "done")
     /\ cancellations' = [cancellations EXCEPT ![session[s].row].status = "rejected"]
     /\ UNCHANGED <<agreement, versions, consent>>
  \/ /\ At(s, "decideCancel", "mark", IF agreement.status \in InForce THEN "cancel" ELSE "done")
     /\ UNCHANGED life
  \/ /\ At(s, "decideCancel", "cancel", "done")
     /\ updateStatus("mutually_canceled")
     /\ UNCHANGED <<versions, cancellations, consent>>

------------------------------------------------------------------------------
LifecycleStep(s) ==
  \/ createDraft(s) \/ deleteDraft(s) \/ submitDraft(s)
  \/ acknowledgeDebt(s) \/ acceptAgreement(s) \/ rejectAgreement(s) \/ reviseTerms(s)
  \/ signAgreement(s) \/ reviseFirstPaymentDate(s)
  \/ cancelAgreement(s) \/ requestCancellation(s) \/ decideCancellation(s)
  \/ Abandon(s)

Next == (\E s \in Session : LifecycleStep(s)) \/ DatePasses \/ decideAndApply

Spec == Init /\ [][Next]_vars

------------------------------------------------------------------------------
\* Properties.

\* An agreement in force stands on terms that both parties signed, whatever
\* revisions, cancellations and late writes raced the signatures.
InForceIsSigned ==
  agreement.status \in InForce \cup {"paused_by_amendment", "paid_in_full"} =>
    agreement.version # 0 /\ Current.locked

\* Signatures are asked for terms the creditor has agreed to, not for those
\* of a revision that overtook the acceptance.
SignedAsAccepted ==
  agreement.status = "awaiting_signatures" => <<"creditor", Current.terms>> \in consent

\* What carries a signature is never deleted, though the status that allows
\* it is read long before the rows go.
SignedIsKept ==
  agreement.status = "deleted" => \A v \in DOMAIN versions : versions[v].signed = {}

\* Once both have signed, no party cancels alone: a cancellation that was
\* started before the signatures does not take effect after them.  (The answer
\* to a request may be overwritten by another user's, for the same party.)
CancellationIsMutual ==
  [][agreement.status \in InForce /\ agreement'.status = "mutually_canceled" =>
       \E c \in DOMAIN cancellations : cancellations[c].status # "pending"]_vars

\* docs/STATE_MACHINES.md: "Once `Signed`, the agreement can never return to
\* `Draft` or any pre-signature state".
SignedNeverNegotiates ==
  [][agreement.status \in InForce => agreement'.status \notin InNegotiation]_vars
==============================================================================
