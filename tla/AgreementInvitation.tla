------------------------ MODULE AgreementInvitation ------------------------
(***************************************************************************)
(* The invitation by link that comes before an agreement:                  *)
(* AgreementInvitationService and its repository.  Whoever holds the link  *)
(* may read it; the inviter and the recipient negotiate on the one row,    *)
(* and an acceptance makes the agreement and takes it to its signatures.   *)
(***************************************************************************)
EXTENDS Integers, Sequences

CONSTANTS
  Inviter,     \* the sender's account
  Account,     \* every account that holds the link, the sender's among them
  Addressee,   \* the accounts that the contact details match: several when
               \* the invitation has only a name on it
  MaxRounds,   \* bound on the rounds of terms
  MaxDrafts    \* bound on the agreements made, above what should happen

ASSUME InvitationAssumption ==
  /\ Inviter \in Account
  /\ Addressee \subseteq Account \ {Inviter}
  /\ MaxRounds \in Nat \ {0} /\ MaxDrafts \in Nat \ {0}

VARIABLES
  invitation,   \* the agreement_invitation row
  drafts,       \* agreements made of it, in order
  visit,        \* the request each account has under way
  sweeping      \* the expiry job has listed the invitation

invitationVars == <<invitation, drafts, visit, sweeping>>

OpenStatus == {"pending", "viewed"}
InvitationStatus == OpenStatus \cup {"accepted", "declined", "expired", "revoked"}
NoVisit == [op |-> "none", pc |-> "idle", recipient |-> "none", version |-> 0]

\* overdue: expires_at lies behind.
InvitationInit ==
  /\ invitation = [status |-> "absent", recipient |-> "none", version |-> 0,
                   overdue |-> FALSE, agreement |-> 0]
  /\ drafts = <<>>
  /\ visit = [u \in Account |-> NoVisit]
  /\ sweeping = FALSE

------------------------------------------------------------------------------
\* u goes on to pc of its request.
Goes(u, pc) ==
  visit' = [visit EXCEPT ![u] = IF pc = "done" THEN NoVisit ELSE [visit[u] EXCEPT !.pc = pc]]
Is(u, op, pc) == visit[u].op = op /\ visit[u].pc = pc

\* The row is read for op.  requireOpenInvitation: one that is open and
\* overdue is marked first, by id, and refused.
Enters(u, op, pc) ==
  /\ visit[u] = NoVisit
  /\ visit' = [visit EXCEPT ![u] =
       [op |-> op, pc |-> IF invitation.overdue THEN "overdue" ELSE pc,
        recipient |-> invitation.recipient, version |-> invitation.version]]
  /\ invitation.status \in OpenStatus
  /\ UNCHANGED <<invitation, drafts>>

\* markExpired.
markExpired == invitation' = [invitation EXCEPT !.status = "expired"]

RefusesOverdue(u) ==
  /\ visit[u].pc = "overdue"
  /\ markExpired /\ Goes(u, "done") /\ UNCHANGED drafts

\* createInvitation: the recipient is known from the start when the contact
\* details name one account and one only.
createInvitation(u) ==
  /\ u = Inviter /\ visit[u] = NoVisit /\ invitation.status = "absent"
  /\ \E r \in Addressee \cup {"none"} :
       invitation' = [invitation EXCEPT !.status = "pending", !.version = 1, !.recipient = r]
  /\ UNCHANGED <<drafts, visit>>

\* resolvePublic: only a pending invitation becomes viewed.
resolvePublic ==
  /\ invitation.status = "pending"
  /\ invitation' = [invitation EXCEPT !.status = "viewed"]
  /\ UNCHANGED <<drafts, visit>>

\* requireRecipientIdentityAndBind, on what u read: to an account of the
\* addressee while there is none, and to no other afterwards.
MayBind(u) == u \in (IF visit[u].recipient = "none" THEN Addressee ELSE {visit[u].recipient})

\* bindRecipient by id; the row it returns is what the request works on.
bindRecipient(u, next) ==
  IF MayBind(u)
    THEN /\ invitation' = [invitation EXCEPT !.recipient = u]
         /\ visit' = [visit EXCEPT ![u].pc = next, ![u].recipient = u,
                                   ![u].version = invitation.version]
    ELSE Goes(u, "done") /\ UNCHANGED invitation

proposeTerms(u) ==
  \/ Enters(u, "propose", IF u = Inviter THEN "write" ELSE "bind")
  \/ Is(u, "propose", "bind") /\ bindRecipient(u, "write") /\ UNCHANGED drafts
  \/ /\ Is(u, "propose", "write") /\ visit[u].version < MaxRounds
     /\ invitation' = [invitation EXCEPT !.version = visit[u].version + 1]
     /\ Goes(u, "done") /\ UNCHANGED drafts

\* Mutant: the status was checked when it was read.
ClaimAnyway == TRUE

\* claimAcceptance, markDeclined and markRevoked are updates of an open row.
StillOpen == invitation.status \in OpenStatus

\* acceptPlan: the claim, then the agreement, then the link to it.  The
\* inviter needs a recipient; the terms are those the request has read.
acceptPlan(u) ==
  \/ /\ u = Inviter => invitation.recipient # "none"
     /\ Enters(u, "accept", IF u = Inviter THEN "claim" ELSE "bind")
  \/ Is(u, "accept", "bind") /\ bindRecipient(u, "claim") /\ UNCHANGED drafts
  \/ /\ Is(u, "accept", "claim")
     /\ invitation' = IF StillOpen THEN [invitation EXCEPT !.status = "accepted"] ELSE invitation
     /\ Goes(u, IF StillOpen THEN "create" ELSE "done")
     /\ UNCHANGED drafts
  \/ /\ Is(u, "accept", "create") /\ Len(drafts) < MaxDrafts
     /\ drafts' = Append(drafts, [party |-> visit[u].recipient, version |-> visit[u].version])
     /\ Goes(u, "attach") /\ UNCHANGED invitation
  \/ /\ Is(u, "accept", "attach")
     /\ invitation' = [invitation EXCEPT !.agreement = Len(drafts)]
     /\ Goes(u, "done") /\ UNCHANGED drafts

\* declinePublic takes no account, revokeInvitation the sender's and no
\* look at the date.
Closes(u, op, status) ==
  /\ Is(u, op, "write")
  /\ invitation' = IF StillOpen THEN [invitation EXCEPT !.status = status] ELSE invitation
  /\ Goes(u, "done") /\ UNCHANGED drafts

declinePublic(u) == Enters(u, "decline", "write") \/ Closes(u, "decline", "declined")

revokeInvitation(u) ==
  \/ /\ u = Inviter /\ visit[u] = NoVisit /\ invitation.status \in OpenStatus
     /\ visit' = [visit EXCEPT ![u] = [NoVisit EXCEPT !.op = "revoke", !.pc = "write"]]
     /\ UNCHANGED <<invitation, drafts>>
  \/ Closes(u, "revoke", "revoked")

\* resendInvitation: a new token and date, by id.
resendInvitation(u) ==
  \/ /\ u = Inviter /\ visit[u] = NoVisit /\ invitation.status \in OpenStatus
     /\ visit' = [visit EXCEPT ![u] = [NoVisit EXCEPT !.op = "resend", !.pc = "write"]]
     /\ UNCHANGED <<invitation, drafts>>
  \/ /\ Is(u, "resend", "write")
     /\ invitation' = [invitation EXCEPT !.overdue = FALSE]
     /\ Goes(u, "done") /\ UNCHANGED drafts

LeavesInvitation(u) ==
  /\ visit[u] # NoVisit
  /\ Goes(u, "done") /\ UNCHANGED <<invitation, drafts>>

\* expireDueInvitations: the list, then each by id.
expireDueInvitations ==
  /\ \/ /\ ~sweeping /\ invitation.status \in OpenStatus /\ invitation.overdue
        /\ sweeping' = TRUE /\ UNCHANGED invitation
     \/ sweeping /\ sweeping' = FALSE /\ markExpired
  /\ UNCHANGED <<drafts, visit>>

InvitationDateComes ==
  /\ invitation.status # "absent" /\ ~invitation.overdue
  /\ invitation' = [invitation EXCEPT !.overdue = TRUE]
  /\ UNCHANGED <<drafts, visit, sweeping>>

InvitationNext ==
  \/ /\ \/ \E u \in Account :
             \/ createInvitation(u) \/ proposeTerms(u) \/ acceptPlan(u) \/ declinePublic(u)
             \/ revokeInvitation(u) \/ resendInvitation(u) \/ RefusesOverdue(u) \/ LeavesInvitation(u)
        \/ resolvePublic
     /\ UNCHANGED sweeping
  \/ expireDueInvitations \/ InvitationDateComes

InvitationSpec == InvitationInit /\ [][InvitationNext]_invitationVars

------------------------------------------------------------------------------
\* Properties.

\* One invitation makes one agreement at most, and none once its sender was
\* told that it is revoked or that it was declined, whoever accepts at the
\* same time and however late a request writes what it checked.
OneAgreementPerInvitation ==
  /\ Len(drafts) <= 1
  /\ invitation.status \in {"declined", "revoked"} => drafts = <<>>
==============================================================================
