------------------------ MODULE RelationshipInvitation -----------------------
(***************************************************************************)
(* RelationshipInvitationService: the handshake between two parties, from  *)
(* createInvitation on.  The invitee may open the invitation, accept or    *)
(* decline it, the inviter may cancel it, and a job expires what is        *)
(* overdue.  All may do so at once: every statement is a step of its own.  *)
(*                                                                         *)
(* markViewed and markExpired write the row by its id; accepting,          *)
(* declining and canceling write it only while it is open.                 *)
(***************************************************************************)
EXTENDS Naturals, FiniteSets, Sequences

CONSTANTS
  Guest,     \* users that hold the invitation's token
  Host,      \* the user that sent it
  NoGuest

ASSUME HandshakeAssumption == Host \notin Guest /\ NoGuest \notin Guest \cup {Host}

VARIABLES
  invite,     \* the relationship_invitation row
  relation,   \* the relationship's status
  joined,     \* who was inserted as its second participant, in order
  answering,  \* what the users and the job are doing
  answers,    \* history: the answers that were recorded
  reopened    \* history: a view was written over an answer

inviteVars == <<invite, relation, joined, answering, answers, reopened>>

\* The job has no user.
Job == NoGuest
Actor == Guest \cup {Host, Job}

NoAnswer == [op |-> "none", pc |-> "idle", resolved |-> TRUE, todo |-> <<>>]

\* Where createInvitation ends: the invitee has an account already, or not.
InviteInit ==
  /\ \E invitee \in Guest \cup {NoGuest} :
       invite = [status |-> "sent", resolved |-> invitee, overdue |-> FALSE]
  /\ relation = "invited"
  /\ joined = <<>>
  /\ answering = [a \in Actor |-> NoAnswer]
  /\ answers = {}
  /\ reopened = FALSE

------------------------------------------------------------------------------
IsOpen == invite.status \in {"sent", "viewed"}

\* Addressed to u, or to nobody yet and u presents the token.
requireInviteeMatch(u, hasToken) == invite.resolved = u \/ (invite.resolved = NoGuest /\ hasToken)

Answering(a, op, pc) == answering[a].op = op /\ answering[a].pc = pc
Then(a, pc) == answering' = [answering EXCEPT ![a].pc = pc]
Begins(a, op, pc) ==
  answering' = [answering EXCEPT ![a] =
    [op |-> op, pc |-> pc, resolved |-> invite.resolved # NoGuest, todo |-> <<>>]]
AnswerEnds(a) == answering' = [answering EXCEPT ![a] = NoAnswer]
Idle(a) == answering[a] = NoAnswer

KeepHistory == UNCHANGED <<answers, reopened>>

\* Time passes.
becomeOverdue ==
  /\ ~invite.overdue
  /\ invite' = [invite EXCEPT !.overdue = TRUE]
  /\ UNCHANGED <<relation, joined, answering>> /\ KeepHistory

\* The service's markViewed; it is shown no token.
openInvitation(u) ==
  /\ Idle(u) /\ invite.status = "sent" /\ requireInviteeMatch(u, FALSE)
  /\ Begins(u, "view", "write")
  /\ UNCHANGED <<invite, relation, joined>> /\ KeepHistory

markViewed(u) ==
  /\ Answering(u, "view", "write")
  /\ invite' = [invite EXCEPT !.status = "viewed"]
  /\ reopened' = (reopened \/ ~IsOpen)
  /\ AnswerEnds(u)
  /\ UNCHANGED <<relation, joined, answers>>

\* An invitation accepted earlier is answered with its relationship, and an
\* overdue one is marked before the request is refused.
acceptInvitation(u) ==
  /\ Idle(u) /\ IsOpen
  /\ IF invite.overdue THEN Begins(u, "late", "write")
     ELSE requireInviteeMatch(u, TRUE) /\ Begins(u, "accepted", "claim")
  /\ UNCHANGED <<invite, relation, joined>> /\ KeepHistory

declineInvitation(u) ==
  /\ Idle(u) /\ IsOpen /\ requireInviteeMatch(u, TRUE)
  /\ Begins(u, "declined", "claim")
  /\ UNCHANGED <<invite, relation, joined>> /\ KeepHistory

cancelInvitation ==
  /\ Idle(Host) /\ IsOpen
  /\ Begins(Host, "cancelled", "claim")
  /\ UNCHANGED <<invite, relation, joined>> /\ KeepHistory

\* Mutant: the answer is written by the row's id.
WriteById(a, status) ==
  invite' = [invite EXCEPT !.status = status] /\ answers' = answers \cup {<<a, status>>}

\* Writes only while the invitation is open.
setStatusGuarded(a, status) ==
  IF IsOpen THEN invite' = [invite EXCEPT !.status = status] /\ answers' = answers \cup {<<a, status>>}
            ELSE UNCHANGED <<invite, answers>>

\* Accepting goes on to the participant, the other answers to the relationship.
claim(a) ==
  LET status == answering[a].op IN
  /\ answering[a].pc = "claim"
  /\ setStatusGuarded(a, status)
  /\ IF answers' = answers        THEN AnswerEnds(a)
     ELSE IF status = "accepted"  THEN Then(a, "join")
                                  ELSE Then(a, "look")
  /\ UNCHANGED <<relation, joined, reopened>>

insertParticipant(u) ==
  /\ Answering(u, "accepted", "join")
  /\ joined' = Append(joined, u)
  /\ Then(u, "resolve")
  /\ UNCHANGED <<invite, relation>> /\ KeepHistory

\* Only when the invitation was addressed to nobody as it was read.
setResolvedInviteeUser(u) ==
  /\ Answering(u, "accepted", "resolve")
  /\ invite' = IF answering[u].resolved THEN invite ELSE [invite EXCEPT !.resolved = u]
  /\ answering' = [answering EXCEPT ![u].pc = "link",
       ![u].todo = <<"counterparty_linked", "identities_confirmed", "financial_setup_pending">>]
  /\ UNCHANGED <<relation, joined>> /\ KeepHistory

\* Three statuses one after the other, each written by id.
linkCounterparty(u) ==
  LET todo == answering[u].todo IN
  /\ Answering(u, "accepted", "link")
  /\ relation' = Head(todo)
  /\ answering' = [answering EXCEPT ![u] = IF Len(todo) = 1 THEN NoAnswer
                                           ELSE [@ EXCEPT !.todo = Tail(todo)]]
  /\ UNCHANGED <<invite, joined>> /\ KeepHistory

\* The job runs once a day.
expireDueRelationshipInvitations ==
  /\ Idle(Job) /\ IsOpen /\ invite.overdue
  /\ Begins(Job, "expired", "write")
  /\ UNCHANGED <<invite, relation, joined>> /\ KeepHistory

\* By the job, or by a request that came too late.
markInviteExpired(a) ==
  /\ answering[a].op \in {"expired", "late"} /\ answering[a].pc = "write"
  /\ invite' = [invite EXCEPT !.status = "expired"]
  /\ IF a = Job THEN Then(a, "look") ELSE AnswerEnds(a)
  /\ UNCHANGED <<relation, joined>> /\ KeepHistory

cancelRelationshipIfNeverLinked(a) ==
  /\ answering[a].pc = "look"
  /\ IF relation = "invited" THEN Then(a, "drop") ELSE AnswerEnds(a)
  /\ UNCHANGED <<invite, relation, joined>> /\ KeepHistory

dropRelationship(a) ==
  /\ answering[a].pc = "drop"
  /\ relation' = "cancelled"
  /\ AnswerEnds(a)
  /\ UNCHANGED <<invite, joined>> /\ KeepHistory

\* A write fails or the process dies, and the rest is left undone.
abandonAnswer(a) ==
  /\ ~Idle(a) /\ AnswerEnds(a)
  /\ UNCHANGED <<invite, relation, joined>> /\ KeepHistory

InviteNext ==
  \/ becomeOverdue \/ cancelInvitation \/ expireDueRelationshipInvitations
  \/ \E u \in Guest : \/ openInvitation(u) \/ markViewed(u)
                      \/ acceptInvitation(u) \/ declineInvitation(u)
                      \/ insertParticipant(u) \/ setResolvedInviteeUser(u) \/ linkCounterparty(u)
  \/ \E a \in Actor : \/ claim(a) \/ markInviteExpired(a) \/ abandonAnswer(a)
                      \/ cancelRelationshipIfNeverLinked(a) \/ dropRelationship(a)

HandshakeSpec == InviteInit /\ [][InviteNext]_inviteVars

------------------------------------------------------------------------------
\* Properties.

\* Accepting, declining and canceling exclude each other: one of them is
\* recorded, once, and nobody joins a relationship without having accepted.
\* (A view that was read as due before the answer reopens the invitation when
\* it is written after it, see the README; then more answers may follow.)
AnsweredOnce ==
  /\ ~reopened => Cardinality(answers) <= 1 /\ Len(joined) <= 1
  /\ \A n \in DOMAIN joined : <<joined[n], "accepted">> \in answers
  /\ relation \notin {"invited", "cancelled"} => joined # <<>>
==============================================================================
