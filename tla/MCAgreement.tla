----------------------------- MODULE MCAgreement -----------------------------
(***************************************************************************)
(* The agreement with its amendments and its settlements, its partial      *)
(* payments, the invitation before it, the relationship of the parties and *)
(* the accounts they pay from and to, its documents, the schedule, what    *)
(* the parties are shown of it, the audit trail of it all and the          *)
(* notifications.  Each scene starts from a draft or from an agreement in  *)
(* force, and says who acts and what is negotiated.  All but amendments    *)
(* and settlements share no row with the rest: nothing else moves in       *)
(* their scenes.                                                           *)
(***************************************************************************)
EXTENDS Agreement, PartialPayment, AgreementInvitation, AgreementProgress,
        RelationshipInvitation, FinancialAccount, SignedDocument, Schedule, AuditChain,
        Notification

CONSTANTS SceneSet, c1, c2, d1
VARIABLE scene

Roles == [s \in {c1, c2, d1} |-> IF s = d1 THEN "debtor" ELSE "creditor"]
Amounts == [p1 |-> 1, p2 |-> 1, p3 |-> 2]

\* The accounts of the parties, and agreements with their roles as they were
\* and the other way round.
Owners    == [a1 |-> "creditor", a2 |-> "creditor", b1 |-> "debtor"]
Creditors == [same |-> "creditor", reversed |-> "debtor"]

\* A notification without texts, and a text that preferences do not hold back.
NoticeKinds == {[channels |-> <<"in_app", "email">>, critical |-> FALSE],
                [channels |-> <<"sms">>, critical |-> TRUE]}

\* The ends of months, before and in a leap year and a century without one.
MonthEnds == {<<2023, 12, 25>>, <<2023, 1, 30>>, <<2024, 1, 31>>, <<2024, 2, 29>>, <<2100, 1, 29>>}

\* full: a settlement with three payments, a partial payment with
\* counteroffers, terms with cancellations.
Scene(start, who, topic, full) ==
  [start |-> start, who |-> who, topic |-> topic, full |-> full]

Everyone == {c1, c2, d1}
Pair     == {c1, d1}

PassingScenes ==
  {Scene("draft",    Everyone, "terms",      FALSE),
   Scene("draft",    Pair,     "terms",      TRUE),
   Scene("in force", Everyone, "terms",      TRUE),
   Scene("in force", Everyone, "amendment",  TRUE),
   Scene("in force", Everyone, "settlement", FALSE),
   Scene("in force", Pair,     "settlement", TRUE),
   Scene("in force", Everyone, "partial",    FALSE),
   Scene("in force", Pair,     "partial",    TRUE),
   Scene("in force", {},       "invitation", TRUE),
   Scene("in force", {},       "handshake",  TRUE),
   Scene("in force", {c1, c2}, "accounts",   TRUE),
   Scene("in force", Pair,     "accounts",   TRUE),
   Scene("in force", {},       "document",   TRUE),
   Scene("in force", {},       "schedule",   TRUE),
   Scene("in force", {},       "audit",      TRUE),
   Scene("in force", {},       "notice",     TRUE)}

DraftScenes      == {Scene("draft",    Everyone, "terms",      FALSE)}
PartialScenes    == {Scene("in force", Pair, "partial", TRUE)}
InvitationScenes == {Scene("in force", {}, "invitation", TRUE)}
AccountScenes    == {Scene("in force", Pair, "accounts", TRUE)}
DocumentScenes   == {Scene("in force", {}, "document", TRUE)}

\* The scenes name one of the creditor's users only to leave the other out; the
\* processes that apply a payment differ in nothing.
Interchangeable == Permutations({c1, c2}) \cup Permutations(Applier)

\* Of three users, any two have a request under way at a time.
AtMostTwo(requests) == Cardinality(requests) <= 2

InScene ==
  /\ \A s \in Session \ scene.who :
       /\ session[s] = NoRequest /\ handling[s] = NotHandling
       /\ settling[s] = NotSettling /\ paying[s] = NotPaying /\ acts[s] = NoAct
  /\ AtMostTwo({s \in Session : session[s] # NoRequest})
  /\ AtMostTwo({s \in Session : settling[s] # NotSettling})
  /\ AtMostTwo({u \in Account : visit[u] # NoVisit})
  /\ AtMostTwo({s \in Session : paying[s] # NotPaying})
  /\ \A s \in Session : paying[s].op = "counter" => scene.full
  /\ (\E s \in Session : session[s].op \in {"cancel", "requestCancel"}) =>
       scene.topic = "terms" /\ scene.full
  /\ scene.who # Pair => \A s \in Session : acts[s].deal = NoDeal
  /\ scene.who = Pair => Len(slots) < 3 /\ connection # "closed"
                         /\ \A s \in Session : acts[s].account # "a2" /\ acts[s].op # "disable"
  /\ scene.full \/ boundTo["p3"] = 0
  /\ notice.critical => /\ \A i \in DOMAIN redeliveries : redeliveries[i] = 0
                        /\ Cardinality(optedOut) <= 1
  /\ "in_app" \in ToSet(notice.channels) => "in_app" \in preference

\* Where createDraft ... signAgreement end.
SignedInit ==
  /\ agreement = [status |-> "first_payment_pending", version |-> 1]
  /\ versions = <<[Version(1, 0) EXCEPT !.frozen = TRUE, !.signed = Role,
                                        !.evidence = Role, !.locked = TRUE]>>
  /\ session = [s \in Session |-> NoRequest]
  /\ cancellations = <<>>
  /\ consent = Role \X {1}

SceneInit ==
  /\ scene \in SceneSet
  /\ IF scene.start = "draft" THEN Init ELSE SignedInit
  /\ AmendmentInit /\ SettlementInit /\ PartialInit /\ InvitationInit /\ ScheduleInit
  /\ ChainInit /\ NoticeInit /\ InviteInit /\ AccountInit /\ DocumentInit
  /\ scene.topic = "handshake" \/ invite.resolved = NoGuest
  /\ scene.topic = "notice" \/ notice.critical

TopicNext ==
  \/ NegotiationStep
  \/ scene.topic = "amendment"  /\ AmendmentStep
  \/ scene.topic = "settlement" /\ SettlementStep

SceneNext ==
  /\ IF scene.topic \in {"terms", "amendment", "settlement"}
       THEN TopicNext ELSE UNCHANGED <<vars, amendmentVars, settlementVars>>
  /\ IF scene.topic = "partial"    THEN PartialNext    ELSE UNCHANGED partialVars
  /\ IF scene.topic = "invitation" THEN InvitationNext ELSE UNCHANGED invitationVars
  /\ IF scene.topic = "handshake"  THEN InviteNext     ELSE UNCHANGED inviteVars
  /\ IF scene.topic = "accounts"   THEN AccountNext    ELSE UNCHANGED accountVars
  /\ IF scene.topic = "document"   THEN DocumentNext   ELSE UNCHANGED docVars
  /\ IF scene.topic = "schedule"   THEN ScheduleNext   ELSE UNCHANGED plan
  /\ IF scene.topic = "audit"      THEN ChainNext      ELSE UNCHANGED chainVars
  /\ IF scene.topic = "notice"     THEN NoticeNext     ELSE UNCHANGED noticeVars
  /\ UNCHANGED scene
  /\ InScene'

\* What was signed stays: no agreement with a signature on it is deleted
\* (SignedIsKept), and no step changes a recorded document (KeepsDocuments).
SignedStays == [][SignedIsKept' /\ KeepsDocuments]_<<vars, docVars>>

SceneSpec ==
  SceneInit /\ [][SceneNext]_<<vars, amendmentVars, settlementVars, partialVars,
                              invitationVars, inviteVars, accountVars, docVars, plan,
                              chainVars, noticeVars, scene>>
==============================================================================
