------------------------------ MODULE Amendment ------------------------------
(***************************************************************************)
(* Amendments of an agreement: AmendmentService, its repository and        *)
(* applyAtomically.  Every write to an amendment goes by id, whatever the  *)
(* status has become since it was read; only the new agreement version is  *)
(* guarded, by the unique index on its number.                             *)
(***************************************************************************)
EXTENDS AgreementLifecycle

CONSTANT MaxAmendments, MaxTerms

VARIABLES
  amendments,   \* amendment rows
  handling,     \* the amendment request each session has under way
  endorsed      \* <<role, amendment, terms>>: what a party had before it when it signed

amendmentVars == <<amendments, handling, endorsed>>

AmendmentStatus ==
  {"proposed", "awaiting_signatures", "signed", "applied", "rejected", "withdrawn"}

\* terms are numbered in the order they were put forward; made is the set of
\* agreement versions the amendment has resulted in.
AmendmentRow(role, pause, terms) ==
  [by |-> role, pause |-> pause, terms |-> terms, status |-> "proposed",
   signed |-> {}, made |-> {}]

NotHandling == [op |-> "none", pc |-> "idle", row |-> 0, terms |-> 0, version |-> 0]

AmendmentTypeOK ==
  /\ \A a \in DOMAIN amendments :
       /\ amendments[a].by \in Role /\ amendments[a].status \in AmendmentStatus
       /\ amendments[a].made \subseteq DOMAIN versions
       /\ amendments[a].status = "applied" => amendments[a].made # {}
       /\ amendments[a].status \in {"signed", "applied"} => amendments[a].signed = Role
  /\ \A s \in Session : handling[s].row \in 0..Len(amendments)

AmendmentInit ==
  /\ amendments = <<>>
  /\ handling = [s \in Session |-> NotHandling]
  /\ endorsed = {}

------------------------------------------------------------------------------
\* s reads amendment a for op.
Opens(s, op, a) ==
  /\ handling[s].pc = "idle"
  /\ handling' = [handling EXCEPT ![s] =
       [op |-> op, pc |-> "write", row |-> a, terms |-> amendments[a].terms, version |-> 0]]
  /\ UNCHANGED <<amendments, endorsed, agreement, versions>>

Handles(s, op, pc) == handling[s].op = op /\ handling[s].pc = pc
Finished(s) == handling' = [handling EXCEPT ![s] = NotHandling]

\* A write to the amendment that s has open.
Write(s, row) == amendments' = [amendments EXCEPT ![handling[s].row] = row]
Opened(s) == amendments[handling[s].row]

\* proposeAmendment: whatever the status of the agreement.
proposeAmendment(s) ==
  /\ Exists /\ handling[s].pc = "idle"
  /\ Len(amendments) < MaxAmendments
  /\ \E pause \in BOOLEAN :
       amendments' = Append(amendments, AmendmentRow(RoleOf[s], pause, 1))
  /\ UNCHANGED <<handling, endorsed, agreement, versions>>

\* decideAmendment: the party that did not propose the terms.
decideAmendment(s) ==
  \/ \E a \in DOMAIN amendments, op \in {"accept", "reject", "counter"} :
       /\ amendments[a].status = "proposed" /\ amendments[a].by # RoleOf[s]
       /\ Opens(s, op, a)
  \/ /\ \/ /\ Handles(s, "accept", "write")
           /\ Write(s, [Opened(s) EXCEPT !.status = "awaiting_signatures"])
        \/ /\ Handles(s, "reject", "write")
           /\ Write(s, [Opened(s) EXCEPT !.status = "rejected"])
        \/ /\ Handles(s, "counter", "write") /\ Opened(s).terms < MaxTerms
           /\ Write(s, [Opened(s) EXCEPT !.by = RoleOf[s], !.terms = @ + 1])
     /\ Finished(s)
     /\ UNCHANGED <<endorsed, agreement, versions>>

withdrawAmendment(s) ==
  \/ \E a \in DOMAIN amendments :
       /\ amendments[a].status \in {"proposed", "awaiting_signatures"}
       /\ amendments[a].by = RoleOf[s]
       /\ Opens(s, "withdraw", a)
  \/ /\ Handles(s, "withdraw", "write")
     /\ Write(s, [Opened(s) EXCEPT !.status = "withdrawn"])
     /\ Finished(s)
     /\ UNCHANGED <<endorsed, agreement, versions>>

BothSigned(row) == row.signed = Role

\* signAmendment: the signature, and on the second one the status.
signAmendment(s) ==
  \/ \E a \in DOMAIN amendments :
       /\ amendments[a].status = "awaiting_signatures"
       /\ RoleOf[s] \notin amendments[a].signed
       /\ Opens(s, "sign", a)
  \/ /\ Handles(s, "sign", "write")
     /\ LET row == [Opened(s) EXCEPT !.signed = @ \cup {RoleOf[s]}] IN
        /\ Write(s, row)
        /\ endorsed' = endorsed \cup {<<RoleOf[s], handling[s].row, handling[s].terms>>}
        /\ IF BothSigned(row) THEN handling' = [handling EXCEPT ![s].pc = "lock"]
                              ELSE Finished(s)
     /\ UNCHANGED <<agreement, versions>>
  \/ /\ Handles(s, "sign", "lock")
     /\ Write(s, [Opened(s) EXCEPT !.status = "signed"])
     /\ handling' = [handling EXCEPT ![s].pc = "plan", ![s].terms = Opened(s).terms]
     /\ UNCHANGED <<endorsed, agreement, versions>>

\* Mutant: no unique index, the version goes to the end.
AnyNumber(number) == TRUE

\* agreement_version_agreement_number_unique.
IsFree(number) == number > Len(versions)

\* The version both parties signed, locked from the start.
AmendedVersion(row, terms, parent) ==
  [Version(terms, parent) EXCEPT !.signed = row.signed, !.locked = row.signed = Role]

\* applyAmendment: the current version is read, then applyAtomically makes
\* its successor, points the agreement at it, pauses it when the amendment
\* says so and closes the amendment: all or nothing.
applyAmendment(s) ==
  LET a == handling[s].row
      number == handling[s].version + 1
  IN
  \/ /\ Handles(s, "sign", "plan")
     /\ handling' = IF Exists /\ agreement.version # 0
          THEN [handling EXCEPT ![s].pc = "apply", ![s].version = agreement.version]
          ELSE [handling EXCEPT ![s] = NotHandling]
     /\ UNCHANGED <<amendments, endorsed, agreement, versions>>
  \/ /\ Handles(s, "sign", "apply")
     /\ IF IsFree(number)
          THEN /\ versions' = Append(versions,
                    AmendedVersion(amendments[a], MaxVersions + handling[s].terms,
                                   handling[s].version))
               /\ agreement' = [status |-> IF amendments[a].pause
                                             THEN "paused_by_amendment" ELSE agreement.status,
                                version |-> Len(versions) + 1]
               /\ Write(s, [Opened(s) EXCEPT !.status = "applied", !.made = @ \cup {Len(versions) + 1}])
          ELSE UNCHANGED <<agreement, versions, amendments>>
     /\ Finished(s)
     /\ UNCHANGED endorsed

AbandonAmendment(s) ==
  /\ handling[s].pc # "idle"
  /\ Finished(s)
  /\ UNCHANGED <<amendments, endorsed, agreement, versions>>

AmendmentNext ==
  /\ \E s \in Session :
       \/ proposeAmendment(s) \/ decideAmendment(s) \/ withdrawAmendment(s)
       \/ signAmendment(s) \/ applyAmendment(s) \/ AbandonAmendment(s)
  /\ UNCHANGED <<session, cancellations, consent>>

\* A foreign key ties an amendment to its agreement.
KeepsAmended == amendments # <<>> /\ Exists => agreement'.status # "deleted"

------------------------------------------------------------------------------
\* Properties.

\* Every version succeeds the one before it: of two amendments applied at once
\* neither replaces the other's terms unseen.
LineageIsLinear == \A v \in DOMAIN versions : versions[v].parent = v - 1
==============================================================================
