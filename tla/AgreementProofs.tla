--------------------------- MODULE AgreementProofs ---------------------------
(***************************************************************************)
(* The agreement, its amendments and its settlements, what the parties are *)
(* shown of it, and its partial payments, for any number of users,         *)
(* versions, amendments, proposals and payments.                           *)
(*                                                                         *)
(* What is said of the rows is not inductive: it holds because of what a   *)
(* request has in hand between its read and its write.  RequestOK,         *)
(* HandlingOK and SettlingOK say what that is, and LifeInv, AmendmentInv   *)
(* and SettlementInv put it together with the rows.  CollectInv says it of *)
(* the money of a settlement, PartialInv and DealtInv of a partial payment *)
(* and of the processes that apply it.                                     *)
(***************************************************************************)
EXTENDS Agreement, AgreementProgress, PartialPayment, SumProofs, SequenceTheorems, TLAPS

------------------------------------------------------------------------------
\* The inductive invariant of the agreement and its versions.

AnyStatus == AgreementStatus \cup {"absent", "deleted"}

AgreementRow == [status : AnyStatus, version : Nat]

VersionRow ==
  [terms : Nat, parent : Nat, past : BOOLEAN, frozen : BOOLEAN,
   signed : SUBSET Role, evidence : SUBSET Role, locked : BOOLEAN]

CancellationRow == [by : Role, status : {"pending", "accepted", "rejected"}]

RequestRow ==
  [op : {"none", "create", "delete", "submit", "acknowledge", "accept", "reject", "revise",
         "sign", "reviseDate", "cancel", "requestCancel", "decideCancel"},
   pc : {"idle", "write", "link", "freeze", "mark", "cancel"},
   status : AnyStatus \cup {"none"}, version : Nat, row : Nat]

RowsOK ==
  /\ agreement \in AgreementRow
  /\ versions \in Seq(VersionRow)
  /\ cancellations \in Seq(CancellationRow)
  /\ consent \subseteq Role \X Nat

LocksWhenSigned ==
  \A v \in DOMAIN versions : versions[v].locked <=> versions[v].signed = Role

\* The agreement points nowhere or at its last version, and the statuses that
\* suppose a version have one.
CurrentIsLast ==
  /\ agreement.version \in {0, Len(versions)}
  /\ agreement.status = "absent" => versions = <<>>
  /\ agreement.status = "awaiting_signatures" => agreement.version # 0

\* What a request has in hand: a version there is; a draft nobody points at
\* yet; a cancellation that has been answered.
RequestOK(r) ==
  /\ r \in RequestRow
  /\ r.version <= Len(versions) /\ r.row <= Len(cancellations)
  /\ r.op \in {"accept", "sign", "revise", "reviseDate"} =>
       r.version # 0 /\ agreement.version # 0
  /\ r.op = "create" => /\ agreement.status # "absent" /\ agreement.version = 0
                        /\ Len(versions) <= 1
                        /\ r.pc = "write" => versions = <<>>
  /\ r.op = "decideCancel" => r.row # 0
  /\ r.op = "decideCancel" /\ r.pc \in {"mark", "cancel"} =>
       cancellations[r.row].status # "pending"

RequestsOK ==
  /\ session \in [Session -> RequestRow]
  /\ \A s \in Session : RequestOK(session[s])
  /\ \A s, t \in Session : session[s].op = "create" /\ session[t].op = "create" => s = t

LifeInv ==
  /\ RowsOK /\ LocksWhenSigned /\ LineageIsLinear
  /\ CurrentIsLast /\ InForceIsSigned /\ RequestsOK

------------------------------------------------------------------------------
\* The inductive invariant of the amendments.

AmendmentRows ==
  [by : Role, pause : BOOLEAN, terms : Nat, status : AmendmentStatus,
   signed : SUBSET Role, made : SUBSET Nat]

HandlingRow ==
  [op : {"none", "accept", "reject", "counter", "withdraw", "sign"},
   pc : {"idle", "write", "lock", "plan", "apply"}, row : Nat, terms : Nat, version : Nat]

\* What a request to an amendment has in hand: a row there is; past the second
\* signature, one that both have signed; before it applies it, a version of the
\* agreement it is to succeed.
HandlingOK(h) ==
  /\ h.row <= Len(amendments)
  /\ h.pc # "idle" => h.row # 0
  /\ h.pc \in {"lock", "plan", "apply"} => amendments[h.row].signed = Role
  /\ h.pc = "apply" => /\ h.version # 0 /\ h.version <= Len(versions)
                       /\ agreement.version # 0

AmendedOK(row) ==
  /\ row.made \subseteq DOMAIN versions
  /\ row.status = "applied" => row.made # {}
  /\ row.status \in {"signed", "applied"} => row.signed = Role

AmendmentInv ==
  /\ amendments \in Seq(AmendmentRows)
  /\ handling \in [Session -> HandlingRow]
  /\ \A a \in DOMAIN amendments : AmendedOK(amendments[a])
  /\ \A s \in Session : HandlingOK(handling[s])
  /\ amendments # <<>> => Exists

\* What is signed leaves evidence, but for what an amendment made.
SignedLeavesEvidence ==
  amendments = <<>> => \A v \in DOMAIN versions : versions[v].signed \subseteq versions[v].evidence

------------------------------------------------------------------------------
\* The inductive invariant of the settlements.

ProposalRow ==
  [by : Role, amount : OfferAmount, mode : {"one_time", "scheduled"}, past : BOOLEAN,
   status : SettlementStatus]

SettlingRow ==
  [op : {"none", "accept", "reject", "counter", "record"},
   pc : {"idle", "write", "complete", "settle"}, row : Nat,
   amount : OfferAmount \cup {0}, payment : PaymentId \cup {"none"}]

JobRow ==
  [pc : {"idle", "sum", "fail", "complete", "settle"}, row : Nat, amount : OfferAmount \cup {0}]

\* What a request to a settlement has in hand: a row there is, and a payment
\* that is bound to one.
SettlingOK(h) ==
  /\ h.row <= Len(proposals)
  /\ h.pc # "idle" => h.row # 0
  /\ h.pc # "idle" /\ h.op = "record" => h.payment \in PaymentId /\ boundTo[h.payment] # 0

SettlementInv ==
  /\ proposals \in Seq(ProposalRow)
  /\ boundTo \in [PaymentId -> 0..Len(proposals)]
  /\ linked \subseteq {p \in PaymentId : boundTo[p] # 0}
  /\ \A p \in PaymentId : boundTo[p] # 0 => proposals[boundTo[p]].status # "proposed"
  /\ settling \in [Session -> SettlingRow] /\ \A s \in Session : SettlingOK(settling[s])
  /\ job \in JobRow /\ job.row <= Len(proposals)
  /\ job.pc # "idle" => job.row # 0

AgreementInv == LifeInv /\ AmendmentInv /\ SignedLeavesEvidence /\ SignedIsKept /\ SettlementInv
------------------------------------------------------------------------------
\* The rows and what is written to them.

\* A row of a table is written over.
LEMMA RowWritten ==
  ASSUME NEW S, NEW q \in Seq(S), NEW i \in DOMAIN q, NEW r \in S
  PROVE  /\ [q EXCEPT ![i] = r] \in Seq(S)
         /\ Len([q EXCEPT ![i] = r]) = Len(q) /\ DOMAIN [q EXCEPT ![i] = r] = DOMAIN q
         /\ [q EXCEPT ![i] = r][i] = r
         /\ \A j \in DOMAIN q : j # i => [q EXCEPT ![i] = r][j] = q[j]
OBVIOUS

\* A row is added at the end.
LEMMA RowAdded ==
  ASSUME NEW S, NEW q \in Seq(S), NEW r \in S
  PROVE  /\ Append(q, r) \in Seq(S) /\ Len(Append(q, r)) = Len(q) + 1
         /\ DOMAIN Append(q, r) = 1..(Len(q) + 1) /\ Len(q) \in Nat /\ DOMAIN q = 1..Len(q)
         /\ Append(q, r) # <<>>
         /\ Append(q, r)[Len(q) + 1] = r
         /\ \A j \in DOMAIN q : Append(q, r)[j] = q[j]
BY AppendProperties

\* The versions that the services make and the edits of one.
LEMMA NewVersionRow ==
  ASSUME NEW terms \in Nat, NEW parent \in Nat
  PROVE  /\ Version(terms, parent) \in VersionRow
         /\ Version(terms, parent).terms = terms /\ Version(terms, parent).parent = parent
         /\ Version(terms, parent).signed = {}
         /\ ~Version(terms, parent).locked
BY DEF Version, VersionRow

LEMMA VersionFields ==
  ASSUME NEW v \in VersionRow
  PROVE  /\ v.terms \in Nat /\ v.parent \in Nat
         /\ v.signed \subseteq Role /\ v.evidence \subseteq Role
BY DEF VersionRow

LEMMA VersionEdited ==
  ASSUME NEW v \in VersionRow
  PROVE  /\ LET r == [v EXCEPT !.frozen = TRUE] IN
              /\ r \in VersionRow /\ r.terms = v.terms /\ r.parent = v.parent
              /\ r.signed = v.signed /\ r.evidence = v.evidence /\ (r.locked <=> v.locked)
         /\ LET r == [v EXCEPT !.past = TRUE] IN
              /\ r \in VersionRow /\ r.terms = v.terms /\ r.parent = v.parent
              /\ r.signed = v.signed /\ r.evidence = v.evidence /\ (r.locked <=> v.locked)
BY DEF VersionRow

SignedBy(v, role, both) ==
  [v EXCEPT !.signed = @ \cup {role}, !.evidence = @ \cup {role}, !.locked = both]

LEMMA VersionSigned ==
  ASSUME NEW v \in VersionRow, NEW role \in Role, NEW both \in BOOLEAN
  PROVE  LET r == SignedBy(v, role, both) IN
           /\ r \in VersionRow /\ r.terms = v.terms /\ r.parent = v.parent
           /\ r.signed = v.signed \cup {role} /\ r.evidence = v.evidence \cup {role}
           /\ r.locked = both
BY DEF VersionRow, SignedBy
------------------------------------------------------------------------------
\* The steps of the agreement.

\* What no step of the agreement undoes: rows are added, never taken away, an
\* answer to a cancellation remains one, and a current version is replaced but
\* not lost.
Grows ==
  /\ Len(versions) <= Len(versions') /\ Len(cancellations) <= Len(cancellations')
  /\ agreement.status # "absent" => agreement'.status # "absent"
  /\ agreement.version # 0 => agreement'.version # 0
  /\ \A c \in DOMAIN cancellations :
       cancellations[c].status # "pending" => cancellations'[c].status # "pending"

\* Where a request stands after a step of its own.
LEMMA RequestMoves ==
  ASSUME RequestsOK, NEW s \in Session
  PROVE  /\ NoRequest \in RequestRow /\ NoRequest.op = "none" /\ NoRequest.version = 0
         /\ NoRequest.row = 0
         /\ \A r \in RequestRow : session' = [session EXCEPT ![s] = r] =>
              /\ session' \in [Session -> RequestRow] /\ session'[s] = r
              /\ \A t \in Session : t # s => session'[t] = session[t]
         /\ \A op, pc : At(s, op, pc, "done") =>
              /\ session[s].op = op /\ session[s].pc = pc
              /\ session' \in [Session -> RequestRow] /\ session'[s] = NoRequest
              /\ \A t \in Session : t # s => session'[t] = session[t]
         /\ \A op, pc : \A next \in {"link", "freeze", "mark", "cancel"} : At(s, op, pc, next) =>
              /\ session[s].op = op /\ session[s].pc = pc
              /\ session' \in [Session -> RequestRow]
              /\ session'[s].op = op /\ session'[s].pc = next
              /\ session'[s].version = session[s].version /\ session'[s].row = session[s].row
              /\ \A t \in Session : t # s => session'[t] = session[t]
<1>1. NoRequest \in RequestRow /\ NoRequest.op = "none" /\ NoRequest.version = 0 /\ NoRequest.row = 0
  BY DEF NoRequest, RequestRow
<1>2. session \in [Session -> RequestRow]
  BY DEF RequestsOK
<1>3. ASSUME NEW r \in RequestRow, session' = [session EXCEPT ![s] = r]
      PROVE  /\ session' \in [Session -> RequestRow] /\ session'[s] = r
             /\ \A t \in Session : t # s => session'[t] = session[t]
  BY <1>2, <1>3
<1>4. ASSUME NEW op, NEW pc, At(s, op, pc, "done")
      PROVE  /\ session[s].op = op /\ session[s].pc = pc
             /\ session' \in [Session -> RequestRow] /\ session'[s] = NoRequest
             /\ \A t \in Session : t # s => session'[t] = session[t]
  BY <1>1, <1>2, <1>4 DEF At
<1>5. ASSUME NEW op, NEW pc, NEW next \in {"link", "freeze", "mark", "cancel"}, At(s, op, pc, next)
      PROVE  /\ session[s].op = op /\ session[s].pc = pc
             /\ session' \in [Session -> RequestRow]
             /\ session'[s].op = op /\ session'[s].pc = next
             /\ session'[s].version = session[s].version /\ session'[s].row = session[s].row
             /\ \A t \in Session : t # s => session'[t] = session[t]
  <2>1. next # "done" /\ session[s] \in RequestRow
    BY <1>2, <1>5
  <2>2. session' = [session EXCEPT ![s] = [session[s] EXCEPT !.pc = next]]
    BY <1>5, <2>1 DEF At
  <2> QED BY <1>2, <1>5, <2>1, <2>2 DEF At, RequestRow
<1> QED BY <1>1, <1>3, <1>4, <1>5

\* The requests of the others stand on rows that only grow.
LEMMA RequestsKept ==
  ASSUME RowsOK, RowsOK', RequestsOK, Grows, session' \in [Session -> RequestRow],
         \A t \in Session :
           \/ RequestOK(session[t])'
           \/ /\ session'[t] = session[t]
              /\ session[t].op = "create" => agreement'.version = 0 /\ versions' = versions,
         \A t, u \in Session : session'[t].op = "create" /\ session'[u].op = "create" => t = u
  PROVE  RequestsOK'
<1>1. ASSUME NEW t \in Session, session'[t] = session[t],
             session[t].op = "create" => agreement'.version = 0 /\ versions' = versions
      PROVE  RequestOK(session[t])'
  <2>1. RequestOK(session[t]) /\ session[t] \in RequestRow
    BY DEF RequestsOK, RequestOK
  <2>2. /\ Len(versions) \in Nat /\ Len(versions') \in Nat
        /\ Len(cancellations) \in Nat /\ Len(cancellations') \in Nat
        /\ DOMAIN cancellations = 1..Len(cancellations)
    BY DEF RowsOK
  <2>3. session[t].version \in Nat /\ session[t].row \in Nat
    BY <2>1 DEF RequestRow
  <2> QED BY <1>1, <2>1, <2>2, <2>3 DEF RequestOK, Grows
<1> QED BY <1>1 DEF RequestsOK

\* Steps that write at most the status: a request has read what it needs, or it
\* ends, or goes on with what it had.
SignedStatus == InForce \cup {"paused_by_amendment", "paid_in_full"}

MayBecome(status) ==
  /\ status # "absent"
  /\ status = "awaiting_signatures" => agreement.version # 0
  /\ status \in SignedStatus => agreement.version # 0 /\ Current.locked

LEMMA StatusWritten ==
  ASSUME LifeInv, session' \in [Session -> RequestRow],
         \A t \in Session : \/ session'[t] = session[t]
                            \/ session'[t].op # "create" /\ RequestOK(session'[t]),
         versions' = versions, cancellations' = cancellations, consent' \subseteq Role \X Nat,
         agreement' \in AgreementRow, agreement'.version = agreement.version,
         agreement'.status = agreement.status \/ MayBecome(agreement'.status)
  PROVE  LifeInv' /\ Grows
<1>0. RowsOK /\ LocksWhenSigned /\ LineageIsLinear /\ CurrentIsLast /\ InForceIsSigned /\ RequestsOK
  BY DEF LifeInv
<1>1. RowsOK' /\ LocksWhenSigned' /\ LineageIsLinear'
  BY <1>0 DEF RowsOK, LocksWhenSigned, LineageIsLinear
<1>2. Grows
  BY <1>0 DEF Grows, MayBecome, RowsOK
<1>3. CurrentIsLast'
  BY <1>0 DEF CurrentIsLast, MayBecome
<1>4. InForceIsSigned'
  BY <1>0, Zenon DEF InForceIsSigned, MayBecome, Current, SignedStatus
<1>5. ASSUME NEW t \in Session
      PROVE  \/ RequestOK(session[t])'
             \/ /\ session'[t] = session[t]
                /\ session[t].op = "create" => agreement'.version = 0 /\ versions' = versions
  <2>1. CASE session'[t] = session[t]
    BY <1>0, <2>1 DEF RequestsOK, RequestOK
  <2>2. CASE session'[t].op # "create" /\ RequestOK(session'[t])
    BY <2>2 DEF RequestOK
  <2> QED BY <2>1, <2>2
<1>6. \A t, u \in Session : session'[t].op = "create" /\ session'[u].op = "create" => t = u
  BY <1>0 DEF RequestsOK
<1>7. RequestsOK'
  BY <1>0, <1>1, <1>2, <1>5, <1>6, RequestsKept
<1> QED BY <1>1, <1>2, <1>3, <1>4, <1>7 DEF LifeInv

\* A request reads the agreement.
LEMMA ReadStep ==
  ASSUME LifeInv, NEW s \in Session,
         NEW op \in {"delete", "submit", "acknowledge", "accept", "reject", "revise",
                     "sign", "reviseDate", "cancel", "requestCancel"},
         op \in {"accept", "sign", "revise", "reviseDate"} => agreement.version # 0,
         session' = [session EXCEPT ![s] =
           [op |-> op, pc |-> "write", status |-> agreement.status,
            version |-> agreement.version, row |-> 0]],
         UNCHANGED life
  PROVE  LifeInv' /\ Grows
<1> DEFINE r == [op |-> op, pc |-> "write", status |-> agreement.status,
                 version |-> agreement.version, row |-> 0]
<1>0. RowsOK /\ CurrentIsLast /\ RequestsOK
  BY DEF LifeInv
<1>1. /\ agreement \in AgreementRow /\ agreement.status \in AnyStatus
      /\ agreement.version \in Nat /\ agreement.version <= Len(versions)
      /\ Len(cancellations) \in Nat
  BY <1>0 DEF RowsOK, CurrentIsLast, AgreementRow
<1>2. r \in RequestRow /\ r.op # "create" /\ RequestOK(r)
  BY <1>1 DEF RequestRow, RequestOK
<1>3. session' = [session EXCEPT ![s] = r]
  OBVIOUS
<1> HIDE DEF r
<1>4. /\ session' \in [Session -> RequestRow] /\ session'[s] = r
      /\ \A t \in Session : t # s => session'[t] = session[t]
  BY <1>0, <1>2, <1>3, RequestMoves, ZenonT(60)
<1>5. \A t \in Session : \/ session'[t] = session[t]
                         \/ session'[t].op # "create" /\ RequestOK(session'[t])
  BY <1>2, <1>4
<1>6. UNCHANGED <<agreement, versions, cancellations, consent>> /\ consent \subseteq Role \X Nat
  BY <1>0 DEF life, RowsOK
<1> QED BY <1>1, <1>4, <1>5, <1>6, StatusWritten

\* A request ends, with the last of its writes to the status.
LEMMA LastStep ==
  ASSUME LifeInv, NEW s \in Session, session' = [session EXCEPT ![s] = NoRequest],
         versions' = versions, cancellations' = cancellations, consent' \subseteq Role \X Nat,
         \/ agreement' = agreement
         \/ \E x \in AnyStatus : MayBecome(x) /\ agreement' = [agreement EXCEPT !.status = x]
  PROVE  LifeInv' /\ Grows
<1>0. RowsOK /\ RequestsOK /\ agreement \in AgreementRow
  BY DEF LifeInv, RowsOK
<1>1. NoRequest.op # "create" /\ RequestOK(NoRequest)
  <2>1. Len(versions) \in Nat /\ Len(cancellations) \in Nat
    BY <1>0 DEF RowsOK
  <2> QED BY <2>1, <1>0 DEF RequestOK, NoRequest, RequestRow
<1>2. NoRequest \in RequestRow
  BY <1>1 DEF RequestOK
<1>3. /\ session' \in [Session -> RequestRow] /\ session'[s] = NoRequest
      /\ \A t \in Session : t # s => session'[t] = session[t]
  BY <1>0, <1>2 DEF RequestsOK
<1>4. \A t \in Session : \/ session'[t] = session[t]
                         \/ session'[t].op # "create" /\ RequestOK(session'[t])
  BY <1>1, <1>3
<1>5. /\ agreement' \in AgreementRow /\ agreement'.version = agreement.version
      /\ agreement'.status = agreement.status \/ MayBecome(agreement'.status)
  BY <1>0 DEF AgreementRow
<1> QED BY <1>3, <1>4, <1>5, StatusWritten

\* The statuses that suppose nothing.
LEMMA FreeStatus ==
  \A x \in InNegotiation \cup {"deleted", "mutually_canceled", "settled_in_full"} :
    x \in AnyStatus /\ MayBecome(x)
BY DEF MayBecome, SignedStatus, InForce, InNegotiation, AnyStatus, AgreementStatus

\* Requests that write the status alone, by id or under a guard.
LEMMA StatusActions ==
  ASSUME LifeInv, NEW s \in Session,
         \/ deleteDraft(s) \/ submitDraft(s) \/ acknowledgeDebt(s) \/ rejectAgreement(s)
         \/ cancelAgreement(s) \/ Abandon(s)
  PROVE  LifeInv' /\ Grows
<1>0. consent \subseteq Role \X Nat /\ RowsOK /\ RequestsOK
  BY DEF LifeInv, RowsOK
<1> USE DEF InNegotiation
<1>1. CASE deleteDraft(s)
  <2>1. CASE Reads(s, "delete", agreement.status = "draft" /\ RoleOf[s] = Originator)
    BY <2>1, ReadStep DEF Reads
  <2>2. CASE ~Reads(s, "delete", agreement.status = "draft" /\ RoleOf[s] = Originator)
    BY <1>0, <1>1, <2>2, LastStep, FreeStatus DEF deleteDraft, At
  <2> QED BY <2>1, <2>2
<1>2. CASE submitDraft(s)
  <2>1. CASE Reads(s, "submit", agreement.status = "draft")
    BY <2>1, ReadStep DEF Reads
  <2>2. CASE ~Reads(s, "submit", agreement.status = "draft")
    BY <1>0, <1>2, <2>2, LastStep, FreeStatus DEF submitDraft, At, updateStatus
  <2> QED BY <2>1, <2>2
<1>3. CASE acknowledgeDebt(s)
  <2> DEFINE ok == /\ agreement.status = "awaiting_debtor_acknowledgment"
                   /\ RoleOf[s] = "debtor"
  <2>1. CASE Reads(s, "acknowledge", ok)
    BY <2>1, ReadStep DEF Reads
  <2>2. CASE ~Reads(s, "acknowledge", ok)
    <3>1. consent' \subseteq Role \X Nat
      <4>1. CASE session[s].version = 0
        BY <1>0, <1>3, <2>2, <4>1 DEF acknowledgeDebt
      <4>2. CASE session[s].version # 0
        <5>1. session[s].version \in DOMAIN versions
          BY <1>0, <4>2 DEF RequestsOK, RequestOK, RowsOK, RequestRow
        <5>2. Seen(s) \in VersionRow
          BY <1>0, <5>1 DEF Seen, RowsOK
        <5>3. <<"debtor", Seen(s).terms>> \in Role \X Nat
          BY <5>2, VersionFields DEF Role
        <5>4. consent' = consent \cup {<<"debtor", Seen(s).terms>>}
          BY <1>3, <2>2, <4>2 DEF acknowledgeDebt
        <5> QED BY <1>0, <5>3, <5>4
      <4> QED BY <4>1, <4>2
    <3> QED BY <1>3, <2>2, <3>1, LastStep, FreeStatus DEF acknowledgeDebt, At, updateStatus
  <2> QED BY <2>1, <2>2
<1>4. CASE rejectAgreement(s)
  <2> DEFINE ok == /\ agreement.status = "awaiting_creditor_acceptance"
                   /\ RoleOf[s] = "creditor"
  <2>1. CASE Reads(s, "reject", ok)
    BY <2>1, ReadStep DEF Reads
  <2>2. CASE ~Reads(s, "reject", ok)
    BY <1>0, <1>4, <2>2, LastStep, FreeStatus DEF rejectAgreement, At, updateStatus
  <2> QED BY <2>1, <2>2
<1>5. CASE cancelAgreement(s)
  <2>1. CASE Reads(s, "cancel", agreement.status \in Cancellable)
    BY <2>1, ReadStep DEF Reads
  <2>2. CASE ~Reads(s, "cancel", agreement.status \in Cancellable)
    BY <1>0, <1>5, <2>2, LastStep, FreeStatus DEF cancelAgreement, At
  <2> QED BY <2>1, <2>2
<1>6. CASE Abandon(s)
  BY <1>0, <1>6, LastStep DEF Abandon, life
<1> QED BY <1>1, <1>2, <1>3, <1>4, <1>5, <1>6

\* A version is edited: it stays where it is, keeps a lock, and is locked by
\* both signatures.
LEMMA VersionWritten ==
  ASSUME LifeInv, NEW v \in DOMAIN versions, NEW r \in VersionRow, agreement.version # 0,
         r.parent = versions[v].parent, r.locked <=> r.signed = Role,
         versions[v].locked => r.locked,
         versions' = [versions EXCEPT ![v] = r], cancellations' = cancellations,
         consent' = consent,
         \/ agreement' = agreement
         \/ /\ agreement' = [agreement EXCEPT !.status = "first_payment_pending"]
            /\ agreement.version = v /\ r.locked,
         session' \in [Session -> RequestRow],
         \A t \in Session : \/ session'[t] = session[t]
                            \/ session'[t].op # "create" /\ RequestOK(session'[t])
  PROVE  LifeInv' /\ Grows
<1>0. RowsOK /\ LocksWhenSigned /\ LineageIsLinear /\ CurrentIsLast /\ InForceIsSigned /\ RequestsOK
  BY DEF LifeInv
<1>1. /\ versions' \in Seq(VersionRow) /\ Len(versions') = Len(versions)
      /\ DOMAIN versions' = DOMAIN versions /\ versions'[v] = r
      /\ \A w \in DOMAIN versions : w # v => versions'[w] = versions[w]
      /\ DOMAIN versions = 1..Len(versions) /\ Len(versions) \in Nat
  <2>1. versions \in Seq(VersionRow)
    BY <1>0 DEF RowsOK
  <2> QED BY <2>1, RowWritten
<1>2. /\ agreement' \in AgreementRow /\ agreement'.version = agreement.version
      /\ agreement'.status # agreement.status =>
           agreement'.status = "first_payment_pending" /\ agreement.version = v /\ r.locked
      /\ agreement.version \in Nat
  BY <1>0 DEF RowsOK, AgreementRow, AnyStatus, AgreementStatus, InForce
<1>3. RowsOK'
  BY <1>0, <1>1, <1>2 DEF RowsOK
<1>4. LocksWhenSigned' /\ LineageIsLinear'
  <2>1. ASSUME NEW w \in DOMAIN versions
        PROVE  /\ versions'[w].locked <=> versions'[w].signed = Role
               /\ versions'[w].parent = w - 1
    <3>1. CASE w = v
      BY <1>0, <1>1, <3>1 DEF LineageIsLinear
    <3>2. CASE w # v
      BY <1>0, <1>1, <3>2 DEF LineageIsLinear, LocksWhenSigned
    <3> QED BY <3>1, <3>2
  <2> QED BY <1>1, <2>1 DEF LocksWhenSigned, LineageIsLinear
<1>5. CurrentIsLast'
  <2>1. versions # <<>> /\ agreement'.status # "absent"
    BY <1>0, <1>1, <1>2 DEF CurrentIsLast
  <2> QED BY <1>0, <1>1, <1>2, <2>1 DEF CurrentIsLast
<1>6. InForceIsSigned'
  <2> DEFINE n == agreement.version
  <2>1. n \in DOMAIN versions /\ Current' = versions'[n] /\ Current = versions[n]
    BY <1>0, <1>1, <1>2 DEF CurrentIsLast, Current
  <2>2. Current.locked => Current'.locked
    BY <1>1, <2>1
  <2>3. agreement'.status # agreement.status => Current'.locked
    BY <1>1, <1>2, <2>1
  <2> HIDE DEF n
  <2> QED BY <1>0, <1>2, <2>2, <2>3, Zenon DEF InForceIsSigned
<1>7. Grows
  BY <1>0, <1>1, <1>2 DEF Grows, RowsOK
<1>8. \A t \in Session : session[t].op # "create"
  BY <1>0 DEF RequestsOK, RequestOK
<1>9. ASSUME NEW t \in Session
      PROVE  \/ RequestOK(session[t])'
             \/ session'[t] = session[t] /\ session[t].op # "create"
  BY <1>1, <1>2, <1>8 DEF RequestOK
<1>10. \A t \in Session : session'[t].op # "create"
  BY <1>8
<1>11. RequestsOK'
  BY <1>0, <1>3, <1>7, <1>9, <1>10, RequestsKept
<1> QED BY <1>3, <1>4, <1>5, <1>6, <1>7, <1>11 DEF LifeInv

\* A version succeeds the current one.
LEMMA VersionAdded ==
  ASSUME LifeInv, NEW r \in VersionRow, NEW x \in AnyStatus \ {"absent"},
         agreement.version # 0, r.parent = Len(versions), r.locked <=> r.signed = Role,
         x \in SignedStatus => r.locked,
         versions' = Append(versions, r), cancellations' = cancellations,
         consent' \subseteq Role \X Nat,
         agreement' = [status |-> x, version |-> Len(versions) + 1],
         session' \in [Session -> RequestRow],
         \A t \in Session : \/ session'[t] = session[t]
                            \/ session'[t].op # "create" /\ RequestOK(session'[t])
  PROVE  LifeInv' /\ Grows
<1>0. RowsOK /\ LocksWhenSigned /\ LineageIsLinear /\ CurrentIsLast /\ InForceIsSigned /\ RequestsOK
  BY DEF LifeInv
<1>1. /\ versions' \in Seq(VersionRow) /\ Len(versions') = Len(versions) + 1
      /\ DOMAIN versions' = 1..(Len(versions) + 1) /\ versions'[Len(versions) + 1] = r
      /\ \A w \in DOMAIN versions : versions'[w] = versions[w]
      /\ DOMAIN versions = 1..Len(versions) /\ Len(versions) \in Nat
  <2>1. versions \in Seq(VersionRow)
    BY <1>0 DEF RowsOK
  <2> QED BY <2>1, RowAdded
<1>2. /\ agreement' \in AgreementRow /\ agreement'.version = Len(versions) + 1
      /\ agreement'.status = x /\ Current' = r
  BY <1>1 DEF AgreementRow, Current
<1>3. RowsOK'
  BY <1>0, <1>1, <1>2 DEF RowsOK
<1>4. LocksWhenSigned' /\ LineageIsLinear'
  <2>1. ASSUME NEW w \in DOMAIN versions'
        PROVE  /\ versions'[w].locked <=> versions'[w].signed = Role
               /\ versions'[w].parent = w - 1
    <3>1. CASE w = Len(versions) + 1
      BY <1>1, <3>1
    <3>2. CASE w # Len(versions) + 1
      BY <1>0, <1>1, <3>2 DEF LineageIsLinear, LocksWhenSigned
    <3> QED BY <3>1, <3>2
  <2> QED BY <2>1 DEF LocksWhenSigned, LineageIsLinear
<1>5. CurrentIsLast'
  BY <1>1, <1>2 DEF CurrentIsLast
<1>6. InForceIsSigned'
  <2>1. agreement'.version # 0
    BY <1>1, <1>2
  <2> QED BY <1>2, <2>1, Zenon DEF InForceIsSigned, SignedStatus
<1>7. Grows
  BY <1>0, <1>1, <1>2 DEF Grows, RowsOK
<1>8. \A t \in Session : session[t].op # "create"
  BY <1>0 DEF RequestsOK, RequestOK
<1>9. ASSUME NEW t \in Session
      PROVE  \/ RequestOK(session[t])'
             \/ session'[t] = session[t] /\ session[t].op # "create"
  <2>1. CASE session'[t] = session[t]
    BY <1>8, <2>1
  <2>2. CASE session'[t].op # "create" /\ RequestOK(session'[t])
    <3>1. session'[t].version \in Nat
      BY <2>2 DEF RequestOK, RequestRow
    <3> QED BY <1>1, <1>2, <2>2, <3>1 DEF RequestOK
  <2> QED BY <2>1, <2>2
<1>10. \A t \in Session : session'[t].op # "create"
  BY <1>8
<1>11. RequestsOK'
  BY <1>0, <1>3, <1>7, <1>9, <1>10, RequestsKept
<1> QED BY <1>3, <1>4, <1>5, <1>6, <1>7, <1>11 DEF LifeInv

\* What a request has in hand before it writes.
LEMMA InHand ==
  ASSUME LifeInv, NEW s \in Session
  PROVE  /\ RequestOK(session[s]) /\ RequestOK(NoRequest) /\ NoRequest.op # "create"
         /\ NoRequest \in RequestRow /\ RowsOK /\ RequestsOK
         /\ session[s].op \in {"accept", "sign", "revise", "reviseDate"} =>
              /\ session[s].version \in DOMAIN versions /\ Seen(s) \in VersionRow
              /\ agreement.version # 0 /\ agreement.version = Len(versions)
              /\ agreement.version \in DOMAIN versions
<1>0. RowsOK /\ RequestsOK /\ CurrentIsLast
  BY DEF LifeInv
<1>1. RequestOK(session[s]) /\ session[s] \in RequestRow
  BY <1>0 DEF RequestsOK
<1>2. /\ Len(versions) \in Nat /\ Len(cancellations) \in Nat
      /\ DOMAIN versions = 1..Len(versions)
      /\ \A v \in DOMAIN versions : versions[v] \in VersionRow
      /\ agreement.version \in Nat /\ session[s].version \in Nat
  BY <1>0, <1>1 DEF RowsOK, RequestRow, AgreementRow
<1>3. NoRequest \in RequestRow
  BY <1>0, RequestMoves
<1>4. RequestOK(NoRequest) /\ NoRequest.op # "create"
  BY <1>2, <1>3 DEF RequestOK, NoRequest
<1> QED BY <1>0, <1>1, <1>2, <1>3, <1>4 DEF RequestOK, CurrentIsLast, Seen

\* A step of s leaves the requests of the others.
LEMMA Alone ==
  ASSUME RequestsOK, NEW s \in Session, NEW r \in RequestRow, r.op # "create", RequestOK(r),
         session' = [session EXCEPT ![s] = r]
  PROVE  /\ session' \in [Session -> RequestRow] /\ session'[s] = r
         /\ \A t \in Session : \/ session'[t] = session[t]
                               \/ session'[t].op # "create" /\ RequestOK(session'[t])
<1>1. /\ session' \in [Session -> RequestRow] /\ session'[s] = r
      /\ \A t \in Session : t # s => session'[t] = session[t]
  BY DEF RequestsOK
<1> QED BY <1>1

\* creditorDecide, accept.
LEMMA AcceptStep ==
  ASSUME LifeInv, NEW s \in Session, acceptAgreement(s)
  PROVE  LifeInv' /\ Grows
<1> DEFINE ok == /\ agreement.status = "awaiting_creditor_acceptance"
                 /\ RoleOf[s] = "creditor" /\ agreement.version # 0
<1>0. consent \subseteq Role \X Nat
  BY DEF LifeInv, RowsOK
<1>1. CASE Reads(s, "accept", ok)
  BY <1>1, ReadStep DEF Reads
<1>2. CASE At(s, "accept", "write", "done") /\ ~MayAccept(s) /\ UNCHANGED life
  BY <1>0, <1>2, LastStep DEF At, life
<1>3. CASE /\ At(s, "accept", "write", "freeze") /\ MayAccept(s)
           /\ agreement' = [agreement EXCEPT !.status = "awaiting_signatures"]
           /\ consent' = consent \cup {<<"creditor", Seen(s).terms>>}
           /\ UNCHANGED <<versions, cancellations>>
  <2>1. session[s].op = "accept" /\ agreement.version # 0 /\ Seen(s) \in VersionRow
    BY <1>3, InHand DEF At
  <2> DEFINE r == [session[s] EXCEPT !.pc = "freeze"]
  <2>2. session' = [session EXCEPT ![s] = r]
    BY <1>3 DEF At
  <2>3. r \in RequestRow /\ r.op # "create" /\ RequestOK(r)
    <3>1. session[s] \in RequestRow /\ RequestOK(session[s])
      BY InHand DEF RequestOK
    <3>2. r \in RequestRow /\ r.op = "accept" /\ r.version = session[s].version
          /\ r.row = session[s].row
      BY <2>1, <3>1 DEF RequestRow
    <3> HIDE DEF r
    <3> QED BY <2>1, <3>1, <3>2 DEF RequestOK
  <2> HIDE DEF r
  <2>4. /\ session' \in [Session -> RequestRow]
        /\ \A t \in Session : \/ session'[t] = session[t]
                              \/ session'[t].op # "create" /\ RequestOK(session'[t])
    BY <2>2, <2>3, Alone, InHand
  <2>5. consent' \subseteq Role \X Nat
    <3>1. <<"creditor", Seen(s).terms>> \in Role \X Nat
      BY <2>1, VersionFields DEF Role
    <3> QED BY <1>0, <1>3, <3>1
  <2>6. /\ agreement' \in AgreementRow /\ agreement'.version = agreement.version
        /\ MayBecome(agreement'.status)
    <3>1. agreement \in AgreementRow
      BY InHand DEF RowsOK
    <3> QED BY <1>3, <2>1, <3>1
        DEF AgreementRow, AnyStatus, AgreementStatus, MayBecome, SignedStatus, InForce
  <2> QED BY <1>3, <2>4, <2>5, <2>6, StatusWritten
<1>4. CASE At(s, "accept", "freeze", "done") /\ UNCHANGED life
  BY <1>0, <1>4, LastStep DEF At, life
<1>5. CASE /\ At(s, "accept", "freeze", "done")
           /\ versions' = [versions EXCEPT ![session[s].version].frozen = TRUE]
           /\ UNCHANGED <<agreement, cancellations, consent>>
  <2> DEFINE v == session[s].version
             r == [versions[v] EXCEPT !.frozen = TRUE]
  <2>1. v \in DOMAIN versions /\ versions[v] \in VersionRow /\ agreement.version # 0
    BY <1>5, InHand DEF At, Seen
  <2>2. versions' = [versions EXCEPT ![v] = r]
    BY <1>5
  <2>3. /\ r \in VersionRow /\ r.parent = versions[v].parent
        /\ r.signed = versions[v].signed /\ (r.locked <=> versions[v].locked)
    BY <2>1, VersionEdited
  <2>4. versions[v].locked <=> versions[v].signed = Role
    BY <2>1 DEF LifeInv, LocksWhenSigned
  <2>5. session' = [session EXCEPT ![s] = NoRequest]
    BY <1>5 DEF At
  <2>6. /\ session' \in [Session -> RequestRow]
        /\ \A t \in Session : \/ session'[t] = session[t]
                              \/ session'[t].op # "create" /\ RequestOK(session'[t])
    BY <2>5, Alone, InHand
  <2>7. UNCHANGED <<agreement, cancellations, consent>>
    BY <1>5
  <2> HIDE DEF r, v
  <2> QED BY <2>7, <2>1, <2>2, <2>3, <2>4, <2>6, VersionWritten
<1>6. CASE MayAccept(s)
  BY <1>1, <1>3, <1>4, <1>5, <1>6 DEF acceptAgreement, life
<1>7. CASE ~MayAccept(s)
  BY <1>1, <1>2, <1>4, <1>5, <1>7 DEF acceptAgreement, life
<1> QED BY <1>6, <1>7

\* signAgreement.
LEMMA SignStep ==
  ASSUME LifeInv, NEW s \in Session, signAgreement(s)
  PROVE  LifeInv' /\ Grows
<1> DEFINE role == RoleOf[s]
           v    == session[s].version
           ok   == /\ agreement.status = "awaiting_signatures"
                   /\ agreement.version # 0 /\ MaySign(Current, role)
           both == CompletesSignatures(versions[v], role)
           r    == SignedBy(versions[v], role, both)
<1>0. consent \subseteq Role \X Nat /\ role \in Role
  BY SessionAssumption DEF LifeInv, RowsOK
<1>1. CASE Reads(s, "sign", ok)
  BY <1>1, ReadStep DEF Reads
<1>2. CASE At(s, "sign", "write", "done") /\ UNCHANGED life
  BY <1>0, <1>2, LastStep DEF At, life
<1>3. CASE /\ At(s, "sign", "write", "done") /\ StillSignable(s) /\ MaySign(versions[v], role)
           /\ versions' = [versions EXCEPT ![v].signed = @ \cup {role},
                                           ![v].evidence = @ \cup {role},
                                           ![v].locked = both]
           /\ agreement' = IF both THEN [agreement EXCEPT !.status = "first_payment_pending"]
                                   ELSE agreement
           /\ UNCHANGED <<cancellations, consent>>
  <2>1. v \in DOMAIN versions /\ versions[v] \in VersionRow /\ agreement.version # 0
    BY <1>3, InHand DEF At, Seen
  <2>2. both \in BOOLEAN
    <3>1. (Other(role) \in versions[v].signed) \in BOOLEAN
      OBVIOUS
    <3> QED BY <3>1 DEF CompletesSignatures
  <2>3. versions' = [versions EXCEPT ![v] = r]
    BY <1>3 DEF SignedBy
  <2>4. both <=> Other(role) \in versions[v].signed
    BY DEF CompletesSignatures
  <2> HIDE DEF both, v, role
  <2>5. /\ r \in VersionRow /\ r.parent = versions[v].parent
        /\ r.signed = versions[v].signed \cup {role} /\ r.locked = both
    BY <1>0, <2>1, <2>2, VersionSigned
  <2>6. role \notin versions[v].signed /\ versions[v].signed \subseteq Role /\ ~versions[v].locked
    BY <1>3, <2>1, VersionFields DEF MaySign
  <2> HIDE DEF r
  <2>7. r.locked <=> r.signed = Role
    BY <1>0, <2>4, <2>5, <2>6 DEF Other, Role
  <2>8. agreement.version = v
    BY <1>3 DEF StillSignable, v
  <2>9. \/ agreement' = agreement
        \/ /\ agreement' = [agreement EXCEPT !.status = "first_payment_pending"]
           /\ agreement.version = v /\ r.locked
    <3>1. agreement' = agreement \/ both
      BY <1>3
    <3> QED BY <1>3, <2>5, <2>8, <3>1
  <2>10. session' = [session EXCEPT ![s] = NoRequest]
    BY <1>3 DEF At
  <2>11. /\ session' \in [Session -> RequestRow]
         /\ \A t \in Session : \/ session'[t] = session[t]
                               \/ session'[t].op # "create" /\ RequestOK(session'[t])
    BY <2>10, Alone, InHand
  <2>12. UNCHANGED <<cancellations, consent>>
    BY <1>3
  <2> QED BY <2>1, <2>3, <2>5, <2>6, <2>7, <2>9, <2>11, <2>12, VersionWritten
<1>4. CASE At(s, "sign", "write", "done") /\ ~Reads(s, "sign", ok)
  <2>1. CASE StillSignable(s) /\ MaySign(versions[v], role)
    BY <1>3, <1>4, <2>1 DEF signAgreement
  <2>2. CASE ~(StillSignable(s) /\ MaySign(versions[v], role))
    BY <1>2, <1>4, <2>2 DEF signAgreement, life
  <2> QED BY <2>1, <2>2
<1> QED BY <1>1, <1>4 DEF signAgreement

\* The two revisions.
LEMMA ReviseStep ==
  ASSUME LifeInv, NEW s \in Session, reviseTerms(s) \/ reviseFirstPaymentDate(s)
  PROVE  LifeInv' /\ Grows
<1> DEFINE okTerms == /\ agreement.status \in InNegotiation \ {"draft"}
                      /\ RoleOf[s] = Reviewer(agreement.status)
                      /\ agreement.version # 0 /\ ~Current.locked
           okDate  == /\ agreement.status = "awaiting_signatures"
                      /\ agreement.version # 0 /\ ~Current.locked
           n       == Len(versions) + 1
<1>0. /\ consent \subseteq Role \X Nat /\ RoleOf[s] \in Role /\ Len(versions) \in Nat
      /\ agreement.status \in AnyStatus
  BY SessionAssumption DEF LifeInv, RowsOK, AgreementRow
<1>1. CASE Reads(s, "revise", okTerms)
  BY <1>1, ReadStep DEF Reads
<1>2. CASE Reads(s, "reviseDate", okDate)
  BY <1>2, ReadStep DEF Reads
<1>3. ASSUME NEW op, At(s, op, "write", "done"), UNCHANGED life PROVE LifeInv' /\ Grows
  BY <1>0, <1>3, LastStep DEF At, life
<1>4. ASSUME NEW op, At(s, op, "write", "done")
      PROVE  /\ session' \in [Session -> RequestRow]
             /\ \A t \in Session : \/ session'[t] = session[t]
                                   \/ session'[t].op # "create" /\ RequestOK(session'[t])
  <2>1. session' = [session EXCEPT ![s] = NoRequest]
    BY <1>4 DEF At
  <2> QED BY <2>1, Alone, InHand
<1>5. CASE /\ At(s, "revise", "write", "done")
           /\ versions' = Append(versions, Version(n, agreement.version))
           /\ agreement' = [status |-> IF RoleOf[s] = "debtor" THEN "awaiting_creditor_acceptance"
                                                        ELSE "awaiting_debtor_acknowledgment",
                            version |-> n]
           /\ consent' = consent \cup {<<RoleOf[s], n>>}
           /\ UNCHANGED cancellations
  <2> DEFINE x == IF RoleOf[s] = "debtor" THEN "awaiting_creditor_acceptance"
                                          ELSE "awaiting_debtor_acknowledgment"
             r == Version(n, agreement.version)
  <2>1. agreement.version # 0 /\ agreement.version = Len(versions) /\ n \in Nat
    BY <1>0, <1>5, InHand DEF At
  <2>2. r \in VersionRow /\ r.parent = Len(versions) /\ r.signed = {} /\ ~r.locked
    BY <1>0, <2>1, NewVersionRow
  <2>3. x \in AnyStatus \ {"absent"} /\ x \notin SignedStatus
    BY DEF AnyStatus, AgreementStatus, InNegotiation, SignedStatus, InForce
  <2>4. consent' \subseteq Role \X Nat
    BY <1>0, <1>5, <2>1
  <2>5. versions' = Append(versions, r) /\ agreement' = [status |-> x, version |-> Len(versions) + 1]
        /\ cancellations' = cancellations
    BY <1>5
  <2>6. r.locked <=> r.signed = Role
    BY <2>2 DEF Role
  <2> HIDE DEF r, x
  <2> QED BY <1>4, <1>5, <2>1, <2>2, <2>3, <2>4, <2>5, <2>6, VersionAdded
<1>6. CASE /\ At(s, "reviseDate", "write", "done") /\ MayReviseDate(s)
           /\ NewVersion(Version(Seen(s).terms, agreement.version))
           /\ UNCHANGED <<cancellations, consent>>
  <2> DEFINE x == agreement.status
             r == Version(Seen(s).terms, agreement.version)
  <2>1. agreement.version # 0 /\ agreement.version = Len(versions) /\ Seen(s).terms \in Nat
    BY <1>6, InHand, VersionFields DEF At
  <2>2. r \in VersionRow /\ r.parent = Len(versions) /\ r.signed = {} /\ ~r.locked
    BY <1>0, <2>1, NewVersionRow
  <2>3. x \in AnyStatus \ {"absent"} /\ x \notin SignedStatus
    BY <1>0, <1>6 DEF MayReviseDate, SignedStatus, InForce
  <2>4. versions' = Append(versions, r) /\ agreement' = [agreement EXCEPT !.version = Len(versions) + 1]
        /\ cancellations' = cancellations /\ consent' = consent
    BY <1>6 DEF NewVersion
  <2>5. agreement' = [status |-> x, version |-> Len(versions) + 1]
    BY <2>4, InHand DEF RowsOK, AgreementRow
  <2>6. r.locked <=> r.signed = Role
    BY <2>2 DEF Role
  <2> HIDE DEF r, x
  <2> QED BY <1>0, <1>4, <1>6, <2>1, <2>2, <2>3, <2>4, <2>5, <2>6, VersionAdded
<1>7. CASE reviseTerms(s)
  <2> DEFINE stands == /\ agreement.status = session[s].status
                       /\ agreement.version = session[s].version
                       /\ ~Current.locked
  <2>1. CASE stands
    BY <1>1, <1>5, <1>7, <2>1 DEF reviseTerms
  <2>2. CASE ~stands
    BY <1>1, <1>3, <1>7, <2>2 DEF reviseTerms, life
  <2> QED BY <2>1, <2>2
<1>8. CASE reviseFirstPaymentDate(s)
  <2>1. CASE MayReviseDate(s)
    BY <1>2, <1>6, <1>8, <2>1 DEF reviseFirstPaymentDate
  <2>2. CASE ~MayReviseDate(s)
    BY <1>2, <1>3, <1>8, <2>2 DEF reviseFirstPaymentDate, life
  <2> QED BY <2>1, <2>2
<1> QED BY <1>7, <1>8

\* What happens to the agreement without a request.
LEMMA OutsideStep ==
  ASSUME LifeInv, DatePasses \/ decideAndApply
  PROVE  LifeInv' /\ Grows
<1>0. RowsOK /\ RequestsOK /\ CurrentIsLast /\ InForceIsSigned /\ LocksWhenSigned
  BY DEF LifeInv
<1>1. CASE DatePasses
  <2> DEFINE v == agreement.version
             r == [versions[v] EXCEPT !.past = TRUE]
  <2>1. v # 0 /\ v \in DOMAIN versions /\ versions[v] \in VersionRow
    BY <1>0, <1>1 DEF DatePasses, CurrentIsLast, RowsOK, AgreementRow
  <2>2. /\ versions' = [versions EXCEPT ![v] = r]
        /\ UNCHANGED <<agreement, session, cancellations, consent>>
    BY <1>1 DEF DatePasses
  <2>3. /\ r \in VersionRow /\ r.parent = versions[v].parent
        /\ r.signed = versions[v].signed /\ (r.locked <=> versions[v].locked)
    BY <2>1, VersionEdited
  <2>4. versions[v].locked <=> versions[v].signed = Role
    BY <1>0, <2>1 DEF LocksWhenSigned
  <2>5. session' \in [Session -> RequestRow] /\ \A t \in Session : session'[t] = session[t]
    BY <1>0, <2>2 DEF RequestsOK
  <2> HIDE DEF r, v
  <2>6. agreement.version # 0
    BY <2>1 DEF v
  <2> QED BY <2>1, <2>2, <2>3, <2>4, <2>5, <2>6, VersionWritten
<1>2. CASE decideAndApply
  <2>1. PICK x \in {"active", "paid_in_full"} : agreement' = [agreement EXCEPT !.status = x]
    BY <1>2 DEF decideAndApply
  <2>2. /\ UNCHANGED <<versions, session, cancellations, consent>>
        /\ agreement.version # 0 /\ Current.locked
    BY <1>0, <1>2 DEF decideAndApply, InForceIsSigned
  <2>3. MayBecome(x) /\ x \in AnyStatus
    BY <2>2 DEF MayBecome, AnyStatus, AgreementStatus, InForce
  <2>4. agreement' \in AgreementRow /\ agreement'.version = agreement.version /\ agreement'.status = x
    BY <1>0, <2>1, <2>3 DEF RowsOK, AgreementRow
  <2>5. session' \in [Session -> RequestRow] /\ consent' \subseteq Role \X Nat
    BY <1>0, <2>2 DEF RequestsOK, RowsOK
  <2> QED BY <2>2, <2>3, <2>4, <2>5, StatusWritten
<1> QED BY <1>1, <1>2

\* createDraft.
LEMMA CreateStep ==
  ASSUME LifeInv, NEW s \in Session, createDraft(s)
  PROVE  LifeInv' /\ Grows
<1>0. /\ RowsOK /\ LocksWhenSigned /\ LineageIsLinear /\ CurrentIsLast /\ InForceIsSigned
      /\ RequestsOK /\ session[s] \in RequestRow /\ RequestOK(session[s])
  BY DEF LifeInv, RequestsOK
<1>1. /\ agreement \in AgreementRow /\ agreement.version \in Nat /\ Len(versions) \in Nat
      /\ agreement.status \in AnyStatus
      /\ DOMAIN versions = 1..Len(versions) /\ versions \in Seq(VersionRow)
      /\ DOMAIN cancellations = 1..Len(cancellations) /\ Len(cancellations) \in Nat
  BY <1>0 DEF RowsOK, AgreementRow
<1>2. CASE /\ session[s].pc = "idle" /\ agreement.status = "absent"
           /\ agreement' = [status |-> "draft", version |-> 0]
           /\ session' = [session EXCEPT ![s].op = "create", ![s].pc = "write"]
           /\ UNCHANGED <<versions, cancellations, consent>>
  <2>1. agreement.version = 0 /\ versions = <<>> /\ \A t \in Session : session[t].op # "create"
    BY <1>0, <1>1, <1>2 DEF CurrentIsLast, RequestsOK, RequestOK
  <2>2. agreement' \in AgreementRow /\ agreement'.version = 0 /\ agreement'.status = "draft"
    BY <1>2 DEF AgreementRow, AnyStatus, AgreementStatus, InNegotiation
  <2> DEFINE r == [session[s] EXCEPT !.op = "create", !.pc = "write"]
  <2>3. session' = [session EXCEPT ![s] = r]
    BY <1>2
  <2>4. r \in RequestRow /\ r.op = "create" /\ r.version = session[s].version
        /\ r.row = session[s].row
    BY <1>0 DEF RequestRow
  <2> HIDE DEF r
  <2>5. /\ session' \in [Session -> RequestRow] /\ session'[s] = r
        /\ \A t \in Session : t # s => session'[t] = session[t]
    BY <1>0, <2>3, <2>4 DEF RequestsOK
  <2>6. RowsOK' /\ LocksWhenSigned' /\ LineageIsLinear'
    BY <1>0, <1>2, <2>2 DEF RowsOK, LocksWhenSigned, LineageIsLinear
  <2>7. CurrentIsLast' /\ Grows
    BY <1>1, <1>2, <2>1, <2>2 DEF CurrentIsLast, Grows
  <2>8. InForceIsSigned'
    BY <2>2 DEF InForceIsSigned, InForce
  <2>9. RequestOK(session[s])'
    BY <1>0, <1>2, <2>1, <2>2, <2>4, <2>5 DEF RequestOK
  <2>10. RequestsOK'
    BY <1>0, <2>1, <2>5, <2>6, <2>7, <2>9, RequestsKept
  <2> QED BY <2>6, <2>7, <2>8, <2>10 DEF LifeInv
<1>3. CASE /\ At(s, "create", "write", "link")
           /\ versions' = IF Exists THEN <<Version(1, 0)>> ELSE versions
           /\ UNCHANGED <<agreement, cancellations, consent>>
  <2>1. /\ session[s].op = "create" /\ session[s].pc = "write"
        /\ session' \in [Session -> RequestRow]
        /\ session'[s].op = "create" /\ session'[s].pc = "link"
        /\ session'[s].version = session[s].version /\ session'[s].row = session[s].row
        /\ \A t \in Session : t # s => session'[t] = session[t]
    <3>1. At(s, "create", "write", "link")
      BY <1>3
    <3> QED BY <1>0, <3>1, RequestMoves
  <2>2. /\ agreement.version = 0 /\ versions = <<>> /\ agreement.status # "absent"
        /\ \A t \in Session : t # s => session[t].op # "create"
    BY <1>0, <2>1 DEF RequestOK, RequestsOK
  <2>3. /\ Version(1, 0) \in VersionRow /\ Version(1, 0).parent = 0
        /\ Version(1, 0).signed = {} /\ ~Version(1, 0).locked
    BY NewVersionRow
  <2>4. /\ versions' \in Seq(VersionRow) /\ Len(versions') \in {0, 1}
        /\ \A v \in DOMAIN versions' : v = 1 /\ versions'[v] = Version(1, 0)
    <3> HIDE DEF Exists
    <3> DEFINE first == Version(1, 0)
    <3>1. first \in VersionRow
      BY <2>3
    <3>2. versions' = <<first>> \/ versions' = <<>>
      BY <1>3, <2>2
    <3> HIDE DEF first
    <3>3. /\ versions' \in Seq(VersionRow) /\ Len(versions') \in {0, 1}
          /\ \A v \in DOMAIN versions' : v = 1 /\ versions'[v] = first
      <4>1. CASE versions' = <<first>>
        BY <3>1, <4>1
      <4>2. CASE versions' = <<>>
        BY <4>2
      <4> QED BY <3>2, <4>1, <4>2
    <3> QED BY <3>3 DEF first
  <2>5. RowsOK'
    BY <1>0, <1>3, <2>4 DEF RowsOK
  <2>6. LocksWhenSigned' /\ LineageIsLinear'
    BY <2>3, <2>4 DEF LocksWhenSigned, LineageIsLinear, Role
  <2>7. CurrentIsLast' /\ Grows
    BY <1>0, <1>1, <1>3, <2>2, <2>4 DEF CurrentIsLast, Grows
  <2>8. InForceIsSigned'
    BY <1>0, <1>3, <2>2 DEF InForceIsSigned
  <2>9. RequestOK(session[s])'
    <3>1. session[s].version = 0
      BY <1>0, <1>1, <2>2 DEF RequestOK, RequestRow
    <3> QED BY <1>0, <1>3, <2>1, <2>2, <2>4, <3>1 DEF RequestOK
  <2>10. RequestsOK'
    BY <1>0, <2>1, <2>2, <2>5, <2>7, <2>9, RequestsKept
  <2> QED BY <2>5, <2>6, <2>7, <2>8, <2>10 DEF LifeInv
<1>4. CASE /\ At(s, "create", "link", "done")
           /\ agreement' = [agreement EXCEPT !.version = Len(versions)]
           /\ UNCHANGED <<versions, cancellations, consent>>
  <2>1. /\ session[s].op = "create" /\ session' \in [Session -> RequestRow]
        /\ session'[s] = NoRequest
        /\ \A t \in Session : t # s => session'[t] = session[t]
    BY <1>0, <1>4, RequestMoves
  <2>2. /\ agreement.version = 0 /\ agreement.status # "absent"
        /\ \A t \in Session : t # s => session[t].op # "create"
    BY <1>0, <2>1 DEF RequestOK, RequestsOK
  <2>3. /\ agreement' \in AgreementRow /\ agreement'.version = Len(versions)
        /\ agreement'.status = agreement.status
    BY <1>1, <1>4 DEF AgreementRow
  <2>4. RowsOK' /\ LocksWhenSigned' /\ LineageIsLinear'
    BY <1>0, <1>4, <2>3 DEF RowsOK, LocksWhenSigned, LineageIsLinear
  <2>5. CurrentIsLast' /\ Grows
    BY <1>0, <1>1, <1>4, <2>2, <2>3 DEF CurrentIsLast, Grows
  <2>6. InForceIsSigned'
    BY <1>0, <2>2, <2>3 DEF InForceIsSigned
  <2>7. RequestOK(session[s])' /\ session'[s].op # "create"
    BY <1>1, <1>4, <2>1, InHand DEF RequestOK, NoRequest
  <2>8. RequestsOK'
    BY <1>0, <2>1, <2>2, <2>4, <2>5, <2>7, RequestsKept
  <2> QED BY <2>4, <2>5, <2>6, <2>8 DEF LifeInv
<1> QED BY <1>2, <1>3, <1>4 DEF createDraft

\* The rows of cancellation requests are added and answered; an answer remains
\* an answer.
LEMMA CancellationWritten ==
  ASSUME LifeInv, UNCHANGED <<agreement, versions, consent>>,
         cancellations' \in Seq(CancellationRow), Len(cancellations) <= Len(cancellations'),
         \A c \in DOMAIN cancellations :
           cancellations[c].status # "pending" => cancellations'[c].status # "pending",
         session' \in [Session -> RequestRow],
         \A t \in Session : \/ session'[t] = session[t]
                            \/ session'[t].op # "create" /\ RequestOK(session[t])'
  PROVE  LifeInv' /\ Grows
<1>0. RowsOK /\ LocksWhenSigned /\ LineageIsLinear /\ CurrentIsLast /\ InForceIsSigned /\ RequestsOK
  BY DEF LifeInv
<1>1. RowsOK' /\ LocksWhenSigned' /\ LineageIsLinear' /\ CurrentIsLast'
  BY <1>0 DEF RowsOK, LocksWhenSigned, LineageIsLinear, CurrentIsLast
<1>2. InForceIsSigned'
  BY <1>0, Zenon DEF InForceIsSigned, Current
<1>3. Grows
  BY <1>0 DEF Grows, RowsOK
<1>4. RequestsOK'
  <2>1. \A t \in Session : session[t].op = "create" => agreement.version = 0
    BY <1>0 DEF RequestsOK, RequestOK
  <2>2. \A t, u \in Session : session'[t].op = "create" /\ session'[u].op = "create" => t = u
    BY <1>0 DEF RequestsOK
  <2> QED BY <1>0, <1>1, <1>3, <2>1, <2>2, RequestsKept
<1> QED BY <1>1, <1>2, <1>3, <1>4 DEF LifeInv

\* requestCancellation and decideCancellation.
LEMMA CancellationStep ==
  ASSUME LifeInv, NEW s \in Session, requestCancellation(s) \/ decideCancellation(s)
  PROVE  LifeInv' /\ Grows
<1>0. /\ RowsOK /\ RequestsOK /\ session[s] \in RequestRow /\ RequestOK(session[s])
      /\ consent \subseteq Role \X Nat
  BY DEF LifeInv, RequestsOK, RowsOK
<1>1. /\ cancellations \in Seq(CancellationRow) /\ Len(cancellations) \in Nat
      /\ DOMAIN cancellations = 1..Len(cancellations) /\ Len(versions) \in Nat
      /\ \A c \in DOMAIN cancellations : cancellations[c] \in CancellationRow
      /\ session[s].row \in Nat /\ session[s].version \in Nat
  BY <1>0 DEF RowsOK, RequestRow
<1>2. RoleOf[s] \in Role
  BY SessionAssumption
<1>3. CASE requestCancellation(s)
  <2> DEFINE ok == /\ agreement.status \in InForce
                   /\ \A c \in DOMAIN cancellations : cancellations[c].status # "pending"
             row == [by |-> RoleOf[s], status |-> "pending"]
  <2>1. CASE Reads(s, "requestCancel", ok)
    BY <2>1, ReadStep DEF Reads
  <2>2. CASE /\ At(s, "requestCancel", "write", "done")
             /\ cancellations' = Append(cancellations, row)
             /\ UNCHANGED <<agreement, versions, consent>>
    <3>1. row \in CancellationRow
      BY <1>2 DEF CancellationRow
    <3> HIDE DEF row
    <3>2. /\ cancellations' \in Seq(CancellationRow)
          /\ Len(cancellations') = Len(cancellations) + 1
          /\ \A c \in DOMAIN cancellations : cancellations'[c] = cancellations[c]
      BY <1>1, <2>2, <3>1, RowAdded
    <3>3. /\ session' \in [Session -> RequestRow] /\ session'[s] = NoRequest
          /\ \A t \in Session : t # s => session'[t] = session[t]
      BY <1>0, <2>2, RequestMoves
    <3>4. session'[s].op # "create" /\ RequestOK(session[s])'
      BY <1>1, <2>2, <3>2, <3>3, InHand DEF RequestOK, NoRequest
    <3>5. Len(cancellations) <= Len(cancellations')
      BY <1>1, <3>2
    <3> QED BY <2>2, <3>2, <3>3, <3>4, <3>5, CancellationWritten
  <2> QED BY <1>3, <2>1, <2>2 DEF requestCancellation
<1>4. ASSUME NEW answer \in {"accepted", "rejected"},
             session[s].op = "decideCancel", session[s].pc = "write",
             cancellations' = [cancellations EXCEPT ![session[s].row].status = answer]
      PROVE  /\ cancellations' \in Seq(CancellationRow) /\ Len(cancellations') = Len(cancellations)
             /\ cancellations'[session[s].row].status = answer
             /\ \A c \in DOMAIN cancellations :
                  cancellations[c].status # "pending" => cancellations'[c].status # "pending"
  <2> DEFINE c == session[s].row
             row == [cancellations[c] EXCEPT !.status = answer]
  <2>1. c \in DOMAIN cancellations
    BY <1>0, <1>1, <1>4 DEF RequestOK
  <2>2. row \in CancellationRow /\ row.status = answer
    BY <1>1, <1>4, <2>1 DEF CancellationRow
  <2>3. cancellations' = [cancellations EXCEPT ![c] = row]
    BY <1>4
  <2> HIDE DEF c, row
  <2>4. /\ cancellations' \in Seq(CancellationRow) /\ Len(cancellations') = Len(cancellations)
        /\ cancellations'[c] = row
        /\ \A d \in DOMAIN cancellations : d # c => cancellations'[d] = cancellations[d]
    BY <1>1, <2>1, <2>2, <2>3, RowWritten
  <2> QED BY <1>4, <2>2, <2>4 DEF c
<1>5. CASE decideCancellation(s)
  <2>1. CASE /\ \E c \in DOMAIN cancellations :
                  session' = [session EXCEPT ![s] =
                    [NoRequest EXCEPT !.op = "decideCancel", !.pc = "write", !.row = c]]
             /\ UNCHANGED life
    <3>1. PICK c \in DOMAIN cancellations :
            session' = [session EXCEPT ![s] =
              [NoRequest EXCEPT !.op = "decideCancel", !.pc = "write", !.row = c]]
      BY <2>1
    <3> DEFINE r == [NoRequest EXCEPT !.op = "decideCancel", !.pc = "write", !.row = c]
    <3>2. /\ r \in RequestRow /\ r.op = "decideCancel" /\ r.pc = "write"
          /\ r.row = c /\ r.version = 0
      <4>1. c \in Nat
        BY <1>1, <3>1
      <4>2. NoRequest \in RequestRow /\ NoRequest.version = 0
        BY <1>0, RequestMoves
      <4> QED BY <4>1, <4>2 DEF RequestRow
    <3>3. session' = [session EXCEPT ![s] = r]
      BY <3>1
    <3> HIDE DEF r
    <3>4. RequestOK(r) /\ r.op # "create"
      BY <1>1, <3>1, <3>2 DEF RequestOK
    <3>5. /\ session' \in [Session -> RequestRow]
          /\ \A t \in Session : \/ session'[t] = session[t]
                                \/ session'[t].op # "create" /\ RequestOK(session'[t])
      BY <1>0, <3>2, <3>3, <3>4, Alone
    <3>6. UNCHANGED <<agreement, versions, cancellations, consent>> /\ agreement \in AgreementRow
      BY <1>0, <2>1 DEF life, RowsOK
    <3> QED BY <1>0, <3>5, <3>6, StatusWritten
  <2>2. CASE /\ At(s, "decideCancel", "write", "mark")
             /\ cancellations' = [cancellations EXCEPT ![session[s].row].status = "accepted"]
             /\ UNCHANGED <<agreement, versions, consent>>
    <3>1. At(s, "decideCancel", "write", "mark")
      BY <2>2
    <3>2. /\ session[s].op = "decideCancel" /\ session[s].pc = "write"
          /\ session' \in [Session -> RequestRow]
          /\ session'[s].op = "decideCancel" /\ session'[s].pc = "mark"
          /\ session'[s].version = session[s].version /\ session'[s].row = session[s].row
          /\ \A t \in Session : t # s => session'[t] = session[t]
      BY <1>0, <3>1, RequestMoves
    <3>3. /\ cancellations' \in Seq(CancellationRow) /\ Len(cancellations') = Len(cancellations)
          /\ cancellations'[session[s].row].status = "accepted"
          /\ \A c \in DOMAIN cancellations :
               cancellations[c].status # "pending" => cancellations'[c].status # "pending"
      BY <1>4, <2>2, <3>2
    <3>4. session'[s].op # "create" /\ RequestOK(session[s])'
      BY <1>0, <1>1, <2>2, <3>2, <3>3 DEF RequestOK
    <3>5. Len(cancellations) <= Len(cancellations')
      BY <1>1, <3>3
    <3> QED BY <2>2, <3>2, <3>3, <3>4, <3>5, CancellationWritten
  <2>3. CASE /\ At(s, "decideCancel", "write", "done")
             /\ cancellations' = [cancellations EXCEPT ![session[s].row].status = "rejected"]
             /\ UNCHANGED <<agreement, versions, consent>>
    <3>1. At(s, "decideCancel", "write", "done")
      BY <2>3
    <3>2. /\ session[s].op = "decideCancel" /\ session[s].pc = "write"
          /\ session' \in [Session -> RequestRow] /\ session'[s] = NoRequest
          /\ \A t \in Session : t # s => session'[t] = session[t]
      BY <1>0, <3>1, RequestMoves
    <3>3. /\ cancellations' \in Seq(CancellationRow) /\ Len(cancellations') = Len(cancellations)
          /\ \A c \in DOMAIN cancellations :
               cancellations[c].status # "pending" => cancellations'[c].status # "pending"
      BY <1>4, <2>3, <3>2
    <3>4. session'[s].op # "create" /\ RequestOK(session[s])'
      BY <1>1, <2>3, <3>2, <3>3, InHand DEF RequestOK, NoRequest
    <3>5. Len(cancellations) <= Len(cancellations')
      BY <1>1, <3>3
    <3> QED BY <2>3, <3>2, <3>3, <3>4, <3>5, CancellationWritten
  <2>4. CASE At(s, "decideCancel", "mark", "cancel") /\ UNCHANGED life
    <3>1. /\ session[s].op = "decideCancel" /\ session[s].pc = "mark"
          /\ session' \in [Session -> RequestRow]
          /\ session'[s].op = "decideCancel" /\ session'[s].pc = "cancel"
          /\ session'[s].version = session[s].version /\ session'[s].row = session[s].row
          /\ \A t \in Session : t # s => session'[t] = session[t]
      BY <1>0, <2>4, RequestMoves
    <3>2. session'[s].op # "create" /\ RequestOK(session'[s])
      BY <1>0, <3>1 DEF RequestOK
    <3>3. UNCHANGED <<agreement, versions, cancellations, consent>> /\ agreement \in AgreementRow
      BY <1>0, <2>4 DEF life, RowsOK
    <3> QED BY <1>0, <3>1, <3>2, <3>3, StatusWritten
  <2>5. CASE At(s, "decideCancel", "mark", "done") /\ UNCHANGED life
    BY <1>0, <2>5, LastStep DEF At, life
  <2>6. CASE /\ At(s, "decideCancel", "cancel", "done")
             /\ updateStatus("mutually_canceled")
             /\ UNCHANGED <<versions, cancellations, consent>>
    BY <1>0, <2>6, LastStep, FreeStatus DEF At, updateStatus
  <2>7. \/ At(s, "decideCancel", "mark", IF agreement.status \in InForce THEN "cancel" ELSE "done") =>
             At(s, "decideCancel", "mark", "cancel")
        \/ At(s, "decideCancel", "mark", IF agreement.status \in InForce THEN "cancel" ELSE "done") =>
             At(s, "decideCancel", "mark", "done")
    <3>1. CASE agreement.status \in InForce
      BY <3>1
    <3>2. CASE agreement.status \notin InForce
      BY <3>2
    <3> QED BY <3>1, <3>2
  <2> QED BY <1>5, <2>1, <2>2, <2>3, <2>4, <2>5, <2>6, <2>7 DEF decideCancellation
<1> QED BY <1>3, <1>5

\* A step of the lifecycle keeps its invariant and undoes nothing.
LEMMA LifeStep ==
  ASSUME LifeInv, Next
  PROVE  LifeInv' /\ Grows
<1>1. ASSUME NEW s \in Session, LifecycleStep(s) PROVE LifeInv' /\ Grows
  BY <1>1, StatusActions, AcceptStep, SignStep, ReviseStep, CreateStep, CancellationStep
     DEF LifecycleStep
<1> QED BY <1>1, OutsideStep DEF Next

LEMMA LifeStutters ==
  ASSUME LifeInv, UNCHANGED vars
  PROVE  LifeInv'
<1>1. UNCHANGED <<agreement, versions, cancellations, consent, session>>
  BY DEF vars, life
<1>2. /\ RowsOK /\ RequestsOK /\ agreement \in AgreementRow
      /\ session \in [Session -> RequestRow] /\ consent \subseteq Role \X Nat
  BY DEF LifeInv, RowsOK, RequestsOK
<1> QED BY <1>1, <1>2, StatusWritten

LEMMA LifeInitially == Init => LifeInv
<1> SUFFICES ASSUME Init PROVE LifeInv
  OBVIOUS
<1> USE DEF Init
<1>1. agreement \in AgreementRow /\ agreement.version = 0 /\ agreement.status = "absent"
  BY DEF AgreementRow, AnyStatus
<1>2. RowsOK /\ LocksWhenSigned /\ LineageIsLinear
  BY <1>1 DEF RowsOK, LocksWhenSigned, LineageIsLinear
<1>3. CurrentIsLast /\ InForceIsSigned
  BY <1>1 DEF CurrentIsLast, InForceIsSigned, InForce
<1>4. RequestsOK
  BY DEF RequestsOK, RequestOK, NoRequest, RequestRow
<1> QED BY <1>2, <1>3, <1>4 DEF LifeInv

------------------------------------------------------------------------------
\* Signatures are asked for what the creditor accepted.

\* Steps that leave the terms of the current version alone, and those that
\* leave no signature to ask for.
LEMMA AcceptedQuietly ==
  ASSUME LifeInv, SignedAsAccepted, consent \subseteq consent',
         \/ agreement'.status # "awaiting_signatures"
         \/ /\ agreement'.status = agreement.status
            /\ Current'.terms = Current.terms
  PROVE  SignedAsAccepted'
BY DEF SignedAsAccepted

LEMMA AcceptedByOne ==
  ASSUME LifeInv, SignedAsAccepted, NEW s \in Session, LifecycleStep(s)
  PROVE  SignedAsAccepted'
<1>0. /\ agreement \in AgreementRow /\ versions \in Seq(VersionRow) /\ CurrentIsLast
      /\ Len(versions) \in Nat /\ DOMAIN versions = 1..Len(versions)
      /\ agreement.version \in Nat /\ RequestOK(session[s])
  BY DEF LifeInv, RowsOK, AgreementRow, RequestsOK
<1>1. ASSUME UNCHANGED <<agreement, versions>>, consent \subseteq consent' PROVE SignedAsAccepted'
  BY <1>1, AcceptedQuietly DEF Current
<1>2. ASSUME agreement'.status # "awaiting_signatures" PROVE SignedAsAccepted'
  BY <1>2 DEF SignedAsAccepted
<1>3. ASSUME NEW x \in {"draft", "deleted", "mutually_canceled", "awaiting_debtor_acknowledgment",
                        "awaiting_creditor_acceptance", "first_payment_pending"},
             agreement' = [agreement EXCEPT !.status = x]
      PROVE  SignedAsAccepted'
  BY <1>0, <1>2, <1>3 DEF AgreementRow
<1> USE DEF life
<1>4. CASE createDraft(s)
  <2>1. CASE agreement' = [status |-> "draft", version |-> 0]
    BY <1>2, <2>1
  <2>2. CASE At(s, "create", "write", "link") /\ UNCHANGED agreement
    BY <1>0, <1>2, <2>2 DEF At, RequestOK, CurrentIsLast
  <2>3. CASE At(s, "create", "link", "done") /\ agreement' = [agreement EXCEPT !.version = Len(versions)]
    BY <1>0, <1>2, <2>3 DEF At, RequestOK, CurrentIsLast, AgreementRow
  <2> QED BY <1>4, <2>1, <2>2, <2>3 DEF createDraft
<1>5. CASE deleteDraft(s)
  BY <1>1, <1>3, <1>5 DEF deleteDraft, Reads
<1>6. CASE submitDraft(s)
  BY <1>1, <1>3, <1>6 DEF submitDraft, Reads, updateStatus
<1>7. CASE acknowledgeDebt(s)
  BY <1>1, <1>3, <1>7 DEF acknowledgeDebt, Reads, updateStatus
<1>8. CASE rejectAgreement(s)
  BY <1>1, <1>3, <1>8 DEF rejectAgreement, Reads, updateStatus
<1>9. CASE cancelAgreement(s)
  BY <1>1, <1>3, <1>9 DEF cancelAgreement, Reads
<1>10. CASE Abandon(s)
  BY <1>1, <1>10 DEF Abandon
<1>11. CASE requestCancellation(s)
  BY <1>1, <1>11 DEF requestCancellation, Reads
<1>12. CASE decideCancellation(s)
  BY <1>1, <1>3, <1>12 DEF decideCancellation, updateStatus
<1>13. CASE acceptAgreement(s)
  <2>1. CASE UNCHANGED <<agreement, versions, consent>>
    BY <1>1, <2>1
  <2>2. CASE /\ MayAccept(s) /\ agreement' = [agreement EXCEPT !.status = "awaiting_signatures"]
             /\ consent' = consent \cup {<<"creditor", Seen(s).terms>>} /\ versions' = versions
    <3>1. agreement'.version = agreement.version /\ agreement.version = session[s].version
      BY <1>0, <2>2 DEF MayAccept, AgreementRow
    <3>2. Current' = Seen(s)
      BY <2>2, <3>1 DEF Current, Seen
    <3> QED BY <2>2, <3>2 DEF SignedAsAccepted
  <2>3. CASE /\ At(s, "accept", "freeze", "done")
             /\ versions' = [versions EXCEPT ![session[s].version].frozen = TRUE]
             /\ UNCHANGED <<agreement, consent>>
    <3> DEFINE v == session[s].version
               r == [versions[v] EXCEPT !.frozen = TRUE]
               n == agreement.version
    <3>1. v \in DOMAIN versions /\ versions[v] \in VersionRow /\ n \in DOMAIN versions
      BY <2>3, InHand DEF At, Seen
    <3>2. r \in VersionRow /\ r.terms = versions[v].terms
      BY <3>1, VersionEdited
    <3>3. versions' = [versions EXCEPT ![v] = r]
      BY <2>3
    <3>4. UNCHANGED <<agreement, consent>> /\ Current' = versions'[n] /\ Current = versions[n]
      BY <2>3 DEF Current
    <3> HIDE DEF r, v, n
    <3>5. versions'[n].terms = versions[n].terms
      BY <1>0, <3>1, <3>2, <3>3, RowWritten
    <3> QED BY <3>4, <3>5, AcceptedQuietly
  <2>4. CASE MayAccept(s)
    BY <1>13, <2>1, <2>2, <2>3, <2>4 DEF acceptAgreement, Reads
  <2>5. CASE ~MayAccept(s)
    BY <1>13, <2>1, <2>3, <2>5 DEF acceptAgreement, Reads
  <2> QED BY <2>4, <2>5
<1>14. CASE reviseTerms(s)
  <2>1. CASE UNCHANGED <<agreement, versions, consent>>
    BY <1>1, <2>1
  <2>2. CASE agreement' = [status |-> IF RoleOf[s] = "debtor" THEN "awaiting_creditor_acceptance"
                                                        ELSE "awaiting_debtor_acknowledgment",
                           version |-> Len(versions) + 1]
    BY <1>2, <2>2
  <2> QED BY <1>14, <2>1, <2>2 DEF reviseTerms, Reads
<1>15. CASE reviseFirstPaymentDate(s)
  <2>1. CASE UNCHANGED <<agreement, versions, consent>>
    BY <1>1, <2>1
  <2>2. CASE /\ At(s, "reviseDate", "write", "done") /\ MayReviseDate(s)
             /\ NewVersion(Version(Seen(s).terms, agreement.version)) /\ UNCHANGED consent
    <3> DEFINE r == Version(Seen(s).terms, agreement.version)
    <3>1. /\ Seen(s) \in VersionRow /\ Seen(s).terms \in Nat /\ Seen(s) = Current
      BY <2>2, InHand, VersionFields DEF At, Seen, Current, MayReviseDate
    <3>2. r \in VersionRow /\ r.terms = Seen(s).terms
      BY <1>0, <3>1, NewVersionRow
    <3>3. /\ versions' = Append(versions, r)
          /\ agreement' = [agreement EXCEPT !.version = Len(versions) + 1]
      BY <2>2 DEF NewVersion
    <3> HIDE DEF r
    <3>4. /\ agreement'.status = agreement.status /\ agreement'.version = Len(versions) + 1
          /\ Current' = versions'[Len(versions) + 1]
      BY <1>0, <3>3 DEF AgreementRow, Current
    <3>5. versions'[Len(versions) + 1] = r
      BY <1>0, <3>2, <3>3, RowAdded
    <3> QED BY <2>2, <3>1, <3>2, <3>4, <3>5, AcceptedQuietly
  <2> QED BY <1>15, <2>1, <2>2 DEF reviseFirstPaymentDate, Reads
<1>16. CASE signAgreement(s)
  <2> DEFINE role == RoleOf[s]
             v    == session[s].version
             both == CompletesSignatures(versions[v], role)
             r    == SignedBy(versions[v], role, both)
             n    == agreement.version
  <2>1. CASE UNCHANGED <<agreement, versions, consent>>
    BY <1>1, <2>1
  <2>2. CASE /\ At(s, "sign", "write", "done")
             /\ versions' = [versions EXCEPT ![v].signed = @ \cup {role},
                                             ![v].evidence = @ \cup {role},
                                             ![v].locked = both]
             /\ agreement' = IF both THEN [agreement EXCEPT !.status = "first_payment_pending"]
                                     ELSE agreement
             /\ UNCHANGED consent
    <3>1. v \in DOMAIN versions /\ versions[v] \in VersionRow /\ n \in DOMAIN versions
      BY <2>2, InHand DEF At, Seen
    <3>2. both \in BOOLEAN /\ role \in Role
      <4>1. (Other(role) \in versions[v].signed) \in BOOLEAN
        OBVIOUS
      <4> QED BY <4>1, SessionAssumption DEF CompletesSignatures
    <3>3. versions' = [versions EXCEPT ![v] = r]
      BY <2>2 DEF SignedBy
    <3>4. \/ agreement' = agreement
          \/ agreement' = [agreement EXCEPT !.status = "first_payment_pending"]
      BY <2>2
    <3> HIDE DEF both, v, role
    <3>5. r \in VersionRow /\ r.terms = versions[v].terms
      BY <3>1, <3>2, VersionSigned
    <3> HIDE DEF r
    <3>6. versions'[n].terms = versions[n].terms
      <4> HIDE DEF n
      <4> QED BY <1>0, <3>1, <3>3, <3>5, RowWritten
    <3>7. CASE agreement' = agreement
      <4>1. Current' = versions'[n] /\ Current = versions[n] /\ agreement'.status = agreement.status
            /\ consent' = consent
        BY <2>2, <3>7 DEF Current
      <4> HIDE DEF n
      <4> QED BY <3>6, <4>1, AcceptedQuietly
    <3>8. CASE agreement' = [agreement EXCEPT !.status = "first_payment_pending"]
      BY <1>3, <3>8
    <3> QED BY <3>4, <3>7, <3>8
  <2>3. CASE StillSignable(s) /\ MaySign(versions[v], role)
    BY <1>16, <2>1, <2>2, <2>3 DEF signAgreement, Reads
  <2>4. CASE ~(StillSignable(s) /\ MaySign(versions[v], role))
    BY <1>16, <2>1, <2>4 DEF signAgreement, Reads
  <2> QED BY <2>3, <2>4
<1> QED BY <1>4, <1>5, <1>6, <1>7, <1>8, <1>9, <1>10, <1>11, <1>12, <1>13, <1>14, <1>15, <1>16
       DEF LifecycleStep

LEMMA AcceptedStep ==
  ASSUME LifeInv, SignedAsAccepted, Next
  PROVE  SignedAsAccepted'
<1>1. CASE DatePasses
  <2> DEFINE v == agreement.version
             r == [versions[v] EXCEPT !.past = TRUE]
  <2>1. v \in DOMAIN versions /\ versions[v] \in VersionRow /\ versions \in Seq(VersionRow)
    BY <1>1 DEF DatePasses, LifeInv, CurrentIsLast, RowsOK, AgreementRow
  <2>2. r \in VersionRow /\ r.terms = versions[v].terms
    BY <2>1, VersionEdited
  <2>3. versions' = [versions EXCEPT ![v] = r] /\ UNCHANGED <<agreement, consent>>
    BY <1>1 DEF DatePasses
  <2>4. Current' = versions'[v] /\ Current = versions[v]
    BY <2>3 DEF Current
  <2> HIDE DEF r, v
  <2>5. versions'[v].terms = versions[v].terms
    BY <2>1, <2>2, <2>3, RowWritten
  <2> QED BY <2>3, <2>4, <2>5, AcceptedQuietly
<1>2. CASE decideAndApply
  <2>1. agreement'.status \in {"active", "paid_in_full"}
    BY <1>2 DEF decideAndApply, LifeInv, RowsOK, AgreementRow
  <2> QED BY <2>1 DEF SignedAsAccepted
<1> QED BY <1>1, <1>2, AcceptedByOne DEF Next

\* The signatures an agreement waits for are asked for terms that the creditor
\* has agreed to, whichever revisions raced the acceptance
\* (applyAcceptanceTransitionAtomically, applyFirstPaymentDateRevisionAtomically),
\* for any number of users and versions.
THEOREM SignaturesAreForAcceptedTerms == Spec => []SignedAsAccepted
<1> DEFINE Inv == LifeInv /\ SignedAsAccepted
<1>1. Init => Inv
  <2>1. Init => SignedAsAccepted
    BY DEF Init, SignedAsAccepted
  <2> QED BY <2>1, LifeInitially
<1>2. Inv /\ [Next]_vars => Inv'
  <2> SUFFICES ASSUME Inv, [Next]_vars PROVE Inv'
    OBVIOUS
  <2>1. CASE Next
    BY <2>1, LifeStep, AcceptedStep
  <2>2. CASE UNCHANGED vars
    <3>1. SignedAsAccepted'
      BY <2>2 DEF SignedAsAccepted, Current, vars, life
    <3> QED BY <2>2, <3>1, LifeStutters
  <2> QED BY <2>1, <2>2
<1>3. Inv => SignedAsAccepted
  OBVIOUS
<1> QED BY <1>1, <1>2, <1>3, PTL DEF Spec

------------------------------------------------------------------------------
\* The steps of the amendments.

\* What is written to an amendment.
LEMMA AmendmentEdited ==
  ASSUME NEW row \in AmendmentRows
  PROVE  /\ \A x \in AmendmentStatus :
              LET r == [row EXCEPT !.status = x] IN
              r \in AmendmentRows /\ r.status = x /\ r.signed = row.signed /\ r.made = row.made
         /\ \A role \in Role :
              LET r == [row EXCEPT !.signed = @ \cup {role}] IN
              /\ r \in AmendmentRows /\ r.status = row.status /\ r.made = row.made
              /\ r.signed = row.signed \cup {role}
         /\ \A role \in Role :
              LET r == [row EXCEPT !.by = role, !.terms = @ + 1] IN
              r \in AmendmentRows /\ r.status = row.status /\ r.signed = row.signed /\ r.made = row.made
         /\ \A n \in Nat :
              LET r == [row EXCEPT !.status = "applied", !.made = @ \cup {n}] IN
              /\ r \in AmendmentRows /\ r.status = "applied" /\ r.signed = row.signed
              /\ r.made = row.made \cup {n}
<1>1. ASSUME NEW x \in AmendmentStatus
      PROVE  LET r == [row EXCEPT !.status = x] IN
             r \in AmendmentRows /\ r.status = x /\ r.signed = row.signed /\ r.made = row.made
  BY <1>1 DEF AmendmentRows
<1>2. ASSUME NEW role \in Role
      PROVE  LET r == [row EXCEPT !.signed = @ \cup {role}] IN
             /\ r \in AmendmentRows /\ r.status = row.status /\ r.made = row.made
             /\ r.signed = row.signed \cup {role}
  BY <1>2 DEF AmendmentRows
<1>3. ASSUME NEW role \in Role
      PROVE  LET r == [row EXCEPT !.by = role, !.terms = @ + 1] IN
             r \in AmendmentRows /\ r.status = row.status /\ r.signed = row.signed /\ r.made = row.made
  <2> DEFINE n == row.terms + 1
  <2>1. n \in Nat
    BY DEF AmendmentRows
  <2> HIDE DEF n
  <2>2. LET r == [row EXCEPT !.by = role, !.terms = n] IN
        r \in AmendmentRows /\ r.status = row.status /\ r.signed = row.signed /\ r.made = row.made
    BY <1>3, <2>1 DEF AmendmentRows
  <2> QED BY <2>2 DEF n
<1>4. ASSUME NEW n \in Nat
      PROVE  LET r == [row EXCEPT !.status = "applied", !.made = @ \cup {n}] IN
             /\ r \in AmendmentRows /\ r.status = "applied" /\ r.signed = row.signed
             /\ r.made = row.made \cup {n}
  <2>1. row.made \cup {n} \subseteq Nat /\ "applied" \in AmendmentStatus
    BY <1>4 DEF AmendmentRows, AmendmentStatus
  <2> QED BY <2>1 DEF AmendmentRows
<1> QED BY <1>1, <1>2, <1>3, <1>4

LEMMA AmendmentFields ==
  ASSUME NEW row \in AmendmentRows
  PROVE  row.signed \subseteq Role /\ row.made \subseteq Nat /\ row.terms \in Nat
         /\ row.by \in Role /\ row.status \in AmendmentStatus
BY DEF AmendmentRows

\* The version that an amendment signed by both makes.
LEMMA AmendedVersionRow ==
  ASSUME NEW row, row.signed = Role, NEW terms \in Nat, NEW parent \in Nat
  PROVE  /\ AmendedVersion(row, terms, parent) \in VersionRow
         /\ AmendedVersion(row, terms, parent).parent = parent
         /\ AmendedVersion(row, terms, parent).signed = Role
         /\ AmendedVersion(row, terms, parent).locked
<1> DEFINE v    == Version(terms, parent)
           both == row.signed = Role
           r    == [v EXCEPT !.signed = row.signed, !.locked = both]
<1>1. v \in VersionRow /\ v.parent = parent
  BY NewVersionRow
<1>2. both = TRUE
  OBVIOUS
<1>3. AmendedVersion(row, terms, parent) = [v EXCEPT !.signed = row.signed, !.locked = both]
  BY DEF AmendedVersion
<1> HIDE DEF v, both
<1>4. /\ r \in VersionRow /\ r.parent = parent /\ r.signed = Role /\ r.locked = TRUE
  BY <1>1, <1>2 DEF VersionRow
<1> QED BY <1>3, <1>4

\* The requests of the others stand on rows that only grow.
LEMMA AmendmentsKept ==
  ASSUME AmendmentInv, amendments' \in Seq(AmendmentRows),
         Len(amendments) <= Len(amendments'),
         \A a \in DOMAIN amendments : amendments[a].signed = Role => amendments'[a].signed = Role,
         \A a \in DOMAIN amendments' : AmendedOK(amendments[a])',
         handling' \in [Session -> HandlingRow],
         \A t \in Session : handling'[t] = handling[t] \/ HandlingOK(handling[t])',
         Len(versions) \in Nat, Len(versions') \in Nat, Len(versions) <= Len(versions'),
         agreement.version # 0 => agreement'.version # 0,
         amendments' # <<>> => Exists'
  PROVE  AmendmentInv'
<1>1. ASSUME NEW t \in Session, handling'[t] = handling[t] PROVE HandlingOK(handling[t])'
  <2>1. HandlingOK(handling[t]) /\ handling[t] \in HandlingRow
    BY DEF AmendmentInv
  <2>2. /\ Len(amendments) \in Nat /\ Len(amendments') \in Nat
        /\ DOMAIN amendments = 1..Len(amendments)
        /\ handling[t].row \in Nat /\ handling[t].version \in Nat
    BY <2>1 DEF AmendmentInv, HandlingRow
  <2> QED BY <1>1, <2>1, <2>2 DEF HandlingOK
<1> QED BY <1>1 DEF AmendmentInv

\* What a request has in hand before it writes to its amendment.
LEMMA Opening ==
  ASSUME AmendmentInv, NEW s \in Session
  PROVE  /\ HandlingOK(handling[s]) /\ handling[s] \in HandlingRow
         /\ NotHandling \in HandlingRow /\ HandlingOK(NotHandling)
         /\ handling[s].row \in Nat /\ handling[s].version \in Nat /\ handling[s].terms \in Nat
         /\ amendments \in Seq(AmendmentRows)
         /\ Len(amendments) \in Nat /\ DOMAIN amendments = 1..Len(amendments)
         /\ handling \in [Session -> HandlingRow]
         /\ handling[s].pc # "idle" =>
              /\ handling[s].row \in DOMAIN amendments /\ Opened(s) \in AmendmentRows
              /\ AmendedOK(Opened(s)) /\ amendments # <<>>
<1>1. /\ HandlingOK(handling[s]) /\ handling[s] \in HandlingRow
      /\ amendments \in Seq(AmendmentRows) /\ handling \in [Session -> HandlingRow]
      /\ \A a \in DOMAIN amendments : AmendedOK(amendments[a])
  BY DEF AmendmentInv
<1>2. /\ handling[s].row \in Nat /\ handling[s].version \in Nat /\ handling[s].terms \in Nat
      /\ Len(amendments) \in Nat /\ DOMAIN amendments = 1..Len(amendments)
  BY <1>1 DEF HandlingRow
<1>3. NotHandling \in HandlingRow
  BY DEF NotHandling, HandlingRow
<1>4. HandlingOK(NotHandling)
  BY <1>2 DEF NotHandling, HandlingOK
<1>5. ASSUME handling[s].pc # "idle"
      PROVE  /\ handling[s].row \in DOMAIN amendments /\ Opened(s) \in AmendmentRows
             /\ AmendedOK(Opened(s)) /\ amendments # <<>>
  <2>1. handling[s].row \in DOMAIN amendments
    BY <1>1, <1>2, <1>5 DEF HandlingOK
  <2> QED BY <1>1, <2>1 DEF Opened
<1> QED BY <1>1, <1>2, <1>3, <1>4, <1>5

\* A request goes on while the rows stay.
LEMMA HandlingMoves ==
  ASSUME AmendmentInv, Len(versions) \in Nat, NEW s \in Session, NEW h \in HandlingRow, HandlingOK(h),
         handling' = [handling EXCEPT ![s] = h], UNCHANGED <<amendments, agreement, versions>>
  PROVE  AmendmentInv'
<1>1. /\ handling' \in [Session -> HandlingRow] /\ handling'[s] = h
      /\ \A t \in Session : t # s => handling'[t] = handling[t]
  BY DEF AmendmentInv
<1>2. \A t \in Session : handling'[t] = handling[t] \/ HandlingOK(handling[t])'
  BY <1>1 DEF HandlingOK
<1>3. /\ \A a \in DOMAIN amendments' : AmendedOK(amendments[a])'
      /\ amendments' # <<>> => Exists'
      /\ amendments' \in Seq(AmendmentRows) /\ Len(amendments) <= Len(amendments')
  BY DEF AmendmentInv, AmendedOK, Exists
<1>4. Len(versions) <= Len(versions') /\ Len(versions') \in Nat
  OBVIOUS
<1> QED BY <1>1, <1>2, <1>3, <1>4, AmendmentsKept

\* A request writes its row, and ends or goes on.
LEMMA AmendmentWritten ==
  ASSUME AmendmentInv, Len(versions) \in Nat, NEW s \in Session, handling[s].pc # "idle",
         NEW row \in AmendmentRows, AmendedOK(row), Opened(s).signed = Role => row.signed = Role,
         NEW h \in HandlingRow, h = NotHandling \/ h.row = handling[s].row, h.pc # "apply",
         h.pc \in {"lock", "plan"} => row.signed = Role,
         Write(s, row), handling' = [handling EXCEPT ![s] = h], UNCHANGED <<agreement, versions>>
  PROVE  AmendmentInv'
<1> DEFINE a == handling[s].row
<1>0. /\ a \in DOMAIN amendments /\ a \in Nat /\ amendments # <<>> /\ Opened(s) = amendments[a]
      /\ amendments \in Seq(AmendmentRows) /\ Len(amendments) \in Nat
      /\ DOMAIN amendments = 1..Len(amendments) /\ handling \in [Session -> HandlingRow]
  BY Opening DEF Opened
<1>1. /\ amendments' \in Seq(AmendmentRows) /\ Len(amendments') = Len(amendments)
      /\ DOMAIN amendments' = DOMAIN amendments /\ amendments'[a] = row
      /\ \A b \in DOMAIN amendments : b # a => amendments'[b] = amendments[b]
  <2>1. amendments' = [amendments EXCEPT ![a] = row]
    BY DEF Write
  <2> HIDE DEF a
  <2> QED BY <1>0, <2>1, RowWritten
<1> HIDE DEF a
<1>2. \A b \in DOMAIN amendments : amendments[b].signed = Role => amendments'[b].signed = Role
  BY <1>0, <1>1
<1>3. \A b \in DOMAIN amendments' : AmendedOK(amendments[b])'
  BY <1>1 DEF AmendmentInv, AmendedOK
<1>4. /\ handling' \in [Session -> HandlingRow] /\ handling'[s] = h
      /\ \A t \in Session : t # s => handling'[t] = handling[t]
  BY <1>0
<1>5. HandlingOK(handling[s])'
  <2>1. CASE h = NotHandling
    BY <1>0, <1>1, <1>4, <2>1 DEF HandlingOK, NotHandling
  <2>2. CASE h.row = a
    BY <1>0, <1>1, <1>4, <2>2 DEF HandlingOK
  <2> QED BY <2>1, <2>2 DEF a
<1>6. amendments' # <<>> => Exists'
  BY <1>0 DEF AmendmentInv, Exists
<1>7. Len(versions) <= Len(versions') /\ Len(versions') \in Nat /\ Len(amendments) <= Len(amendments')
  BY <1>0, <1>1
<1> QED BY <1>1, <1>2, <1>3, <1>4, <1>5, <1>6, <1>7, AmendmentsKept

\* The steps that leave the agreement alone.
LEMMA AmendmentActions ==
  ASSUME AmendmentInv, Len(versions) \in Nat, NEW s \in Session,
         \/ proposeAmendment(s) \/ decideAmendment(s) \/ withdrawAmendment(s)
         \/ signAmendment(s) \/ AbandonAmendment(s)
  PROVE  AmendmentInv' /\ UNCHANGED <<agreement, versions>>
<1>0. /\ HandlingOK(handling[s]) /\ handling[s] \in HandlingRow /\ RoleOf[s] \in Role
      /\ amendments \in Seq(AmendmentRows) /\ Len(amendments) \in Nat
      /\ DOMAIN amendments = 1..Len(amendments)
      /\ \A a \in DOMAIN amendments : amendments[a] \in AmendmentRows /\ AmendedOK(amendments[a])
  BY Opening, SessionAssumption DEF AmendmentInv
<1>1. ASSUME NEW op \in {"accept", "reject", "counter", "withdraw", "sign"},
             NEW a \in DOMAIN amendments, Opens(s, op, a)
      PROVE  AmendmentInv' /\ UNCHANGED <<agreement, versions>>
  <2> DEFINE h == [op |-> op, pc |-> "write", row |-> a, terms |-> amendments[a].terms, version |-> 0]
  <2>1. a \in Nat /\ a # 0 /\ a <= Len(amendments) /\ amendments[a].terms \in Nat
    BY <1>0, AmendmentFields
  <2>2. h \in HandlingRow /\ HandlingOK(h)
    BY <1>1, <2>1 DEF HandlingRow, HandlingOK
  <2>3. handling' = [handling EXCEPT ![s] = h] /\ UNCHANGED <<amendments, agreement, versions>>
    BY <1>1 DEF Opens
  <2> HIDE DEF h
  <2> QED BY <2>2, <2>3, HandlingMoves
<1>2. ASSUME handling[s].pc # "idle", NEW row \in AmendmentRows, AmendedOK(row),
             Opened(s).signed = Role => row.signed = Role,
             Write(s, row), Finished(s), UNCHANGED <<agreement, versions>>
      PROVE  AmendmentInv' /\ UNCHANGED <<agreement, versions>>
  <2>1. NotHandling \in HandlingRow /\ NotHandling.pc = "idle"
    BY Opening DEF NotHandling
  <2> QED BY <1>2, <2>1, AmendmentWritten DEF Finished
<1>3. ASSUME handling[s].pc # "idle", NEW x \in AmendmentStatus \ {"applied", "signed"},
             Write(s, [Opened(s) EXCEPT !.status = x]), Finished(s), UNCHANGED <<agreement, versions>>
      PROVE  AmendmentInv' /\ UNCHANGED <<agreement, versions>>
  <2> DEFINE row == [Opened(s) EXCEPT !.status = x]
  <2>1. Opened(s) \in AmendmentRows /\ AmendedOK(Opened(s))
    BY <1>3, Opening
  <2>2. row \in AmendmentRows /\ row.status = x /\ row.signed = Opened(s).signed
        /\ row.made = Opened(s).made
    BY <2>1, AmendmentEdited
  <2> HIDE DEF row
  <2>3. AmendedOK(row)
    BY <1>3, <2>1, <2>2 DEF AmendedOK
  <2>4. Write(s, row)
    BY <1>3 DEF row
  <2> QED BY <1>2, <1>3, <2>2, <2>3, <2>4
<1>4. CASE proposeAmendment(s)
  <2>1. PICK pause \in BOOLEAN :
          amendments' = Append(amendments, AmendmentRow(RoleOf[s], pause, 1))
    BY <1>4 DEF proposeAmendment
  <2> DEFINE row == AmendmentRow(RoleOf[s], pause, 1)
  <2>2. row \in AmendmentRows /\ row.made = {} /\ row.status = "proposed"
    BY <1>0, <2>1 DEF AmendmentRow, AmendmentRows, AmendmentStatus
  <2>3. UNCHANGED <<handling, agreement, versions>> /\ Exists
    BY <1>4 DEF proposeAmendment
  <2> HIDE DEF row
  <2>4. /\ amendments' \in Seq(AmendmentRows) /\ Len(amendments') = Len(amendments) + 1
        /\ DOMAIN amendments' = 1..(Len(amendments) + 1)
        /\ amendments'[Len(amendments) + 1] = row
        /\ \A a \in DOMAIN amendments : amendments'[a] = amendments[a]
    BY <1>0, <2>1, <2>2, RowAdded DEF row
  <2>5. AmendedOK(row)
    BY <2>2 DEF AmendedOK
  <2>6. ASSUME NEW a \in DOMAIN amendments' PROVE AmendedOK(amendments[a])'
    <3>1. AmendedOK(amendments'[a])
      BY <1>0, <2>4, <2>5
    <3> QED BY <2>3, <3>1 DEF AmendedOK
  <2>7. Exists' /\ Len(versions') \in Nat /\ Len(versions) <= Len(versions')
        /\ Len(amendments) <= Len(amendments') /\ handling' \in [Session -> HandlingRow]
    BY <1>0, <2>3, <2>4 DEF Exists, AmendmentInv
  <2> QED BY <2>3, <2>4, <2>6, <2>7, AmendmentsKept
<1>5. CASE decideAmendment(s)
  <2>1. CASE /\ Handles(s, "accept", "write") \/ Handles(s, "reject", "write")
                \/ Handles(s, "counter", "write")
             /\ \/ Write(s, [Opened(s) EXCEPT !.status = "awaiting_signatures"])
                \/ Write(s, [Opened(s) EXCEPT !.status = "rejected"])
             /\ Finished(s) /\ UNCHANGED <<agreement, versions>>
    BY <1>3, <2>1 DEF Handles, AmendmentStatus
  <2>2. CASE /\ Handles(s, "counter", "write")
             /\ Write(s, [Opened(s) EXCEPT !.by = RoleOf[s], !.terms = @ + 1])
             /\ Finished(s) /\ UNCHANGED <<agreement, versions>>
    <3> DEFINE row == [Opened(s) EXCEPT !.by = RoleOf[s], !.terms = @ + 1]
    <3>1. Opened(s) \in AmendmentRows /\ AmendedOK(Opened(s)) /\ handling[s].pc # "idle"
      BY <2>2, Opening DEF Handles
    <3>2. row \in AmendmentRows /\ row.status = Opened(s).status /\ row.signed = Opened(s).signed
          /\ row.made = Opened(s).made
      BY <1>0, <3>1, AmendmentEdited
    <3>3. Write(s, row)
      BY <2>2
    <3> HIDE DEF row
    <3>4. AmendedOK(row)
      BY <3>1, <3>2 DEF AmendedOK
    <3> QED BY <1>2, <2>2, <3>1, <3>2, <3>3, <3>4
  <2> QED BY <1>1, <1>5, <2>1, <2>2 DEF decideAmendment
<1>6. CASE withdrawAmendment(s)
  BY <1>1, <1>3, <1>6 DEF withdrawAmendment, Handles, AmendmentStatus
<1>7. CASE signAmendment(s)
  <2>1. CASE /\ Handles(s, "sign", "write")
             /\ LET row == [Opened(s) EXCEPT !.signed = @ \cup {RoleOf[s]}] IN
                /\ Write(s, row)
                /\ IF BothSigned(row) THEN handling' = [handling EXCEPT ![s].pc = "lock"]
                                      ELSE Finished(s)
             /\ UNCHANGED <<agreement, versions>>
    <3> DEFINE row == [Opened(s) EXCEPT !.signed = @ \cup {RoleOf[s]}]
    <3>1. Opened(s) \in AmendmentRows /\ AmendedOK(Opened(s)) /\ handling[s].pc # "idle"
      BY <2>1, Opening DEF Handles
    <3>2. row \in AmendmentRows /\ row.status = Opened(s).status /\ row.made = Opened(s).made
          /\ row.signed = Opened(s).signed \cup {RoleOf[s]}
      <4> DEFINE o == Opened(s)
                 role == RoleOf[s]
      <4>1. o \in AmendmentRows /\ role \in Role
        BY <1>0, <3>1
      <4> HIDE DEF o, role
      <4>2. LET r == [o EXCEPT !.signed = @ \cup {role}] IN
            /\ r \in AmendmentRows /\ r.status = o.status /\ r.made = o.made
            /\ r.signed = o.signed \cup {role}
        BY <4>1 DEF AmendmentRows
      <4> QED BY <4>2, Zenon DEF o, role
    <3>3. /\ Write(s, row) /\ UNCHANGED <<agreement, versions>>
          /\ \/ Finished(s)
             \/ row.signed = Role /\ handling' = [handling EXCEPT ![s].pc = "lock"]
      BY <2>1 DEF BothSigned
    <3> HIDE DEF row
    <3>4. AmendedOK(row) /\ (Opened(s).signed = Role => row.signed = Role)
      BY <1>0, <3>1, <3>2 DEF AmendedOK
    <3>5. CASE Finished(s)
      BY <1>2, <3>1, <3>2, <3>3, <3>4, <3>5
    <3>6. CASE row.signed = Role /\ handling' = [handling EXCEPT ![s].pc = "lock"]
      <4> DEFINE h == [handling[s] EXCEPT !.pc = "lock"]
      <4>1. h \in HandlingRow /\ h.row = handling[s].row /\ h.pc = "lock"
        BY <1>0 DEF HandlingRow
      <4>2. handling' = [handling EXCEPT ![s] = h]
        BY <3>6
      <4> HIDE DEF h
      <4> QED BY <3>1, <3>2, <3>3, <3>4, <3>6, <4>1, <4>2, AmendmentWritten
    <3> QED BY <3>3, <3>5, <3>6
  <2>2. CASE /\ Handles(s, "sign", "lock")
             /\ Write(s, [Opened(s) EXCEPT !.status = "signed"])
             /\ handling' = [handling EXCEPT ![s].pc = "plan", ![s].terms = Opened(s).terms]
             /\ UNCHANGED <<agreement, versions>>
    <3> DEFINE row == [Opened(s) EXCEPT !.status = "signed"]
               terms == Opened(s).terms
               h == [handling[s] EXCEPT !.pc = "plan", !.terms = terms]
    <3>1. /\ Opened(s) \in AmendmentRows /\ AmendedOK(Opened(s)) /\ handling[s].pc # "idle"
          /\ Opened(s).signed = Role
      BY <1>0, <2>2, Opening DEF Handles, HandlingOK, Opened
    <3>2. row \in AmendmentRows /\ row.status = "signed" /\ row.made = Opened(s).made
          /\ row.signed = Opened(s).signed
      BY <3>1, AmendmentEdited DEF AmendmentStatus
    <3>3. terms \in Nat
      BY <3>1, AmendmentFields
    <3>4. Write(s, row) /\ UNCHANGED <<agreement, versions>> /\ handling' = [handling EXCEPT ![s] = h]
      BY <2>2
    <3> HIDE DEF row, terms
    <3>5. h \in HandlingRow /\ h.row = handling[s].row /\ h.pc = "plan"
      BY <1>0, <3>3 DEF HandlingRow
    <3>6. AmendedOK(row)
      BY <3>1, <3>2 DEF AmendedOK
    <3> HIDE DEF h
    <3> QED BY <3>1, <3>2, <3>4, <3>5, <3>6, AmendmentWritten
  <2> QED BY <1>1, <1>7, <2>1, <2>2 DEF signAmendment
<1>8. CASE AbandonAmendment(s)
  BY <1>8, HandlingMoves, Opening DEF AbandonAmendment, Finished
<1> QED BY <1>4, <1>5, <1>6, <1>7, <1>8

\* applyAmendment: its version succeeds the current one, or none is made.
LEMMA ApplyStep ==
  ASSUME LifeInv, AmendmentInv, NEW s \in Session, applyAmendment(s),
         UNCHANGED <<session, cancellations, consent>>
  PROVE  LifeInv' /\ AmendmentInv' /\ Grows
<1> DEFINE a      == handling[s].row
           number == handling[s].version + 1
<1>0. /\ RowsOK /\ RequestsOK /\ CurrentIsLast
      /\ Len(versions) \in Nat /\ DOMAIN versions = 1..Len(versions)
      /\ agreement \in AgreementRow /\ agreement.status \in AnyStatus /\ agreement.version \in Nat
      /\ session \in [Session -> RequestRow] /\ consent \subseteq Role \X Nat
  BY DEF LifeInv, RowsOK, RequestsOK, AgreementRow
<1>1. /\ HandlingOK(handling[s]) /\ handling[s] \in HandlingRow
      /\ NotHandling \in HandlingRow /\ HandlingOK(NotHandling)
      /\ handling[s].row \in Nat /\ handling[s].version \in Nat /\ handling[s].terms \in Nat
      /\ amendments \in Seq(AmendmentRows) /\ handling \in [Session -> HandlingRow]
      /\ Len(amendments) \in Nat /\ DOMAIN amendments = 1..Len(amendments)
  BY Opening
<1>2. ASSUME UNCHANGED <<agreement, versions>> PROVE LifeInv' /\ Grows
  BY <1>0, <1>2, StatusWritten
<1>3. CASE /\ Handles(s, "sign", "plan")
           /\ \/ /\ agreement.version # 0
                 /\ handling' = [handling EXCEPT ![s].pc = "apply", ![s].version = agreement.version]
              \/ handling' = [handling EXCEPT ![s] = NotHandling]
           /\ UNCHANGED <<amendments, agreement, versions>>
  <2>1. CASE handling' = [handling EXCEPT ![s] = NotHandling]
    BY <1>0, <1>1, <1>2, <1>3, <2>1, HandlingMoves
  <2>2. CASE /\ agreement.version # 0
             /\ handling' = [handling EXCEPT ![s].pc = "apply", ![s].version = agreement.version]
    <3> DEFINE v == agreement.version
               h == [handling[s] EXCEPT !.pc = "apply", !.version = v]
    <3>1. v \in Nat /\ v # 0 /\ v <= Len(versions)
      BY <1>0, <2>2 DEF CurrentIsLast
    <3>2. handling' = [handling EXCEPT ![s] = h]
      BY <2>2
    <3>3. agreement.version # 0
      BY <2>2
    <3> HIDE DEF v
    <3>4. h \in HandlingRow /\ h.row = handling[s].row /\ h.pc = "apply" /\ h.version = v
      BY <1>1, <3>1 DEF HandlingRow
    <3> HIDE DEF h
    <3>5. HandlingOK(h)
      BY <1>1, <1>3, <3>1, <3>3, <3>4 DEF HandlingOK, Handles
    <3> QED BY <1>0, <1>2, <1>3, <3>2, <3>4, <3>5, HandlingMoves
  <2> QED BY <1>3, <2>1, <2>2
<1>4. CASE Handles(s, "sign", "apply") /\ Finished(s) /\ UNCHANGED <<agreement, versions, amendments>>
  BY <1>0, <1>1, <1>2, <1>4, HandlingMoves DEF Finished
<1>5. CASE /\ Handles(s, "sign", "apply") /\ IsFree(number)
           /\ versions' = Append(versions,
                AmendedVersion(amendments[a], MaxVersions + handling[s].terms, handling[s].version))
           /\ agreement' = [status |-> IF amendments[a].pause
                                         THEN "paused_by_amendment" ELSE agreement.status,
                            version |-> Len(versions) + 1]
           /\ Write(s, [Opened(s) EXCEPT !.status = "applied", !.made = @ \cup {Len(versions) + 1}])
           /\ Finished(s)
  <2> DEFINE n   == Len(versions) + 1
             x   == IF amendments[a].pause THEN "paused_by_amendment" ELSE agreement.status
             r   == AmendedVersion(amendments[a], MaxVersions + handling[s].terms, handling[s].version)
             row == [Opened(s) EXCEPT !.status = "applied", !.made = @ \cup {n}]
  <2>1. /\ handling[s].pc = "apply" /\ a \in DOMAIN amendments /\ Opened(s) \in AmendmentRows
        /\ AmendedOK(Opened(s)) /\ amendments # <<>> /\ Opened(s) = amendments[a]
        /\ amendments[a].signed = Role /\ agreement.version # 0
        /\ handling[s].version # 0 /\ handling[s].version <= Len(versions)
    BY <1>1, <1>5, Opening DEF Handles, HandlingOK, Opened
  <2>2. handling[s].version = Len(versions) /\ n \in Nat
    BY <1>0, <1>1, <1>5, <2>1 DEF IsFree
  <2>3. /\ r \in VersionRow /\ r.parent = Len(versions) /\ r.signed = Role /\ r.locked
    <3> DEFINE terms == MaxVersions + handling[s].terms
    <3>1. terms \in Nat /\ handling[s].version \in Nat
      BY <1>1, SessionAssumption
    <3> HIDE DEF terms, a
    <3>2. LET v == AmendedVersion(amendments[a], terms, handling[s].version) IN
          v \in VersionRow /\ v.parent = handling[s].version /\ v.signed = Role /\ v.locked
      BY <2>1, <3>1, AmendedVersionRow, Zenon
    <3> QED BY <2>2, <3>2, Zenon DEF terms
  <2>4. x \in AnyStatus \ {"absent"}
    BY <1>0, <2>1 DEF AmendmentInv, Exists, AnyStatus, AgreementStatus
  <2>5. /\ versions' = Append(versions, r)
        /\ agreement' = [status |-> x, version |-> Len(versions) + 1]
    BY <1>5
  <2>6. /\ row \in AmendmentRows /\ row.status = "applied" /\ row.signed = Opened(s).signed
        /\ row.made = Opened(s).made \cup {n}
    BY <2>1, <2>2, AmendmentEdited
  <2>7. Write(s, row) /\ handling' = [handling EXCEPT ![s] = NotHandling]
    BY <1>5 DEF Finished
  <2>8. agreement'.version # 0 /\ agreement'.status = x
    BY <1>0, <2>5
  <2> HIDE DEF x, r, row
  <2>9. LifeInv' /\ Grows
    BY <1>0, <2>1, <2>3, <2>4, <2>5, VersionAdded
  <2>10. Exists'
    <3>1. x \notin {"absent", "deleted"}
      BY <2>1, Zenon DEF x, AmendmentInv, Exists
    <3> QED BY <2>8, <3>1 DEF Exists
  <2>11. Len(versions') = n /\ DOMAIN versions' = 1..n /\ Len(versions') \in Nat
         /\ Len(versions) <= Len(versions')
    BY <1>0, <2>3, <2>5, RowAdded DEF RowsOK
  <2> HIDE DEF a
  <2>12. /\ amendments' \in Seq(AmendmentRows) /\ Len(amendments') = Len(amendments)
         /\ DOMAIN amendments' = DOMAIN amendments /\ amendments'[a] = row
         /\ \A b \in DOMAIN amendments : b # a => amendments'[b] = amendments[b]
    <3>1. amendments' = [amendments EXCEPT ![a] = row]
      BY <2>7 DEF Write, a
    <3> QED BY <1>1, <2>1, <2>6, <3>1, RowWritten
  <2>13. ASSUME NEW b \in DOMAIN amendments' PROVE AmendedOK(amendments[b])'
    <3>1. AmendedOK(amendments[b]) /\ DOMAIN versions \subseteq DOMAIN versions' /\ n \in DOMAIN versions'
      BY <1>0, <2>2, <2>11, <2>12 DEF AmendmentInv
    <3>2. CASE b = a
      BY <2>1, <2>6, <2>12, <3>1, <3>2 DEF AmendedOK
    <3>3. CASE b # a
      BY <2>12, <3>1, <3>3 DEF AmendedOK
    <3> QED BY <3>2, <3>3
  <2>14. \A b \in DOMAIN amendments : amendments[b].signed = Role => amendments'[b].signed = Role
    BY <2>1, <2>6, <2>12
  <2>15. /\ handling' \in [Session -> HandlingRow] /\ handling'[s] = NotHandling
         /\ \A t \in Session : t # s => handling'[t] = handling[t]
    BY <1>1, <2>7
  <2>16. HandlingOK(handling[s])'
    BY <1>1, <2>12, <2>15 DEF HandlingOK, NotHandling
  <2>17. Len(amendments) <= Len(amendments')
    BY <1>1, <2>12
  <2>18. AmendmentInv'
    BY <1>0, <2>8, <2>10, <2>11, <2>12, <2>13, <2>14, <2>15, <2>16, <2>17, AmendmentsKept
  <2> QED BY <2>9, <2>18
<1>6. CASE IsFree(number)
  BY <1>3, <1>5, <1>6 DEF applyAmendment
<1>7. CASE ~IsFree(number)
  BY <1>3, <1>4, <1>7 DEF applyAmendment
<1> QED BY <1>6, <1>7

\* A step of the amendments keeps both invariants.
LEMMA AmendmentKeeps ==
  ASSUME LifeInv, AmendmentInv, AmendmentNext
  PROVE  LifeInv' /\ AmendmentInv' /\ Grows
<1>0. /\ UNCHANGED <<session, cancellations, consent>> /\ Len(versions) \in Nat
      /\ agreement \in AgreementRow /\ session \in [Session -> RequestRow]
      /\ consent \subseteq Role \X Nat
  BY DEF AmendmentNext, LifeInv, RowsOK, RequestsOK
<1>1. PICK s \in Session : \/ proposeAmendment(s) \/ decideAmendment(s) \/ withdrawAmendment(s)
                           \/ signAmendment(s) \/ applyAmendment(s) \/ AbandonAmendment(s)
  BY DEF AmendmentNext
<1>2. CASE applyAmendment(s)
  BY <1>0, <1>2, ApplyStep
<1>3. CASE ~applyAmendment(s)
  <2>1. AmendmentInv' /\ UNCHANGED <<agreement, versions>>
    BY <1>0, <1>1, <1>3, AmendmentActions
  <2> QED BY <1>0, <2>1, StatusWritten
<1> QED BY <1>2, <1>3

\* The steps of the others keep the amendments: rows only grow, and a foreign
\* key keeps the agreement.
LEMMA AmendmentsStand ==
  ASSUME LifeInv, LifeInv', AmendmentInv, Grows, KeepsAmended, UNCHANGED amendmentVars
  PROVE  AmendmentInv'
<1>1. /\ Len(versions) \in Nat /\ Len(versions') \in Nat /\ Len(versions) <= Len(versions')
      /\ DOMAIN versions = 1..Len(versions) /\ DOMAIN versions' = 1..Len(versions')
      /\ amendments \in Seq(AmendmentRows) /\ handling \in [Session -> HandlingRow]
      /\ agreement.version # 0 => agreement'.version # 0
  BY DEF LifeInv, RowsOK, Grows, AmendmentInv
<1>2. UNCHANGED <<amendments, handling>>
  BY DEF amendmentVars
<1>3. amendments' # <<>> => Exists'
  BY <1>2, Zenon DEF AmendmentInv, Exists, Grows, KeepsAmended
<1>4. \A b \in DOMAIN amendments' : AmendedOK(amendments[b])'
  <2>1. DOMAIN versions \subseteq DOMAIN versions'
    BY <1>1
  <2> QED BY <1>2, <2>1 DEF AmendmentInv, AmendedOK
<1> QED BY <1>1, <1>2, <1>3, <1>4, AmendmentsKept

------------------------------------------------------------------------------
\* The steps of the settlements.

Countered(row, role, amount) == [row EXCEPT !.by = role, !.amount = amount, !.past = FALSE]

LEMMA ProposalEdited ==
  ASSUME NEW row \in ProposalRow
  PROVE  /\ \A x \in SettlementStatus :
              LET r == [row EXCEPT !.status = x] IN r \in ProposalRow /\ r.status = x
         /\ \A role \in Role, amount \in OfferAmount :
              LET r == Countered(row, role, amount) IN r \in ProposalRow /\ r.status = row.status
         /\ LET r == [row EXCEPT !.past = TRUE] IN r \in ProposalRow /\ r.status = row.status
<1>1. ASSUME NEW x \in SettlementStatus
      PROVE  LET r == [row EXCEPT !.status = x] IN r \in ProposalRow /\ r.status = x
  BY <1>1 DEF ProposalRow
<1>2. ASSUME NEW role \in Role, NEW amount \in OfferAmount
      PROVE  LET r == Countered(row, role, amount) IN r \in ProposalRow /\ r.status = row.status
  BY <1>2 DEF ProposalRow, Countered
<1>3. LET r == [row EXCEPT !.past = TRUE] IN r \in ProposalRow /\ r.status = row.status
  BY DEF ProposalRow
<1> QED BY <1>1, <1>2, <1>3

\* The requests stand on rows that only grow, and are decided once and for all.
LEMMA ProposalsKept ==
  ASSUME SettlementInv, proposals' \in Seq(ProposalRow), Len(proposals) <= Len(proposals'),
         \A r \in DOMAIN proposals :
           proposals[r].status # "proposed" => proposals'[r].status # "proposed",
         boundTo' \in [PaymentId -> 0..Len(proposals')],
         \A p \in PaymentId : boundTo[p] # 0 => boundTo'[p] = boundTo[p],
         \A p \in PaymentId : \/ boundTo'[p] = boundTo[p] \/ boundTo'[p] = 0
                              \/ proposals'[boundTo'[p]].status # "proposed",
         linked' \subseteq {p \in PaymentId : boundTo'[p] # 0},
         settling' \in [Session -> SettlingRow],
         \A t \in Session : settling'[t] = settling[t] \/ SettlingOK(settling[t])',
         \/ job' = job
         \/ /\ job' \in JobRow /\ job'.row <= Len(proposals')
            /\ job'.pc # "idle" => job'.row # 0
  PROVE  SettlementInv'
<1>0. /\ Len(proposals) \in Nat /\ Len(proposals') \in Nat
      /\ DOMAIN proposals = 1..Len(proposals) /\ job.row \in Nat
      /\ boundTo \in [PaymentId -> 0..Len(proposals)]
      /\ job \in JobRow /\ job.row <= Len(proposals) /\ (job.pc # "idle" => job.row # 0)
  BY DEF SettlementInv, JobRow
<1>1. ASSUME NEW t \in Session, settling'[t] = settling[t] PROVE SettlingOK(settling[t])'
  <2>1. SettlingOK(settling[t]) /\ settling[t].row \in Nat
    BY DEF SettlementInv, SettlingRow
  <2> QED BY <1>0, <1>1, <2>1 DEF SettlingOK
<1>2. \A t \in Session : SettlingOK(settling[t])'
  BY <1>1
<1>3. \A p \in PaymentId : boundTo'[p] # 0 => proposals'[boundTo'[p]].status # "proposed"
  <2>1. \A p \in PaymentId : boundTo[p] # 0 =>
          boundTo[p] \in DOMAIN proposals /\ proposals[boundTo[p]].status # "proposed"
    BY <1>0 DEF SettlementInv
  <2> QED BY <1>0, <2>1
<1>4. job' \in JobRow /\ job'.row <= Len(proposals') /\ (job'.pc # "idle" => job'.row # 0)
  BY <1>0
<1> QED BY <1>2, <1>3, <1>4 DEF SettlementInv

\* What is in hand before a write.
LEMMA Settling ==
  ASSUME SettlementInv, NEW s \in Session
  PROVE  /\ proposals \in Seq(ProposalRow) /\ Len(proposals) \in Nat
         /\ DOMAIN proposals = 1..Len(proposals)
         /\ \A r \in DOMAIN proposals : proposals[r] \in ProposalRow
         /\ settling \in [Session -> SettlingRow] /\ settling[s] \in SettlingRow
         /\ SettlingOK(settling[s]) /\ settling[s].row \in Nat
         /\ NotSettling \in SettlingRow /\ SettlingOK(NotSettling)
         /\ settling[s].pc # "idle" => settling[s].row \in DOMAIN proposals
<1>1. /\ proposals \in Seq(ProposalRow) /\ settling \in [Session -> SettlingRow]
      /\ SettlingOK(settling[s])
  BY DEF SettlementInv
<1>2. /\ Len(proposals) \in Nat /\ DOMAIN proposals = 1..Len(proposals)
      /\ \A r \in DOMAIN proposals : proposals[r] \in ProposalRow
      /\ settling[s] \in SettlingRow /\ settling[s].row \in Nat
  BY <1>1 DEF SettlingRow
<1>3. NotSettling \in SettlingRow
  BY DEF NotSettling, SettlingRow
<1>4. SettlingOK(NotSettling)
  BY <1>2 DEF NotSettling, SettlingOK
<1> QED BY <1>1, <1>2, <1>3, <1>4 DEF SettlingOK

\* A request moves while the bindings and the job stay.
LEMMA SettlingMoves ==
  ASSUME SettlementInv, NEW s \in Session, NEW h \in SettlingRow, SettlingOK(h),
         settling' = [settling EXCEPT ![s] = h],
         proposals' \in Seq(ProposalRow), Len(proposals') = Len(proposals),
         \A r \in DOMAIN proposals :
           proposals[r].status # "proposed" => proposals'[r].status # "proposed",
         linked' \subseteq {p \in PaymentId : boundTo[p] # 0}, UNCHANGED <<boundTo, job>>
  PROVE  SettlementInv'
<1>1. /\ settling' \in [Session -> SettlingRow] /\ settling'[s] = h
      /\ \A t \in Session : t # s => settling'[t] = settling[t]
  BY DEF SettlementInv
<1>2. SettlingOK(settling[s])'
  BY <1>1 DEF SettlingOK
<1>3. /\ boundTo' \in [PaymentId -> 0..Len(proposals')] /\ Len(proposals) <= Len(proposals')
      /\ linked' \subseteq {p \in PaymentId : boundTo'[p] # 0}
  BY Settling DEF SettlementInv
<1>4. \A t \in Session : settling'[t] = settling[t] \/ SettlingOK(settling[t])'
  BY <1>1, <1>2
<1> QED BY <1>1, <1>3, <1>4, ProposalsKept

\* A decided proposal is written, or a proposal keeps its status.
LEMMA ProposalPut ==
  ASSUME SettlementInv, NEW r \in DOMAIN proposals, NEW row \in ProposalRow,
         row.status = proposals[r].status \/ row.status # "proposed", Put(r, row)
  PROVE  /\ proposals' \in Seq(ProposalRow) /\ Len(proposals') = Len(proposals)
         /\ \A q \in DOMAIN proposals :
              proposals[q].status # "proposed" => proposals'[q].status # "proposed"
<1>1. proposals \in Seq(ProposalRow)
  BY DEF SettlementInv
<1>2. /\ proposals' \in Seq(ProposalRow) /\ Len(proposals') = Len(proposals)
      /\ proposals'[r] = row
      /\ \A q \in DOMAIN proposals : q # r => proposals'[q] = proposals[q]
  BY <1>1, RowWritten DEF Put
<1> QED BY <1>2

\* Where a request stands after a step of its own.
LEMMA SettlingNext ==
  ASSUME SettlementInv, NEW s \in Session, settling[s].pc # "idle",
         NEW next \in {"complete", "settle", "done"}, Leaves(s, next),
         proposals' \in Seq(ProposalRow), Len(proposals') = Len(proposals),
         \A r \in DOMAIN proposals :
           proposals[r].status # "proposed" => proposals'[r].status # "proposed",
         linked' \subseteq {p \in PaymentId : boundTo[p] # 0}, UNCHANGED <<boundTo, job>>
  PROVE  SettlementInv'
<1>0. /\ settling[s] \in SettlingRow /\ SettlingOK(settling[s])
      /\ NotSettling \in SettlingRow /\ SettlingOK(NotSettling)
  BY Settling
<1>1. CASE next = "done"
  BY <1>0, <1>1, SettlingMoves DEF Leaves
<1>2. CASE next # "done"
  <2> DEFINE h == [settling[s] EXCEPT !.pc = next]
  <2>1. /\ h \in SettlingRow /\ h.op = settling[s].op /\ h.row = settling[s].row
        /\ h.payment = settling[s].payment
    BY <1>0, <1>2 DEF SettlingRow
  <2>2. settling' = [settling EXCEPT ![s] = h]
    BY <1>2 DEF Leaves
  <2> HIDE DEF h
  <2>3. SettlingOK(h)
    BY <1>0, <2>1 DEF SettlingOK
  <2> QED BY <2>1, <2>2, <2>3, SettlingMoves
<1> QED BY <1>1, <1>2

\* What the parties do.
LEMMA SettlementActions ==
  ASSUME SettlementInv, NEW s \in Session,
         \/ proposeSettlement(s) \/ decideSettlement(s)
         \/ recordSettlementPayment(s) \/ AbandonSettlement(s)
  PROVE  SettlementInv' /\ (agreement' = agreement \/ updateStatus("settled_in_full"))
<1>0. /\ proposals \in Seq(ProposalRow) /\ Len(proposals) \in Nat
      /\ DOMAIN proposals = 1..Len(proposals)
      /\ \A r \in DOMAIN proposals : proposals[r] \in ProposalRow
      /\ settling[s] \in SettlingRow /\ SettlingOK(settling[s]) /\ RoleOf[s] \in Role
      /\ linked \subseteq {p \in PaymentId : boundTo[p] # 0}
      /\ boundTo \in [PaymentId -> 0..Len(proposals)]
      /\ settling[s].pc # "idle" => settling[s].row \in DOMAIN proposals
      /\ settling \in [Session -> SettlingRow] /\ job \in JobRow
  BY Settling, SessionAssumption DEF SettlementInv
<1>1. ASSUME NEW op \in {"accept", "reject", "counter", "record"}, NEW r \in DOMAIN proposals,
             NEW p \in PaymentId \cup {"none"}, op = "record" => p \in PaymentId /\ boundTo[p] # 0,
             Takes(s, op, r, p), UNCHANGED job
      PROVE  SettlementInv' /\ agreement' = agreement
  <2> DEFINE h == [op |-> op, pc |-> "write", row |-> r, amount |-> proposals[r].amount, payment |-> p]
  <2>1. r \in Nat /\ r # 0 /\ r <= Len(proposals) /\ proposals[r].amount \in OfferAmount
    BY <1>0 DEF ProposalRow
  <2>2. h \in SettlingRow /\ SettlingOK(h)
    BY <1>1, <2>1 DEF SettlingRow, SettlingOK
  <2>3. settling' = [settling EXCEPT ![s] = h] /\ UNCHANGED <<proposals, boundTo, linked, agreement>>
    BY <1>1 DEF Takes
  <2> HIDE DEF h
  <2> QED BY <1>0, <1>1, <2>2, <2>3, SettlingMoves
<1>2. ASSUME settling[s].pc # "idle", NEW row \in ProposalRow,
             NEW next \in {"settle", "done"}, Put(settling[s].row, row), Leaves(s, next),
             row.status = proposals[settling[s].row].status \/ row.status # "proposed",
             UNCHANGED <<boundTo, linked, job>>
      PROVE  SettlementInv'
  <2>1. /\ proposals' \in Seq(ProposalRow) /\ Len(proposals') = Len(proposals)
        /\ \A q \in DOMAIN proposals :
             proposals[q].status # "proposed" => proposals'[q].status # "proposed"
    BY <1>0, <1>2, ProposalPut
  <2> QED BY <1>0, <1>2, <2>1, SettlingNext
<1>3. ASSUME settling[s].pc # "idle", NEW x \in SettlementStatus \ {"proposed"},
             NEW next \in {"settle", "done"},
             Put(settling[s].row, [proposals[settling[s].row] EXCEPT !.status = x]),
             Leaves(s, next), UNCHANGED <<boundTo, linked, job>>
      PROVE  SettlementInv'
  <2> DEFINE row == [proposals[settling[s].row] EXCEPT !.status = x]
  <2>1. row \in ProposalRow /\ row.status = x
    <3>1. proposals[settling[s].row] \in ProposalRow
      BY <1>0, <1>3
    <3> QED BY <1>3, <3>1, ProposalEdited
  <2>2. Put(settling[s].row, row)
    BY <1>3
  <2> HIDE DEF row
  <2> QED BY <1>2, <1>3, <2>1, <2>2
<1>4. CASE proposeSettlement(s)
  <2>1. PICK amount \in OfferAmount, mode \in {"one_time", "scheduled"} :
          proposals' = Append(proposals, Offer(RoleOf[s], amount, mode))
    BY <1>4 DEF proposeSettlement
  <2> DEFINE row == Offer(RoleOf[s], amount, mode)
  <2>2. row \in ProposalRow
    BY <1>0, <2>1 DEF Offer, ProposalRow, SettlementStatus
  <2> HIDE DEF row
  <2>3. /\ proposals' \in Seq(ProposalRow) /\ Len(proposals') = Len(proposals) + 1
        /\ \A r \in DOMAIN proposals : proposals'[r] = proposals[r]
    BY <1>0, <2>1, <2>2, RowAdded DEF row
  <2>4. UNCHANGED <<boundTo, linked, settling, agreement, job>>
    BY <1>4 DEF proposeSettlement
  <2>5. boundTo' \in [PaymentId -> 0..Len(proposals')] /\ Len(proposals) <= Len(proposals')
    BY <1>0, <2>3, <2>4
  <2>6. settling' \in [Session -> SettlingRow] /\ \A t \in Session : settling'[t] = settling[t]
    BY <1>0, <2>4
  <2>7. linked' \subseteq {p \in PaymentId : boundTo'[p] # 0}
    BY <1>0, <2>4
  <2> QED BY <2>3, <2>4, <2>5, <2>6, <2>7, ProposalsKept
<1>5. CASE decideSettlement(s)
  <2>1. CASE \E r \in DOMAIN proposals, op \in {"accept", "reject", "counter"} :
               Takes(s, op, r, "none")
    BY <1>1, <1>5, <2>1 DEF decideSettlement
  <2>2. ASSUME settling[s].pc = "write", Leaves(s, "done"), UNCHANGED <<boundTo, linked, job>>,
               \/ Put(settling[s].row, [proposals[settling[s].row] EXCEPT !.status = "awaiting_payment"])
               \/ Put(settling[s].row, [proposals[settling[s].row] EXCEPT !.status = "rejected"])
        PROVE  SettlementInv'
    BY <1>3, <2>2 DEF SettlementStatus
  <2>3. ASSUME settling[s].pc = "write", Leaves(s, "done"), UNCHANGED <<boundTo, linked, job>>,
               \E amount \in OfferAmount :
                 Put(settling[s].row, [proposals[settling[s].row] EXCEPT
                                         !.by = RoleOf[s], !.amount = amount, !.past = FALSE])
        PROVE  SettlementInv'
    <3>1. PICK amount \in OfferAmount :
            Put(settling[s].row, [proposals[settling[s].row] EXCEPT
                                    !.by = RoleOf[s], !.amount = amount, !.past = FALSE])
      BY <2>3
    <3> DEFINE row == Countered(proposals[settling[s].row], RoleOf[s], amount)
    <3>2. row \in ProposalRow /\ row.status = proposals[settling[s].row].status
      <4>1. proposals[settling[s].row] \in ProposalRow
        BY <1>0, <2>3
      <4>2. RoleOf[s] \in Role
        BY <1>0
      <4> QED BY <4>1, <4>2, ProposalEdited, ZenonT(60)
    <3>3. Put(settling[s].row, row)
      BY <3>1 DEF Countered
    <3> HIDE DEF row
    <3> QED BY <1>2, <2>3, <3>2, <3>3
  <2>4. CASE ~\E r \in DOMAIN proposals, op \in {"accept", "reject", "counter"} :
               Takes(s, op, r, "none")
    <3>1. agreement' = agreement
      BY <1>5, <2>4 DEF decideSettlement
    <3>2. SettlementInv'
      BY <1>5, <2>2, <2>3, <2>4 DEF decideSettlement, Settles
    <3> QED BY <3>1, <3>2
  <2> QED BY <2>1, <2>4
<1>6. CASE recordSettlementPayment(s)
  <2> DEFINE r == settling[s].row
             p == settling[s].payment
  <2>1. CASE \E q \in PaymentId : boundTo[q] # 0 /\ Takes(s, "record", boundTo[q], q)
    <3>1. PICK q \in PaymentId : boundTo[q] # 0 /\ Takes(s, "record", boundTo[q], q)
      BY <2>1
    <3>2. boundTo[q] \in DOMAIN proposals
      BY <1>0, <3>1
    <3> QED BY <1>1, <1>6, <3>1, <3>2 DEF recordSettlementPayment
  <2>2. CASE /\ Settles(s, "record", "write")
             /\ linked' = linked \cup {p} \/ linked' = linked
             /\ \E next \in {"complete", "done"} : Leaves(s, next)
             /\ UNCHANGED <<proposals, boundTo, agreement, job>>
    <3>1. p \in PaymentId /\ boundTo[p] # 0
      BY <1>0, <2>2 DEF Settles, SettlingOK
    <3>2. linked' \subseteq {q \in PaymentId : boundTo[q] # 0}
      BY <1>0, <2>2, <3>1
    <3> QED BY <1>0, <2>2, <3>2, SettlingNext DEF Settles
  <2>3. CASE /\ Settles(s, "record", "complete")
             /\ Put(r, [proposals[r] EXCEPT !.status = "completed"])
             /\ Leaves(s, "settle")
             /\ UNCHANGED <<boundTo, linked, agreement, job>>
    BY <1>3, <2>3 DEF Settles, SettlementStatus
  <2>4. CASE /\ Settles(s, "record", "settle")
             /\ updateStatus("settled_in_full")
             /\ Leaves(s, "done")
             /\ UNCHANGED <<proposals, boundTo, linked, job>>
    BY <1>0, <2>4, SettlingNext DEF Settles
  <2>5. CASE /\ Settles(s, "record", "write") /\ UNCHANGED <<proposals, boundTo, agreement, job>>
             /\ IF WithinCeiling(r, p)
                  THEN /\ linked' = linked \cup {p}
                       /\ Leaves(s, IF ReachesAmount(Collected(r) + PaymentAmount[p], settling[s].amount)
                                      THEN "complete" ELSE "done")
                  ELSE Leaves(s, "done") /\ UNCHANGED linked
    <3>1. CASE ReachesAmount(Collected(r) + PaymentAmount[p], settling[s].amount)
      BY <2>2, <2>5, <3>1
    <3>2. CASE ~ReachesAmount(Collected(r) + PaymentAmount[p], settling[s].amount)
      BY <2>2, <2>5, <3>2
    <3> QED BY <3>1, <3>2
  <2> QED BY <1>6, <2>1, <2>3, <2>4, <2>5, Zenon DEF recordSettlementPayment
<1>7. CASE AbandonSettlement(s)
  BY <1>0, <1>7, SettlingNext DEF AbandonSettlement
<1> QED BY <1>4, <1>5, <1>6, <1>7

\* What the provider, the clock and the job do.
LEMMA SettlementOutside ==
  ASSUME SettlementInv,
         \/ PaymentSucceeds \/ (\E r \in DOMAIN proposals : DeadlinePasses(r))
         \/ expireOverdueSettlements
  PROVE  SettlementInv' /\ (agreement' = agreement \/ updateStatus("settled_in_full"))
<1>0. /\ proposals \in Seq(ProposalRow) /\ Len(proposals) \in Nat
      /\ DOMAIN proposals = 1..Len(proposals)
      /\ \A r \in DOMAIN proposals : proposals[r] \in ProposalRow
      /\ linked \subseteq {p \in PaymentId : boundTo[p] # 0}
      /\ boundTo \in [PaymentId -> 0..Len(proposals)]
      /\ settling \in [Session -> SettlingRow] /\ \A s \in Session : SettlingOK(settling[s])
      /\ job \in JobRow /\ job.row \in Nat /\ job.row <= Len(proposals)
      /\ job.pc # "idle" => job.row # 0
  BY DEF SettlementInv, JobRow
<1>1. ASSUME UNCHANGED <<boundTo, linked, settling>>,
             proposals' \in Seq(ProposalRow), Len(proposals') = Len(proposals),
             \A r \in DOMAIN proposals :
               proposals[r].status # "proposed" => proposals'[r].status # "proposed",
             \/ job' = job
             \/ /\ job' \in JobRow /\ job'.row <= Len(proposals)
                /\ job'.pc # "idle" => job'.row # 0
      PROVE  SettlementInv'
  <2>1. /\ boundTo' \in [PaymentId -> 0..Len(proposals')] /\ Len(proposals) <= Len(proposals')
        /\ linked' \subseteq {p \in PaymentId : boundTo'[p] # 0}
        /\ settling' \in [Session -> SettlingRow] /\ \A s \in Session : settling'[s] = settling[s]
        /\ \A p \in PaymentId : boundTo'[p] = boundTo[p]
    BY <1>0, <1>1
  <2> QED BY <1>1, <2>1, ProposalsKept
<1>2. CASE PaymentSucceeds
  <2>1. PICK p \in PaymentId, r \in DOMAIN proposals :
          /\ boundTo[p] = 0 /\ AwaitsPayment(proposals[r])
          /\ boundTo' = [boundTo EXCEPT ![p] = r]
    BY <1>2 DEF PaymentSucceeds
  <2>2. UNCHANGED <<proposals, linked, settling, agreement, job>>
    BY <1>2 DEF PaymentSucceeds
  <2>3. /\ boundTo' \in [PaymentId -> 0..Len(proposals')]
        /\ boundTo'[p] = r /\ \A q \in PaymentId : q # p => boundTo'[q] = boundTo[q]
    BY <1>0, <2>1, <2>2
  <2>4. proposals'[r].status # "proposed"
    BY <2>1, <2>2 DEF AwaitsPayment
  <2>5. linked' \subseteq {q \in PaymentId : boundTo'[q] # 0}
    BY <1>0, <2>1, <2>2, <2>3
  <2>6. /\ \A q \in PaymentId : boundTo[q] # 0 => boundTo'[q] = boundTo[q]
        /\ \A q \in PaymentId : \/ boundTo'[q] = boundTo[q] \/ boundTo'[q] = 0
                                \/ proposals'[boundTo'[q]].status # "proposed"
    BY <2>1, <2>3, <2>4
  <2>7. /\ settling' \in [Session -> SettlingRow] /\ \A s \in Session : settling'[s] = settling[s]
        /\ proposals' \in Seq(ProposalRow) /\ Len(proposals) <= Len(proposals')
    BY <1>0, <2>2
  <2> QED BY <2>2, <2>3, <2>5, <2>6, <2>7, ProposalsKept
<1>3. ASSUME NEW r \in DOMAIN proposals, DeadlinePasses(r)
      PROVE  SettlementInv' /\ agreement' = agreement
  <2> DEFINE row == [proposals[r] EXCEPT !.past = TRUE]
  <2>1. row \in ProposalRow /\ row.status = proposals[r].status
    BY <1>0, <1>3, ProposalEdited
  <2>2. Put(r, row) /\ UNCHANGED <<boundTo, linked, settling, agreement, job>>
    BY <1>3 DEF DeadlinePasses
  <2> HIDE DEF row
  <2>3. /\ proposals' \in Seq(ProposalRow) /\ Len(proposals') = Len(proposals)
        /\ \A q \in DOMAIN proposals :
             proposals[q].status # "proposed" => proposals'[q].status # "proposed"
    BY <1>3, <2>1, <2>2, ProposalPut
  <2> QED BY <1>1, <2>2, <2>3
<1>4. CASE expireOverdueSettlements
  <2>0. UNCHANGED <<boundTo, linked, settling>>
    BY <1>4 DEF expireOverdueSettlements
  <2>1. ASSUME NEW pc \in {"idle", "sum", "fail", "complete", "settle"}, JobAt(pc),
               pc # "idle" => job.pc # "idle"
        PROVE  job' \in JobRow /\ job'.row <= Len(proposals) /\ (job'.pc # "idle" => job'.row # 0)
    BY <1>0, <2>1 DEF JobAt, JobRow
  <2>2. CASE /\ \E r \in DOMAIN proposals :
                  job' = [pc |-> "sum", row |-> r, amount |-> proposals[r].amount]
             /\ UNCHANGED <<proposals, agreement>>
    <3>1. PICK r \in DOMAIN proposals :
            job' = [pc |-> "sum", row |-> r, amount |-> proposals[r].amount]
      BY <2>2
    <3>2. proposals[r].amount \in OfferAmount /\ r \in Nat /\ r # 0 /\ r <= Len(proposals)
      BY <1>0 DEF ProposalRow
    <3>3. job' \in JobRow /\ job'.row <= Len(proposals) /\ (job'.pc # "idle" => job'.row # 0)
      BY <3>1, <3>2 DEF JobRow
    <3> QED BY <1>0, <1>1, <2>0, <2>2, <3>3
  <2>3. ASSUME NEW pc \in {"idle", "sum", "fail", "complete", "settle"}, JobAt(pc),
               pc # "idle" => job.pc # "idle", UNCHANGED proposals
        PROVE  SettlementInv'
    BY <1>0, <1>1, <2>0, <2>1, <2>3
  <2>4. ASSUME NEW pc \in {"idle", "settle"}, JobAt(pc), job.pc # "idle",
               NEW x \in {"failure_consequence_applied", "completed"},
               Put(job.row, [proposals[job.row] EXCEPT !.status = x])
        PROVE  SettlementInv'
    <3> DEFINE row == [proposals[job.row] EXCEPT !.status = x]
    <3>1. job.row \in DOMAIN proposals
      BY <1>0, <2>4
    <3>2. row \in ProposalRow /\ row.status = x
      <4>1. proposals[job.row] \in ProposalRow /\ x \in SettlementStatus
        BY <1>0, <3>1 DEF SettlementStatus
      <4> QED BY <4>1, ProposalEdited
    <3>3. Put(job.row, row)
      BY <2>4
    <3> HIDE DEF row
    <3>4. /\ proposals' \in Seq(ProposalRow) /\ Len(proposals') = Len(proposals)
          /\ \A q \in DOMAIN proposals :
               proposals[q].status # "proposed" => proposals'[q].status # "proposed"
      BY <2>4, <3>1, <3>2, <3>3, ProposalPut
    <3> QED BY <1>1, <2>0, <2>1, <2>4, <3>4
  <2>5. CASE /\ job.pc = "sum" /\ UNCHANGED <<proposals, agreement>>
             /\ JobAt(IF ReachesAmount(Collected(job.row), job.amount) THEN "complete" ELSE "fail")
    <3>1. CASE ReachesAmount(Collected(job.row), job.amount)
      BY <2>3, <2>5, <3>1
    <3>2. CASE ~ReachesAmount(Collected(job.row), job.amount)
      BY <2>3, <2>5, <3>2
    <3> QED BY <3>1, <3>2
  <2> QED BY <1>4, <2>2, <2>3, <2>4, <2>5 DEF expireOverdueSettlements
<1> QED BY <1>2, <1>3, <1>4

\* A step of the settlements keeps their rows, and ends the agreement at most.
LEMMA SettlementKeeps ==
  ASSUME LifeInv, SettlementInv, SettlementNext
  PROVE  /\ LifeInv' /\ SettlementInv' /\ Grows /\ versions' = versions
         /\ agreement' = agreement \/ updateStatus("settled_in_full")
<1>0. /\ UNCHANGED <<session, versions, cancellations, consent>>
      /\ agreement \in AgreementRow /\ session \in [Session -> RequestRow]
      /\ consent \subseteq Role \X Nat
  BY DEF SettlementNext, LifeInv, RowsOK, RequestsOK
<1>1. SettlementInv' /\ (agreement' = agreement \/ updateStatus("settled_in_full"))
  BY SettlementActions, SettlementOutside DEF SettlementNext
<1>2. /\ agreement' \in AgreementRow /\ agreement'.version = agreement.version
      /\ agreement'.status = agreement.status \/ MayBecome(agreement'.status)
  <2>1. "settled_in_full" \in AnyStatus /\ MayBecome("settled_in_full")
    BY FreeStatus
  <2>2. CASE agreement' = agreement
    BY <1>0, <2>2
  <2>3. CASE agreement' = [agreement EXCEPT !.status = "settled_in_full"]
    BY <1>0, <2>1, <2>3 DEF AgreementRow
  <2> QED BY <1>1, <2>2, <2>3 DEF updateStatus
<1>3. LifeInv' /\ Grows
  BY <1>0, <1>2, StatusWritten
<1> QED BY <1>0, <1>1, <1>3

LEMMA SettlementsStand ==
  ASSUME SettlementInv, UNCHANGED settlementVars
  PROVE  SettlementInv'
BY DEF SettlementInv, SettlingOK, settlementVars

------------------------------------------------------------------------------
\* What carries a signature is not deleted, and no party cancels alone.

\* What a step does to the versions: a row is edited or added, and then the
\* agreement is there.
SoundEdit(old, new) == old.signed \subseteq old.evidence => new.signed \subseteq new.evidence

VersionsChange ==
  \/ versions' = versions
  \/ /\ agreement'.status # "deleted"
     /\ \/ \E v \in DOMAIN versions : \E r \in VersionRow :
             SoundEdit(versions[v], r) /\ versions' = [versions EXCEPT ![v] = r]
        \/ \E r \in VersionRow : r.signed = {} /\ versions' = Append(versions, r)

LEMMA VersionsOfOne ==
  ASSUME LifeInv, NEW s \in Session, LifecycleStep(s)
  PROVE  VersionsChange
<1>0. /\ agreement \in AgreementRow /\ versions \in Seq(VersionRow)
      /\ Len(versions) \in Nat /\ DOMAIN versions = 1..Len(versions)
      /\ agreement.version \in Nat /\ RequestOK(session[s]) /\ RoleOf[s] \in Role
  BY SessionAssumption DEF LifeInv, RowsOK, AgreementRow, RequestsOK
<1>1. ASSUME versions' = versions PROVE VersionsChange
  BY <1>1 DEF VersionsChange
<1> USE DEF life
<1>2. CASE createDraft(s)
  <2>1. CASE /\ At(s, "create", "write", "link") /\ UNCHANGED agreement
             /\ Exists /\ versions' = <<Version(1, 0)>>
    <3> DEFINE r == Version(1, 0)
    <3>1. r \in VersionRow /\ r.signed = {}
      BY NewVersionRow
    <3>2. versions = <<>> /\ agreement'.status # "deleted"
      BY <1>0, <2>1 DEF At, RequestOK, Exists
    <3>3. versions' = <<r>>
      BY <2>1
    <3> HIDE DEF r
    <3>4. versions' = Append(versions, r)
      BY <3>2, <3>3
    <3> QED BY <3>1, <3>2, <3>4 DEF VersionsChange
  <2>2. CASE Exists
    BY <1>1, <1>2, <2>1, <2>2 DEF createDraft
  <2>3. CASE ~Exists
    BY <1>1, <1>2, <2>3 DEF createDraft
  <2> QED BY <2>2, <2>3
<1>3. CASE \/ deleteDraft(s) \/ submitDraft(s) \/ acknowledgeDebt(s) \/ rejectAgreement(s)
           \/ cancelAgreement(s) \/ Abandon(s) \/ requestCancellation(s) \/ decideCancellation(s)
  BY <1>1, <1>3 DEF deleteDraft, submitDraft, acknowledgeDebt, rejectAgreement, cancelAgreement,
                    Abandon, requestCancellation, decideCancellation, Reads
<1>4. CASE acceptAgreement(s)
  <2>1. CASE /\ At(s, "accept", "freeze", "done") /\ Exists /\ UNCHANGED agreement
             /\ versions' = [versions EXCEPT ![session[s].version].frozen = TRUE]
    <3> DEFINE v == session[s].version
               r == [versions[v] EXCEPT !.frozen = TRUE]
    <3>1. v \in DOMAIN versions /\ versions[v] \in VersionRow
      BY <2>1, InHand DEF At, Seen
    <3>2. r \in VersionRow /\ r.signed = versions[v].signed /\ r.evidence = versions[v].evidence
      BY <3>1, VersionEdited
    <3>3. versions' = [versions EXCEPT ![v] = r]
      BY <2>1
    <3>4. agreement'.status # "deleted"
      BY <2>1 DEF Exists
    <3> HIDE DEF r, v
    <3>5. SoundEdit(versions[v], r)
      BY <3>2 DEF SoundEdit
    <3> QED BY <3>1, <3>2, <3>3, <3>4, <3>5 DEF VersionsChange
  <2> QED BY <1>1, <1>4, <2>1 DEF acceptAgreement, Reads
<1>5. CASE reviseTerms(s)
  <2> DEFINE x == IF RoleOf[s] = "debtor" THEN "awaiting_creditor_acceptance"
                                          ELSE "awaiting_debtor_acknowledgment"
             r == Version(Len(versions) + 1, agreement.version)
  <2>1. CASE versions' = Append(versions, r) /\ agreement' = [status |-> x, version |-> Len(versions) + 1]
    <3>1. r \in VersionRow /\ r.signed = {}
      BY <1>0, NewVersionRow
    <3>2. agreement'.status # "deleted"
      BY <2>1
    <3> HIDE DEF r, x
    <3> QED BY <2>1, <3>1, <3>2 DEF VersionsChange
  <2> QED BY <1>1, <1>5, <2>1 DEF reviseTerms, Reads
<1>6. CASE reviseFirstPaymentDate(s)
  <2> DEFINE r == Version(Seen(s).terms, agreement.version)
  <2>1. CASE At(s, "reviseDate", "write", "done") /\ MayReviseDate(s) /\ NewVersion(r)
    <3>1. Seen(s).terms \in Nat
      BY <2>1, InHand, VersionFields DEF At
    <3>2. r \in VersionRow /\ r.signed = {}
      BY <1>0, <3>1, NewVersionRow
    <3>3. versions' = Append(versions, r) /\ agreement'.status # "deleted"
      BY <1>0, <2>1 DEF NewVersion, MayReviseDate, AgreementRow
    <3> HIDE DEF r
    <3> QED BY <3>2, <3>3 DEF VersionsChange
  <2> QED BY <1>1, <1>6, <2>1 DEF reviseFirstPaymentDate, Reads
<1>7. CASE signAgreement(s)
  <2> DEFINE role == RoleOf[s]
             v    == session[s].version
             both == CompletesSignatures(versions[v], role)
             r    == SignedBy(versions[v], role, both)
  <2>1. CASE /\ At(s, "sign", "write", "done") /\ StillSignable(s)
             /\ versions' = [versions EXCEPT ![v].signed = @ \cup {role},
                                             ![v].evidence = @ \cup {role},
                                             ![v].locked = both]
             /\ agreement' = IF both THEN [agreement EXCEPT !.status = "first_payment_pending"]
                                     ELSE agreement
    <3>1. v \in DOMAIN versions /\ versions[v] \in VersionRow
      BY <2>1, InHand DEF At, Seen
    <3>2. both \in BOOLEAN /\ role \in Role
      <4>1. (Other(role) \in versions[v].signed) \in BOOLEAN
        OBVIOUS
      <4> QED BY <1>0, <4>1 DEF CompletesSignatures
    <3>3. versions' = [versions EXCEPT ![v] = r]
      BY <2>1 DEF SignedBy
    <3>4. agreement'.status # "deleted"
      <4>1. \/ agreement' = agreement
            \/ agreement' = [agreement EXCEPT !.status = "first_payment_pending"]
        BY <2>1
      <4>2. agreement.status = "awaiting_signatures"
        BY <2>1 DEF StillSignable
      <4> QED BY <1>0, <4>1, <4>2 DEF AgreementRow
    <3> HIDE DEF both, v, role
    <3>5. /\ r \in VersionRow /\ r.signed = versions[v].signed \cup {role}
          /\ r.evidence = versions[v].evidence \cup {role}
      BY <3>1, <3>2, VersionSigned
    <3> HIDE DEF r
    <3>6. SoundEdit(versions[v], r)
      BY <3>5 DEF SoundEdit
    <3> QED BY <3>1, <3>3, <3>4, <3>5, <3>6 DEF VersionsChange
  <2>2. CASE StillSignable(s) /\ MaySign(versions[v], role)
    BY <1>1, <1>7, <2>1, <2>2 DEF signAgreement, Reads
  <2>3. CASE ~(StillSignable(s) /\ MaySign(versions[v], role))
    BY <1>1, <1>7, <2>3 DEF signAgreement, Reads
  <2> QED BY <2>2, <2>3
<1> QED BY <1>2, <1>3, <1>4, <1>5, <1>6, <1>7 DEF LifecycleStep

LEMMA VersionsOfNext ==
  ASSUME LifeInv, Next
  PROVE  VersionsChange
<1>1. CASE DatePasses
  <2> DEFINE v == agreement.version
             r == [versions[v] EXCEPT !.past = TRUE]
  <2>1. v \in DOMAIN versions /\ versions[v] \in VersionRow
    BY <1>1 DEF DatePasses, LifeInv, CurrentIsLast, RowsOK, AgreementRow
  <2>2. r \in VersionRow /\ r.signed = versions[v].signed /\ r.evidence = versions[v].evidence
    BY <2>1, VersionEdited
  <2>3. versions' = [versions EXCEPT ![v] = r] /\ agreement'.status # "deleted"
    BY <1>1 DEF DatePasses, Exists
  <2> HIDE DEF r, v
  <2>4. SoundEdit(versions[v], r)
    BY <2>2 DEF SoundEdit
  <2> QED BY <2>1, <2>2, <2>3, <2>4 DEF VersionsChange
<1>2. CASE decideAndApply
  BY <1>2 DEF decideAndApply, VersionsChange
<1> QED BY <1>1, <1>2, VersionsOfOne DEF Next

\* As long as nothing is amended, what is signed leaves evidence.
LEMMA EvidenceStep ==
  ASSUME LifeInv, VersionsChange, SignedLeavesEvidence, amendments' = amendments
  PROVE  SignedLeavesEvidence'
<1>0. versions \in Seq(VersionRow)
  BY DEF LifeInv, RowsOK
<1> SUFFICES ASSUME amendments = <<>>
             PROVE  \A w \in DOMAIN versions' : versions'[w].signed \subseteq versions'[w].evidence
  BY DEF SignedLeavesEvidence
<1>1. \A w \in DOMAIN versions : versions[w].signed \subseteq versions[w].evidence
  BY DEF SignedLeavesEvidence
<1>2. ASSUME NEW v \in DOMAIN versions, NEW r \in VersionRow, SoundEdit(versions[v], r),
             versions' = [versions EXCEPT ![v] = r]
      PROVE  \A w \in DOMAIN versions' : versions'[w].signed \subseteq versions'[w].evidence
  <2>1. /\ DOMAIN versions' = DOMAIN versions /\ versions'[v] = r
        /\ \A w \in DOMAIN versions : w # v => versions'[w] = versions[w]
    BY <1>0, <1>2, RowWritten
  <2> QED BY <1>1, <1>2, <2>1 DEF SoundEdit
<1>3. ASSUME NEW r \in VersionRow, r.signed = {}, versions' = Append(versions, r)
      PROVE  \A w \in DOMAIN versions' : versions'[w].signed \subseteq versions'[w].evidence
  <2>1. /\ DOMAIN versions' = 1..(Len(versions) + 1) /\ DOMAIN versions = 1..Len(versions)
        /\ Len(versions) \in Nat /\ versions'[Len(versions) + 1] = r
        /\ \A w \in DOMAIN versions : versions'[w] = versions[w]
    BY <1>0, <1>3, RowAdded
  <2>2. \A w \in DOMAIN versions' : w \in DOMAIN versions \/ w = Len(versions) + 1
    BY <2>1
  <2> QED BY <1>1, <1>3, <2>1, <2>2
<1> QED BY <1>1, <1>2, <1>3 DEF VersionsChange

\* Only deleteDraft deletes, and only what nothing refers to.
LEMMA DeletesOnlyUnreferred ==
  ASSUME LifeInv, Next, agreement'.status = "deleted", agreement.status # "deleted"
  PROVE  Exists /\ NothingRefersToAgreement
<1>0. agreement \in AgreementRow
  BY DEF LifeInv, RowsOK
<1>1. ASSUME NEW s \in Session, LifecycleStep(s) PROVE Exists /\ NothingRefersToAgreement
  <2> USE DEF life
  <2>1. CASE deleteDraft(s)
    BY <2>1 DEF deleteDraft, Reads
  <2>2. ASSUME agreement' = agreement \/ \E x \in AnyStatus \ {"deleted"} :
                 agreement' = [agreement EXCEPT !.status = x]
        PROVE  FALSE
    BY <1>0, <2>2 DEF AgreementRow
  <2>3. ~createDraft(s)
    <3>1. CASE agreement' = [status |-> "draft", version |-> 0]
      BY <3>1
    <3>2. CASE agreement' = [agreement EXCEPT !.version = Len(versions)]
      BY <1>0, <3>2 DEF AgreementRow
    <3> QED BY <2>2, <3>1, <3>2 DEF createDraft
  <2>4. ~(submitDraft(s) \/ acknowledgeDebt(s) \/ rejectAgreement(s))
    BY <2>2 DEF submitDraft, acknowledgeDebt, rejectAgreement, Reads, updateStatus, AnyStatus,
                AgreementStatus, InNegotiation
  <2>5. ~(cancelAgreement(s) \/ Abandon(s) \/ requestCancellation(s) \/ decideCancellation(s))
    BY <2>2 DEF cancelAgreement, Abandon, requestCancellation, decideCancellation, Reads,
                updateStatus, AnyStatus, AgreementStatus
  <2>6. ~acceptAgreement(s)
    <3>1. CASE MayAccept(s)
      BY <2>2, <3>1 DEF acceptAgreement, Reads, AnyStatus, AgreementStatus
    <3>2. CASE ~MayAccept(s)
      BY <2>2, <3>2 DEF acceptAgreement, Reads
    <3> QED BY <3>1, <3>2
  <2>7. ~reviseTerms(s)
    <3>1. ~(agreement' = [status |-> IF RoleOf[s] = "debtor" THEN "awaiting_creditor_acceptance"
                                                        ELSE "awaiting_debtor_acknowledgment",
                          version |-> Len(versions) + 1])
      OBVIOUS
    <3> QED BY <2>2, <3>1 DEF reviseTerms, Reads
  <2>8. ~reviseFirstPaymentDate(s)
    BY <1>0, <2>2 DEF reviseFirstPaymentDate, Reads, NewVersion, AgreementRow
  <2>9. ~signAgreement(s)
    <3>1. signAgreement(s) =>
            \/ agreement' = agreement
            \/ agreement' = [agreement EXCEPT !.status = "first_payment_pending"]
      BY DEF signAgreement, Reads
    <3> QED BY <2>2, <3>1 DEF AnyStatus, AgreementStatus, InForce
  <2> QED BY <1>1, <2>1, <2>3, <2>4, <2>5, <2>6, <2>7, <2>8, <2>9 DEF LifecycleStep
<1>2. ~DatePasses /\ ~decideAndApply
  BY <1>0 DEF DatePasses, decideAndApply, AgreementRow
<1> QED BY <1>1, <1>2 DEF Next

\* A step of the negotiation deletes nothing that carries a signature.
LEMMA KeptByNegotiation ==
  ASSUME AgreementInv, Next, KeepsAmended
  PROVE  SignedIsKept'
<1> SUFFICES ASSUME agreement'.status = "deleted"
             PROVE  \A v \in DOMAIN versions' : versions'[v].signed = {}
  BY DEF SignedIsKept
<1>0. LifeInv /\ AmendmentInv /\ SignedLeavesEvidence /\ SignedIsKept
  BY DEF AgreementInv
<1>1. versions' = versions
  BY <1>0, VersionsOfNext DEF VersionsChange
<1>2. CASE agreement.status = "deleted"
  BY <1>0, <1>1, <1>2 DEF SignedIsKept
<1>3. CASE agreement.status # "deleted"
  <2>1. Exists /\ NothingRefersToAgreement
    BY <1>0, <1>3, DeletesOnlyUnreferred
  <2>2. amendments = <<>>
    BY <2>1 DEF KeepsAmended
  <2>3. \A v \in DOMAIN versions : versions[v].signed \subseteq versions[v].evidence
    BY <1>0, <2>2 DEF SignedLeavesEvidence
  <2>4. \A v \in DOMAIN versions : versions[v].evidence = {}
    BY <2>1 DEF NothingRefersToAgreement
  <2> QED BY <1>1, <2>3, <2>4
<1> QED BY <1>2, <1>3

LEMMA NegotiationKeeps ==
  ASSUME AgreementInv, NegotiationStep
  PROVE  AgreementInv'
<1>0. /\ LifeInv /\ AmendmentInv /\ SignedLeavesEvidence /\ SettlementInv
      /\ Next /\ KeepsAmended /\ UNCHANGED amendmentVars /\ UNCHANGED settlementVars
  BY DEF AgreementInv, NegotiationStep
<1>1. LifeInv' /\ Grows
  BY <1>0, LifeStep
<1>2. AmendmentInv'
  BY <1>0, <1>1, AmendmentsStand
<1>3. SettlementInv'
  BY <1>0, SettlementsStand
<1>4. SignedLeavesEvidence'
  <2>1. amendments' = amendments
    BY <1>0 DEF amendmentVars
  <2> QED BY <1>0, <2>1, VersionsOfNext, EvidenceStep
<1>5. SignedIsKept'
  BY <1>0, KeptByNegotiation
<1> QED BY <1>1, <1>2, <1>3, <1>4, <1>5 DEF AgreementInv

\* Amendments are not taken back, and until there is one a step of theirs
\* leaves the agreement alone.
LEMMA AmendmentsGrow ==
  ASSUME LifeInv, AmendmentInv, AmendmentNext, amendments' = <<>>
  PROVE  amendments = <<>> /\ UNCHANGED <<agreement, versions>>
<1>0. amendments \in Seq(AmendmentRows) /\ Len(versions) \in Nat
  BY DEF AmendmentInv, LifeInv, RowsOK
<1>1. PICK s \in Session :
        \/ proposeAmendment(s) \/ decideAmendment(s) \/ withdrawAmendment(s)
        \/ signAmendment(s) \/ applyAmendment(s) \/ AbandonAmendment(s)
  BY DEF AmendmentNext
<1>2. ASSUME NEW row, Write(s, row) PROVE amendments = <<>>
  <2>1. DOMAIN amendments' = DOMAIN amendments
    BY <1>2 DEF Write
  <2> QED BY <1>0, <2>1
<1>3. ~proposeAmendment(s)
  <2> SUFFICES ASSUME proposeAmendment(s) PROVE FALSE
    OBVIOUS
  <2>1. PICK pause \in BOOLEAN :
          amendments' = Append(amendments, AmendmentRow(RoleOf[s], pause, 1))
    BY DEF proposeAmendment
  <2> DEFINE row == AmendmentRow(RoleOf[s], pause, 1)
  <2>2. row \in AmendmentRows
    BY <2>1, SessionAssumption DEF AmendmentRow, AmendmentRows, AmendmentStatus
  <2> HIDE DEF row
  <2>3. amendments' = Append(amendments, row)
    BY <2>1 DEF row
  <2> QED BY <1>0, <2>2, <2>3, RowAdded
<1>4. CASE decideAmendment(s) \/ withdrawAmendment(s) \/ signAmendment(s) \/ AbandonAmendment(s)
  <2>1. amendments' = amendments \/ \E row : Write(s, row)
    BY <1>4 DEF decideAmendment, withdrawAmendment, signAmendment, AbandonAmendment, Opens
  <2>2. UNCHANGED <<agreement, versions>>
    BY <1>0, <1>4, AmendmentActions
  <2> QED BY <1>2, <2>1, <2>2
<1>5. CASE applyAmendment(s)
  <2>1. \/ UNCHANGED <<amendments, agreement, versions>>
        \/ Handles(s, "sign", "apply") /\ \E row : Write(s, row)
    BY <1>5 DEF applyAmendment
  <2>2. Handles(s, "sign", "apply") => amendments # <<>>
    BY Opening DEF Handles
  <2> QED BY <1>2, <2>1, <2>2
<1> QED BY <1>1, <1>3, <1>4, <1>5

LEMMA AmendmentStepKeeps ==
  ASSUME AgreementInv, AmendmentStep
  PROVE  AgreementInv'
<1>0. /\ LifeInv /\ AmendmentInv /\ SignedLeavesEvidence /\ SignedIsKept /\ SettlementInv
      /\ AmendmentNext /\ UNCHANGED settlementVars
  BY DEF AgreementInv, AmendmentStep
<1>1. LifeInv' /\ AmendmentInv'
  BY <1>0, AmendmentKeeps
<1>2. SettlementInv'
  BY <1>0, SettlementsStand
<1>3. SignedLeavesEvidence' /\ SignedIsKept'
  <2>1. CASE amendments' = <<>>
    BY <1>0, <2>1, AmendmentsGrow DEF SignedLeavesEvidence, SignedIsKept
  <2>2. CASE amendments' # <<>>
    BY <1>1, <2>2 DEF AmendmentInv, Exists, SignedLeavesEvidence, SignedIsKept
  <2> QED BY <2>1, <2>2
<1> QED BY <1>1, <1>2, <1>3 DEF AgreementInv

LEMMA SettlementStepKeeps ==
  ASSUME AgreementInv, SettlementStep
  PROVE  AgreementInv'
<1>0. /\ LifeInv /\ AmendmentInv /\ SignedLeavesEvidence /\ SignedIsKept /\ SettlementInv
      /\ SettlementNext /\ UNCHANGED amendmentVars /\ agreement \in AgreementRow
  BY DEF AgreementInv, SettlementStep, LifeInv, RowsOK
<1>1. /\ LifeInv' /\ SettlementInv' /\ Grows /\ versions' = versions
      /\ agreement' = agreement \/ updateStatus("settled_in_full")
  BY <1>0, SettlementKeeps
<1>2. agreement'.status = agreement.status \/ agreement'.status = "settled_in_full"
  BY <1>0, <1>1 DEF updateStatus, AgreementRow
<1>3. KeepsAmended
  BY <1>2 DEF KeepsAmended, Exists
<1>4. AmendmentInv'
  BY <1>0, <1>1, <1>3, AmendmentsStand
<1>5. SignedLeavesEvidence' /\ SignedIsKept'
  BY <1>0, <1>1, <1>2 DEF SignedLeavesEvidence, SignedIsKept, amendmentVars
<1> QED BY <1>1, <1>4, <1>5 DEF AgreementInv

LEMMA AgreementInitially == AgreementInit => AgreementInv
<1> SUFFICES ASSUME AgreementInit PROVE AgreementInv
  OBVIOUS
<1>0. Init /\ AmendmentInit /\ SettlementInit
  BY DEF AgreementInit
<1>1. LifeInv
  BY <1>0, LifeInitially
<1>2. AmendmentInv
  <2>1. NotHandling \in HandlingRow /\ NotHandling.row = 0 /\ NotHandling.pc = "idle"
    BY DEF NotHandling, HandlingRow
  <2>2. /\ amendments = <<>> /\ handling \in [Session -> HandlingRow]
        /\ \A s \in Session : handling[s].row = 0 /\ handling[s].pc = "idle"
    BY <1>0, <2>1 DEF AmendmentInit
  <2> QED BY <2>2 DEF AmendmentInv, HandlingOK
<1>3. SignedLeavesEvidence /\ SignedIsKept
  BY <1>0 DEF Init, SignedLeavesEvidence, SignedIsKept
<1>4. SettlementInv
  <2>1. NotSettling \in SettlingRow /\ NotSettling.row = 0 /\ NotSettling.pc = "idle"
    BY DEF NotSettling, SettlingRow
  <2>2. /\ proposals = <<>> /\ settling \in [Session -> SettlingRow]
        /\ \A s \in Session : settling[s].row = 0 /\ settling[s].pc = "idle"
    BY <1>0, <2>1 DEF SettlementInit
  <2>3. \A s \in Session : SettlingOK(settling[s])
    BY <2>2 DEF SettlingOK
  <2>4. job \in JobRow /\ job.row = 0 /\ job.pc = "idle" /\ linked = {}
    BY <1>0 DEF SettlementInit, JobRow
  <2>5. boundTo \in [PaymentId -> 0..Len(proposals)] /\ \A p \in PaymentId : boundTo[p] = 0
    BY <1>0 DEF SettlementInit
  <2> QED BY <2>2, <2>3, <2>4, <2>5 DEF SettlementInv
<1> QED BY <1>1, <1>2, <1>3, <1>4 DEF AgreementInv

LEMMA AgreementKeeps ==
  ASSUME AgreementInv, [AgreementNext]_agreementVars
  PROVE  AgreementInv'
<1>1. CASE AgreementNext
  BY <1>1, NegotiationKeeps, AmendmentStepKeeps, SettlementStepKeeps DEF AgreementNext
<1>2. CASE UNCHANGED agreementVars
  <2>0. UNCHANGED vars /\ UNCHANGED amendmentVars /\ UNCHANGED settlementVars
    BY <1>2 DEF agreementVars
  <2>1. LifeInv'
    BY <2>0, LifeStutters DEF AgreementInv
  <2>2. SettlementInv'
    BY <2>0, SettlementsStand DEF AgreementInv
  <2>3. UNCHANGED <<agreement, versions, amendments, handling>>
    BY <2>0 DEF vars, life, amendmentVars
  <2>4. AmendmentInv'
    BY <2>3 DEF AgreementInv, AmendmentInv, HandlingOK, AmendedOK, Exists
  <2>5. SignedLeavesEvidence' /\ SignedIsKept'
    BY <2>3 DEF AgreementInv, SignedLeavesEvidence, SignedIsKept
  <2> QED BY <2>1, <2>2, <2>4, <2>5 DEF AgreementInv
<1> QED BY <1>1, <1>2

LEMMA InvariantHolds == AgreementSpec => []AgreementInv
<1> QED BY AgreementInitially, AgreementKeeps, PTL DEF AgreementSpec

\* An agreement in force is canceled by the answer to a request.
LEMMA MutualStep ==
  ASSUME LifeInv, Next, agreement.status \in InForce, agreement'.status = "mutually_canceled"
  PROVE  \E c \in DOMAIN cancellations : cancellations[c].status # "pending"
<1>0. agreement \in AgreementRow /\ agreement.status # "mutually_canceled"
  BY DEF LifeInv, RowsOK, InForce
<1>1. ASSUME agreement' = agreement \/ \E x \in AnyStatus \ {"mutually_canceled"} :
               agreement' = [agreement EXCEPT !.status = x]
      PROVE  FALSE
  BY <1>0, <1>1 DEF AgreementRow
<1>2. ASSUME NEW s \in Session, LifecycleStep(s)
      PROVE  \E c \in DOMAIN cancellations : cancellations[c].status # "pending"
  <2> USE DEF life
  <2>1. ~createDraft(s)
    <3>1. CASE agreement' = [status |-> "draft", version |-> 0]
      BY <3>1
    <3>2. CASE agreement' = [agreement EXCEPT !.version = Len(versions)]
      BY <1>0, <3>2 DEF AgreementRow
    <3> QED BY <1>1, <3>1, <3>2 DEF createDraft
  <2>2. ~(deleteDraft(s) \/ submitDraft(s) \/ acknowledgeDebt(s) \/ rejectAgreement(s))
    BY <1>1 DEF deleteDraft, submitDraft, acknowledgeDebt, rejectAgreement, Reads, updateStatus,
                AnyStatus, AgreementStatus, InNegotiation
  <2>3. ~(Abandon(s) \/ requestCancellation(s))
    BY <1>1 DEF Abandon, requestCancellation, Reads
  <2>4. ~cancelAgreement(s)
    <3>1. ~StillCancellable
      BY DEF StillCancellable, Cancellable, InForce
    <3> QED BY <1>1, <3>1 DEF cancelAgreement, Reads
  <2>5. ~acceptAgreement(s)
    <3>1. ~MayAccept(s)
      BY DEF MayAccept, InForce
    <3> QED BY <1>1, <3>1 DEF acceptAgreement, Reads
  <2>6. ~reviseTerms(s)
    <3>1. ~(agreement' = [status |-> IF RoleOf[s] = "debtor" THEN "awaiting_creditor_acceptance"
                                                        ELSE "awaiting_debtor_acknowledgment",
                          version |-> Len(versions) + 1])
      OBVIOUS
    <3> QED BY <1>1, <3>1 DEF reviseTerms, Reads
  <2>7. ~reviseFirstPaymentDate(s)
    BY <1>0, <1>1 DEF reviseFirstPaymentDate, Reads, NewVersion, AgreementRow
  <2>8. ~signAgreement(s)
    <3>1. signAgreement(s) =>
            \/ agreement' = agreement
            \/ agreement' = [agreement EXCEPT !.status = "first_payment_pending"]
      BY DEF signAgreement, Reads
    <3> QED BY <1>1, <3>1 DEF AnyStatus, AgreementStatus, InForce
  <2>9. CASE decideCancellation(s)
    <3>1. session[s].op = "decideCancel" /\ session[s].pc = "cancel"
      BY <1>1, <2>9 DEF decideCancellation, At
    <3>2. /\ RequestOK(session[s]) /\ cancellations \in Seq(CancellationRow)
          /\ session[s].row \in Nat
      BY DEF LifeInv, RequestsOK, RowsOK, RequestRow
    <3>3. session[s].row \in DOMAIN cancellations /\ cancellations[session[s].row].status # "pending"
      BY <3>1, <3>2 DEF RequestOK
    <3> QED BY <3>3
  <2> QED BY <1>2, <2>1, <2>2, <2>3, <2>4, <2>5, <2>6, <2>7, <2>8, <2>9 DEF LifecycleStep
<1>3. ~DatePasses /\ ~decideAndApply
  BY <1>1 DEF DatePasses, decideAndApply, AnyStatus, AgreementStatus, InForce
<1> QED BY <1>2, <1>3 DEF Next

\* Amendments and settlements cancel nothing.
LEMMA OthersCancelNothing ==
  ASSUME AgreementInv, AmendmentStep \/ SettlementStep, agreement'.status = "mutually_canceled"
  PROVE  agreement.status = "mutually_canceled"
<1>0. LifeInv /\ AmendmentInv /\ SettlementInv /\ agreement \in AgreementRow /\ Len(versions) \in Nat
  BY DEF AgreementInv, LifeInv, RowsOK
<1>1. CASE SettlementStep
  <2>1. agreement' = agreement \/ updateStatus("settled_in_full")
    BY <1>0, <1>1, SettlementKeeps DEF SettlementStep
  <2> QED BY <1>0, <2>1 DEF updateStatus, AgreementRow
<1>2. CASE AmendmentStep
  <2>1. PICK s \in Session :
          \/ proposeAmendment(s) \/ decideAmendment(s) \/ withdrawAmendment(s)
          \/ signAmendment(s) \/ applyAmendment(s) \/ AbandonAmendment(s)
    BY <1>2 DEF AmendmentStep, AmendmentNext
  <2>2. CASE applyAmendment(s)
    <3>1. \/ agreement' = agreement
          \/ agreement' = [status |-> IF amendments[handling[s].row].pause
                                        THEN "paused_by_amendment" ELSE agreement.status,
                           version |-> Len(versions) + 1]
      BY <2>2 DEF applyAmendment
    <3> QED BY <3>1
  <2>3. CASE ~applyAmendment(s)
    BY <1>0, <2>1, <2>3, AmendmentActions
  <2> QED BY <2>2, <2>3
<1> QED BY <1>1, <1>2

------------------------------------------------------------------------------
\* The theorems.

\* Every row keeps its type while requests to the agreement, its amendments and
\* its settlements race each other: a version is locked exactly when both have
\* signed it, an amendment in effect was signed by both and has made a version,
\* and payments are bound to settlements that were accepted
\* (applySigningAtomically, applyAtomically, recordWithinSettlementCeiling).
THEOREM AgreementTypeCorrect == AgreementSpec => []TypesOK
<1>1. AgreementInv => TypesOK
  <2> SUFFICES ASSUME AgreementInv PROVE TypesOK
    OBVIOUS
  <2>0. LifeInv /\ AmendmentInv /\ SettlementInv
    BY DEF AgreementInv
  <2>1. TypeOK
    <3>1. /\ agreement.status \in AgreementStatus \cup {"absent", "deleted"}
          /\ agreement.version \in 0..Len(versions)
      BY <2>0 DEF LifeInv, RowsOK, CurrentIsLast, AgreementRow, AnyStatus
    <3>2. \A v \in DOMAIN versions : versions[v] \in VersionRow
      BY <2>0 DEF LifeInv, RowsOK
    <3>3. \A v \in DOMAIN versions :
            /\ versions[v].terms \in Nat /\ versions[v].signed \subseteq Role
            /\ versions[v].locked <=> versions[v].signed = Role
      BY <2>0, <3>2, VersionFields DEF LifeInv, LocksWhenSigned
    <3>4. \A c \in DOMAIN cancellations :
            /\ cancellations[c].by \in Role
            /\ cancellations[c].status \in {"pending", "accepted", "rejected"}
      <4>1. \A c \in DOMAIN cancellations : cancellations[c] \in CancellationRow
        BY <2>0 DEF LifeInv, RowsOK
      <4> QED BY <4>1 DEF CancellationRow
    <3>5. \A s \in Session : session[s].row \in 0..Len(cancellations)
      BY <2>0 DEF LifeInv, RowsOK, RequestsOK, RequestOK, RequestRow
    <3>6. consent \subseteq Role \X Nat
      BY <2>0 DEF LifeInv, RowsOK
    <3> QED BY <3>1, <3>3, <3>4, <3>5, <3>6 DEF TypeOK
  <2>2. AmendmentTypeOK
    <3>1. ASSUME NEW a \in DOMAIN amendments
          PROVE  /\ amendments[a].by \in Role /\ amendments[a].status \in AmendmentStatus
                 /\ AmendedOK(amendments[a])
      BY <2>0, AmendmentFields DEF AmendmentInv
    <3>2. \A s \in Session : handling[s].row \in 0..Len(amendments)
      BY <2>0, Opening DEF HandlingOK
    <3> QED BY <3>1, <3>2 DEF AmendmentTypeOK, AmendedOK
  <2>3. SettlementTypeOK
    <3>1. ASSUME NEW r \in DOMAIN proposals
          PROVE  /\ proposals[r].status \in SettlementStatus /\ proposals[r].amount \in OfferAmount
                 /\ proposals[r].status = "proposed" => \A p \in PaymentId : boundTo[p] # r
      <4>1. proposals[r] \in ProposalRow /\ r # 0
        BY <2>0 DEF SettlementInv
      <4> QED BY <2>0, <4>1 DEF SettlementInv, ProposalRow
    <3>2. \A s \in Session : settling[s].row \in 0..Len(proposals)
      BY <2>0, Settling DEF SettlingOK
    <3>3. job.pc \in {"idle", "sum", "fail", "complete", "settle"}
      BY <2>0 DEF SettlementInv, JobRow
    <3> QED BY <2>0, <3>1, <3>2, <3>3 DEF SettlementInv, SettlementTypeOK
  <2> QED BY <2>1, <2>2, <2>3 DEF TypesOK
<1> QED BY <1>1, InvariantHolds, PTL

\* An agreement in force, paused or paid stands on a version that both parties
\* signed, whatever revisions, cancellations, amendments and late writes raced
\* the signatures (applySigningAtomically, applyAtomically, decideAndApply).
THEOREM ForceNeedsSignatures == AgreementSpec => []InForceIsSigned
<1>1. AgreementInv => InForceIsSigned
  BY DEF AgreementInv, LifeInv
<1> QED BY <1>1, InvariantHolds, PTL

\* Every version succeeds the one before it, whichever revisions and amendments
\* were prepared on the same version: the unique version number and the row
\* locks let one of them through (applyAtomically, applyGeneralTermsRevisionAtomically).
THEOREM LineageStaysLinear == AgreementSpec => []LineageIsLinear
<1>1. AgreementInv => LineageIsLinear
  BY DEF AgreementInv, LifeInv
<1> QED BY <1>1, InvariantHolds, PTL

\* deleteDraft never removes an agreement of which a version carries a
\* signature, though it checks the status long before it deletes: the foreign
\* keys of the evidence and of the amendments hold the rows.
THEOREM SignedAgreementsStay == AgreementSpec => []SignedIsKept
<1>1. AgreementInv => SignedIsKept
  BY DEF AgreementInv
<1> QED BY <1>1, InvariantHolds, PTL

\* An agreement in force is canceled only on a request that was answered: a
\* cancelAgreement that read the agreement before the signatures has no effect
\* after them (updateStatusIfCurrentlyIn, markMutuallyCanceled).
THEOREM NobodyCancelsAlone == AgreementSpec => CancellationIsMutual
<1> DEFINE Mutual == agreement.status \in InForce /\ agreement'.status = "mutually_canceled" =>
                       \E c \in DOMAIN cancellations : cancellations[c].status # "pending"
<1>1. AgreementInv /\ [AgreementNext]_agreementVars => [Mutual]_vars
  <2> SUFFICES ASSUME AgreementInv, AgreementNext, agreement.status \in InForce,
                      agreement'.status = "mutually_canceled"
               PROVE  \E c \in DOMAIN cancellations : cancellations[c].status # "pending"
    BY DEF agreementVars
  <2>1. CASE NegotiationStep
    BY <2>1, MutualStep DEF NegotiationStep, AgreementInv
  <2>2. CASE AmendmentStep \/ SettlementStep
    BY <2>2, OthersCancelNothing DEF InForce
  <2> QED BY <2>1, <2>2 DEF AgreementNext
<1> QED BY <1>1, InvariantHolds, PTL DEF AgreementSpec, CancellationIsMutual

------------------------------------------------------------------------------
\* What the parties are shown (AgreementProgress).

\* The current version, as the view reads it.
LEMMA CurrentFields ==
  ASSUME LifeInv, Viewed
  PROVE  /\ Current.signed \subseteq Role
         /\ Current.locked <=> Current.signed = Role
         /\ Current.past \in BOOLEAN
         /\ agreement.status \in AgreementStatus
<1>1. /\ agreement \in AgreementRow /\ versions \in Seq(VersionRow)
      /\ agreement.version \in {0, Len(versions)} /\ Len(versions) \in Nat
  BY DEF LifeInv, RowsOK, CurrentIsLast
<1>2. agreement.version \in DOMAIN versions /\ Current \in VersionRow
  BY <1>1 DEF Viewed, Current
<1>3. agreement.status \in AgreementStatus
  BY <1>1 DEF Viewed, Exists, AgreementRow, AnyStatus
<1> QED
  BY <1>2, <1>3 DEF VersionRow, Current, LifeInv, LocksWhenSigned

LEMMA TurnIsAllowed ==
  ASSUME LifeInv, SessionAssumption
  PROVE  AskedIsAllowed
<1> SUFFICES ASSUME Viewed, NEW role \in Role
             PROVE  /\ acceptanceStep(role) = "action_required" <=>
                         \/ agreement.status = "draft"
                         \/ /\ agreement.status \in InNegotiation \ {"draft"}
                            /\ role = Reviewer(agreement.status)
                    /\ signaturesStep(role) = "action_required" <=>
                         agreement.status = "awaiting_signatures" /\ MaySign(Current, role)
  BY DEF AskedIsAllowed
<1>1. acceptanceStep(role) = "action_required" <=>
        \/ agreement.status = "draft"
        \/ agreement.status \in InNegotiation \ {"draft"} /\ role = Reviewer(agreement.status)
  BY DEF acceptanceStep, InNegotiation, PRE_ACCEPTANCE_STATUSES, Reviewer, Role
<1>2. CASE agreement.status # "awaiting_signatures"
  <2>1. signaturesStep(role) \in {"not_started", "complete"}
    BY <1>2 DEF signaturesStep
  <2> QED
    BY <1>1, <1>2, <2>1
<1>3. CASE agreement.status = "awaiting_signatures"
  <2>1. signaturesStep(role) =
          IF role \in Current.signed THEN "waiting"
          ELSE IF Current.past THEN "blocked"
          ELSE IF role = Originator /\ Other(role) \notin Current.signed THEN "waiting"
          ELSE "action_required"
    BY <1>3 DEF signaturesStep, PRE_ACCEPTANCE_STATUSES, InNegotiation
  <2>2. Current.locked => role \in Current.signed
    BY CurrentFields
  <2> QED
    BY <1>1, <1>3, <2>1, <2>2 DEF MaySign
<1> QED
  BY <1>2, <1>3

\* Two parties and one who drew the agreement up.
LEMMA TwoParties ==
  /\ Role = {"debtor", "creditor"}
  /\ Other("debtor") = "creditor" /\ Other("creditor") = "debtor"
BY DEF Role, Other

LEMMA HasTurn ==
  ASSUME LifeInv, SessionAssumption, Viewed,
         NEW ready \in Readiness, NEW unpaid \in NextUnpaid, NEW role \in Role
  PROVE  HasItsTurn(getProgress(role, ready, unpaid), getProgress(Other(role), ready, unpaid))
<1>1. CASE agreement.status = "mutually_canceled"
  BY <1>1 DEF getProgress, HasItsTurn
<1>2. CASE agreement.status # "mutually_canceled"
  <2>0. Other(role) \in Role /\ Other(role) # role /\ Role = {role, Other(role)}
    BY TwoParties
  <2>1. acceptanceStep(role) = "waiting" => acceptanceStep(Other(role)) = "action_required"
    BY TwoParties DEF acceptanceStep, InNegotiation, PRE_ACCEPTANCE_STATUSES
  <2>2. paymentMethodStep(role, ready) = "waiting" =>
          paymentMethodStep(Other(role), ready) = "action_required"
    BY TwoParties DEF paymentMethodStep, IsReady, Readiness
  <2>3. ASSUME signaturesStep(role) = "waiting", ~Current.locked
        PROVE  signaturesStep(Other(role)) \in {"action_required", "blocked"}
    <3>1. agreement.status = "awaiting_signatures"
      BY <2>3 DEF signaturesStep
    <3>2. \A r \in Role : signaturesStep(r) =
            IF r \in Current.signed THEN "waiting"
            ELSE IF Current.past THEN "blocked"
            ELSE IF r = Originator /\ Other(r) \notin Current.signed THEN "waiting"
            ELSE "action_required"
      BY <3>1 DEF signaturesStep, PRE_ACCEPTANCE_STATUSES, InNegotiation
    <3>3. Current.signed \subseteq Role /\ Current.signed # Role
      BY <2>3, CurrentFields
    <3>4. Other(Other(role)) = role
      BY TwoParties
    <3> QED
      BY <2>0, <2>3, <3>2, <3>3, <3>4
  <2> QED
    BY <1>2, <2>1, <2>2, <2>3 DEF getProgress, HasItsTurn
<1> QED
  BY <1>1, <1>2

LEMMA PaymentIsAwaited ==
  ASSUME LifeInv, Viewed, NEW ready \in Readiness, NEW unpaid \in NextUnpaid,
         NEW role \in Role, getProgress(role, ready, unpaid).active = "waiting"
  PROVE  \/ \E r \in Role : getProgress(r, ready, unpaid).payment_method
                              \in {"action_required", "blocked"}
         \/ unpaid.attempt = "open" \/ unpaid.due = "scheduled"
         \/ getProgress("debtor", ready, unpaid).active = "action_required"
<1>1. agreement.status # "mutually_canceled"
  BY DEF getProgress
<1>2. \A r \in Role : /\ getProgress(r, ready, unpaid).active = activeStep(r, ready, unpaid)
                      /\ getProgress(r, ready, unpaid).payment_method = paymentMethodStep(r, ready)
  BY <1>1 DEF getProgress
<1>3. activeStep(role, ready, unpaid) = "waiting"
  BY <1>2
<1>4. agreement.status \in InForce
  <2>1. agreement.status \in AgreementStatus
    BY CurrentFields
  <2> QED
    BY <1>1, <1>3, <2>1
    DEF activeStep, AgreementStatus, PRE_ACCEPTANCE_STATUSES, InNegotiation
<1>5. \A r \in Role : activeStep(r, ready, unpaid) =
        IF ~IsReady(ready) THEN "waiting"
        ELSE IF unpaid.due = "paid" THEN "complete"
        ELSE IF /\ r = "debtor" /\ unpaid.attempt # "open"
                /\ unpaid.attempt = "failed" \/ unpaid.due = "past_due"
          THEN "action_required" ELSE "waiting"
  BY <1>4 DEF activeStep, InForce, PRE_ACCEPTANCE_STATUSES, InNegotiation
<1>6. CASE ~IsReady(ready)
  <2>1. \E r \in Role : paymentMethodStep(r, ready) \in {"action_required", "blocked"}
    BY <1>4, <1>6, TwoParties
    DEF paymentMethodStep, IsReady, Readiness, InForce, PRE_ACCEPTANCE_STATUSES, InNegotiation
  <2> QED
    BY <1>2, <2>1
<1>7. CASE IsReady(ready)
  <2>1. unpaid.due \in {"scheduled", "past_due"}
    BY <1>3, <1>5, <1>7 DEF NextUnpaid
  <2> QED
    BY <1>2, <1>5, <1>7, <2>1, TwoParties
<1> QED
  BY <1>6, <1>7

LEMMA NobodyWaitsForNobody ==
  ASSUME LifeInv, SessionAssumption
  PROVE  WaitsForSomeone
<1> SUFFICES ASSUME Viewed, NEW ready \in Readiness, NEW unpaid \in NextUnpaid,
                    NEW debtor, debtor = getProgress("debtor", ready, unpaid),
                    NEW creditor, creditor = getProgress("creditor", ready, unpaid)
             PROVE  /\ HasItsTurn(debtor, creditor) /\ HasItsTurn(creditor, debtor)
                    /\ "waiting" \in {debtor.active, creditor.active} =>
                         \/ {debtor.payment_method, creditor.payment_method}
                              \cap {"action_required", "blocked"} # {}
                         \/ unpaid.attempt = "open" \/ unpaid.due = "scheduled"
                         \/ debtor.active = "action_required"
  BY DEF WaitsForSomeone
<1>1. HasItsTurn(debtor, creditor) /\ HasItsTurn(creditor, debtor)
  <2>1. \A role \in Role : HasItsTurn(getProgress(role, ready, unpaid),
                                      getProgress(Other(role), ready, unpaid))
    BY HasTurn
  <2> QED
    BY <2>1, TwoParties
<1>2. ASSUME "waiting" \in {debtor.active, creditor.active}
      PROVE  \/ {debtor.payment_method, creditor.payment_method}
                  \cap {"action_required", "blocked"} # {}
             \/ unpaid.attempt = "open" \/ unpaid.due = "scheduled"
             \/ debtor.active = "action_required"
  <2>1. PICK role \in Role : getProgress(role, ready, unpaid).active = "waiting"
    BY <1>2, TwoParties
  <2>2. \/ \E r \in Role : getProgress(r, ready, unpaid).payment_method
                             \in {"action_required", "blocked"}
        \/ unpaid.attempt = "open" \/ unpaid.due = "scheduled"
        \/ debtor.active = "action_required"
    BY <2>1, PaymentIsAwaited
  <2> QED
    BY <2>2, TwoParties
<1> QED
  BY <1>1, <1>2

\* Whoever negotiates, revises, signs, amends or settles meanwhile, the view
\* that AgreementProgressService computes on its own asks a party for what the
\* services would let it do, and leaves no two parties waiting for each other:
\* it rests on a version being locked exactly when both have signed it.
THEOREM TurnsStayClear ==
  AgreementSpec => [](AskedIsAllowed /\ WaitsForSomeone) /\ TurnsAreClear
<1>1. AgreementInv => AskedIsAllowed /\ WaitsForSomeone
  BY SessionAssumption, TurnIsAllowed, NobodyWaitsForNobody DEF AgreementInv
<1>2. AgreementInv' => AskedIsAllowed' /\ WaitsForSomeone'
  BY <1>1, PTL
<1>3. AgreementInv' =>
        [agreement' # agreement \/ versions' # versions =>
           AskedIsAllowed' /\ WaitsForSomeone']_vars
  BY <1>2
<1> QED
  BY <1>1, <1>3, InvariantHolds, PTL DEF TurnsAreClear

------------------------------------------------------------------------------
\* What a settlement collects.

\* h has seen what it works on collect the amount that it read.
HasCollected(h) == Collected(h.row) >= h.amount

\* What a request to a settlement has in hand beyond SettlingOK: a payment is
\* recorded with the settlement it is bound to, and what is to be completed has
\* collected what the request found to be the amount.
CollectingOK(s) ==
  LET h == settling[s] IN
  /\ h.pc # "idle" /\ h.op = "record" => h.row = boundTo[h.payment]
  /\ h.pc \in {"complete", "settle"} => HasCollected(h)

JobOK == job.pc \in {"complete", "settle"} => HasCollected(job)

CollectInv == (\A s \in Session : CollectingOK(s)) /\ JobOK

LEMMA CollectedIs ==
  ASSUME SettlementInv, NEW r
  PROVE  /\ IsFiniteSet({p \in linked : boundTo[p] = r})
         /\ \A p \in {q \in linked : boundTo[q] = r} : PaymentAmount[p] \in Nat
         /\ Collected(r) \in Nat
<1> DEFINE S == {p \in linked : boundTo[p] = r}
<1>1. S \subseteq PaymentId /\ IsFiniteSet(PaymentId)
  BY SettlementAssumption DEF SettlementInv
<1>2. IsFiniteSet(S)
  BY <1>1, FS_Subset
<1>3. \A p \in S : PaymentAmount[p] \in Nat
  BY <1>1, SettlementAssumption
<1>4. Collected(r) = SumFunctionOnSet(PaymentAmount, S)
  BY DEF Collected
<1> HIDE DEF S
<1>5. Collected(r) \in Nat
  BY <1>2, <1>3, <1>4, SumNat
<1> QED
  BY <1>2, <1>3, <1>5 DEF S

LEMMA CollectedNat == SettlementInv' => \A r : Collected(r)' \in Nat
<1> DEFINE AllNat == \A r : Collected(r) \in Nat
<1>1. SettlementInv => AllNat
  BY CollectedIs
<1> HIDE DEF AllNat
<1>2. SettlementInv' => AllNat'
  BY <1>1, PTL
<1> QED
  BY <1>2 DEF AllNat

\* Links are never taken back, and a payment stays with its settlement.
LEMMA CollectedGrows ==
  ASSUME SettlementInv, SettlementInv', linked \subseteq linked',
         \A p \in PaymentId : boundTo[p] # 0 => boundTo'[p] = boundTo[p], NEW r
  PROVE  Collected(r) <= Collected(r)'
<1> DEFINE S == {p \in linked : boundTo[p] = r}
           T == {p \in linked' : boundTo'[p] = r}
<1>1. S \subseteq T
  BY DEF SettlementInv
<1>2. T \subseteq PaymentId /\ IsFiniteSet(PaymentId)
  BY SettlementAssumption DEF SettlementInv
<1>3. IsFiniteSet(T)
  BY <1>2, FS_Subset
<1>4. \A p \in T : PaymentAmount[p] \in Nat
  BY <1>2, SettlementAssumption
<1>5. /\ Collected(r) = SumFunctionOnSet(PaymentAmount, S)
      /\ Collected(r)' = SumFunctionOnSet(PaymentAmount, T)
  BY DEF Collected
<1> HIDE DEF S, T
<1> QED
  BY <1>1, <1>3, <1>4, <1>5, SumOfMore

LEMMA CollectedWith ==
  ASSUME SettlementInv, NEW p \in PaymentId, p \notin linked, linked' = linked \cup {p},
         boundTo' = boundTo
  PROVE  \A r : Collected(r)' = IF boundTo[p] = r THEN Collected(r) + PaymentAmount[p]
                                                  ELSE Collected(r)
<1> SUFFICES ASSUME NEW r
             PROVE  Collected(r)' = IF boundTo[p] = r THEN Collected(r) + PaymentAmount[p]
                                                      ELSE Collected(r)
  OBVIOUS
<1> DEFINE S == {q \in linked : boundTo[q] = r}
           T == {q \in linked' : boundTo'[q] = r}
<1>1. T = IF boundTo[p] = r THEN S \cup {p} ELSE S
  OBVIOUS
<1>2. /\ Collected(r) = SumFunctionOnSet(PaymentAmount, S)
      /\ Collected(r)' = SumFunctionOnSet(PaymentAmount, T)
  BY DEF Collected
<1>3. IsFiniteSet(S) /\ \A q \in S : PaymentAmount[q] \in Int
  <2>1. IsFiniteSet(S) /\ \A q \in S : PaymentAmount[q] \in Nat
    BY CollectedIs
  <2> QED
    BY <2>1
<1>4. p \notin S /\ PaymentAmount[p] \in Int
  BY SettlementAssumption
<1> HIDE DEF S, T
<1>5. SumFunctionOnSet(PaymentAmount, S \cup {p}) = SumFunctionOnSet(PaymentAmount, S) + PaymentAmount[p]
  BY <1>3, <1>4, SumAdd
<1> QED
  BY <1>1, <1>2, <1>5

LEMMA AmountsAreNumbers ==
  SettlementInv => job.amount \in Nat /\ \A s \in Session : settling[s].amount \in Nat
<1>1. OfferAmount \cup {0} \subseteq Nat
  BY SettlementAssumption
<1>2. SettlementInv => /\ job.amount \in OfferAmount \cup {0}
                       /\ \A s \in Session : settling[s].amount \in OfferAmount \cup {0}
  BY DEF SettlementInv, JobRow, SettlingRow
<1> QED
  BY <1>1, <1>2

\* What no step undoes.
LinksStay ==
  /\ linked \subseteq linked'
  /\ \A p \in PaymentId : boundTo[p] # 0 => boundTo'[p] = boundTo[p]

LEMMA CollectedStays ==
  ASSUME SettlementInv, SettlementInv', LinksStay
  PROVE  \A r : \A amount \in Nat : Collected(r) >= amount => Collected(r)' >= amount
<1> SUFFICES ASSUME NEW r, NEW amount \in Nat, Collected(r) >= amount
             PROVE  Collected(r)' >= amount
  OBVIOUS
<1>1. Collected(r) <= Collected(r)' /\ Collected(r) \in Nat
  BY CollectedGrows, CollectedIs DEF LinksStay
<1>2. Collected(r)' \in Nat
  BY CollectedNat
<1> QED
  BY <1>1, <1>2

LEMMA CollectingStays ==
  ASSUME SettlementInv, SettlementInv', LinksStay, NEW s \in Session, CollectingOK(s),
         settling'[s] = settling[s]
  PROVE  CollectingOK(s)'
<1>1. settling[s].pc # "idle" /\ settling[s].op = "record" =>
        settling[s].row = boundTo'[settling[s].payment]
  BY Settling DEF SettlingOK, CollectingOK, LinksStay
<1>2. settling[s].amount \in Nat
  BY AmountsAreNumbers
<1>3. HasCollected(settling[s]) => HasCollected(settling[s])'
  BY <1>2, CollectedStays DEF HasCollected
<1> QED
  BY <1>1, <1>3 DEF CollectingOK

LEMMA JobStays ==
  ASSUME SettlementInv, SettlementInv', LinksStay, JobOK,
         job'.row = job.row, job'.amount = job.amount,
         job'.pc \in {"complete", "settle"} => job.pc \in {"complete", "settle"}
  PROVE  JobOK'
<1>1. job.amount \in Nat
  BY AmountsAreNumbers
<1>2. HasCollected(job) => HasCollected(job)'
  BY <1>1, CollectedStays DEF HasCollected
<1> QED
  BY <1>2 DEF JobOK

\* A step keeps what is in hand, if the one who moves has in hand what it says.
LEMMA CollectKeeps ==
  ASSUME SettlementInv, SettlementInv', CollectInv, LinksStay,
         \A s \in Session : settling'[s] = settling[s] \/ CollectingOK(s)',
         job' = job \/ JobOK'
  PROVE  CollectInv'
BY CollectingStays, JobStays DEF CollectInv

\* A request that ends has nothing in hand.
LEMMA NothingInHand ==
  ASSUME SettlementInv, NEW s \in Session, Leaves(s, "done")
  PROVE  CollectingOK(s)' /\ \A t \in Session \ {s} : settling'[t] = settling[t]
<1>1. settling'[s] = NotSettling /\ \A t \in Session \ {s} : settling'[t] = settling[t]
  BY DEF Leaves, SettlementInv
<1> QED
  BY <1>1 DEF CollectingOK, NotSettling

\* A request goes on with the same in hand.
LEMMA SameInHand ==
  ASSUME SettlementInv, NEW s \in Session, NEW next \in {"complete", "settle"}, Leaves(s, next)
  PROVE  /\ settling'[s].pc = next /\ settling'[s].op = settling[s].op
         /\ settling'[s].row = settling[s].row /\ settling'[s].amount = settling[s].amount
         /\ settling'[s].payment = settling[s].payment
         /\ \A t \in Session \ {s} : settling'[t] = settling[t]
<1>1. settling \in [Session -> SettlingRow]
  BY DEF SettlementInv
<1>2. settling' = [settling EXCEPT ![s] = [settling[s] EXCEPT !.pc = next]]
  BY DEF Leaves
<1> DEFINE row == [settling[s] EXCEPT !.pc = next]
<1>3. /\ row.pc = next /\ row.op = settling[s].op /\ row.row = settling[s].row
      /\ row.amount = settling[s].amount /\ row.payment = settling[s].payment
  BY <1>1 DEF SettlingRow
<1> HIDE DEF row
<1>4. settling' = [settling EXCEPT ![s] = row]
  BY <1>2 DEF row
<1> QED
  BY <1>1, <1>3, <1>4

\* A request is taken up.
LEMMA TakenInHand ==
  ASSUME SettlementInv, NEW s \in Session, NEW op, NEW r, NEW p, Takes(s, op, r, p),
         op = "record" => boundTo[p] = r
  PROVE  CollectingOK(s)' /\ \A t \in Session \ {s} : settling'[t] = settling[t]
<1>1. UNCHANGED boundTo
  BY DEF Takes
<1>2. /\ settling'[s] = [op |-> op, pc |-> "write", row |-> r,
                         amount |-> proposals[r].amount, payment |-> p]
      /\ \A t \in Session \ {s} : settling'[t] = settling[t]
  BY DEF Takes, SettlementInv
<1> QED
  BY <1>1, <1>2 DEF CollectingOK

\* Only the record of a payment changes what is collected, and within the
\* ceiling; and only who has seen it collected settles the agreement.
CollectsStep ==
  /\ \A r \in DOMAIN proposals :
       linked' # linked /\ Collected(r)' # Collected(r) => Collected(r)' <= proposals[r].amount
  /\ \/ agreement' = agreement
     \/ SettlesInFull(job) \/ \E s \in Session : SettlesInFull(settling[s])

\* What a party does that records no payment.
LEMMA NegotiateKeeps ==
  ASSUME SettlementInv, SettlementInv', CollectInv, NEW s \in Session,
         proposeSettlement(s) \/ decideSettlement(s) \/ AbandonSettlement(s)
  PROVE  CollectInv' /\ CollectsStep
<1>1. UNCHANGED <<boundTo, linked, agreement, job>>
  BY DEF proposeSettlement, decideSettlement, AbandonSettlement, Takes
<1>2. \/ settling' = settling
      \/ CollectingOK(s)' /\ \A t \in Session \ {s} : settling'[t] = settling[t]
  <2>1. \/ settling' = settling
        \/ Leaves(s, "done")
        \/ \E op \in {"accept", "reject", "counter"}, r \in DOMAIN proposals : Takes(s, op, r, "none")
    BY DEF proposeSettlement, decideSettlement, AbandonSettlement
  <2> QED
    BY <2>1, NothingInHand, TakenInHand
<1>3. CollectInv'
  BY <1>1, <1>2, CollectKeeps DEF LinksStay
<1> QED
  BY <1>1, <1>3 DEF CollectsStep

\* The link is made within the ceiling, under the proposal's lock; who then
\* finds the amount reached has seen it collected.
LEMMA LinkKeeps ==
  ASSUME SettlementInv, SettlementInv', CollectInv, NEW s \in Session,
         NEW r, r = settling[s].row, NEW p, p = settling[s].payment,
         Settles(s, "record", "write"), UNCHANGED <<proposals, boundTo, agreement, job>>,
         WithinCeiling(r, p), linked' = linked \cup {p},
         Leaves(s, IF ReachesAmount(Collected(r) + PaymentAmount[p], settling[s].amount)
                     THEN "complete" ELSE "done")
  PROVE  CollectInv' /\ CollectsStep
<1>1. r \in DOMAIN proposals /\ p \in PaymentId /\ r = boundTo[p]
  BY Settling DEF Settles, SettlingOK, CollectInv, CollectingOK
<1>2. p \notin linked /\ Collected(r) + PaymentAmount[p] <= proposals[r].amount
  BY DEF WithinCeiling
<1>3. \A q : Collected(q)' = IF boundTo[p] = q THEN Collected(q) + PaymentAmount[p]
                                               ELSE Collected(q)
  BY <1>1, <1>2, CollectedWith
<1>4. CollectsStep
  BY <1>1, <1>2, <1>3 DEF CollectsStep
<1>5. CollectingOK(s)' /\ \A t \in Session \ {s} : settling'[t] = settling[t]
  <2>1. CASE ReachesAmount(Collected(r) + PaymentAmount[p], settling[s].amount)
    <3>1. /\ settling'[s].pc = "complete" /\ settling'[s].row = r
          /\ settling'[s].amount = settling[s].amount /\ settling'[s].payment = p
          /\ \A t \in Session \ {s} : settling'[t] = settling[t]
      BY <2>1, SameInHand
    <3>2. Collected(r)' >= settling[s].amount
      BY <1>1, <1>3, <2>1 DEF ReachesAmount
    <3>3. HasCollected(settling[s])'
      BY <3>1, <3>2 DEF HasCollected
    <3> QED
      BY <1>1, <3>1, <3>3 DEF CollectingOK
  <2>2. CASE ~ReachesAmount(Collected(r) + PaymentAmount[p], settling[s].amount)
    BY <2>2, NothingInHand
  <2> QED
    BY <2>1, <2>2
<1>6. CollectInv'
  BY <1>5, CollectKeeps DEF LinksStay
<1> QED
  BY <1>4, <1>6

LEMMA RecordKeeps ==
  ASSUME SettlementInv, SettlementInv', CollectInv, NEW s \in Session,
         recordSettlementPayment(s)
  PROVE  CollectInv' /\ CollectsStep
<1> DEFINE r == settling[s].row
           p == settling[s].payment
<1>0. UNCHANGED <<boundTo, job>>
  BY DEF recordSettlementPayment, Takes
<1>1. ASSUME UNCHANGED <<linked, agreement>>,
             CollectingOK(s)', \A t \in Session \ {s} : settling'[t] = settling[t]
      PROVE  CollectInv' /\ CollectsStep
  <2>1. CollectInv'
    BY <1>0, <1>1, CollectKeeps DEF LinksStay
  <2> QED
    BY <1>1, <2>1 DEF CollectsStep
<1>2. CASE \E q \in PaymentId : boundTo[q] # 0 /\ Takes(s, "record", boundTo[q], q)
  <2>1. UNCHANGED <<linked, agreement>>
    BY <1>2 DEF Takes
  <2>2. CollectingOK(s)' /\ \A t \in Session \ {s} : settling'[t] = settling[t]
    BY <1>2, TakenInHand
  <2> QED
    BY <1>1, <2>1, <2>2
<1>3. CASE /\ Settles(s, "record", "write")
           /\ IF WithinCeiling(r, p)
                THEN /\ linked' = linked \cup {p}
                     /\ Leaves(s, IF ReachesAmount(Collected(r) + PaymentAmount[p], settling[s].amount)
                                    THEN "complete" ELSE "done")
                ELSE Leaves(s, "done") /\ UNCHANGED linked
           /\ UNCHANGED <<proposals, boundTo, agreement>>
  <2>1. CASE WithinCeiling(r, p)
    BY <1>0, <1>3, <2>1, LinkKeeps
  <2>2. CASE ~WithinCeiling(r, p)
    BY <1>1, <1>3, <2>2, NothingInHand
  <2> QED
    BY <2>1, <2>2
<1>4. CASE Settles(s, "record", "complete") /\ Leaves(s, "settle") /\ UNCHANGED <<linked, agreement>>
  <2>1. HasCollected(settling[s]) /\ settling[s].amount \in Nat
    BY <1>4, AmountsAreNumbers DEF Settles, CollectInv, CollectingOK
  <2>2. /\ settling'[s].pc = "settle" /\ settling'[s].op = settling[s].op
        /\ settling'[s].row = r /\ settling'[s].amount = settling[s].amount
        /\ settling'[s].payment = p
        /\ \A t \in Session \ {s} : settling'[t] = settling[t]
    BY <1>4, SameInHand
  <2>3. HasCollected(settling[s])'
    BY <1>0, <1>4, <2>1, <2>2, CollectedStays DEF HasCollected, LinksStay
  <2>4. CollectingOK(s)'
    BY <1>0, <1>4, <2>2, <2>3 DEF CollectInv, CollectingOK, Settles
  <2> QED
    BY <1>1, <1>4, <2>2, <2>4
<1>5. CASE Settles(s, "record", "settle") /\ Leaves(s, "done") /\ UNCHANGED linked
  <2>1. SettlesInFull(settling[s])
    BY <1>5 DEF Settles, CollectInv, CollectingOK, HasCollected, SettlesInFull
  <2>2. CollectingOK(s)' /\ \A t \in Session \ {s} : settling'[t] = settling[t]
    BY <1>5, NothingInHand
  <2>3. CollectInv'
    BY <1>0, <1>5, <2>2, CollectKeeps DEF LinksStay
  <2> QED
    BY <1>5, <2>1, <2>3 DEF CollectsStep
<1> QED
  BY <1>2, <1>3, <1>4, <1>5, Zenon DEF recordSettlementPayment

LEMMA OutsideKeeps ==
  ASSUME SettlementInv, SettlementInv', CollectInv,
         PaymentSucceeds \/ \E r \in DOMAIN proposals : DeadlinePasses(r)
  PROVE  CollectInv' /\ CollectsStep
<1>1. UNCHANGED <<linked, settling, agreement, job>>
  BY DEF PaymentSucceeds, DeadlinePasses
<1>2. LinksStay
  BY <1>1 DEF PaymentSucceeds, DeadlinePasses, LinksStay, SettlementInv
<1>3. CollectInv'
  BY <1>1, <1>2, CollectKeeps
<1> QED
  BY <1>1, <1>3 DEF CollectsStep

\* The job completes what it has seen collected, though it looked long before.
LEMMA JobKeeps ==
  ASSUME SettlementInv, SettlementInv', CollectInv, expireOverdueSettlements
  PROVE  CollectInv' /\ CollectsStep
<1>0. UNCHANGED <<boundTo, linked, settling>> /\ LinksStay
  BY DEF expireOverdueSettlements, LinksStay
<1>1. ASSUME NEW pc, JobAt(pc)
      PROVE  job'.pc = pc /\ job'.row = job.row /\ job'.amount = job.amount
  BY <1>1 DEF JobAt, SettlementInv, JobRow
<1>2. JobOK'
  <2>1. CASE job'.pc \notin {"complete", "settle"}
    BY <2>1 DEF JobOK
  <2>2. CASE job.pc = "sum" /\ JobAt("complete") /\ ReachesAmount(Collected(job.row), job.amount)
    <3>1. HasCollected(job) /\ job.amount \in Nat
      BY <2>2, AmountsAreNumbers DEF ReachesAmount, HasCollected
    <3>2. job'.row = job.row /\ job'.amount = job.amount
      BY <1>1, <2>2
    <3>3. HasCollected(job)'
      BY <1>0, <3>1, <3>2, CollectedStays DEF HasCollected
    <3> QED
      BY <3>3 DEF JobOK
  <2>3. CASE job.pc = "complete" /\ JobAt("settle")
    BY <1>0, <1>1, <2>3, JobStays DEF CollectInv
  <2>4. \/ job'.pc \notin {"complete", "settle"}
        \/ job.pc = "sum" /\ JobAt("complete") /\ ReachesAmount(Collected(job.row), job.amount)
        \/ job.pc = "complete" /\ JobAt("settle")
    <3>1. JobAt("idle") \/ JobAt("fail") => job'.pc \notin {"complete", "settle"}
      BY <1>1
    <3>2. CASE \E r \in DOMAIN proposals :
                 job' = [pc |-> "sum", row |-> r, amount |-> proposals[r].amount]
      BY <3>2
    <3>3. CASE job.pc = "sum" /\ JobAt(IF ReachesAmount(Collected(job.row), job.amount)
                                         THEN "complete" ELSE "fail")
      BY <3>1, <3>3
    <3> QED
      BY <3>1, <3>2, <3>3 DEF expireOverdueSettlements
  <2> QED
    BY <2>1, <2>2, <2>3, <2>4
<1>3. CollectInv'
  BY <1>0, <1>2, CollectKeeps
<1>4. agreement' = agreement \/ SettlesInFull(job)
  <2>1. agreement' = agreement \/ job.pc = "settle"
    BY DEF expireOverdueSettlements
  <2> QED
    BY <2>1 DEF CollectInv, JobOK, HasCollected, SettlesInFull
<1> QED
  BY <1>0, <1>3, <1>4 DEF CollectsStep

LEMMA CollectStep ==
  ASSUME SettlementInv, SettlementInv', CollectInv, SettlementNext
  PROVE  CollectInv' /\ CollectsStep
BY NegotiateKeeps, RecordKeeps, OutsideKeeps, JobKeeps DEF SettlementNext

\* Nothing but a settlement settles the agreement.
LEMMA OthersSettleNothing ==
  ASSUME agreement \in AgreementRow, Next, agreement'.status = "settled_in_full"
  PROVE  agreement.status = "settled_in_full"
<1>1. ASSUME \/ agreement' = agreement
             \/ \E x \in AnyStatus \ {"settled_in_full"} :
                  agreement' = [agreement EXCEPT !.status = x]
             \/ \E v : agreement' = [agreement EXCEPT !.version = v]
             \/ \E x \in AnyStatus \ {"settled_in_full"} : \E v :
                  agreement' = [status |-> x, version |-> v]
      PROVE  agreement.status = "settled_in_full"
  <2>1. \A x : agreement' = [agreement EXCEPT !.status = x] => agreement'.status = x
    BY DEF AgreementRow
  <2>2. \A v : agreement' = [agreement EXCEPT !.version = v] =>
                 agreement'.status = agreement.status
    BY DEF AgreementRow
  <2>3. \A x, v : agreement' = [status |-> x, version |-> v] => agreement'.status = x
    OBVIOUS
  <2> QED
    BY <1>1, <2>1, <2>2, <2>3
<1> USE DEF AnyStatus, AgreementStatus, InNegotiation, InForce, life
<1>2. ASSUME NEW s \in Session, LifecycleStep(s)
      PROVE  agreement.status = "settled_in_full"
  <2>1. CASE createDraft(s)
    BY <1>1, <2>1 DEF createDraft
  <2>2. CASE deleteDraft(s) \/ submitDraft(s) \/ acknowledgeDebt(s) \/ rejectAgreement(s)
    BY <1>1, <2>2 DEF deleteDraft, submitDraft, acknowledgeDebt, rejectAgreement, Reads, updateStatus
  <2>3. CASE acceptAgreement(s) \/ cancelAgreement(s) \/ requestCancellation(s) \/ Abandon(s)
    BY <1>1, <2>3 DEF acceptAgreement, cancelAgreement, requestCancellation, Abandon, Reads
  <2>4. CASE reviseTerms(s)
    BY <1>1, <2>4 DEF reviseTerms, Reads
  <2>5. CASE signAgreement(s)
    <3>1. \/ agreement' = agreement
          \/ agreement' = [agreement EXCEPT !.status = "first_payment_pending"]
      BY <2>5 DEF signAgreement, Reads
    <3> QED
      BY <1>1, <3>1
  <2>6. CASE reviseFirstPaymentDate(s)
    BY <1>1, <2>6 DEF reviseFirstPaymentDate, Reads, NewVersion
  <2>7. CASE decideCancellation(s)
    BY <1>1, <2>7 DEF decideCancellation, updateStatus
  <2> QED
    BY <1>2, <2>1, <2>2, <2>3, <2>4, <2>5, <2>6, <2>7 DEF LifecycleStep
<1>3. CASE DatePasses \/ decideAndApply
  BY <1>1, <1>3 DEF DatePasses, decideAndApply
<1> QED
  BY <1>2, <1>3 DEF Next

LEMMA AmendmentsSettleNothing ==
  ASSUME AgreementInv, AmendmentStep, agreement'.status = "settled_in_full"
  PROVE  agreement.status = "settled_in_full"
<1>1. PICK s \in Session :
        \/ proposeAmendment(s) \/ decideAmendment(s) \/ withdrawAmendment(s)
        \/ signAmendment(s) \/ applyAmendment(s) \/ AbandonAmendment(s)
  BY DEF AmendmentStep, AmendmentNext
<1>2. CASE applyAmendment(s)
  <2>1. \/ agreement' = agreement
        \/ agreement' = [status |-> IF amendments[handling[s].row].pause
                                      THEN "paused_by_amendment" ELSE agreement.status,
                         version |-> Len(versions) + 1]
    BY <1>2 DEF applyAmendment
  <2> QED BY <2>1
<1>3. CASE ~applyAmendment(s)
  BY <1>1, <1>3, AmendmentActions DEF AgreementInv, LifeInv, RowsOK
<1> QED BY <1>2, <1>3

\* A settlement collects its amount and no more, however many payments are
\* recorded at once (recordWithinSettlementCeiling); an agreement is settled in
\* full only by who has seen the whole amount that it found awaited clear, a
\* party or the job (recordSettlementPayment, expireOverdueSettlements), whoever
\* and how many negotiate, link and complete at the time.
THEOREM SettlementsCollect == AgreementSpec => CollectsItsAmount
<1> DEFINE Collects ==
      /\ \A r \in DOMAIN proposals :
           linked' # linked /\ Collected(r)' # Collected(r) => Collected(r)' <= proposals[r].amount
      /\ agreement.status # "settled_in_full" /\ agreement'.status = "settled_in_full" =>
           SettlesInFull(job) \/ \E s \in Session : SettlesInFull(settling[s])
<1>1. AgreementInit => CollectInv
  <2> SUFFICES ASSUME AgreementInit PROVE CollectInv
    OBVIOUS
  <2>1. job.pc = "idle" /\ \A s \in Session : settling[s].pc = "idle"
    BY DEF AgreementInit, SettlementInit, NotSettling
  <2> QED
    BY <2>1 DEF CollectInv, CollectingOK, JobOK
<1>2. AgreementInv /\ AgreementInv' /\ CollectInv /\ [AgreementNext]_agreementVars
        => CollectInv' /\ [Collects]_<<agreement, settlementVars>>
  <2> SUFFICES ASSUME AgreementInv, AgreementInv', CollectInv, [AgreementNext]_agreementVars
               PROVE  CollectInv' /\ [Collects]_<<agreement, settlementVars>>
    OBVIOUS
  <2>0. SettlementInv /\ SettlementInv' /\ agreement \in AgreementRow
    BY DEF AgreementInv, LifeInv, RowsOK
  <2>1. CASE SettlementStep
    <3>1. CollectInv' /\ CollectsStep
      BY <2>0, <2>1, CollectStep DEF SettlementStep
    <3> QED
      BY <3>1 DEF CollectsStep
  <2>2. CASE /\ UNCHANGED settlementVars
             /\ agreement'.status = "settled_in_full" => agreement.status = "settled_in_full"
    <3>1. UNCHANGED <<proposals, boundTo, linked, settling, job>>
      BY <2>2 DEF settlementVars
    <3>2. CollectInv'
      BY <2>0, <3>1, CollectKeeps DEF LinksStay
    <3> QED
      BY <2>2, <3>1, <3>2
  <2>3. CASE NegotiationStep
    BY <2>0, <2>2, <2>3, OthersSettleNothing DEF NegotiationStep
  <2>4. CASE AmendmentStep
    BY <2>2, <2>4, AmendmentsSettleNothing DEF AmendmentStep
  <2>5. CASE UNCHANGED agreementVars
    BY <2>2, <2>5 DEF agreementVars, vars, life
  <2> QED
    BY <2>1, <2>3, <2>4, <2>5 DEF AgreementNext
<1> QED
  BY <1>1, <1>2, InvariantHolds, PTL DEF AgreementSpec, CollectsItsAmount

------------------------------------------------------------------------------
\* What becomes of a partial payment.

PartialRow ==
  [status : {"absent", "proposed", "awaiting_payment", "rejected", "applied", "expired"},
   by : Role, amount : Nat, late : BOOLEAN, payment : Nat]

AttemptRow ==
  [status : {"submitted", "succeeded", "failed", "refunded"}, amount : Nat,
   cleared : BOOLEAN, event : {"none", "received", "processed"}]

PayingRow ==
  [op : {"none", "accept", "reject", "counter", "pay", "record"}, amount : Nat, payment : Nat]

ApplierRow ==
  [pc : {"idle", "apply", "conflict", "finalize"}, attempt : Nat, superseded : BOOLEAN,
   repair : BOOLEAN]

PartialRows ==
  /\ partial \in PartialRow
  /\ attempts \in Seq(AttemptRow)
  /\ retry \in {"none", "scheduled", "claimed", "fired", "canceled"}
  /\ paying \in [Session -> PayingRow]
  /\ applier \in [Applier -> ApplierRow]

\* Only a payment that succeeded clears or has a success to deal with.
AttemptOK(a) ==
  /\ a.cleared \/ a.event # "none" => a.status \in {"succeeded", "refunded"}
  /\ a.status = "refunded" => a.cleared

\* The payment has failed before it has a retry, and the charge of a retry that
\* was called off has failed with it.
RetryOK ==
  /\ retry = "none" => Len(attempts) \in {0, 1}
  /\ retry = "scheduled" => Len(attempts) = 1
  /\ retry \in {"claimed", "fired"} => Len(attempts) = 2
  /\ retry = "canceled" => Len(attempts) \in {1, 2}
  /\ retry # "none" => attempts[1].status = "failed"
  /\ retry = "canceled" /\ Len(attempts) = 2 => attempts[2].status = "failed"

\* Whoever applies a payment has seen it cleared, and clearing is for good.
ApplierOK(a) ==
  a.pc # "idle" => a.attempt \in DOMAIN attempts /\ attempts[a.attempt].cleared

PartialInv ==
  /\ PartialRows /\ RetryOK
  /\ \A n \in DOMAIN attempts : AttemptOK(attempts[n])
  /\ \A w \in Applier : ApplierOK(applier[w])

\* A payment has used up the proposal, or it is on record that one could not.
IsDealt == partial.payment # NoPayment \/ <<"conflict", 0>> \in evidence

\* A proposal that names a payment is there, and who is about to record one has
\* it in hand: so no answer, however late, takes the payment off it.
DealtInv ==
  /\ PaidIsAppliedOrSurfaced
  /\ \A w \in Applier : applier[w].pc = "finalize" => IsDealt
  /\ partial.payment # NoPayment => partial.status # "absent"
  /\ \A s \in Session : paying[s].op = "record" => paying[s].payment # NoPayment

\* A row of the sequence is changed.
LEMMA PaymentChanged ==
  ASSUME PartialRows, NEW n \in DOMAIN attempts, NEW a \in AttemptRow,
         attempts' = [attempts EXCEPT ![n] = a]
  PROVE  /\ attempts' \in Seq(AttemptRow)
         /\ Len(attempts') = Len(attempts)
         /\ attempts'[n] = a
         /\ \A m \in DOMAIN attempts \ {n} : attempts'[m] = attempts[m]
<1>1. attempts \in Seq(AttemptRow)
  BY DEF PartialRows
<1> QED
  BY <1>1

\* A payment moves on, alone or with its retry.
LEMMA BecomesKeeps ==
  ASSUME PartialInv, NEW n \in DOMAIN attempts,
         NEW from \in {"submitted", "succeeded"}, NEW to \in {"succeeded", "failed", "refunded"},
         Becomes(n, from, to),
         to = "succeeded" \/ to = "failed" => from = "submitted",
         to = "refunded" => attempts[n].cleared
  PROVE  /\ attempts' \in Seq(AttemptRow) /\ Len(attempts') = Len(attempts)
         /\ \A m \in DOMAIN attempts' : /\ AttemptOK(attempts'[m])
                                        /\ attempts'[m].cleared <=> attempts[m].cleared
                                        /\ m # n => attempts'[m] = attempts[m]
                                        /\ attempts'[m].event = "processed" =>
                                             attempts[m].event = "processed"
         /\ attempts[n].status = from /\ attempts'[n].status = to
<1> DEFINE a == attempts[n]
           b == [a EXCEPT !.status = to, !.event = IF to = "succeeded" THEN "received" ELSE @]
<1>1. a \in AttemptRow /\ AttemptOK(a) /\ a.status = from
  BY DEF PartialInv, PartialRows, Becomes
<1>2. b \in AttemptRow /\ b.status = to /\ (b.cleared <=> a.cleared)
      /\ b.event = IF to = "succeeded" THEN "received" ELSE a.event
  BY <1>1 DEF AttemptRow
<1>3. AttemptOK(b)
  BY <1>1, <1>2 DEF AttemptOK
<1>4. attempts' = [attempts EXCEPT ![n] = b]
  BY DEF Becomes
<1> HIDE DEF b
<1>5. /\ attempts' \in Seq(AttemptRow) /\ Len(attempts') = Len(attempts)
      /\ attempts'[n] = b /\ \A m \in DOMAIN attempts \ {n} : attempts'[m] = attempts[m]
  BY <1>2, <1>4, PaymentChanged DEF PartialInv
<1>6. DOMAIN attempts' = DOMAIN attempts
  BY <1>4
<1>7. ASSUME NEW m \in DOMAIN attempts
      PROVE  /\ AttemptOK(attempts'[m]) /\ (attempts'[m].cleared <=> attempts[m].cleared)
             /\ m # n => attempts'[m] = attempts[m]
             /\ attempts'[m].event = "processed" => attempts[m].event = "processed"
  <2>1. CASE m = n
    BY <1>2, <1>3, <1>5, <2>1
  <2>2. CASE m # n
    BY <1>5, <2>2 DEF PartialInv
  <2> QED
    BY <2>1, <2>2
<1> QED
  BY <1>1, <1>2, <1>5, <1>6, <1>7

LEMMA PartialStart ==
  ASSUME PartialInit PROVE PartialInv /\ DealtInv
<1>1. NoProposal \in PartialRow
  BY SessionAssumption DEF NoProposal, NoPayment, PartialRow, Role
<1>2. NotPaying \in PayingRow /\ NotApplying \in ApplierRow
  BY DEF NotPaying, NoPayment, NotApplying, PayingRow, ApplierRow
<1>3. PartialRows
  BY <1>1, <1>2 DEF PartialInit, PartialRows
<1>4. attempts = <<>> /\ Len(attempts) = 0 /\ DOMAIN attempts = {}
  BY DEF PartialInit
<1>5. \A w \in Applier : applier[w].pc = "idle"
  BY DEF PartialInit, NotApplying
<1>6. \A s \in Session : paying[s].op = "none"
  BY DEF PartialInit, NotPaying
<1>7. RetryOK
  BY <1>4 DEF PartialInit, RetryOK
<1>8. PartialInv
  BY <1>3, <1>4, <1>5, <1>7 DEF PartialInv, ApplierOK
<1>9. partial.payment = NoPayment
  BY DEF PartialInit, NoProposal
<1>10. DealtInv
  BY <1>4, <1>5, <1>6, <1>9 DEF DealtInv, PaidIsAppliedOrSurfaced
<1> QED
  BY <1>8, <1>10

\* What a party does to the rows: at most, it makes the first payment.
LEMMA PartyRows ==
  ASSUME PartialRows, PartyStep
  PROVE  /\ partial' \in PartialRow /\ paying' \in [Session -> PayingRow]
         /\ \/ attempts' = attempts
            \/ attempts = <<>> /\ \E x \in Nat : attempts' = <<Attempt(x)>>
         /\ UNCHANGED <<retry, applier, evidence>>
<1>1. partial \in PartialRow /\ paying \in [Session -> PayingRow]
  BY DEF PartialRows
<1>2. NotPaying \in PayingRow
  BY DEF NotPaying, NoPayment, PayingRow
<1>3. PICK s \in Session : \/ proposePartialPayment(s) \/ decidePartialPayment(s)
                           \/ initiatePayment(s) \/ recordPayment(s) \/ LeavesPartial(s)
  BY DEF PartyStep
<1>4. UNCHANGED <<retry, applier, evidence>>
  BY DEF PartyStep
<1>5. RoleOf[s] \in Role
  BY SessionAssumption
<1>6. ASSUME NEW op, Ends(s, op) PROVE paying' \in [Session -> PayingRow]
  BY <1>1, <1>2, <1>6 DEF Ends
<1>7. ASSUME NEW op \in {"accept", "reject", "counter", "pay", "record"}, NEW n \in Nat, NEW ok,
             Looks(s, op, n, ok)
      PROVE  paying' \in [Session -> PayingRow] /\ UNCHANGED <<partial, attempts>>
  <2>1. [op |-> op, amount |-> partial.amount, payment |-> n] \in PayingRow
    BY <1>1, <1>7 DEF PartialRow, PayingRow
  <2> QED
    BY <1>1, <1>7, <2>1 DEF Looks
<1>8. CASE proposePartialPayment(s)
  BY <1>1, <1>4, <1>8, SessionAssumption
  DEF proposePartialPayment, NoProposal, NoPayment, PartialRow, Role
<1>9. CASE decidePartialPayment(s)
  <2>1. CASE \E op \in {"accept", "reject", "counter"} :
               Looks(s, op, NoPayment, partial.status = "proposed" /\ partial.by # RoleOf[s])
    BY <1>1, <1>4, <1>7, <2>1 DEF NoPayment
  <2>2. CASE \/ Ends(s, "accept") /\ partial' = [partial EXCEPT !.status = "awaiting_payment"]
                /\ UNCHANGED attempts
             \/ Ends(s, "reject") /\ partial' = [partial EXCEPT !.status = "rejected"]
                /\ UNCHANGED attempts
    BY <1>1, <1>4, <1>6, <2>2 DEF PartialRow
  <2>3. CASE /\ Ends(s, "counter") /\ partial.amount < MaxPartial
             /\ partial' = [partial EXCEPT !.by = RoleOf[s], !.amount = @ + 1, !.late = FALSE]
             /\ UNCHANGED attempts
    <3>1. partial' \in PartialRow
      <4>1. partial.amount + 1 \in Nat
        BY <1>1 DEF PartialRow
      <4>2. partial' = [[[partial EXCEPT !.by = RoleOf[s]] EXCEPT !.amount = partial.amount + 1]
                          EXCEPT !.late = FALSE]
        BY <1>1, <2>3 DEF PartialRow
      <4> QED
        BY <1>1, <1>5, <4>1, <4>2 DEF PartialRow
    <3>2. paying' \in [Session -> PayingRow]
      BY <1>6, <2>3
    <3> QED
      BY <1>4, <2>3, <3>1, <3>2
  <2> QED
    BY <1>9, <2>1, <2>2, <2>3 DEF decidePartialPayment
<1>10. CASE initiatePayment(s)
  <2>1. CASE Looks(s, "pay", NoPayment, partial.status = "awaiting_payment" /\ RoleOf[s] = "debtor")
    BY <1>1, <1>4, <1>7, <2>1 DEF NoPayment
  <2>2. CASE /\ Ends(s, "pay")
             /\ attempts' = IF attempts = <<>> THEN <<Attempt(paying[s].amount)>> ELSE attempts
             /\ UNCHANGED partial
    <3>1. paying[s].amount \in Nat
      BY <1>1 DEF PayingRow
    <3> QED
      BY <1>1, <1>4, <1>6, <2>2, <3>1
  <2> QED
    BY <1>10, <2>1, <2>2 DEF initiatePayment
<1>11. CASE recordPayment(s)
  <2>1. CASE \E n \in DOMAIN attempts \cup {Apart} :
               Looks(s, "record", n, partial.status = "awaiting_payment")
    <3>1. DOMAIN attempts \cup {Apart} \subseteq Nat
      BY DEF PartialRows, Apart
    <3> QED
      BY <1>1, <1>4, <1>7, <2>1, <3>1
  <2>2. CASE /\ Ends(s, "record")
             /\ partial' = [partial EXCEPT !.status = "applied", !.payment = paying[s].payment]
             /\ UNCHANGED attempts
    <3>1. paying[s].payment \in Nat
      BY <1>1 DEF PayingRow
    <3> QED
      BY <1>1, <1>4, <1>6, <2>2, <3>1 DEF PartialRow
  <2> QED
    BY <1>11, <2>1, <2>2 DEF recordPayment
<1>12. CASE LeavesPartial(s)
  BY <1>1, <1>2, <1>4, <1>12 DEF LeavesPartial
<1> QED
  BY <1>3, <1>8, <1>9, <1>10, <1>11, <1>12

LEMMA PartyKeeps ==
  ASSUME PartialInv, PartyStep
  PROVE  PartialInv'
<1>1. /\ PartialRows /\ RetryOK
      /\ \A n \in DOMAIN attempts : AttemptOK(attempts[n])
      /\ \A w \in Applier : ApplierOK(applier[w])
  BY DEF PartialInv
<1>2. /\ partial' \in PartialRow /\ paying' \in [Session -> PayingRow]
      /\ \/ attempts' = attempts
         \/ attempts = <<>> /\ \E x \in Nat : attempts' = <<Attempt(x)>>
      /\ UNCHANGED <<retry, applier, evidence>>
  BY <1>1, PartyRows
<1>3. CASE attempts' = attempts
  <2>1. PartialRows' /\ RetryOK'
    BY <1>1, <1>2, <1>3 DEF PartialRows, RetryOK
  <2> QED
    BY <1>1, <1>2, <1>3, <2>1 DEF PartialInv, ApplierOK
<1>4. ASSUME attempts = <<>>, NEW x \in Nat, attempts' = <<Attempt(x)>> PROVE PartialInv'
  <2>1. Attempt(x) \in AttemptRow /\ AttemptOK(Attempt(x))
    BY DEF Attempt, AttemptRow, AttemptOK
  <2>2. attempts' \in Seq(AttemptRow) /\ Len(attempts') = 1 /\ attempts'[1] = Attempt(x)
        /\ DOMAIN attempts' = {1}
    BY <1>4, <2>1
  <2>3. retry = "none" /\ DOMAIN attempts = {}
    BY <1>1, <1>4 DEF RetryOK, PartialRows
  <2>4. PartialRows' /\ RetryOK'
    BY <1>1, <1>2, <2>2, <2>3 DEF PartialRows, RetryOK
  <2>5. \A w \in Applier : ApplierOK(applier[w])'
    BY <1>1, <1>2, <2>3 DEF ApplierOK
  <2>6. \A n \in DOMAIN attempts' : AttemptOK(attempts[n])'
    BY <2>1, <2>2
  <2> QED
    BY <2>4, <2>5, <2>6 DEF PartialInv
<1> QED
  BY <1>2, <1>3, <1>4

LEMMA PaymentKeeps ==
  ASSUME PartialInv, PaymentStep
  PROVE  /\ PartialInv'
         /\ Len(attempts) <= Len(attempts')
         /\ \A n \in DOMAIN attempts' : attempts'[n].event = "processed" =>
              n \in DOMAIN attempts /\ attempts[n].event = "processed"
<1> DEFINE Grown == /\ Len(attempts) <= Len(attempts')
                    /\ \A n \in DOMAIN attempts' : attempts'[n].event = "processed" =>
                         n \in DOMAIN attempts /\ attempts[n].event = "processed"
<1>1. /\ PartialRows /\ RetryOK
      /\ \A n \in DOMAIN attempts : AttemptOK(attempts[n])
      /\ \A w \in Applier : ApplierOK(applier[w])
      /\ attempts \in Seq(AttemptRow)
  BY DEF PartialInv, PartialRows
<1>2. UNCHANGED <<partial, paying, applier, evidence>>
  BY DEF PaymentStep
<1>3. ASSUME attempts' \in Seq(AttemptRow), Len(attempts') = Len(attempts),
             \A m \in DOMAIN attempts' : /\ AttemptOK(attempts'[m])
                                         /\ attempts[m].cleared => attempts'[m].cleared,
             retry' \in {"none", "scheduled", "claimed", "fired", "canceled"}, RetryOK'
      PROVE  PartialInv'
  <2>1. DOMAIN attempts' = DOMAIN attempts
    BY <1>1, <1>3
  <2>2. \A w \in Applier : ApplierOK(applier[w])'
    BY <1>1, <1>2, <1>3, <2>1 DEF ApplierOK
  <2>3. PartialRows'
    BY <1>1, <1>2, <1>3 DEF PartialRows
  <2> QED
    BY <1>3, <2>2, <2>3 DEF PartialInv
<1>4. ASSUME NEW n \in DOMAIN attempts, PaymentMoves(n) PROVE PartialInv' /\ Grown
  <2>1. UNCHANGED retry
    BY <1>4 DEF PaymentMoves
  <2>2. CASE \/ Becomes(n, "submitted", "succeeded") \/ Becomes(n, "submitted", "failed")
             \/ attempts[n].cleared /\ Becomes(n, "succeeded", "refunded")
    <3>1. PICK from \in {"submitted", "succeeded"}, to \in {"succeeded", "failed", "refunded"} :
            /\ Becomes(n, from, to)
            /\ to = "succeeded" \/ to = "failed" => from = "submitted"
            /\ to = "refunded" => attempts[n].cleared
      BY <2>2
    <3>2. /\ attempts' \in Seq(AttemptRow) /\ Len(attempts') = Len(attempts)
          /\ \A m \in DOMAIN attempts' : /\ AttemptOK(attempts'[m])
                                         /\ attempts'[m].cleared <=> attempts[m].cleared
                                         /\ m # n => attempts'[m] = attempts[m]
                                         /\ attempts'[m].event = "processed" =>
                                              attempts[m].event = "processed"
          /\ attempts[n].status = from /\ attempts'[n].status = to
      BY <3>1, BecomesKeeps
    <3>3. DOMAIN attempts' = DOMAIN attempts
      BY <1>1, <3>2
    <3>4. \A m \in DOMAIN attempts : attempts[m].status = "failed" => attempts'[m].status = "failed"
      BY <3>2, <3>3
    <3>5. RetryOK'
      BY <1>1, <2>1, <3>2, <3>4 DEF RetryOK
    <3>6. retry' \in {"none", "scheduled", "claimed", "fired", "canceled"}
      BY <1>1, <2>1 DEF PartialRows
    <3>7. PartialInv'
      BY <1>3, <3>2, <3>5, <3>6
    <3> QED
      BY <1>1, <3>2, <3>3, <3>7
  <2>3. CASE /\ attempts[n].event = "received" /\ ~attempts[n].cleared
             /\ attempts' = [attempts EXCEPT ![n].cleared = TRUE]
    <3> DEFINE b == [attempts[n] EXCEPT !.cleared = TRUE]
    <3>1. attempts[n] \in AttemptRow /\ AttemptOK(attempts[n])
      BY <1>1
    <3>2. b \in AttemptRow /\ AttemptOK(b) /\ b.cleared /\ b.status = attempts[n].status
          /\ b.event = attempts[n].event
      BY <2>3, <3>1 DEF AttemptRow, AttemptOK
    <3>3. attempts' = [attempts EXCEPT ![n] = b]
      BY <2>3
    <3> HIDE DEF b
    <3>4. /\ attempts' \in Seq(AttemptRow) /\ Len(attempts') = Len(attempts)
          /\ attempts'[n] = b /\ \A m \in DOMAIN attempts \ {n} : attempts'[m] = attempts[m]
      BY <1>1, <3>2, <3>3, PaymentChanged
    <3>5. DOMAIN attempts' = DOMAIN attempts
      BY <3>3
    <3>6. \A m \in DOMAIN attempts : /\ AttemptOK(attempts'[m])
                                     /\ attempts[m].cleared => attempts'[m].cleared
                                     /\ attempts'[m].status = attempts[m].status
                                     /\ attempts'[m].event = attempts[m].event
      BY <1>1, <3>2, <3>4
    <3>7. RetryOK'
      BY <1>1, <2>1, <3>4, <3>6 DEF RetryOK
    <3>8. retry' \in {"none", "scheduled", "claimed", "fired", "canceled"}
      BY <1>1, <2>1 DEF PartialRows
    <3>9. PartialInv'
      BY <1>3, <3>4, <3>5, <3>6, <3>7, <3>8
    <3> QED
      BY <1>1, <3>4, <3>5, <3>6, <3>9
  <2> QED
    BY <1>4, <2>2, <2>3 DEF PaymentMoves
<1>5. ASSUME RetryMoves PROVE PartialInv' /\ Grown
  <2>1. CASE /\ \/ attempts # <<>> /\ attempts[1].status = "failed"
                   /\ RetryBecomes("none", "scheduled")
                \/ RetryBecomes("scheduled", "canceled")
                \/ RetryBecomes("claimed", "fired")
             /\ UNCHANGED attempts
    <3>1. RetryOK'
      BY <1>1, <2>1 DEF RetryOK, RetryBecomes
    <3>2. retry' \in {"none", "scheduled", "claimed", "fired", "canceled"}
      BY <2>1 DEF RetryBecomes
    <3>3. PartialInv'
      BY <1>1, <1>3, <2>1, <3>1, <3>2
    <3> QED
      BY <1>1, <2>1, <3>3
  <2>2. CASE /\ RetryBecomes("scheduled", "claimed")
             /\ attempts' = Append(attempts, Attempt(attempts[1].amount))
    <3> DEFINE a == Attempt(attempts[1].amount)
    <3>1. retry = "scheduled" /\ retry' = "claimed" /\ Len(attempts) = 1
          /\ attempts[1].status = "failed" /\ 1 \in DOMAIN attempts
      BY <1>1, <2>2 DEF RetryOK, RetryBecomes
    <3>2. attempts[1] \in AttemptRow
      BY <1>1, <3>1
    <3>3. a \in AttemptRow /\ AttemptOK(a) /\ a.event = "none"
      BY <3>2 DEF AttemptRow, Attempt, AttemptOK
    <3>4. attempts' = Append(attempts, a)
      BY <2>2
    <3> HIDE DEF a
    <3>5. attempts' \in Seq(AttemptRow) /\ Len(attempts') = 2 /\ attempts'[1] = attempts[1]
          /\ attempts'[2] = a /\ DOMAIN attempts' = {1, 2} /\ DOMAIN attempts = {1}
      <4>1. DOMAIN attempts = {1}
        BY <1>1, <3>1
      <4>2. attempts' \in Seq(AttemptRow) /\ Len(attempts') = 2
        <5>1. /\ Append(attempts, a) \in Seq(AttemptRow)
              /\ Len(Append(attempts, a)) = Len(attempts) + 1
          BY <1>1, <3>3, AppendProperties
        <5> QED
          BY <3>1, <3>4, <5>1
      <4>3. attempts'[1] = attempts[1] /\ attempts'[2] = a
        <5>1. \A m \in 1..Len(attempts) : Append(attempts, a)[m] = attempts[m]
          BY <1>1, <3>3, AppendProperties
        <5>2. Append(attempts, a)[Len(attempts) + 1] = a
          BY <1>1, <3>3, AppendProperties
        <5> QED
          BY <3>1, <3>4, <5>1, <5>2
      <4>4. DOMAIN attempts' = {1, 2}
        BY <4>2
      <4> QED
        BY <4>1, <4>2, <4>3, <4>4
    <3>6. RetryOK' /\ PartialRows'
      BY <1>1, <1>2, <3>1, <3>5 DEF RetryOK, PartialRows
    <3>7. \A w \in Applier : ApplierOK(applier[w])'
      BY <1>1, <1>2, <3>5 DEF ApplierOK
    <3>8. \A n \in DOMAIN attempts' : AttemptOK(attempts'[n])
      BY <1>1, <3>3, <3>5
    <3>9. PartialInv'
      BY <3>6, <3>7, <3>8 DEF PartialInv
    <3>10. Grown
      BY <3>1, <3>3, <3>5
    <3> QED
      BY <3>9, <3>10
  <2>3. CASE RetryBecomes("claimed", "canceled") /\ Becomes(2, "submitted", "failed")
    <3>1. retry = "claimed" /\ retry' = "canceled" /\ Len(attempts) = 2 /\ 2 \in DOMAIN attempts
          /\ 1 \in DOMAIN attempts
      BY <1>1, <2>3 DEF RetryOK, RetryBecomes
    <3>2. /\ attempts' \in Seq(AttemptRow) /\ Len(attempts') = Len(attempts)
          /\ \A m \in DOMAIN attempts' : /\ AttemptOK(attempts'[m])
                                         /\ attempts'[m].cleared <=> attempts[m].cleared
                                         /\ m # 2 => attempts'[m] = attempts[m]
                                         /\ attempts'[m].event = "processed" =>
                                              attempts[m].event = "processed"
          /\ attempts[2].status = "submitted" /\ attempts'[2].status = "failed"
      BY <2>3, <3>1, BecomesKeeps
    <3>3. DOMAIN attempts' = DOMAIN attempts
      BY <1>1, <3>2
    <3>4. RetryOK'
      BY <1>1, <3>1, <3>2, <3>3 DEF RetryOK
    <3>5. PartialInv'
      BY <1>3, <3>1, <3>2, <3>4
    <3> QED
      BY <1>1, <3>2, <3>3, <3>5
  <2> QED
    BY <1>5, <2>1, <2>2, <2>3 DEF RetryMoves
<1> QED
  BY <1>4, <1>5 DEF PaymentStep

\* The expiry of the proposal, and its date, change nothing but the proposal; a
\* proposal that expires has no payment that cleared or still may.
LEMMA ExpiryKeeps ==
  ASSUME PartialInv, DateOfPartialPasses \/ expireOverdue
  PROVE  PartialInv'
<1>1. partial \in PartialRow
  BY DEF PartialInv, PartialRows
<1>2. partial' \in PartialRow /\ UNCHANGED <<attempts, retry, paying, applier>>
  BY <1>1 DEF DateOfPartialPasses, expireOverdue, PartialRow
<1>3. PartialRows' /\ RetryOK'
  BY <1>2 DEF PartialInv, PartialRows, RetryOK
<1> QED
  BY <1>2, <1>3 DEF PartialInv, ApplierOK

LEMMA NothingMayClear ==
  ASSUME PartialInv, ClearedEvidence = "not_cleared", NEW n \in DOMAIN attempts
  PROVE  ~attempts[n].cleared /\ attempts[n].status \notin {"submitted", "succeeded"}
<1>1. attempts \in Seq(AttemptRow) /\ RetryOK /\ AttemptOK(attempts[n])
      /\ retry \in {"none", "scheduled", "claimed", "fired", "canceled"}
  BY DEF PartialInv, PartialRows
<1>2. \A m \in {k \in DOMAIN attempts : k = 1 \/ retry = "fired"} :
        ~attempts[m].cleared /\ ~MayStillClear(attempts[m].status)
  BY DEF ClearedEvidence
<1>3. retry \notin {"scheduled", "claimed"}
  BY DEF ClearedEvidence
<1>4. CASE n = 1 \/ retry = "fired"
  BY <1>2, <1>4 DEF MayStillClear
<1>5. CASE n # 1 /\ retry # "fired"
  <2>1. retry = "canceled" /\ Len(attempts) = 2 /\ n = 2
    BY <1>1, <1>3, <1>5 DEF RetryOK
  <2>2. attempts[n].status = "failed"
    BY <1>1, <2>1 DEF RetryOK
  <2> QED
    BY <1>1, <2>2 DEF AttemptOK
<1> QED
  BY <1>4, <1>5

\* What applying a payment does to the rows.
LEMMA ApplierKeeps ==
  ASSUME PartialInv, ApplierStep
  PROVE  PartialInv'
<1>1. /\ PartialRows /\ RetryOK /\ attempts \in Seq(AttemptRow)
      /\ partial \in PartialRow /\ applier \in [Applier -> ApplierRow]
      /\ \A n \in DOMAIN attempts : AttemptOK(attempts[n])
      /\ \A w \in Applier : ApplierOK(applier[w])
  BY DEF PartialInv, PartialRows
<1>2. UNCHANGED <<retry, paying>>
  BY DEF ApplierStep
<1>3. PICK w \in Applier :
        \/ startApplication(w) \/ applyIfAwaitingPayment(w) \/ recordConflictEvidence(w)
        \/ finalizeApplication(w) \/ ApplierDies(w)
  BY DEF ApplierStep
<1>4. applier[w] \in ApplierRow
  BY <1>1
<1>5. ASSUME attempts' = attempts, partial' \in PartialRow, NEW a \in ApplierRow,
             applier' = [applier EXCEPT ![w] = a], ApplierOK(a)
      PROVE  PartialInv'
  <2>1. applier' \in [Applier -> ApplierRow] /\ applier'[w] = a
        /\ \A v \in Applier \ {w} : applier'[v] = applier[v]
    BY <1>1, <1>5
  <2>2. \A v \in Applier : ApplierOK(applier[v])'
    BY <1>1, <1>5, <2>1 DEF ApplierOK
  <2>3. PartialRows' /\ RetryOK'
    BY <1>1, <1>2, <1>5, <2>1 DEF PartialRows, RetryOK
  <2> QED
    BY <1>1, <1>5, <2>2, <2>3 DEF PartialInv
<1>6. NotApplying \in ApplierRow /\ ApplierOK(NotApplying)
  BY DEF NotApplying, ApplierRow, ApplierOK
<1>7. ASSUME NEW pc \in {"apply", "conflict", "finalize"}, applier[w].pc # "idle"
      PROVE  [applier[w] EXCEPT !.pc = pc] \in ApplierRow
             /\ ApplierOK([applier[w] EXCEPT !.pc = pc])
  BY <1>1, <1>4, <1>7 DEF ApplierRow, ApplierOK
<1>8. CASE startApplication(w)
  <2>1. PICK n \in DOMAIN attempts, repair \in BOOLEAN :
          /\ attempts[n].cleared
          /\ applier' = [applier EXCEPT ![w] =
               [pc |-> IF partial.amount = attempts[n].amount THEN "apply" ELSE "conflict",
                attempt |-> n, superseded |-> attempts[n].status = "refunded", repair |-> repair]]
    BY <1>8 DEF startApplication
  <2> DEFINE a == [pc |-> IF partial.amount = attempts[n].amount THEN "apply" ELSE "conflict",
                   attempt |-> n, superseded |-> attempts[n].status = "refunded",
                   repair |-> repair]
  <2>2. n \in Nat
    BY <1>1
  <2>3. (attempts[n].status = "refunded") \in BOOLEAN
    OBVIOUS
  <2>4. a \in ApplierRow
    BY <2>2, <2>3 DEF ApplierRow
  <2>5. ApplierOK(a)
    BY <2>1 DEF ApplierOK
  <2>6. UNCHANGED <<partial, attempts>>
    BY <1>8 DEF startApplication
  <2>7. applier' = [applier EXCEPT ![w] = a]
    BY <2>1
  <2> HIDE DEF a
  <2> QED
    BY <1>1, <1>5, <2>4, <2>5, <2>6, <2>7
<1>9. CASE applyIfAwaitingPayment(w)
  <2>1. partial' \in PartialRow
    <3>1. applier[w].attempt \in Nat
      BY <1>4 DEF ApplierRow
    <3> QED
      BY <1>1, <1>9, <3>1 DEF applyIfAwaitingPayment, PartialRow
  <2>2. PICK pc \in {"conflict", "finalize"} :
          applier' = [applier EXCEPT ![w] = [applier[w] EXCEPT !.pc = pc]]
    BY <1>9 DEF applyIfAwaitingPayment
  <2>3. applier[w].pc # "idle" /\ attempts' = attempts
    BY <1>9 DEF applyIfAwaitingPayment
  <2> QED
    BY <1>5, <1>7, <2>1, <2>2, <2>3
<1>10. CASE recordConflictEvidence(w)
  <2>1. applier' = [applier EXCEPT ![w] = [applier[w] EXCEPT !.pc = "finalize"]]
        /\ applier[w].pc # "idle" /\ UNCHANGED <<partial, attempts>>
    BY <1>10 DEF recordConflictEvidence
  <2> QED
    BY <1>1, <1>5, <1>7, <2>1
<1>11. CASE ApplierDies(w)
  BY <1>1, <1>5, <1>6, <1>11 DEF ApplierDies
<1>12. CASE finalizeApplication(w)
  <2>1. UNCHANGED partial /\ applier' = [applier EXCEPT ![w] = NotApplying]
    BY <1>12 DEF finalizeApplication
  <2>2. CASE applier[w].repair
    <3>1. attempts' = attempts
      BY <1>12, <2>2 DEF finalizeApplication
    <3> QED
      BY <1>1, <1>5, <1>6, <2>1, <3>1
  <2>3. CASE ~applier[w].repair
    <3> DEFINE n == applier[w].attempt
               b == [attempts[n] EXCEPT !.event = "processed"]
    <3>1. n \in DOMAIN attempts /\ attempts[n].cleared
      BY <1>1, <1>12 DEF finalizeApplication, ApplierOK
    <3>2. attempts[n] \in AttemptRow /\ AttemptOK(attempts[n])
      BY <1>1, <3>1
    <3>3. b \in AttemptRow /\ AttemptOK(b) /\ b.cleared = attempts[n].cleared
          /\ b.status = attempts[n].status
      BY <3>1, <3>2 DEF AttemptRow, AttemptOK
    <3>4. attempts' = [attempts EXCEPT ![n] = b]
      BY <1>12, <2>3 DEF finalizeApplication
    <3> HIDE DEF b, n
    <3>5. /\ attempts' \in Seq(AttemptRow) /\ Len(attempts') = Len(attempts)
          /\ attempts'[n] = b /\ \A m \in DOMAIN attempts \ {n} : attempts'[m] = attempts[m]
      BY <1>1, <3>1, <3>3, <3>4, PaymentChanged
    <3>6. DOMAIN attempts' = DOMAIN attempts
      BY <3>4
    <3>7. \A m \in DOMAIN attempts : /\ AttemptOK(attempts'[m])
                                     /\ attempts'[m].cleared = attempts[m].cleared
                                     /\ attempts'[m].status = attempts[m].status
      BY <1>1, <3>3, <3>5
    <3>8. RetryOK'
      BY <1>1, <1>2, <3>5, <3>7 DEF RetryOK
    <3>9. applier' \in [Applier -> ApplierRow] /\ applier'[w] = NotApplying
          /\ \A v \in Applier \ {w} : applier'[v] = applier[v]
      BY <1>1, <1>6, <2>1
    <3>10. \A v \in Applier : ApplierOK(applier[v])'
      <4> SUFFICES ASSUME NEW v \in Applier PROVE ApplierOK(applier[v])'
        OBVIOUS
      <4>1. CASE v = w
        BY <3>9, <4>1 DEF ApplierOK, NotApplying
      <4>2. CASE v # w
        BY <1>1, <3>6, <3>7, <3>9, <4>2 DEF ApplierOK
      <4> QED
        BY <4>1, <4>2
    <3>11. PartialRows'
      BY <1>1, <1>2, <2>1, <3>5, <3>9 DEF PartialRows
    <3> QED
      BY <3>6, <3>7, <3>8, <3>10, <3>11 DEF PartialInv
  <2> QED
    BY <2>2, <2>3
<1> QED
  BY <1>3, <1>8, <1>9, <1>10, <1>11, <1>12

LEMMA PartialStepKeeps ==
  ASSUME PartialInv, [PartialNext]_partialVars
  PROVE  PartialInv'
<1>1. CASE PartialNext
  BY <1>1, PartyKeeps, PaymentKeeps, ExpiryKeeps, ApplierKeeps DEF PartialNext
<1>2. CASE UNCHANGED partialVars
  BY <1>2 DEF partialVars, PartialInv, PartialRows, RetryOK, ApplierOK
<1> QED
  BY <1>1, <1>2

\* A proposal never expires while a payment for it, its retry's included, has
\* cleared or still may (expireIfSafe looks under the locks, and the retry
\* fails with its charge in one transaction): whatever the parties do at the time.
THEOREM UnpaidWhenExpired == PartialSpec => ExpiresOnlyUnpaid
<1> DEFINE Unpaid ==
      partial.status = "awaiting_payment" /\ partial'.status = "expired" =>
        \A n \in DOMAIN attempts :
          ~attempts[n].cleared /\ attempts[n].status \notin {"submitted", "succeeded"}
<1>1. PartialInit => PartialInv
  BY PartialStart
<1>2. PartialInv /\ [PartialNext]_partialVars => PartialInv'
  BY PartialStepKeeps
<1>3. ASSUME PartialInv, [PartialNext]_partialVars PROVE [Unpaid]_partial
  <2>1. SUFFICES ASSUME partial.status = "awaiting_payment", partial'.status = "expired",
                        NEW n \in DOMAIN attempts
                 PROVE  ~attempts[n].cleared /\ attempts[n].status \notin {"submitted", "succeeded"}
    OBVIOUS
  <2>2. partial \in PartialRow
    BY <1>3 DEF PartialInv, PartialRows
  <2>3. CASE expireOverdue
    <3>1. ClearedEvidence = "not_cleared"
      BY <2>1, <2>3 DEF expireOverdue
    <3> QED
      BY <1>3, <3>1, NothingMayClear
  <2>4. CASE PaymentStep \/ UNCHANGED partialVars
    BY <2>1, <2>4 DEF PaymentStep, partialVars
  <2>5. CASE DateOfPartialPasses
    BY <2>1, <2>2, <2>5 DEF DateOfPartialPasses, PartialRow
  <2>6. CASE ApplierStep
    <3>1. PICK w \in Applier :
            \/ startApplication(w) \/ applyIfAwaitingPayment(w) \/ recordConflictEvidence(w)
            \/ finalizeApplication(w) \/ ApplierDies(w)
      BY <2>6 DEF ApplierStep
    <3>2. partial' = partial \/ partial'.status = "applied"
      BY <2>2, <3>1 DEF startApplication, applyIfAwaitingPayment, recordConflictEvidence,
                        finalizeApplication, ApplierDies, PartialRow
    <3> QED
      BY <2>1, <3>2
  <2>7. CASE PartyStep
    <3>1. PICK s \in Session : \/ proposePartialPayment(s) \/ decidePartialPayment(s)
                               \/ initiatePayment(s) \/ recordPayment(s) \/ LeavesPartial(s)
      BY <2>7 DEF PartyStep
    <3>2. \/ partial' = partial
          \/ partial'.status \in {"proposed", "awaiting_payment", "rejected", "applied"}
          \/ partial'.status = partial.status
      BY <2>2, <3>1 DEF proposePartialPayment, decidePartialPayment, initiatePayment,
                        recordPayment, LeavesPartial, Looks, NoProposal, PartialRow
    <3> QED
      BY <2>1, <3>2
  <2> QED
    BY <1>3, <2>3, <2>4, <2>5, <2>6, <2>7 DEF PartialNext
<1> QED
  BY <1>1, <1>2, <1>3, PTL DEF PartialSpec, ExpiresOnlyUnpaid

\* Whatever the parties do, and however late, a proposal keeps naming a payment.
LEMMA StaysNamed ==
  ASSUME PartialInv, DealtInv, PartyStep
  PROVE  /\ partial.payment # NoPayment => partial'.payment # NoPayment
         /\ partial'.payment # NoPayment => partial'.status # "absent"
         /\ \A s \in Session : paying'[s].op = "record" => paying'[s].payment # NoPayment
<1>1. partial \in PartialRow /\ paying \in [Session -> PayingRow] /\ attempts \in Seq(AttemptRow)
  BY DEF PartialInv, PartialRows
<1>2. PICK s \in Session : \/ proposePartialPayment(s) \/ decidePartialPayment(s)
                           \/ initiatePayment(s) \/ recordPayment(s) \/ LeavesPartial(s)
  BY DEF PartyStep
<1>3. \/ partial' = partial
      \/ partial.status = "absent" /\ partial'.payment = NoPayment
      \/ partial'.payment = partial.payment /\ (partial'.status # "absent" \/ partial'.status = partial.status)
      \/ paying[s].op = "record" /\ partial'.payment = paying[s].payment /\ partial'.status = "applied"
  BY <1>1, <1>2 DEF proposePartialPayment, decidePartialPayment, initiatePayment, recordPayment,
                    LeavesPartial, Looks, Ends, NoProposal, PartialRow
<1>4. /\ \A t \in Session \ {s} : paying'[t] = paying[t]
      /\ paying'[s].op = "record" => paying'[s] = paying[s] \/ paying'[s].payment # NoPayment
  <2>1. ASSUME NEW op, NEW n, NEW ok, Looks(s, op, n, ok), op = "record" => n # NoPayment
        PROVE  /\ \A t \in Session \ {s} : paying'[t] = paying[t]
               /\ paying'[s].op = "record" => paying'[s].payment # NoPayment
    BY <1>1, <2>1 DEF Looks
  <2>2. ASSUME paying' = [paying EXCEPT ![s] = NotPaying]
        PROVE  (\A t \in Session \ {s} : paying'[t] = paying[t]) /\ paying'[s].op = "none"
    BY <1>1, <2>2 DEF NotPaying
  <2>3. \A n \in DOMAIN attempts \cup {Apart} : n # NoPayment
    BY <1>1 DEF Apart, NoPayment
  <2>4. \/ paying' = paying
        \/ paying' = [paying EXCEPT ![s] = NotPaying]
        \/ \E op \in {"accept", "reject", "counter", "pay"} : \E n, ok : Looks(s, op, n, ok)
        \/ \E n \in DOMAIN attempts \cup {Apart} : \E ok : Looks(s, "record", n, ok)
    <3>1. CASE decidePartialPayment(s)
      BY <3>1 DEF decidePartialPayment, Ends
    <3>2. CASE initiatePayment(s)
      BY <3>2 DEF initiatePayment, Ends
    <3>3. CASE recordPayment(s)
      BY <3>3 DEF recordPayment, Ends
    <3>4. CASE proposePartialPayment(s) \/ LeavesPartial(s)
      BY <3>4 DEF proposePartialPayment, LeavesPartial
    <3> QED
      BY <1>2, <3>1, <3>2, <3>3, <3>4
  <2> QED
    BY <2>1, <2>2, <2>3, <2>4
<1>5. \A t \in Session : paying'[t].op = "record" => paying'[t].payment # NoPayment
  BY <1>4 DEF DealtInv
<1> QED
  BY <1>3, <1>5 DEF DealtInv

LEMMA DealtPartyKeeps ==
  ASSUME PartialInv, DealtInv, PartyStep
  PROVE  DealtInv'
<1>1. /\ UNCHANGED <<applier, evidence>>
      /\ \/ attempts' = attempts
         \/ attempts = <<>> /\ \E x \in Nat : attempts' = <<Attempt(x)>>
  BY PartyRows DEF PartialInv
<1>2. IsDealt => IsDealt'
  BY <1>1, StaysNamed DEF IsDealt
<1>3. PaidIsAppliedOrSurfaced'
  <2> SUFFICES ASSUME NEW n \in DOMAIN attempts', attempts'[n].event = "processed" PROVE IsDealt'
    BY DEF PaidIsAppliedOrSurfaced, IsDealt
  <2>1. n \in DOMAIN attempts /\ attempts[n].event = "processed"
    BY <1>1 DEF Attempt
  <2> QED
    BY <1>2, <2>1 DEF DealtInv, PaidIsAppliedOrSurfaced, IsDealt
<1> QED
  BY <1>1, <1>2, <1>3, StaysNamed DEF DealtInv

LEMMA DealtApplierKeeps ==
  ASSUME PartialInv, DealtInv, ApplierStep
  PROVE  DealtInv'
<1>1. /\ partial \in PartialRow /\ applier \in [Applier -> ApplierRow]
      /\ attempts \in Seq(AttemptRow)
  BY DEF PartialInv, PartialRows
<1>2. PICK w \in Applier :
        \/ startApplication(w) \/ applyIfAwaitingPayment(w) \/ recordConflictEvidence(w)
        \/ finalizeApplication(w) \/ ApplierDies(w)
  BY DEF ApplierStep
<1>3. UNCHANGED paying
  BY DEF ApplierStep
<1>4. \/ partial' = partial
      \/ partial'.status = "applied" /\ partial'.payment # NoPayment
  <2>1. applyIfAwaitingPayment(w) => applier[w].attempt # NoPayment
    BY <1>1 DEF applyIfAwaitingPayment, PartialInv, ApplierOK, NoPayment
  <2> QED
    BY <1>1, <1>2, <2>1 DEF startApplication, applyIfAwaitingPayment, recordConflictEvidence,
                            finalizeApplication, ApplierDies, PartialRow
<1>5. /\ partial'.payment # NoPayment => partial'.status # "absent"
      /\ \A s \in Session : paying'[s].op = "record" => paying'[s].payment # NoPayment
  BY <1>3, <1>4 DEF DealtInv
<1>6. evidence \subseteq evidence'
  BY <1>2 DEF startApplication, applyIfAwaitingPayment, recordConflictEvidence,
              finalizeApplication, ApplierDies
<1>7. IsDealt => IsDealt'
  BY <1>4, <1>6 DEF IsDealt
<1>8. /\ \A v \in Applier \ {w} : applier'[v] = applier[v]
      /\ applier'[w].pc = "finalize" => IsDealt'
  <2>1. CASE startApplication(w)
    BY <1>1, <2>1 DEF startApplication
  <2>2. CASE applyIfAwaitingPayment(w)
    <3> DEFINE good == partial.status = "awaiting_payment" \/ IsAppliedTo(applier[w].attempt)
    <3>1. applier' = [applier EXCEPT ![w].pc = IF good THEN "finalize" ELSE "conflict"]
      BY <2>2 DEF applyIfAwaitingPayment
    <3>2. applier'[w].pc = (IF good THEN "finalize" ELSE "conflict")
          /\ \A v \in Applier \ {w} : applier'[v] = applier[v]
      BY <1>1, <3>1 DEF ApplierRow
    <3>3. good => partial'.payment # NoPayment
      <4>1. applier[w].attempt # NoPayment
        BY <1>1, <2>2 DEF applyIfAwaitingPayment, PartialInv, ApplierOK, NoPayment
      <4> QED
        BY <1>1, <2>2, <4>1 DEF applyIfAwaitingPayment, IsAppliedTo, PartialRow
    <3> QED
      BY <3>2, <3>3 DEF IsDealt
  <2>3. CASE recordConflictEvidence(w)
    BY <1>1, <2>3 DEF recordConflictEvidence, IsDealt
  <2>4. CASE finalizeApplication(w) \/ ApplierDies(w)
    BY <1>1, <2>4 DEF finalizeApplication, ApplierDies, NotApplying
  <2> QED
    BY <1>2, <2>1, <2>2, <2>3, <2>4
<1>9. \A v \in Applier : applier'[v].pc = "finalize" => IsDealt'
  BY <1>7, <1>8 DEF DealtInv
<1>10. PaidIsAppliedOrSurfaced'
  <2> SUFFICES ASSUME NEW n \in DOMAIN attempts', attempts'[n].event = "processed" PROVE IsDealt'
    BY DEF PaidIsAppliedOrSurfaced, IsDealt
  <2>1. n \in DOMAIN attempts
    BY <1>2 DEF startApplication, applyIfAwaitingPayment, recordConflictEvidence,
                finalizeApplication, ApplierDies
  <2>2. CASE finalizeApplication(w)
    BY <1>7, <2>2 DEF DealtInv, finalizeApplication
  <2>3. CASE ~finalizeApplication(w)
    <3>1. attempts' = attempts
      BY <1>2, <2>3 DEF startApplication, applyIfAwaitingPayment, recordConflictEvidence,
                        ApplierDies
    <3> QED
      BY <1>7, <2>1, <3>1 DEF DealtInv, PaidIsAppliedOrSurfaced, IsDealt
  <2> QED
    BY <2>2, <2>3
<1> QED
  BY <1>5, <1>9, <1>10 DEF DealtInv

LEMMA DealtStepKeeps ==
  ASSUME PartialInv, DealtInv, [PartialNext]_partialVars
  PROVE  DealtInv'
<1>1. CASE PaymentStep
  <2>1. UNCHANGED <<partial, paying, applier, evidence>>
    BY <1>1 DEF PaymentStep
  <2>2. \A n \in DOMAIN attempts' : attempts'[n].event = "processed" =>
          n \in DOMAIN attempts /\ attempts[n].event = "processed"
    BY <1>1, PaymentKeeps
  <2> QED
    BY <2>1, <2>2 DEF DealtInv, PaidIsAppliedOrSurfaced, IsDealt
<1>2. CASE DateOfPartialPasses \/ expireOverdue
  <2>1. UNCHANGED <<attempts, paying, applier, evidence>>
    BY <1>2 DEF DateOfPartialPasses, expireOverdue
  <2>2. partial'.payment = partial.payment /\ (partial'.status = "absent" => partial.status = "absent")
    BY <1>2 DEF DateOfPartialPasses, expireOverdue, PartialInv, PartialRows, PartialRow
  <2> QED
    BY <2>1, <2>2 DEF DealtInv, PaidIsAppliedOrSurfaced, IsDealt
<1>3. CASE UNCHANGED partialVars
  BY <1>3 DEF partialVars, DealtInv, PaidIsAppliedOrSurfaced, IsDealt
<1> QED
  BY <1>1, <1>2, <1>3, DealtPartyKeeps, DealtApplierKeeps DEF PartialNext

\* Once its success is dealt with, a payment made for a proposal has used it up
\* or there is evidence that it could not, however the proposal was answered,
\* recorded by hand, paid twice or expired meanwhile: applyIfAwaitingPayment
\* writes the payment with the status, and no later answer takes it off.
THEOREM PaidIsDealtWith == PartialSpec => []PaidIsAppliedOrSurfaced
<1>1. PartialInit => PartialInv /\ DealtInv
  BY PartialStart
<1>2. PartialInv /\ DealtInv /\ [PartialNext]_partialVars => (PartialInv /\ DealtInv)'
  BY PartialStepKeeps, DealtStepKeeps
<1>3. DealtInv => PaidIsAppliedOrSurfaced
  BY DEF DealtInv
<1> QED
  BY <1>1, <1>2, <1>3, PTL DEF PartialSpec
==============================================================================
