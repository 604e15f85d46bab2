----------------------------- MODULE RecordProofs -----------------------------
(***************************************************************************)
(* Three histories that a later request must not rewrite: the documents of *)
(* the signed versions with the uploaded evidence, the assignments of      *)
(* accounts to the slots of a relationship, and the audit trail; two       *)
(* invitations, to a relationship and to an agreement, that are answered   *)
(* once; and the schedule that is written from an agreement's terms.  For  *)
(* any number of requests, versions, files, users, accounts, servers,      *)
(* locked rows and provider events, any amounts and any first dates.       *)
(*                                                                         *)
(* The invitations need to know where a request stands between its guarded *)
(* write, which only one can win, and the rows it makes after it           *)
(* (InviteInv and InvitationInv).  The schedule needs no more than that it *)
(* was computed from terms that were let through; its due dates and its    *)
(* total are inductions, each a smallest counterexample (LeastNumber).     *)
(***************************************************************************)
EXTENDS RelationshipInvitation, AgreementInvitation, SignedDocument, FinancialAccount,
        AuditChain, Schedule, FiniteSetTheorems, SequenceTheorems, WellFoundedInduction, TLAPS

------------------------------------------------------------------------------
\* Documents.

DocumentTypeOK ==
  /\ executed \in 1..MaxExecuted
  /\ files \in [Path -> Handler \cup EvidenceFile \cup {NoFile}]
  /\ records \in [Path -> Handler \cup EvidenceFile \cup {NoFile}]
  /\ jobs \in [Handler -> [pc : {"idle", "refresh", "find", "ensure", "upload", "insert"},
                           asked : Path, path : Path]]

\* The file of a recorded document is the one its hash was taken of, and a
\* request about to record one has stored its own rendering.
StoredIsRecorded ==
  /\ \A p \in Path : records[p] # NoFile => files[p] = records[p]
  /\ \A h \in Handler : jobs[h].pc = "insert" => files[jobs[h].path] = Content(h)

DocumentInv == DocumentTypeOK /\ StoredIsRecorded

\* The last signature is committed and nothing is stored yet.
LEMMA DocumentInitially == DocumentInit => DocumentInv
<1> SUFFICES ASSUME DocumentInit PROVE DocumentInv
  OBVIOUS
<1> USE DocumentAssumption DEF DocumentInit, NoJob
<1>1. DocumentTypeOK
  BY DEF DocumentTypeOK, Path
<1>2. StoredIsRecorded
  BY DEF StoredIsRecorded
<1> QED BY <1>1, <1>2 DEF DocumentInv

\* Requests that look, and those that end, leave storage and rows alone and
\* are not about to record anything.
LEMMA LookKeepsDocuments ==
  ASSUME DocumentInv, NEW h \in Handler,
         \/ refreshAgreement(h) \/ findByVersion(h) \/ amendmentApplied(h) \/ getSignedPdfUrl(h)
         \/ ensurePdfForVersion(h) \/ uploadEvidence(h) \/ failJob(h)
  PROVE  DocumentInv' /\ KeepsDocuments
<1> USE DocumentAssumption DEF DocumentInv
<1>1. /\ DocumentTypeOK' /\ UNCHANGED <<files, records>>
      /\ jobs'[h].pc # "insert"
      /\ \A g \in Handler : g # h => jobs'[g] = jobs[g]
  <2> USE DEF DocumentTypeOK, Path
  <2>1. CASE refreshAgreement(h)
    BY <2>1 DEF refreshAgreement
  <2>2. CASE findByVersion(h)
    BY <2>2 DEF findByVersion, JobEnds, JobGoes, NoJob
  <2>3. CASE amendmentApplied(h)
    BY <2>3 DEF amendmentApplied, JobTakes
  <2>4. CASE getSignedPdfUrl(h)
    BY <2>4 DEF getSignedPdfUrl, JobTakes
  <2>5. CASE ensurePdfForVersion(h)
    BY <2>5 DEF ensurePdfForVersion, JobEnds, JobGoes, NoJob
  <2>6. CASE uploadEvidence(h)
    BY <2>6 DEF uploadEvidence, JobTakes
  <2>7. CASE failJob(h)
    BY <2>7 DEF failJob, JobEnds, NoJob
  <2> QED BY <2>1, <2>2, <2>3, <2>4, <2>5, <2>6, <2>7
<1>2. StoredIsRecorded'
  BY <1>1 DEF StoredIsRecorded, Content
<1>3. KeepsDocuments
  BY <1>1 DEF StoredIsRecorded, KeepsDocuments
<1> QED BY <1>1, <1>2, <1>3

\* An upload finds no file at its path: nothing recorded is there.
LEMMA UploadKeepsDocuments ==
  ASSUME DocumentInv, NEW h \in Handler, buildAndStore(h)
  PROVE  DocumentInv' /\ KeepsDocuments
<1> USE DocumentAssumption DEF DocumentInv
<1> DEFINE p == jobs[h].path
<1>1. p \in Path /\ Content(h) \in Handler \cup EvidenceFile /\ UNCHANGED <<executed, records>>
  BY DEF DocumentTypeOK, Content, buildAndStore
<1>2. CASE files[p] # NoFile
  <2>1. JobEnds(h) /\ UNCHANGED files
    BY <1>2 DEF buildAndStore, uploadPrivate
  <2>2. /\ DocumentTypeOK' /\ jobs'[h].pc = "idle"
        /\ \A g \in Handler : g # h => jobs'[g] = jobs[g]
    BY <1>1, <2>1 DEF DocumentTypeOK, JobEnds, NoJob, Path
  <2> QED BY <1>1, <2>1, <2>2 DEF StoredIsRecorded, KeepsDocuments, Content
<1>3. CASE files[p] = NoFile
  <2>1. files' = [files EXCEPT ![p] = Content(h)] /\ jobs' = [jobs EXCEPT ![h].pc = "insert"]
    BY <1>3 DEF buildAndStore, uploadPrivate, JobGoes
  <2>2. /\ jobs'[h].pc = "insert" /\ jobs'[h].path = p
        /\ \A g \in Handler : g # h => jobs'[g] = jobs[g]
        /\ files'[p] = Content(h) /\ \A q \in Path : q # p => files'[q] = files[q]
    BY <1>1, <2>1 DEF DocumentTypeOK
  <2>3. DocumentTypeOK'
    BY <1>1, <2>1 DEF DocumentTypeOK
  <2>4. \A g \in Handler : Content(g)' = Content(g) /\ Content(g) # NoFile
    BY <2>2 DEF Content
  <2>5. StoredIsRecorded'
    <3> HIDE DEF p
    <3>1. \A q \in Path : records'[q] # NoFile => files'[q] = records'[q]
      BY <1>1, <1>3, <2>2 DEF StoredIsRecorded
    <3>2. ASSUME NEW g \in Handler, jobs'[g].pc = "insert"
          PROVE  files'[jobs'[g].path] = Content(g)'
      <4>1. CASE g = h
        BY <2>2, <2>4, <4>1
      <4>2. CASE g # h
        <5>1. files[jobs[g].path] = Content(g) /\ jobs[g].path \in Path
          BY <2>2, <3>2, <4>2 DEF StoredIsRecorded, DocumentTypeOK
        <5> QED BY <1>3, <2>2, <2>4, <4>2, <5>1
      <4> QED BY <4>1, <4>2
    <3> QED BY <3>1, <3>2 DEF StoredIsRecorded
  <2>6. KeepsDocuments
    BY <1>1, <1>3, <2>2 DEF StoredIsRecorded, KeepsDocuments
  <2> QED BY <2>3, <2>5, <2>6
<1> QED BY <1>2, <1>3

\* The row that is recorded is the one of the file that is there.
LEMMA RecordKeepsDocuments ==
  ASSUME DocumentInv, NEW h \in Handler, insertRecord(h)
  PROVE  DocumentInv' /\ KeepsDocuments
<1> USE DocumentAssumption DEF DocumentInv
<1> DEFINE p == jobs[h].path
<1>1. /\ p \in Path /\ Content(h) \in Handler \cup EvidenceFile /\ files[p] = Content(h)
      /\ UNCHANGED <<executed, files>>
  BY DEF DocumentTypeOK, StoredIsRecorded, Content, insertRecord, JobIsAt
<1>2. /\ jobs'[h].pc = "idle"
      /\ \A g \in Handler : g # h => jobs'[g] = jobs[g]
      /\ \A q \in Path : q # p \/ records[p] # NoFile => records'[q] = records[q]
      /\ records[p] = NoFile => records'[p] = Content(h)
  BY <1>1 DEF insertRecord, JobEnds, NoJob, DocumentTypeOK
<1>3. DocumentTypeOK'
  BY <1>1 DEF insertRecord, JobEnds, NoJob, DocumentTypeOK, Path
<1> HIDE DEF p
<1>4. StoredIsRecorded'
  BY <1>1, <1>2 DEF StoredIsRecorded, Content
<1>5. KeepsDocuments
  BY <1>1, <1>2 DEF StoredIsRecorded, KeepsDocuments
<1> QED BY <1>3, <1>4, <1>5

\* No step changes a recorded document or what is stored for it (signature and
\* evidence services), whoever makes it at the same time.
THEOREM RecordedDocumentsStay == DocumentSpec => [][KeepsDocuments]_docVars
<1>1. DocumentInit => DocumentInv
  BY DocumentInitially
<1>2. DocumentInv /\ [DocumentNext]_docVars => DocumentInv'
  <2> SUFFICES ASSUME DocumentInv, [DocumentNext]_docVars PROVE DocumentInv'
    OBVIOUS
  <2>1. CASE DocumentNext
    BY <2>1, LookKeepsDocuments, UploadKeepsDocuments, RecordKeepsDocuments DEF DocumentNext
  <2>2. CASE UNCHANGED docVars
    BY <2>2 DEF docVars, DocumentInv, DocumentTypeOK, StoredIsRecorded, Content
  <2> QED BY <2>1, <2>2
<1>3. DocumentInv /\ [DocumentNext]_docVars => [KeepsDocuments]_docVars
  BY LookKeepsDocuments, UploadKeepsDocuments, RecordKeepsDocuments DEF DocumentNext
<1> QED BY <1>1, <1>2, <1>3, PTL DEF DocumentSpec

------------------------------------------------------------------------------
\* Slots.

\* NoAct names some account even where there is none.
AnyAccount == BankAccount \cup {CHOOSE a \in BankAccount : TRUE}

SlotRow == [usage : Usage, party : Party, account : AnyAccount,
            status : {"active", "superseded"}, next : Nat, over : Nat]

ActRecord ==
  [op : {"none", "connect", "disable", "assign", "replace", "link", "activate"},
   pc : {"idle", "result", "mark", "inUse", "disable", "look", "insert", "replace", "sync",
         "ready", "govern", "linkRow", "pending", "activate"},
   account : AnyAccount, usage : Usage, over : Nat, deal : Deal \cup {NoDeal}]

SlotTypeOK == slots \in Seq(SlotRow) /\ acts \in [Member -> ActRecord]

\* A slot once filled is never left empty: a replacement is one transaction.
FilledStaysFilled ==
  \A i \in DOMAIN slots :
    \E j \in DOMAIN slots : slots[j].usage = slots[i].usage /\ slots[j].status = "active"

SlotInv == SlotTypeOK /\ FilledStaysFilled /\ SlotHistoryIsOneLine

\* What findActiveAssignment finds is the last row of the slot, and when it
\* finds nothing the slot has never been filled.
LEMMA ActiveIsLast ==
  ASSUME SlotInv, NEW usage \in Usage
  PROVE  LET i == findActiveAssignment(usage) IN
         /\ i = 0 => \A j \in DOMAIN slots : slots[j].usage # usage
         /\ i # 0 => /\ i \in DOMAIN slots /\ slots[i].usage = usage
                     /\ slots[i].status = "active"
                     /\ \A j \in DOMAIN slots : slots[j].usage = usage => j <= i
<1> DEFINE active == {i \in DOMAIN slots : slots[i].usage = usage /\ slots[i].status = "active"}
           i == findActiveAssignment(usage)
<1>0. DOMAIN slots = 1..Len(slots) /\ Len(slots) \in Nat
  BY DEF SlotInv, SlotTypeOK
<1>1. CASE active = {}
  <2>1. i = 0
    BY <1>1 DEF findActiveAssignment
  <2>2. \A j \in DOMAIN slots : slots[j].usage # usage
    BY <1>1 DEF SlotInv, FilledStaysFilled
  <2> QED BY <2>1, <2>2
<1>2. CASE active # {}
  <2>1. i \in active
    BY <1>2 DEF findActiveAssignment
  <2>2. \A j \in DOMAIN slots : ~(j > i /\ slots[j].usage = slots[i].usage)
    BY <2>1 DEF SlotInv, SlotHistoryIsOneLine
  <2> HIDE DEF i
  <2>3. i # 0 /\ \A j \in DOMAIN slots : slots[j].usage = usage => j <= i
    BY <1>0, <2>1, <2>2
  <2> QED BY <2>1, <2>3 DEF i
<1> QED BY <1>1, <1>2

\* The new row goes to the end of its slot's history: either the slot was
\* never filled, or the row is the one after the active row it names.
ComesNext(row, current) ==
  /\ row.status = "active" /\ row.over = current
  /\ current = 0 => \A j \in DOMAIN slots : slots[j].usage # row.usage
  /\ current # 0 => /\ current \in DOMAIN slots
                    /\ slots[current].usage = row.usage /\ slots[current].status = "active"
                    /\ \A j \in DOMAIN slots : slots[j].usage = row.usage => j <= current

\* It supersedes that row and leaves the others as they are.
Supersedes(row, current) ==
  /\ Len(slots') = Len(slots) + 1 /\ slots'[Len(slots) + 1] = row
  /\ \A i \in DOMAIN slots :
       /\ slots'[i].usage = slots[i].usage /\ slots'[i].over = slots[i].over
       /\ i # current => slots'[i].status = slots[i].status /\ slots'[i].next = slots[i].next
       /\ i = current => slots'[i].status = "superseded" /\ slots'[i].next = Len(slots) + 1

\* Such a row keeps every slot filled and every history one line.
LEMMA NewRowKeepsHistory ==
  ASSUME SlotInv, slots' \in Seq(SlotRow), NEW row \in SlotRow, NEW current \in Nat,
         ComesNext(row, current), Supersedes(row, current)
  PROVE  FilledStaysFilled' /\ SlotHistoryIsOneLine'
<1>1. PICK n \in Nat : n = Len(slots)
  BY DEF SlotInv, SlotTypeOK
<1>2. DOMAIN slots = 1..n /\ DOMAIN slots' = 1..(n + 1) /\ \A i \in 1..n : slots[i] \in SlotRow
  BY <1>1 DEF SlotInv, SlotTypeOK, Supersedes
<1>3. /\ slots'[n + 1].usage = row.usage /\ slots'[n + 1].status = "active"
      /\ slots'[n + 1].over = current
      /\ \A i \in 1..n :
           /\ slots'[i].usage = slots[i].usage /\ slots'[i].over = slots[i].over
           /\ i # current => slots'[i].status = slots[i].status /\ slots'[i].next = slots[i].next
           /\ i = current => slots'[i].status = "superseded" /\ slots'[i].next = n + 1
  BY <1>1, <1>2 DEF Supersedes, ComesNext
<1>4. /\ current = 0 => \A j \in 1..n : slots[j].usage # row.usage
      /\ current # 0 => /\ current \in 1..n
                        /\ slots[current].usage = row.usage /\ slots[current].status = "active"
                        /\ \A j \in 1..n : slots[j].usage = row.usage => j <= current
  BY <1>2 DEF ComesNext
<1>5. FilledStaysFilled'
  <2> SUFFICES ASSUME NEW i \in 1..(n + 1)
               PROVE  \E j \in 1..(n + 1) : slots'[j].usage = slots'[i].usage /\ slots'[j].status = "active"
    BY <1>2 DEF FilledStaysFilled
  <2>1. CASE slots'[i].usage = row.usage
    BY <1>3, <2>1
  <2>2. CASE slots'[i].usage # row.usage
    <3>1. i \in 1..n
      BY <1>3, <2>2
    <3>2. PICK j \in 1..n : slots[j].usage = slots[i].usage /\ slots[j].status = "active"
      BY <1>2, <3>1 DEF SlotInv, FilledStaysFilled
    <3>3. j # current
      BY <1>3, <1>4, <2>2, <3>1, <3>2
    <3> QED BY <1>3, <3>1, <3>2, <3>3
  <2> QED BY <2>1, <2>2
<1>6. \A i \in 1..n :
        /\ slots[i].status = "active" <=> \A j \in 1..n : j > i => slots[j].usage # slots[i].usage
        /\ (\E j \in 1..n : j > i /\ slots[j].usage = slots[i].usage) =>
             /\ slots[i].next \in 1..n /\ slots[i].next > i
             /\ slots[slots[i].next].usage = slots[i].usage /\ slots[slots[i].next].over = i
        /\ slots[i].over = 0 <=> \A j \in 1..(i - 1) : slots[j].usage # slots[i].usage
  BY <1>2 DEF SlotInv, SlotHistoryIsOneLine
<1>7. ASSUME NEW i \in 1..(n + 1)
      PROVE  /\ slots'[i].status = "active" <=>
                  \A j \in 1..(n + 1) : j > i => slots'[j].usage # slots'[i].usage
             /\ (\E j \in 1..(n + 1) : j > i /\ slots'[j].usage = slots'[i].usage) =>
                  /\ slots'[i].next \in 1..(n + 1) /\ slots'[i].next > i
                  /\ slots'[slots'[i].next].usage = slots'[i].usage
                  /\ slots'[slots'[i].next].over = i
             /\ slots'[i].over = 0 <=> \A j \in 1..(i - 1) : slots'[j].usage # slots'[i].usage
  <2>1. CASE i = n + 1
    <3>1. \A j \in 1..(n + 1) : ~(j > i)
      BY <2>1
    <3>2. slots'[i].over = 0 <=> \A j \in 1..n : slots'[j].usage # slots'[i].usage
      BY <1>3, <1>4, <2>1
    <3> QED BY <1>3, <2>1, <3>1, <3>2
  <2>2. CASE i \in 1..n /\ slots[i].usage # row.usage
    <3>1. i # current
      BY <1>4, <2>2
    <3>2. \A j \in 1..(n + 1) : slots'[j].usage = slots'[i].usage =>
            j \in 1..n /\ slots[j].usage = slots[i].usage
      BY <1>3, <2>2
    <3>3. \A j \in 1..n : slots'[j].usage = slots'[i].usage <=> slots[j].usage = slots[i].usage
      BY <1>3, <2>2
    <3>4. slots'[i].status = "active" <=>
            \A j \in 1..(n + 1) : j > i => slots'[j].usage # slots'[i].usage
      BY <1>3, <1>6, <2>2, <3>1, <3>2, <3>3
    <3>5. ASSUME NEW j \in 1..(n + 1), j > i, slots'[j].usage = slots'[i].usage
          PROVE  /\ slots'[i].next \in 1..(n + 1) /\ slots'[i].next > i
                 /\ slots'[slots'[i].next].usage = slots'[i].usage
                 /\ slots'[slots'[i].next].over = i
      <4>1. /\ slots[i].next \in 1..n /\ slots[i].next > i
            /\ slots[slots[i].next].usage = slots[i].usage /\ slots[slots[i].next].over = i
        BY <1>6, <2>2, <3>2, <3>5
      <4> QED BY <1>3, <2>2, <3>1, <4>1
    <3>6. slots'[i].over = 0 <=> \A j \in 1..(i - 1) : slots'[j].usage # slots'[i].usage
      BY <1>3, <1>6, <2>2, <3>3
    <3> QED BY <3>4, <3>5, <3>6
  <2>3. CASE i \in 1..n /\ slots[i].usage = row.usage
    <3>1. current # 0 /\ current \in 1..n /\ i <= current
      BY <1>4, <2>3
    <3>2. n + 1 \in 1..(n + 1) /\ n + 1 > i /\ slots'[n + 1].usage = slots'[i].usage
      BY <1>3, <2>3
    <3>3. slots'[i].over = 0 <=> \A j \in 1..(i - 1) : slots'[j].usage # slots'[i].usage
      BY <1>3, <1>6, <2>3
    <3>4. CASE i = current
      BY <1>3, <3>1, <3>2, <3>3, <3>4
    <3>5. CASE i # current
      <4>1. /\ slots[i].status # "active"
            /\ slots[i].next \in 1..n /\ slots[i].next > i
            /\ slots[slots[i].next].usage = slots[i].usage /\ slots[slots[i].next].over = i
        BY <1>4, <1>6, <2>3, <3>1, <3>5
      <4>2. /\ slots'[i].next = slots[i].next /\ slots'[i].status = slots[i].status
            /\ slots'[slots[i].next].usage = slots'[i].usage /\ slots'[slots[i].next].over = i
        BY <1>3, <2>3, <3>5, <4>1
      <4> QED BY <3>2, <3>3, <4>1, <4>2
    <3> QED BY <3>4, <3>5
  <2> QED BY <2>1, <2>2, <2>3
<1>8. SlotHistoryIsOneLine'
  <2> SUFFICES ASSUME NEW i \in DOMAIN slots'
               PROVE  LET later   == {j \in DOMAIN slots' : j > i /\ slots'[j].usage = slots'[i].usage}
                          earlier == {j \in 1..(i - 1) : slots'[j].usage = slots'[i].usage} IN
                      /\ slots'[i].status = "active" <=> later = {}
                      /\ later # {} => slots'[i].next \in later /\ slots'[slots'[i].next].over = i
                      /\ slots'[i].over = 0 <=> earlier = {}
    BY DEF SlotHistoryIsOneLine
  <2> DEFINE later   == {j \in DOMAIN slots' : j > i /\ slots'[j].usage = slots'[i].usage}
             earlier == {j \in 1..(i - 1) : slots'[j].usage = slots'[i].usage}
  <2>1. i \in 1..(n + 1)
    BY <1>2
  <2>2. later = {} <=> \A j \in 1..(n + 1) : j > i => slots'[j].usage # slots'[i].usage
    BY <1>2
  <2>3. earlier = {} <=> \A j \in 1..(i - 1) : slots'[j].usage # slots'[i].usage
    OBVIOUS
  <2>4. later # {} => slots'[i].next \in later /\ slots'[slots'[i].next].over = i
    BY <1>2, <1>7, <2>1
  <2>5. slots'[i].status = "active" <=> later = {}
    BY <1>7, <2>1, <2>2
  <2>6. slots'[i].over = 0 <=> earlier = {}
    BY <1>7, <2>1, <2>3
  <2> QED BY <2>4, <2>5, <2>6
<1> QED BY <1>5, <1>8

\* Nothing is assigned to begin with.
LEMMA SlotsInitially == AccountInit => SlotInv
<1> SUFFICES ASSUME AccountInit PROVE SlotInv
  OBVIOUS
<1>1. SlotTypeOK
  BY DEF AccountInit, SlotTypeOK, ActRecord, NoAct, AnyAccount, Usage
<1>2. slots = <<>> /\ DOMAIN slots = {}
  BY DEF AccountInit
<1>3. FilledStaysFilled /\ SlotHistoryIsOneLine
  BY <1>2 DEF FilledStaysFilled, SlotHistoryIsOneLine
<1> QED BY <1>1, <1>3 DEF SlotInv

\* What a request keeps in mind has its type, whatever it does.
LEMMA ActMoves ==
  ASSUME SlotTypeOK, NEW m \in Member
  PROVE  /\ ActEnds(m) => acts' \in [Member -> ActRecord]
         /\ \A pc \in {"mark", "disable", "insert", "sync", "ready", "linkRow", "pending"} :
              Proceeds(m, pc) => acts' \in [Member -> ActRecord]
         /\ \A act \in ActRecord : Act(m, act) => acts' \in [Member -> ActRecord]
         /\ NoAct \in ActRecord
<1>1. NoAct \in ActRecord
  BY DEF NoAct, ActRecord, AnyAccount, Usage
<1>2. ActEnds(m) => acts' \in [Member -> ActRecord]
  BY <1>1 DEF ActEnds, SlotTypeOK
<1>3. ASSUME NEW pc \in {"mark", "disable", "insert", "sync", "ready", "linkRow", "pending"},
             Proceeds(m, pc)
      PROVE  acts' \in [Member -> ActRecord]
  BY <1>3, ZenonT(60) DEF Proceeds, SlotTypeOK, ActRecord
<1>4. ASSUME NEW act \in ActRecord, Act(m, act) PROVE acts' \in [Member -> ActRecord]
  BY <1>4 DEF Act, SlotTypeOK
<1> QED BY <1>1, <1>2, <1>3, <1>4

\* The requests that leave the slots alone.
LEMMA ActTypeStep ==
  ASSUME SlotInv, NEW m \in Member,
         \/ addAccount(m) \/ applyVerificationResult(m) \/ markVerified(m)
         \/ disableAccount(m) \/ listActiveAssignmentsForAccount(m) \/ markDisabled(m)
         \/ startAssignment(m) \/ assignAccount(m) \/ replaceAccount(m)
         \/ syncFromFinancialAccounts(m) \/ markReady(m)
         \/ linkAgreement(m) \/ setCurrentAgreementId(m) \/ linkRelationship(m)
         \/ markAgreementPending(m) \/ activate(m) \/ markActivated(m) \/ close(m)
         \/ abandonAct(m)
  PROVE  acts' \in [Member -> ActRecord] /\ UNCHANGED slots
<1>0. SlotTypeOK /\ NoAct \in ActRecord /\ acts[m] \in ActRecord
  BY ActMoves DEF SlotInv, SlotTypeOK
<1>1. CASE addAccount(m)
  <2>1. PICK a \in BankAccount :
          Act(m, [NoAct EXCEPT !.op = "connect", !.pc = "result", !.account = a])
    BY <1>1 DEF addAccount
  <2>2. [NoAct EXCEPT !.op = "connect", !.pc = "result", !.account = a] \in ActRecord
    BY <1>0 DEF ActRecord, AnyAccount
  <2> QED BY <1>0, <1>1, <2>1, <2>2, ActMoves DEF addAccount
<1>2. CASE applyVerificationResult(m)
  BY <1>0, <1>2, ActMoves DEF applyVerificationResult
<1>3. CASE markVerified(m)
  BY <1>0, <1>3, ActMoves DEF markVerified
<1>4. CASE disableAccount(m)
  <2>1. PICK a \in BankAccount :
          Act(m, [NoAct EXCEPT !.op = "disable", !.pc = "inUse", !.account = a])
    BY <1>4 DEF disableAccount
  <2>2. [NoAct EXCEPT !.op = "disable", !.pc = "inUse", !.account = a] \in ActRecord
    BY <1>0 DEF ActRecord, AnyAccount
  <2> QED BY <1>0, <1>4, <2>1, <2>2, ActMoves DEF disableAccount
<1>5. CASE listActiveAssignmentsForAccount(m)
  BY <1>0, <1>5, ActMoves DEF listActiveAssignmentsForAccount
<1>6. CASE markDisabled(m)
  BY <1>0, <1>6, ActMoves DEF markDisabled
<1>7. CASE startAssignment(m)
  <2>1. PICK op \in {"assign", "replace"}, a \in BankAccount, usage \in Usage :
          Act(m, [NoAct EXCEPT !.op = op, !.pc = "look", !.account = a, !.usage = usage])
    BY <1>7 DEF startAssignment
  <2>2. [NoAct EXCEPT !.op = op, !.pc = "look", !.account = a, !.usage = usage] \in ActRecord
    BY <1>0 DEF ActRecord, AnyAccount
  <2> QED BY <1>0, <1>7, <2>1, <2>2, ActMoves DEF startAssignment
<1>8. CASE assignAccount(m)
  BY <1>0, <1>8, ActMoves DEF assignAccount
<1>9. CASE replaceAccount(m)
  <2> DEFINE existing == findActiveAssignment(acts[m].usage)
  <2>1. existing \in Nat
    <3>1. acts[m].usage \in Usage /\ DOMAIN slots \subseteq Nat
      BY <1>0 DEF ActRecord, SlotTypeOK
    <3> QED BY <3>1, ActiveIsLast
  <2> HIDE DEF existing
  <2>2. [acts[m] EXCEPT !.pc = "replace", !.over = existing] \in ActRecord
    BY <1>0, <2>1 DEF ActRecord
  <2> QED BY <1>0, <1>9, <2>2, ActMoves DEF replaceAccount, existing
<1>10. CASE syncFromFinancialAccounts(m)
  BY <1>0, <1>10, ActMoves DEF syncFromFinancialAccounts
<1>11. CASE markReady(m)
  BY <1>0, <1>11, ActMoves DEF markReady
<1>12. CASE linkAgreement(m)
  <2>1. PICK g \in Deal : Act(m, [NoAct EXCEPT !.op = "link", !.pc = "govern", !.deal = g])
    BY <1>12 DEF linkAgreement
  <2>2. [NoAct EXCEPT !.op = "link", !.pc = "govern", !.deal = g] \in ActRecord
    BY <1>0 DEF ActRecord
  <2> QED BY <1>0, <1>12, <2>1, <2>2, ActMoves DEF linkAgreement
<1>13. CASE setCurrentAgreementId(m) \/ linkRelationship(m)
  BY <1>0, <1>13, ActMoves DEF setCurrentAgreementId, linkRelationship
<1>14. CASE markAgreementPending(m) \/ markActivated(m)
  BY <1>0, <1>14, ActMoves DEF markAgreementPending, markActivated
<1>15. CASE activate(m)
  <2>1. [NoAct EXCEPT !.op = "activate", !.pc = "activate"] \in ActRecord
    BY <1>0 DEF ActRecord
  <2> QED BY <1>0, <1>15, <2>1, ActMoves DEF activate
<1>16. CASE close(m)
  BY <1>0, <1>16 DEF close, SlotTypeOK
<1>17. CASE abandonAct(m)
  BY <1>0, <1>17, ActMoves DEF abandonAct
<1> QED BY <1>1, <1>2, <1>3, <1>4, <1>5, <1>6, <1>7, <1>8, <1>9, <1>10, <1>11, <1>12, <1>13,
           <1>14, <1>15, <1>16, <1>17

\* Every step keeps the history: only two write it, under the unique index or
\* in the transaction that finds the slot as its request did.
LEMMA SlotStep ==
  ASSUME SlotInv, AccountNext
  PROVE  SlotInv'
<1>0. SlotTypeOK /\ Len(slots) \in Nat /\ DOMAIN slots = 1..Len(slots)
  BY DEF SlotInv, SlotTypeOK
<1>1. ASSUME UNCHANGED slots, acts' \in [Member -> ActRecord] PROVE SlotInv'
  <2>1. SlotTypeOK'
    BY <1>0, <1>1 DEF SlotTypeOK
  <2>2. FilledStaysFilled'
    BY <1>1 DEF SlotInv, FilledStaysFilled
  <2>3. SlotHistoryIsOneLine'
    <3>1. SlotHistoryIsOneLine
      BY DEF SlotInv
    <3> QED BY <1>1, <3>1, Zenon DEF SlotHistoryIsOneLine
  <2> QED BY <2>1, <2>2, <2>3 DEF SlotInv
<1>2. ASSUME NEW m \in Member, NEW over \in Nat PROVE Row(m, over) \in SlotRow
  <2>1. acts[m].usage \in Usage /\ acts[m].account \in AnyAccount
    BY <1>0 DEF SlotTypeOK, ActRecord
  <2> QED BY <1>2, <2>1, AccountAssumption DEF Row, SlotRow
<1>3. ASSUME NEW m \in Member, insertAssignment(m) PROVE SlotInv'
  <2> DEFINE usage == acts[m].usage
  <2>1. usage \in Usage
    BY <1>0 DEF SlotTypeOK, ActRecord
  <2>2. CASE findActiveAssignment(usage) # 0
    BY <1>0, <1>1, <1>3, <2>2, ActMoves DEF insertAssignment
  <2>3. CASE findActiveAssignment(usage) = 0
    <3>1. slots' = Append(slots, Row(m, 0)) /\ acts' \in [Member -> ActRecord]
      BY <1>0, <1>3, <2>3, ActMoves DEF insertAssignment
    <3>2. Row(m, 0) \in SlotRow /\ Row(m, 0).usage = usage /\ Row(m, 0).status = "active"
          /\ Row(m, 0).over = 0
      BY <1>2 DEF Row
    <3>3. /\ slots' \in Seq(SlotRow) /\ Len(slots') = Len(slots) + 1
          /\ slots'[Len(slots) + 1] = Row(m, 0)
          /\ \A i \in 1..Len(slots) : slots'[i] = slots[i]
      BY <1>0, <3>1, <3>2, AppendProperties DEF SlotTypeOK
    <3>4. ComesNext(Row(m, 0), 0)
      BY <2>1, <2>3, <3>2, ActiveIsLast DEF ComesNext
    <3>5. Supersedes(Row(m, 0), 0)
      BY <1>0, <3>3 DEF Supersedes
    <3>6. FilledStaysFilled' /\ SlotHistoryIsOneLine'
      BY <3>2, <3>3, <3>4, <3>5, NewRowKeepsHistory
    <3> QED BY <3>1, <3>3, <3>6 DEF SlotInv, SlotTypeOK
  <2> QED BY <2>2, <2>3
<1>4. ASSUME NEW m \in Member, replaceAssignmentAtomically(m) PROVE SlotInv'
  <2> DEFINE usage   == acts[m].usage
             current == findActiveAssignment(usage)
             new     == Len(slots) + 1
             old     == [i \in DOMAIN slots |->
                           IF i = current
                             THEN [slots[i] EXCEPT !.status = "superseded", !.next = new]
                             ELSE slots[i]]
             row     == Row(m, acts[m].over)
  <2>1. usage \in Usage /\ acts[m].over \in Nat
    BY <1>0 DEF SlotTypeOK, ActRecord
  <2>2. CASE ~IsAsExpected(m)
    BY <1>0, <1>1, <1>4, <2>2, ActMoves DEF replaceAssignmentAtomically
  <2>3. CASE IsAsExpected(m)
    <3>1. slots' = Append(old, row) /\ acts' \in [Member -> ActRecord] /\ current = acts[m].over
      BY <1>0, <1>4, <2>3, ActMoves DEF replaceAssignmentAtomically, IsAsExpected
    <3>2. row \in SlotRow /\ row.usage = usage /\ row.status = "active" /\ row.over = current
      BY <1>2, <2>1, <3>1 DEF Row
    <3>3. \A i \in 1..Len(slots) : slots[i] \in SlotRow
      BY <1>0 DEF SlotTypeOK
    <3>4. old \in Seq(SlotRow) /\ Len(old) = Len(slots)
      <4> HIDE DEF current
      <4>1. ASSUME NEW i \in 1..Len(slots) PROVE old[i] \in SlotRow
        <5>1. new \in Nat /\ slots[i] \in SlotRow
          BY <1>0, <3>3
        <5>2. [slots[i] EXCEPT !.status = "superseded", !.next = new] \in SlotRow
          <6> HIDE DEF new
          <6> QED BY <5>1 DEF SlotRow
        <5> QED BY <1>0, <5>1, <5>2
      <4>2. old = [i \in 1..Len(slots) |-> old[i]]
        BY <1>0
      <4> HIDE DEF old
      <4>3. old \in [1..Len(slots) -> SlotRow]
        BY <4>1, <4>2
      <4> QED BY <1>0, <4>3
    <3> HIDE DEF row, current
    <3>5. ComesNext(row, current)
      BY <2>1, <3>2, ActiveIsLast DEF ComesNext, current
    <3>6. /\ slots' \in Seq(SlotRow) /\ Len(slots') = Len(slots) + 1
          /\ slots'[Len(slots) + 1] = row
          /\ \A i \in 1..Len(slots) : slots'[i] = old[i]
      <4> HIDE DEF old
      <4> QED BY <1>0, <3>1, <3>2, <3>4, AppendProperties
    <3>7. Supersedes(row, current)
      BY <1>0, <3>3, <3>6, ZenonT(60) DEF Supersedes, SlotRow
    <3>8. FilledStaysFilled' /\ SlotHistoryIsOneLine'
      BY <2>1, <3>1, <3>2, <3>5, <3>6, <3>7, NewRowKeepsHistory
    <3> QED BY <3>1, <3>6, <3>8 DEF SlotInv, SlotTypeOK
  <2> QED BY <2>2, <2>3
<1>5. CASE endAgreement
  BY <1>0, <1>1, <1>5 DEF endAgreement, SlotTypeOK
<1> QED BY <1>1, <1>3, <1>4, <1>5, ActTypeStep DEF AccountNext

\* The history of every slot is one line (replaceAssignmentAtomically and the
\* unique index on active rows), for any number of users and accounts.
THEOREM SlotsHaveOneHistory == AccountSpec => []SlotHistoryIsOneLine
<1>1. AccountInit => SlotInv
  BY SlotsInitially
<1>2. SlotInv /\ [AccountNext]_accountVars => SlotInv'
  <2> SUFFICES ASSUME SlotInv, [AccountNext]_accountVars PROVE SlotInv'
    OBVIOUS
  <2>1. CASE UNCHANGED accountVars
    BY <2>1 DEF accountVars, SlotInv, SlotTypeOK, FilledStaysFilled, SlotHistoryIsOneLine
  <2> QED BY <2>1, SlotStep
<1>3. SlotInv => SlotHistoryIsOneLine
  BY DEF SlotInv
<1> QED BY <1>1, <1>2, <1>3, PTL DEF AccountSpec

------------------------------------------------------------------------------
\* The audit trail stays one chain.  ChainIsLinear is not inductive: that the
\* row a transaction is about to commit follows the last committed one depends
\* on the lock it has held since it read that one (AppendIsFresh).

AppendRecord ==
  [pc : {"idle", "row", "lock", "dedupe", "tail", "insert", "commit"},
   row : LockedRow \cup {NoRow}, key : EventAction \cup {NoKey}, tail : Nat, id : Nat]

ChainTypeOK ==
  /\ chainRows \subseteq [id : Nat, prev : Nat, key : EventAction \cup {NoKey}]
  /\ appending \in [Server -> AppendRecord]
  /\ chainLock \in Server \cup {NoServer}
  /\ rowLock \in [LockedRow -> Server \cup {NoServer}]
  /\ nextId \in Nat \ {0}

ChainInv == ChainTypeOK /\ AppendIsFresh /\ ChainIsLinear

\* The empty chain is linear.
LEMMA ChainInitially == ChainInit => ChainInv
<1> SUFFICES ASSUME ChainInit PROVE ChainInv
  OBVIOUS
<1> USE ChainAssumption DEF ChainInit, NoAppend
<1>1. ChainTypeOK
  BY DEF ChainTypeOK, AppendRecord
<1>2. AppendIsFresh
  BY DEF AppendIsFresh, HoldsChain, AppendAt
<1>3. ChainIsLinear
  BY DEF ChainIsLinear
<1> QED BY <1>1, <1>2, <1>3 DEF ChainInv

\* Every step keeps the rows and the transactions well formed.
LEMMA ChainTypeStep ==
  ASSUME ChainTypeOK, NEW s \in Server, AppendStep(s)
  PROVE  ChainTypeOK'
<1> USE ChainAssumption DEF ChainTypeOK, AppendRecord, AppendAt, GoesOn
<1>1. CASE beginAppend(s)
  BY <1>1 DEF beginAppend
<1>2. CASE lockRow(s)
  BY <1>2 DEF lockRow
<1>3. CASE lockChain(s)
  BY <1>3 DEF lockChain
<1>4. CASE findExisting(s)
  BY <1>4 DEF findExisting
<1>5. CASE readTail(s)
  BY <1>5 DEF readTail
<1>6. CASE insertEvent(s)
  BY <1>6 DEF insertEvent
<1>7. CASE commitAppend(s)
  BY <1>7 DEF commitAppend, EndAppend, NoAppend
<1>8. CASE rollbackAppend(s)
  BY <1>8 DEF rollbackAppend, EndAppend, NoAppend
<1> QED
  BY <1>1, <1>2, <1>3, <1>4, <1>5, <1>6, <1>7, <1>8 DEF AppendStep

\* While a server holds the lock, no other one is past it.
LEMMA OneHolder ==
  ASSUME ChainTypeOK, AppendIsFresh, NEW s \in Server, NEW t \in Server,
         HoldsChain(s), HoldsChain(t)
  PROVE  s = t
BY DEF AppendIsFresh

\* What a transaction has read stays true until it ends: a step that leaves
\* the committed rows alone disturbs nobody, and a commit happens under the
\* lock, where nobody else has read anything.
LEMMA FreshStep ==
  ASSUME ChainTypeOK, AppendIsFresh, NEW s \in Server, AppendStep(s)
  PROVE  AppendIsFresh'
<1> USE ChainAssumption DEF ChainTypeOK, AppendRecord, AppendAt, HoldsChain
<1>1. CASE beginAppend(s)
  BY <1>1 DEF beginAppend, AppendIsFresh, IsTail
<1>2. CASE lockRow(s)
  BY <1>2 DEF lockRow, GoesOn, AppendIsFresh, IsTail
<1>3. CASE lockChain(s)
  BY <1>3 DEF lockChain, ChainIsFree, GoesOn, AppendIsFresh, IsTail
<1>4. CASE findExisting(s)
  BY <1>4 DEF findExisting, GoesOn, AppendIsFresh, IsTail
<1>5. CASE readTail(s)
  BY <1>5 DEF readTail, GoesOn, AppendIsFresh, IsTail
<1>6. CASE insertEvent(s)
  <2>1. appending[s].tail \in Nat /\ appending[s].tail < nextId /\ IsTail(appending[s].tail)
    BY <1>6 DEF insertEvent, AppendIsFresh, IsTail
  <2> QED BY <1>6, <2>1 DEF insertEvent, GoesOn, AppendIsFresh, IsTail
<1>7. CASE commitAppend(s)
  <2>1. \A t \in Server : t # s => ~HoldsChain(t)
    BY <1>7, OneHolder DEF commitAppend
  <2>2. \A t \in Server : t # s => appending'[t] = appending[t]
    BY <1>7 DEF commitAppend, EndAppend
  <2>3. appending'[s] = NoAppend
    BY <1>7 DEF commitAppend, EndAppend
  <2>4. \A t \in Server : ~HoldsChain(t)'
    BY <2>1, <2>2, <2>3 DEF NoAppend
  <2>5. \A t \in Server : appending'[t].id = 0
    BY <2>1, <2>2, <2>3 DEF NoAppend, AppendIsFresh
  <2>6. \A r \in chainRows' : r.id \in Nat /\ 0 < r.id /\ r.id < nextId'
    BY <1>7 DEF commitAppend, EndAppend, AppendIsFresh
  <2> QED BY <2>4, <2>5, <2>6 DEF AppendIsFresh
<1>8. CASE rollbackAppend(s)
  BY <1>8 DEF rollbackAppend, EndAppend, NoAppend, AppendIsFresh, IsTail
<1> QED
  BY <1>1, <1>2, <1>3, <1>4, <1>5, <1>6, <1>7, <1>8 DEF AppendStep

\* Only a commit adds a row, and it follows the last one.
LEMMA LinearStep ==
  ASSUME ChainTypeOK, AppendIsFresh, ChainIsLinear, NEW s \in Server, AppendStep(s)
  PROVE  ChainIsLinear'
<1>1. CASE commitAppend(s) /\ appending[s].id # 0
  <2> DEFINE new == [id |-> appending[s].id, prev |-> appending[s].tail, key |-> appending[s].key]
  <2>1. chainRows' = chainRows \cup {new}
    BY <1>1 DEF commitAppend
  <2>2. /\ new.prev < new.id /\ IsTail(new.prev)
        /\ new.prev \in Nat /\ new.id \in Nat
    BY <1>1 DEF AppendIsFresh, ChainTypeOK, AppendRecord
  <2>3. \A r \in chainRows : r.id \in Nat /\ r.prev \in Nat /\ r.id <= new.prev
    BY <2>2 DEF IsTail, ChainTypeOK
  <2>4. new.prev # 0 => \E q \in chainRows : q.id = new.prev
    BY <2>2 DEF IsTail
  <2> HIDE DEF new
  <2> QED BY <2>1, <2>2, <2>3, <2>4 DEF ChainIsLinear
<1>2. CASE chainRows' = chainRows
  BY <1>2 DEF ChainIsLinear
<1> QED
  BY <1>1, <1>2 DEF AppendStep, beginAppend, lockRow, lockChain, findExisting, readTail,
                    insertEvent, commitAppend, rollbackAppend

\* The audit trail is one chain (appendAuditEventTxBound), whatever the
\* number of servers and of transactions that append from inside others.
THEOREM AuditTrailIsOneChain == ChainSpec => []ChainIsLinear
<1>1. ChainInit => ChainInv
  BY ChainInitially
<1>2. ChainInv /\ [ChainNext]_chainVars => ChainInv'
  <2> SUFFICES ASSUME ChainInv, [ChainNext]_chainVars PROVE ChainInv'
    OBVIOUS
  <2>1. ASSUME NEW s \in Server, AppendStep(s) PROVE ChainInv'
    BY <2>1, ChainTypeStep, FreshStep, LinearStep DEF ChainInv
  <2>2. CASE UNCHANGED chainVars
    BY <2>2 DEF chainVars, ChainInv, ChainTypeOK, AppendIsFresh, ChainIsLinear, HoldsChain,
                AppendAt, IsTail
  <2> QED BY <2>1, <2>2 DEF ChainNext
<1>3. ChainInv => ChainIsLinear
  BY DEF ChainInv
<1> QED BY <1>1, <1>2, <1>3, PTL DEF ChainSpec

------------------------------------------------------------------------------
\* The relationship.

LinkStatus == {"counterparty_linked", "identities_confirmed", "financial_setup_pending"}

AnswerRecord ==
  [op : {"none", "view", "late", "accepted", "declined", "cancelled", "expired"},
   pc : {"idle", "write", "claim", "join", "resolve", "link", "look", "drop"},
   resolved : BOOLEAN, todo : Seq(LinkStatus)]

InviteTypeOK ==
  /\ invite \in [status : {"sent", "viewed", "accepted", "declined", "cancelled", "expired"},
                 resolved : Guest \cup {NoGuest}, overdue : BOOLEAN]
  /\ joined \in Seq(Guest)
  /\ answering \in [Actor -> AnswerRecord]
  /\ answers \subseteq Actor \X {"accepted", "declined", "cancelled"}
  /\ reopened \in BOOLEAN

\* As long as no view was written over an answer, an answer closes the
\* invitation and is the only one, and at most one user has joined.
AnswerCloses ==
  ~reopened => /\ answers # {} => ~IsOpen
               /\ \A x, y \in answers : x = y
               /\ Len(joined) <= 1

\* Where a request stands before and after its claim: it claims for an answer,
\* then its answer is recorded, and until it has joined nobody has; what
\* follows takes a participant.
ClaimIsKept ==
  \A a \in Actor :
    /\ answering[a].pc = "claim" => answering[a].op \in {"accepted", "declined", "cancelled"}
    /\ answering[a].pc = "join" => /\ answering[a].op = "accepted"
                                   /\ <<a, "accepted">> \in answers
                                   /\ ~reopened => joined = <<>>
    /\ answering[a].pc \in {"resolve", "link"} => joined # <<>>
    /\ answering[a].pc = "link" => answering[a].todo # <<>>

JoinedAccepted ==
  /\ \A n \in DOMAIN joined : <<joined[n], "accepted">> \in answers
  /\ relation \notin {"invited", "cancelled"} => joined # <<>>

InviteInv == InviteTypeOK /\ AnswerCloses /\ ClaimIsKept /\ JoinedAccepted

\* createInvitation leaves nobody answering.
LEMMA InviteInitially == InviteInit => InviteInv
<1> SUFFICES ASSUME InviteInit PROVE InviteInv
  OBVIOUS
<1> USE DEF InviteInit
<1>1. NoAnswer \in AnswerRecord
  BY DEF NoAnswer, AnswerRecord
<1>2. InviteTypeOK
  <2>1. invite \in [status : {"sent", "viewed", "accepted", "declined", "cancelled", "expired"},
                    resolved : Guest \cup {NoGuest}, overdue : BOOLEAN]
    OBVIOUS
  <2>2. answering \in [Actor -> AnswerRecord]
    BY <1>1
  <2>3. joined \in Seq(Guest) /\ answers \subseteq Actor \X {"accepted", "declined", "cancelled"}
    OBVIOUS
  <2>4. reopened \in BOOLEAN
    BY Zenon
  <2> QED BY <2>1, <2>2, <2>3, <2>4 DEF InviteTypeOK
<1>3. AnswerCloses /\ ClaimIsKept /\ JoinedAccepted
  BY DEF AnswerCloses, ClaimIsKept, JoinedAccepted, NoAnswer
<1> QED BY <1>2, <1>3 DEF InviteInv

\* A request that ends, or that begins, is past no claim.
LEMMA AnswerMoves ==
  ASSUME answering \in [Actor -> AnswerRecord], NEW a \in Actor
  PROVE  /\ NoAnswer \in AnswerRecord /\ NoAnswer.pc = "idle"
         /\ AnswerEnds(a) => /\ answering' \in [Actor -> AnswerRecord]
                             /\ answering'[a].pc = "idle"
                             /\ \A b \in Actor : b # a => answering'[b] = answering[b]
         /\ \A op \in {"view", "late", "accepted", "declined", "cancelled", "expired"},
               pc \in {"write", "claim"} :
              Begins(a, op, pc) => /\ answering' \in [Actor -> AnswerRecord]
                                   /\ answering'[a].pc = pc /\ answering'[a].op = op
                                   /\ \A b \in Actor : b # a => answering'[b] = answering[b]
         /\ \A pc \in {"join", "resolve", "look", "drop"} :
              Then(a, pc) => /\ answering' \in [Actor -> AnswerRecord]
                             /\ answering'[a].pc = pc /\ answering'[a].op = answering[a].op
                             /\ \A b \in Actor : b # a => answering'[b] = answering[b]
<1>1. NoAnswer \in AnswerRecord /\ NoAnswer.pc = "idle"
  BY DEF NoAnswer, AnswerRecord
<1>2. AnswerEnds(a) => /\ answering' \in [Actor -> AnswerRecord]
                       /\ answering'[a].pc = "idle"
                       /\ \A b \in Actor : b # a => answering'[b] = answering[b]
  BY <1>1 DEF AnswerEnds
<1>3. ASSUME NEW op \in {"view", "late", "accepted", "declined", "cancelled", "expired"},
             NEW pc \in {"write", "claim"}, Begins(a, op, pc)
      PROVE  /\ answering' \in [Actor -> AnswerRecord]
             /\ answering'[a].pc = pc /\ answering'[a].op = op
             /\ \A b \in Actor : b # a => answering'[b] = answering[b]
  <2> DEFINE known == invite.resolved # NoGuest
             row   == [op |-> op, pc |-> pc, resolved |-> known, todo |-> <<>>]
  <2>1. known \in BOOLEAN
    BY Zenon
  <2> HIDE DEF known
  <2>2. row \in AnswerRecord /\ row.pc = pc /\ row.op = op
    BY <2>1 DEF AnswerRecord
  <2>3. answering' = [answering EXCEPT ![a] = row]
    BY <1>3 DEF Begins, known
  <2> QED BY <2>2, <2>3
<1>4. ASSUME NEW pc \in {"join", "resolve", "look", "drop"}, Then(a, pc)
      PROVE  /\ answering' \in [Actor -> AnswerRecord]
             /\ answering'[a].pc = pc /\ answering'[a].op = answering[a].op
             /\ \A b \in Actor : b # a => answering'[b] = answering[b]
  BY <1>4 DEF Then, AnswerRecord
<1> QED BY <1>1, <1>2, <1>3, <1>4

\* A step that leaves the rows and the history alone, and its request before
\* its claim or after all it has to make.
LEMMA QuietStep ==
  ASSUME InviteInv, NEW a \in Actor, answering' \in [Actor -> AnswerRecord],
         answering'[a].pc \notin {"join", "resolve", "link"},
         answering'[a].pc = "claim" => answering'[a].op \in {"accepted", "declined", "cancelled"},
         \A b \in Actor : b # a => answering'[b] = answering[b],
         UNCHANGED <<invite, relation, joined, answers, reopened>>
  PROVE  InviteInv'
<1>1. InviteTypeOK'
  BY DEF InviteInv, InviteTypeOK
<1>2. AnswerCloses' /\ JoinedAccepted'
  BY DEF InviteInv, AnswerCloses, JoinedAccepted, IsOpen
<1>3. ClaimIsKept'
  BY DEF InviteInv, ClaimIsKept
<1> QED BY <1>1, <1>2, <1>3 DEF InviteInv

\* Requests that only read, and those that are given up.
LEMMA ReadsKeepInvite ==
  ASSUME InviteInv
  PROVE  /\ cancelInvitation \/ expireDueRelationshipInvitations => InviteInv'
         /\ \A u \in Guest :
              openInvitation(u) \/ acceptInvitation(u) \/ declineInvitation(u) => InviteInv'
         /\ \A a \in Actor : cancelRelationshipIfNeverLinked(a) \/ abandonAnswer(a) => InviteInv'
<1> USE DEF KeepHistory
<1>0. /\ answering \in [Actor -> AnswerRecord] /\ Guest \subseteq Actor
      /\ Host \in Actor /\ Job \in Actor
  BY DEF InviteInv, InviteTypeOK, Actor
<1>1. CASE cancelInvitation
  BY <1>0, <1>1, AnswerMoves, QuietStep DEF cancelInvitation
<1>2. CASE expireDueRelationshipInvitations
  BY <1>0, <1>2, AnswerMoves, QuietStep DEF expireDueRelationshipInvitations
<1>3. ASSUME NEW u \in Guest, openInvitation(u) PROVE InviteInv'
  BY <1>0, <1>3, AnswerMoves, QuietStep DEF openInvitation
<1>4. ASSUME NEW u \in Guest, acceptInvitation(u) PROVE InviteInv'
  BY <1>0, <1>4, AnswerMoves, QuietStep DEF acceptInvitation
<1>5. ASSUME NEW u \in Guest, declineInvitation(u) PROVE InviteInv'
  BY <1>0, <1>5, AnswerMoves, QuietStep DEF declineInvitation
<1>6. ASSUME NEW a \in Actor, cancelRelationshipIfNeverLinked(a) PROVE InviteInv'
  BY <1>0, <1>6, AnswerMoves, QuietStep DEF cancelRelationshipIfNeverLinked
<1>7. ASSUME NEW a \in Actor, abandonAnswer(a) PROVE InviteInv'
  BY <1>0, <1>7, AnswerMoves, QuietStep DEF abandonAnswer
<1> QED BY <1>1, <1>2, <1>3, <1>4, <1>5, <1>6, <1>7

\* The writes by id: none of them opens a closed invitation but a view, which
\* is what reopened tells.
LEMMA WritesByIdKeepInvite ==
  ASSUME InviteInv
  PROVE  /\ becomeOverdue => InviteInv'
         /\ \A u \in Guest : markViewed(u) => InviteInv'
         /\ \A a \in Actor : markInviteExpired(a) \/ dropRelationship(a) => InviteInv'
<1> USE DEF KeepHistory, InviteInv
<1>0. /\ answering \in [Actor -> AnswerRecord] /\ Guest \subseteq Actor
  BY DEF InviteTypeOK, Actor
<1>1. CASE becomeOverdue
  <2>1. invite' = [invite EXCEPT !.overdue = TRUE] /\ invite'.status = invite.status
    BY <1>1 DEF becomeOverdue, InviteTypeOK
  <2>2. InviteTypeOK'
    BY <1>1, <2>1 DEF becomeOverdue, InviteTypeOK
  <2> QED BY <1>1, <2>1, <2>2 DEF becomeOverdue, AnswerCloses, ClaimIsKept, JoinedAccepted, IsOpen
<1>2. ASSUME NEW u \in Guest, markViewed(u) PROVE InviteInv'
  <2>1. /\ answering' \in [Actor -> AnswerRecord] /\ answering'[u].pc = "idle"
        /\ \A b \in Actor : b # u => answering'[b] = answering[b]
    BY <1>0, <1>2, AnswerMoves DEF markViewed
  <2>2. reopened' \in BOOLEAN /\ (~reopened' => ~reopened /\ IsOpen)
    BY <1>2, Zenon DEF markViewed, InviteTypeOK
  <2>3. InviteTypeOK'
    BY <1>2, <2>1, <2>2 DEF markViewed, InviteTypeOK
  <2>4. AnswerCloses'
    BY <1>2, <2>2 DEF markViewed, AnswerCloses
  <2>5. ClaimIsKept' /\ JoinedAccepted'
    BY <1>2, <2>1, <2>2 DEF markViewed, ClaimIsKept, JoinedAccepted
  <2> QED BY <2>3, <2>4, <2>5
<1>3. ASSUME NEW a \in Actor, markInviteExpired(a) PROVE InviteInv'
  <2>1. /\ answering' \in [Actor -> AnswerRecord] /\ answering'[a].pc \in {"idle", "look"}
        /\ \A b \in Actor : b # a => answering'[b] = answering[b]
    BY <1>0, <1>3, AnswerMoves DEF markInviteExpired
  <2>2. InviteTypeOK' /\ invite'.status = "expired"
    BY <1>3, <2>1 DEF markInviteExpired, InviteTypeOK
  <2> QED
    BY <1>3, <2>1, <2>2 DEF markInviteExpired, AnswerCloses, ClaimIsKept, JoinedAccepted, IsOpen
<1>4. ASSUME NEW a \in Actor, dropRelationship(a) PROVE InviteInv'
  <2>1. /\ answering' \in [Actor -> AnswerRecord] /\ answering'[a].pc = "idle"
        /\ \A b \in Actor : b # a => answering'[b] = answering[b]
    BY <1>0, <1>4, AnswerMoves DEF dropRelationship
  <2>2. InviteTypeOK'
    BY <1>4, <2>1 DEF dropRelationship, InviteTypeOK
  <2> QED
    BY <1>4, <2>1, <2>2 DEF dropRelationship, AnswerCloses, ClaimIsKept, JoinedAccepted, IsOpen
<1> QED BY <1>1, <1>2, <1>3, <1>4

\* The claim: it succeeds while the invitation is open, and then there was no
\* answer before it and nobody has joined.
LEMMA ClaimKeepsInvite ==
  ASSUME InviteInv, NEW a \in Actor, claim(a)
  PROVE  InviteInv'
<1> USE DEF InviteInv
<1>0. answering \in [Actor -> AnswerRecord]
  BY DEF InviteTypeOK
<1>1. CASE answers' = answers /\ invite' = invite
  BY <1>0, <1>1, AnswerMoves, QuietStep DEF claim
<1>2. CASE ~(answers' = answers /\ invite' = invite)
  <2> DEFINE status == answering[a].op
  <2>1. /\ IsOpen /\ invite' = [invite EXCEPT !.status = status]
        /\ answers' = answers \cup {<<a, status>>}
        /\ UNCHANGED <<relation, joined, reopened>>
    BY <1>2 DEF claim, setStatusGuarded
  <2>2. status \in {"accepted", "declined", "cancelled"}
    BY DEF claim, ClaimIsKept
  <2>3. /\ answering' \in [Actor -> AnswerRecord]
        /\ \A b \in Actor : b # a => answering'[b] = answering[b]
        /\ answering'[a].pc \in {"idle", "join", "look"}
        /\ answering'[a].pc = "join" => status = "accepted" /\ answering'[a].op = "accepted"
    BY <1>0, AnswerMoves DEF claim
  <2> HIDE DEF status
  <2>4. ~reopened => answers = {} /\ joined = <<>>
    <3>1. ~reopened => answers = {}
      BY <2>1 DEF AnswerCloses
    <3>2. answers = {} => DOMAIN joined = {}
      BY DEF JoinedAccepted
    <3> QED BY <3>1, <3>2 DEF InviteTypeOK
  <2>5. InviteTypeOK' /\ invite'.status = status
    <3>1. /\ invite' \in [status : {"sent", "viewed", "accepted", "declined", "cancelled", "expired"},
                          resolved : Guest \cup {NoGuest}, overdue : BOOLEAN]
          /\ invite'.status = status
      BY <2>1, <2>2 DEF InviteTypeOK
    <3>2. answers' \subseteq Actor \X {"accepted", "declined", "cancelled"}
      BY <2>1, <2>2 DEF InviteTypeOK
    <3> QED BY <2>1, <2>3, <3>1, <3>2 DEF InviteTypeOK
  <2>6. AnswerCloses'
    BY <2>1, <2>2, <2>4, <2>5 DEF AnswerCloses, IsOpen
  <2>7. ClaimIsKept'
    BY <2>1, <2>3, <2>4 DEF ClaimIsKept
  <2>8. JoinedAccepted'
    BY <2>1 DEF JoinedAccepted
  <2> QED BY <2>5, <2>6, <2>7, <2>8
<1> QED BY <1>1, <1>2

\* What the one that claimed makes: the participant, and after it the link.
LEMMA JoinKeepsInvite ==
  ASSUME InviteInv, NEW u \in Guest,
         insertParticipant(u) \/ setResolvedInviteeUser(u) \/ linkCounterparty(u)
  PROVE  InviteInv'
<1> USE DEF InviteInv, KeepHistory
<1>0. answering \in [Actor -> AnswerRecord] /\ u \in Actor
  BY DEF InviteTypeOK, Actor
<1>1. CASE insertParticipant(u)
  <2>1. /\ answering' \in [Actor -> AnswerRecord] /\ answering'[u].pc = "resolve"
        /\ \A b \in Actor : b # u => answering'[b] = answering[b]
    BY <1>0, <1>1, AnswerMoves DEF insertParticipant
  <2>2. <<u, "accepted">> \in answers /\ (~reopened => joined = <<>>)
    BY <1>0, <1>1 DEF insertParticipant, Answering, ClaimIsKept
  <2>3. /\ joined' = Append(joined, u) /\ joined' \in Seq(Guest) /\ joined' # <<>>
        /\ Len(joined') = Len(joined) + 1
        /\ \A n \in DOMAIN joined' : joined'[n] = u \/ (n \in DOMAIN joined /\ joined'[n] = joined[n])
    BY <1>1 DEF insertParticipant, InviteTypeOK
  <2>4. InviteTypeOK'
    BY <1>1, <2>1, <2>3 DEF insertParticipant, InviteTypeOK
  <2>5. AnswerCloses'
    BY <1>1, <2>2, <2>3 DEF insertParticipant, AnswerCloses, IsOpen
  <2>6. \A b \in Actor : b # u /\ answering[b].pc = "join" => reopened
    BY <2>2 DEF ClaimIsKept, AnswerCloses
  <2>7. ClaimIsKept'
    BY <1>1, <2>1, <2>3, <2>6 DEF insertParticipant, ClaimIsKept
  <2>8. JoinedAccepted'
    BY <1>1, <2>2, <2>3 DEF insertParticipant, JoinedAccepted
  <2> QED BY <2>4, <2>5, <2>7, <2>8
<1>2. CASE setResolvedInviteeUser(u)
  <2>1. joined # <<>>
    BY <1>0, <1>2 DEF setResolvedInviteeUser, Answering, ClaimIsKept
  <2> DEFINE todo == <<"counterparty_linked", "identities_confirmed", "financial_setup_pending">>
  <2>2. todo \in Seq(LinkStatus) /\ todo # <<>>
    BY DEF LinkStatus
  <2>3. answering' = [answering EXCEPT ![u].pc = "link", ![u].todo = todo]
    BY <1>2 DEF setResolvedInviteeUser
  <2> HIDE DEF todo
  <2>4. /\ answering' \in [Actor -> AnswerRecord] /\ answering'[u].pc = "link"
        /\ answering'[u].todo # <<>>
        /\ \A b \in Actor : b # u => answering'[b] = answering[b]
    BY <1>0, <2>2, <2>3 DEF AnswerRecord
  <2>5. InviteTypeOK' /\ invite'.status = invite.status
    BY <1>2, <2>4 DEF setResolvedInviteeUser, InviteTypeOK
  <2> QED
    BY <1>2, <2>1, <2>4, <2>5
    DEF setResolvedInviteeUser, AnswerCloses, ClaimIsKept, JoinedAccepted, IsOpen
<1>3. CASE linkCounterparty(u)
  <2> DEFINE todo == answering[u].todo
  <2>1. joined # <<>> /\ todo \in Seq(LinkStatus) /\ todo # <<>>
    BY <1>0, <1>3 DEF linkCounterparty, Answering, ClaimIsKept, AnswerRecord
  <2>2. Len(todo) # 1 => Tail(todo) \in Seq(LinkStatus) /\ Tail(todo) # <<>>
    <3> HIDE DEF todo
    <3>1. Tail(todo) \in Seq(LinkStatus) /\ Len(Tail(todo)) = Len(todo) - 1
      BY <2>1, HeadTailProperties
    <3>2. Len(todo) \in Nat \ {0}
      BY <2>1, EmptySeq
    <3> QED BY <3>1, <3>2
  <2>3. /\ answering' \in [Actor -> AnswerRecord]
        /\ answering'[u].pc \in {"idle", "link"}
        /\ answering'[u].pc = "link" => answering'[u].todo # <<>>
        /\ \A b \in Actor : b # u => answering'[b] = answering[b]
    <3>1. CASE Len(todo) = 1
      BY <1>0, <1>3, <3>1, AnswerMoves DEF linkCounterparty
    <3>2. CASE Len(todo) # 1
      <4>1. answering' = [answering EXCEPT ![u].todo = Tail(todo)]
        BY <1>3, <3>2 DEF linkCounterparty
      <4>2. answering[u].pc = "link"
        BY <1>3 DEF linkCounterparty, Answering
      <4> HIDE DEF todo
      <4> QED BY <1>0, <2>2, <3>2, <4>1, <4>2 DEF AnswerRecord
    <3> QED BY <3>1, <3>2
  <2>4. InviteTypeOK'
    BY <1>3, <2>3 DEF linkCounterparty, InviteTypeOK
  <2> QED
    BY <1>3, <2>1, <2>3, <2>4
    DEF linkCounterparty, AnswerCloses, ClaimIsKept, JoinedAccepted, IsOpen
<1> QED BY <1>1, <1>2, <1>3

\* One answer, at most one participant, and no link without one
\* (RelationshipInvitationService), for any number of users with the link.
THEOREM RelationshipAnsweredOnce == HandshakeSpec => []AnsweredOnce
<1>1. InviteInit => InviteInv
  BY InviteInitially
<1>2. InviteInv /\ [InviteNext]_inviteVars => InviteInv'
  <2> SUFFICES ASSUME InviteInv, [InviteNext]_inviteVars PROVE InviteInv'
    OBVIOUS
  <2>1. CASE InviteNext
    BY <2>1, ReadsKeepInvite, WritesByIdKeepInvite, ClaimKeepsInvite, JoinKeepsInvite
    DEF InviteNext
  <2>2. CASE UNCHANGED inviteVars
    BY <2>2 DEF inviteVars, InviteInv, InviteTypeOK, AnswerCloses, ClaimIsKept, JoinedAccepted,
                IsOpen
  <2> QED BY <2>1, <2>2
<1>3. InviteInv => AnsweredOnce
  <2> SUFFICES ASSUME InviteInv PROVE AnsweredOnce
    OBVIOUS
  <2>1. ASSUME ~reopened PROVE Cardinality(answers) <= 1
    <3>1. CASE answers = {}
      BY <3>1, FS_EmptySet
    <3>2. CASE answers # {}
      <4>1. PICK x \in answers : TRUE
        BY <3>2
      <4>2. answers = {x}
        BY <2>1, <4>1 DEF InviteInv, AnswerCloses
      <4> QED BY <4>2, FS_Singleton
    <3> QED BY <3>1, <3>2
  <2> QED BY <2>1 DEF AnsweredOnce, InviteInv, AnswerCloses, JoinedAccepted
<1> QED BY <1>1, <1>2, <1>3, PTL DEF HandshakeSpec

------------------------------------------------------------------------------
\* The agreement.

VisitRecord ==
  [op : {"none", "propose", "accept", "decline", "revoke", "resend"},
   pc : {"idle", "overdue", "bind", "write", "claim", "create", "attach"},
   recipient : Account \cup {"none"}, version : Nat]

InvitationTypeOK ==
  /\ invitation \in [status : InvitationStatus \cup {"absent"}, recipient : Account \cup {"none"},
                     version : Nat, overdue : BOOLEAN, agreement : Nat]
  /\ drafts \in Seq([party : Account \cup {"none"}, version : Nat])
  /\ visit \in [Account -> VisitRecord]

\* An agreement, made or about to be made, is the one of an acceptance, which
\* is overwritten by an expiry at most.  One request at most is about to make
\* one, and there is none yet.
DraftIsClaimed ==
  /\ drafts # <<>> => invitation.status \in {"accepted", "expired"}
  /\ Len(drafts) <= 1
  /\ \A u \in Account : visit[u].pc = "create" =>
       /\ invitation.status \in {"accepted", "expired"}
       /\ drafts = <<>>
       /\ \A v \in Account : visit[v].pc = "create" => v = u

InvitationInv == InvitationTypeOK /\ DraftIsClaimed

\* There is no invitation to begin with.
LEMMA InvitationInitially == InvitationInit => InvitationInv
<1> SUFFICES ASSUME InvitationInit PROVE InvitationInv
  OBVIOUS
<1>1. NoVisit \in VisitRecord /\ NoVisit.pc = "idle"
  BY DEF NoVisit, VisitRecord
<1>2. InvitationTypeOK
  BY <1>1 DEF InvitationInit, InvitationTypeOK
<1>3. DraftIsClaimed
  BY <1>1 DEF InvitationInit, DraftIsClaimed
<1> QED BY <1>2, <1>3 DEF InvitationInv

\* How a request goes on.
LEMMA VisitMoves ==
  ASSUME InvitationTypeOK, NEW u \in Account
  PROVE  /\ \A pc \in {"done", "create", "attach"} :
              Goes(u, pc) => /\ visit' \in [Account -> VisitRecord]
                             /\ visit'[u].pc = IF pc = "done" THEN "idle" ELSE pc
                             /\ \A v \in Account : v # u => visit'[v] = visit[v]
         /\ \A op \in {"propose", "accept", "decline"}, pc \in {"bind", "write", "claim"} :
              Enters(u, op, pc) => /\ visit' \in [Account -> VisitRecord]
                                   /\ visit'[u].pc # "create"
                                   /\ \A v \in Account : v # u => visit'[v] = visit[v]
<1> USE DEF InvitationTypeOK
<1>1. NoVisit \in VisitRecord /\ NoVisit.pc = "idle"
  BY DEF NoVisit, VisitRecord
<1>2. ASSUME NEW pc \in {"done", "create", "attach"}, Goes(u, pc)
      PROVE  /\ visit' \in [Account -> VisitRecord]
             /\ visit'[u].pc = IF pc = "done" THEN "idle" ELSE pc
             /\ \A v \in Account : v # u => visit'[v] = visit[v]
  BY <1>1, <1>2 DEF Goes, VisitRecord
<1>3. ASSUME NEW op \in {"propose", "accept", "decline"}, NEW pc \in {"bind", "write", "claim"},
             Enters(u, op, pc)
      PROVE  /\ visit' \in [Account -> VisitRecord]
             /\ visit'[u].pc # "create"
             /\ \A v \in Account : v # u => visit'[v] = visit[v]
  BY <1>3 DEF Enters, VisitRecord
<1> QED BY <1>2, <1>3

\* A step that makes no draft and leaves its request elsewhere than before
\* making one, whose write closes an invitation that was open, marks it
\* expired, or changes nothing of its status.
LEMMA InvitationStep ==
  ASSUME InvitationInv, InvitationTypeOK', UNCHANGED drafts,
         \A v \in Account : visit'[v].pc = "create" => visit[v].pc = "create",
         \/ invitation'.status \in {"expired", invitation.status}
         \/ invitation.status \in OpenStatus \cup {"absent"}
  PROVE  InvitationInv'
BY DEF InvitationInv, DraftIsClaimed, OpenStatus

\* Every request and the job keep it.
LEMMA RequestKeepsInvitation ==
  ASSUME InvitationInv, NEW u \in Account,
         \/ createInvitation(u) \/ proposeTerms(u) \/ acceptPlan(u) \/ declinePublic(u)
         \/ revokeInvitation(u) \/ resendInvitation(u) \/ RefusesOverdue(u) \/ LeavesInvitation(u)
  PROVE  InvitationInv'
<1> USE DEF InvitationInv
<1> DEFINE InvitationRow == [status : InvitationStatus \cup {"absent"},
                             recipient : Account \cup {"none"},
                             version : Nat, overdue : BOOLEAN, agreement : Nat]
           Kept == \A v \in Account : visit'[v].pc = "create" => visit[v].pc = "create"
<1>0. invitation \in InvitationRow /\ visit \in [Account -> VisitRecord]
  BY DEF InvitationTypeOK
<1>1. CASE createInvitation(u)
  <2>1. PICK r \in Account \cup {"none"} :
          invitation' = [invitation EXCEPT !.status = "pending", !.version = 1, !.recipient = r]
    BY <1>1, InvitationAssumption DEF createInvitation
  <2>2. invitation' \in InvitationRow
    BY <1>0, <2>1 DEF InvitationStatus, OpenStatus
  <2>3. InvitationTypeOK'
    BY <1>1, <2>2 DEF createInvitation, InvitationTypeOK
  <2> QED BY <1>1, <2>3, InvitationStep DEF createInvitation
<1>2. ASSUME NEW op \in {"propose", "accept", "decline"}, NEW pc \in {"bind", "write", "claim"},
             Enters(u, op, pc)
      PROVE  InvitationInv'
  <2>1. visit' \in [Account -> VisitRecord] /\ Kept
    BY <1>2, VisitMoves
  <2>2. InvitationTypeOK'
    BY <1>2, <2>1 DEF Enters, InvitationTypeOK
  <2> QED BY <1>2, <2>1, <2>2, InvitationStep DEF Enters
<1>3. ASSUME NEW pc \in {"write", "claim"}, bindRecipient(u, pc), UNCHANGED drafts
      PROVE  InvitationInv'
  <2>1. CASE MayBind(u)
    <3>1. invitation' \in InvitationRow /\ invitation'.status = invitation.status
      BY <1>0, <1>3, <2>1 DEF bindRecipient
    <3>2. /\ visit' = [visit EXCEPT ![u].pc = pc, ![u].recipient = u,
                                    ![u].version = invitation.version]
          /\ invitation.version \in Nat
      BY <1>0, <1>3, <2>1 DEF bindRecipient
    <3>3. visit' \in [Account -> VisitRecord] /\ Kept
      <4> DEFINE row == [visit[u] EXCEPT !.pc = pc, !.recipient = u, !.version = invitation.version]
      <4>1. row \in VisitRecord /\ row.pc = pc
        BY <1>0, <3>2 DEF VisitRecord
      <4>2. visit' = [visit EXCEPT ![u] = row]
        BY <3>2
      <4> HIDE DEF row
      <4> QED BY <1>0, <4>1, <4>2
    <3>4. InvitationTypeOK'
      BY <1>3, <3>1, <3>3 DEF InvitationTypeOK
    <3> QED BY <1>3, <3>1, <3>3, <3>4, InvitationStep
  <2>2. CASE ~MayBind(u)
    <3>1. visit' \in [Account -> VisitRecord] /\ Kept /\ UNCHANGED invitation
      BY <1>3, <2>2, VisitMoves DEF bindRecipient
    <3>2. InvitationTypeOK'
      BY <1>3, <3>1 DEF InvitationTypeOK
    <3> QED BY <1>3, <3>1, <3>2, InvitationStep
  <2> QED BY <2>1, <2>2
<1>4. ASSUME Goes(u, "done"), UNCHANGED drafts, invitation' \in InvitationRow,
             \/ invitation'.status \in {"expired", invitation.status}
             \/ invitation.status \in OpenStatus
      PROVE  InvitationInv'
  <2>1. visit' \in [Account -> VisitRecord] /\ Kept
    BY <1>4, VisitMoves
  <2>2. InvitationTypeOK'
    BY <1>4, <2>1 DEF InvitationTypeOK
  <2> QED BY <1>4, <2>1, <2>2, InvitationStep
<1>5. ASSUME NEW op \in {"revoke", "resend"},
             visit' = [visit EXCEPT ![u] = [NoVisit EXCEPT !.op = op, !.pc = "write"]],
             UNCHANGED <<invitation, drafts>>
      PROVE  InvitationInv'
  <2>1. visit' \in [Account -> VisitRecord] /\ Kept
    BY <1>0, <1>5 DEF NoVisit, VisitRecord
  <2>2. InvitationTypeOK'
    BY <1>5, <2>1 DEF InvitationTypeOK
  <2> QED BY <1>5, <2>1, <2>2, InvitationStep
<1>6. CASE proposeTerms(u)
  <2>1. CASE Is(u, "propose", "write") /\ proposeTerms(u) /\ Goes(u, "done")
             /\ invitation' = [invitation EXCEPT !.version = visit[u].version + 1]
    <3>1. visit[u].version \in Nat
      BY <1>0 DEF VisitRecord
    <3>2. invitation' \in InvitationRow /\ invitation'.status = invitation.status
      BY <1>0, <2>1, <3>1
    <3>3. UNCHANGED drafts
      BY <2>1 DEF proposeTerms, Enters
    <3> QED BY <1>4, <2>1, <3>2, <3>3
  <2> QED BY <1>2, <1>3, <1>6, <2>1 DEF proposeTerms
<1>7. CASE acceptPlan(u)
  <2>1. CASE Is(u, "accept", "claim")
    <3>1. CASE StillOpen
      <4>1. /\ visit' \in [Account -> VisitRecord] /\ visit'[u].pc = "create"
            /\ \A v \in Account : v # u => visit'[v] = visit[v]
        BY <1>7, <2>1, <3>1, VisitMoves DEF acceptPlan, Is, Enters, NoVisit
      <4>2. /\ invitation' \in InvitationRow /\ invitation'.status = "accepted"
            /\ UNCHANGED drafts
        BY <1>0, <1>7, <2>1, <3>1 DEF acceptPlan, Is, Enters, NoVisit, InvitationStatus
      <4>3. drafts = <<>> /\ \A v \in Account : visit[v].pc # "create"
        BY <3>1 DEF DraftIsClaimed, StillOpen, OpenStatus
      <4>4. InvitationTypeOK'
        BY <4>1, <4>2 DEF InvitationTypeOK
      <4>5. DraftIsClaimed'
        BY <4>1, <4>2, <4>3 DEF DraftIsClaimed
      <4> QED BY <4>4, <4>5
    <3>2. CASE ~StillOpen
      BY <1>0, <1>4, <1>7, <2>1, <3>2 DEF acceptPlan, Is, Enters, NoVisit
    <3> QED BY <3>1, <3>2
  <2>2. CASE Is(u, "accept", "create")
    <3>1. /\ visit' \in [Account -> VisitRecord] /\ visit'[u].pc = "attach"
          /\ \A v \in Account : v # u => visit'[v] = visit[v]
      BY <1>7, <2>2, VisitMoves DEF acceptPlan, Is, Enters, NoVisit
    <3> DEFINE draft == [party |-> visit[u].recipient, version |-> visit[u].version]
    <3>2. drafts' = Append(drafts, draft) /\ UNCHANGED invitation
      BY <1>7, <2>2 DEF acceptPlan, Is, Enters, NoVisit
    <3>3. draft \in [party : Account \cup {"none"}, version : Nat]
      BY <1>0 DEF VisitRecord
    <3>4. /\ drafts = <<>> /\ invitation.status \in {"accepted", "expired"}
          /\ \A v \in Account : visit[v].pc = "create" => v = u
      BY <2>2 DEF DraftIsClaimed, Is
    <3>5. /\ drafts' \in Seq([party : Account \cup {"none"}, version : Nat])
          /\ Len(drafts') <= 1
      <4> HIDE DEF draft
      <4>1. drafts \in Seq([party : Account \cup {"none"}, version : Nat]) /\ Len(drafts) = 0
        BY <3>4 DEF InvitationTypeOK
      <4> QED BY <3>2, <3>3, <4>1, AppendProperties
    <3>6. InvitationTypeOK'
      BY <3>1, <3>2, <3>5 DEF InvitationTypeOK
    <3>7. DraftIsClaimed'
      BY <3>1, <3>2, <3>4, <3>5 DEF DraftIsClaimed
    <3> QED BY <3>6, <3>7
  <2>3. CASE Is(u, "accept", "attach")
    <3>1. Goes(u, "done") /\ UNCHANGED drafts
          /\ invitation' = [invitation EXCEPT !.agreement = Len(drafts)]
      BY <1>7, <2>3 DEF acceptPlan, Is, Enters, NoVisit
    <3>2. Len(drafts) \in Nat
      BY DEF InvitationTypeOK
    <3>3. invitation' \in InvitationRow /\ invitation'.status = invitation.status
      BY <1>0, <3>1, <3>2
    <3> QED BY <1>4, <3>1, <3>3
  <2> QED BY <1>2, <1>3, <1>7, <2>1, <2>2, <2>3 DEF acceptPlan
<1>8. ASSUME NEW op \in {"decline", "revoke"}, NEW status \in {"declined", "revoked"},
             Closes(u, op, status)
      PROVE  InvitationInv'
  BY <1>0, <1>4, <1>8 DEF Closes, StillOpen, InvitationStatus
<1>9. CASE declinePublic(u)
  BY <1>2, <1>8, <1>9 DEF declinePublic
<1>10. CASE revokeInvitation(u)
  BY <1>5, <1>8, <1>10 DEF revokeInvitation
<1>11. CASE resendInvitation(u)
  <2>1. CASE Is(u, "resend", "write")
    <3>1. /\ invitation' = [invitation EXCEPT !.overdue = FALSE]
          /\ Goes(u, "done") /\ UNCHANGED drafts
      BY <1>11, <2>1 DEF resendInvitation, Is, NoVisit
    <3>2. invitation' \in InvitationRow /\ invitation'.status = invitation.status
      BY <1>0, <3>1
    <3> QED BY <1>4, <3>1, <3>2
  <2> QED BY <1>5, <1>11, <2>1 DEF resendInvitation
<1>12. CASE RefusesOverdue(u)
  BY <1>0, <1>4, <1>12 DEF RefusesOverdue, markExpired, InvitationStatus
<1>13. CASE LeavesInvitation(u)
  BY <1>0, <1>4, <1>13 DEF LeavesInvitation
<1> QED BY <1>1, <1>6, <1>7, <1>9, <1>10, <1>11, <1>12, <1>13

\* One invitation makes one agreement at most (AgreementInvitationService),
\* however many accounts accept it at once, with or without a recipient.
THEOREM InvitationMakesOneAgreement == InvitationSpec => []OneAgreementPerInvitation
<1>1. InvitationInit => InvitationInv
  BY InvitationInitially
<1>2. InvitationInv /\ [InvitationNext]_invitationVars => InvitationInv'
  <2> SUFFICES ASSUME InvitationInv, [InvitationNext]_invitationVars PROVE InvitationInv'
    OBVIOUS
  <2>0. invitation \in [status : InvitationStatus \cup {"absent"}, recipient : Account \cup {"none"},
                        version : Nat, overdue : BOOLEAN, agreement : Nat]
    BY DEF InvitationInv, InvitationTypeOK
  <2>1. CASE resolvePublic
    <3>1. InvitationTypeOK'
      BY <2>0, <2>1 DEF resolvePublic, InvitationInv, InvitationTypeOK, InvitationStatus, OpenStatus
    <3> QED BY <2>1, <3>1, InvitationStep DEF resolvePublic, OpenStatus
  <2>2. CASE expireDueInvitations
    <3>1. InvitationTypeOK' /\ invitation'.status \in {"expired", invitation.status}
      BY <2>0, <2>2 DEF expireDueInvitations, markExpired, InvitationInv, InvitationTypeOK,
                        InvitationStatus
    <3> QED BY <2>2, <3>1, InvitationStep DEF expireDueInvitations
  <2>3. CASE InvitationDateComes
    <3>1. InvitationTypeOK' /\ invitation'.status = invitation.status
      BY <2>0, <2>3 DEF InvitationDateComes, InvitationInv, InvitationTypeOK
    <3> QED BY <2>3, <3>1, InvitationStep DEF InvitationDateComes
  <2>4. CASE UNCHANGED invitationVars
    BY <2>4 DEF invitationVars, InvitationInv, InvitationTypeOK, DraftIsClaimed
  <2> QED BY <2>1, <2>2, <2>3, <2>4, RequestKeepsInvitation DEF InvitationNext
<1>3. InvitationInv => OneAgreementPerInvitation
  BY DEF InvitationInv, DraftIsClaimed, OneAgreementPerInvitation
<1> QED BY <1>1, <1>2, <1>3, PTL DEF InvitationSpec


------------------------------------------------------------------------------
\* The schedule: dates.

Date == {d \in Nat \X Nat \X Nat : IsDate(d)}

\* A nonempty set of numbers has a least one: an induction is written as a
\* smallest counterexample.
LEMMA LeastNumber ==
  ASSUME NEW B \in SUBSET Nat, B # {}
  PROVE  \E m \in B : \A k \in B : m <= k
<1> DEFINE Less == {ss \in Nat \X Nat : ss[1] < ss[2]}
<1>1. IsWellFoundedOn(Less, Nat)
  BY NatLessThanWellFounded DEF OpToRel
<1> HIDE DEF Less
<1>2. PICK m \in B : \A k \in B : ~(<<k, m>> \in Less)
  BY <1>1, WFMin
<1>3. \A k \in B : ~(k < m)
  BY <1>2 DEF Less
<1> QED
  BY <1>3

\* The number of the last day before a month.
Before(y, m) ==
  LET z == IF m > 2 THEN y ELSE y - 1
      n == IF m > 2 THEN m - 3 ELSE m + 9
  IN 365 * z + (z \div 4) - (z \div 100) + (z \div 400) + ((153 * n + 2) \div 5)

\* A month is as long as its days, a leap year's February included.
LEMMA MonthsFollow ==
  ASSUME NEW y \in Nat, NEW m \in 1..12
  PROVE  /\ Before(y, m) \in Int
         /\ m < 12 => Before(y, m + 1) = Before(y, m) + DaysInMonth(y, m)
         /\ Before(y + 1, 1) = Before(y, 12) + 31
<1>1. Before(y, m) \in Int
  BY DEF Before
<1>2. Before(y + 1, 1) = Before(y, 12) + 31
  BY DEF Before
<1>3. ASSUME m < 12 PROVE Before(y, m + 1) = Before(y, m) + DaysInMonth(y, m)
  <2>1. CASE m = 2
    <3>1. /\ (y \div 4) - ((y - 1) \div 4) = IF y % 4 = 0 THEN 1 ELSE 0
          /\ (y \div 100) - ((y - 1) \div 100) = IF y % 100 = 0 THEN 1 ELSE 0
          /\ (y \div 400) - ((y - 1) \div 400) = IF y % 400 = 0 THEN 1 ELSE 0
      OBVIOUS
    <3>2. y % 400 = 0 => y % 100 = 0
      OBVIOUS
    <3>3. y % 100 = 0 => y % 4 = 0
      OBVIOUS
    <3>4. Before(y, 3) = 365 * y + (y \div 4) - (y \div 100) + (y \div 400) + 0
      BY DEF Before
    <3>5. Before(y, 2) = 365 * (y - 1) + ((y - 1) \div 4) - ((y - 1) \div 100)
                           + ((y - 1) \div 400) + 337
      BY DEF Before
    <3>6. DaysInMonth(y, 2) = IF (y % 4 = 0 /\ y % 100 # 0) \/ y % 400 = 0 THEN 29 ELSE 28
      BY DEF DaysInMonth, IsLeap
    <3> QED
      BY <2>1, <3>1, <3>2, <3>3, <3>4, <3>5, <3>6
  <2>2. CASE m = 1
    BY <2>2 DEF Before, DaysInMonth
  <2>3. CASE m \in {3, 4, 5, 6, 7, 8, 9, 10, 11}
    BY <2>3 DEF Before, DaysInMonth
  <2> QED
    BY <1>3, <2>1, <2>2, <2>3
<1> QED
  BY <1>1, <1>2, <1>3

LEMMA DayNumberIs ==
  ASSUME NEW y \in Nat, NEW m \in 1..12, NEW k \in Nat
  PROVE  DayNumber(<<y, m, k>>) = Before(y, m) + k
BY DEF DayNumber, Before

\* The day after a date is a date, one day later.
LEMMA NextDayFollows ==
  ASSUME NEW d \in Date
  PROVE  /\ NextDay(d) \in Date
         /\ DayNumber(NextDay(d)) = DayNumber(d) + 1
         /\ isPastDate(d, NextDay(d))
<1> DEFINE y == d[1]
           m == d[2]
           k == d[3]
<1>1. y \in Nat /\ m \in 1..12 /\ k \in 1..DaysInMonth(y, m) /\ d = <<y, m, k>>
  BY DEF Date, IsDate
<1> HIDE DEF y, m, k
<1>2. \A x \in Nat, z \in 1..12 : DaysInMonth(x, z) \in {28, 29, 30, 31}
  BY DEF DaysInMonth
<1>3. k \in Nat \ {0} /\ Before(y, m) \in Int /\ DayNumber(d) = Before(y, m) + k
  <2>1. k \in Nat \ {0}
    BY <1>1, <1>2
  <2> QED
    BY <1>1, <2>1, DayNumberIs, MonthsFollow
<1>4. CASE k < DaysInMonth(y, m)
  <2>1. NextDay(d) = <<y, m, k + 1>>
    BY <1>1, <1>4 DEF NextDay
  <2>2. NextDay(d) \in Date
    BY <1>1, <1>2, <1>3, <1>4, <2>1 DEF Date, IsDate
  <2>3. DayNumber(NextDay(d)) = DayNumber(d) + 1
    <3>1. DayNumber(<<y, m, k + 1>>) = Before(y, m) + (k + 1)
      BY <1>1, <1>3, DayNumberIs
    <3> QED
      BY <1>3, <2>1, <3>1
  <2> QED
    BY <1>1, <1>3, <2>1, <2>2, <2>3 DEF isPastDate
<1>5. CASE k = DaysInMonth(y, m) /\ m < 12
  <2>1. NextDay(d) = <<y, m + 1, 1>>
    BY <1>1, <1>3, <1>5 DEF NextDay
  <2>2. m + 1 \in 1..12
    BY <1>1, <1>5
  <2>3. 1 \in 1..DaysInMonth(y, m + 1)
    BY <1>1, <1>2, <2>2
  <2>4. NextDay(d) \in Date
    BY <1>1, <2>1, <2>2, <2>3 DEF Date, IsDate
  <2>5. DayNumber(NextDay(d)) = DayNumber(d) + 1
    <3>1. DayNumber(<<y, m + 1, 1>>) = Before(y, m + 1) + 1
      BY <1>1, <2>2, DayNumberIs
    <3>2. Before(y, m + 1) = Before(y, m) + k
      BY <1>1, <1>5, MonthsFollow
    <3> QED
      BY <1>3, <2>1, <3>1, <3>2
  <2> QED
    BY <1>1, <2>1, <2>4, <2>5 DEF isPastDate
<1>6. CASE k = DaysInMonth(y, m) /\ m = 12
  <2>1. NextDay(d) = <<y + 1, 1, 1>>
    BY <1>1, <1>3, <1>6 DEF NextDay
  <2>2. NextDay(d) \in Date
    BY <1>1, <2>1 DEF Date, IsDate, DaysInMonth
  <2>3. DayNumber(NextDay(d)) = DayNumber(d) + 1
    <3>1. DaysInMonth(y, 12) = 31
      BY DEF DaysInMonth
    <3> QED
      BY <1>1, <1>3, <1>6, <2>1, <3>1, DayNumberIs, MonthsFollow
  <2> QED
    BY <1>1, <2>1, <2>2, <2>3 DEF isPastDate
<1> QED
  BY <1>1, <1>2, <1>3, <1>4, <1>5, <1>6

\* f lists d and the days after it.
ListsDays(f, d, n) == f = [i \in 0..n |-> IF i = 0 THEN d ELSE NextDay(f[i - 1])]

LEMMA DayListed ==
  ASSUME NEW f, NEW d, NEW n \in Nat, ListsDays(f, d, n), NEW i \in 0..n
  PROVE  f[i] = IF i = 0 THEN d ELSE NextDay(f[i - 1])
<1> DEFINE F == [j \in 0..n |-> IF j = 0 THEN d ELSE NextDay(f[j - 1])]
<1>1. f = F
  BY DEF ListsDays
<1>2. F[i] = IF i = 0 THEN d ELSE NextDay(f[i - 1])
  OBVIOUS
<1> HIDE DEF F
<1> QED
  BY <1>1, <1>2

\* Two lists agree where both are defined.
LEMMA ListsAgree ==
  ASSUME NEW d, NEW m \in Nat, NEW n \in Nat, m <= n, NEW f, NEW g,
         ListsDays(f, d, m), ListsDays(g, d, n), NEW i \in 0..m
  PROVE  f[i] = g[i]
<1> DEFINE B == {j \in 0..m : f[j] # g[j]}
<1>1. SUFFICES ASSUME B # {} PROVE FALSE
  OBVIOUS
<1>2. PICK j \in B : \A k \in B : j <= k
  <2>1. B \in SUBSET Nat
    OBVIOUS
  <2> HIDE DEF B
  <2> QED
    BY <1>1, <2>1, LeastNumber
<1>3. f[0] = d /\ g[0] = d
  BY DayListed
<1>4. j \in 1..m /\ j \in 1..n /\ j - 1 \in 0..m /\ j - 1 \notin B
  BY <1>2, <1>3
<1>5. f[j] = NextDay(f[j - 1]) /\ g[j] = NextDay(g[j - 1])
  BY <1>4, DayListed
<1> QED
  BY <1>2, <1>4, <1>5

LEMMA ListExists ==
  ASSUME NEW d, NEW n \in Nat
  PROVE  \E f : ListsDays(f, d, n)
<1> DEFINE Good(m) == \E f : ListsDays(f, d, m)
           B == {m \in Nat : ~Good(m)}
<1>1. SUFFICES ASSUME B # {} PROVE FALSE
  OBVIOUS
<1>2. PICK m \in B : \A k \in B : m <= k
  <2>1. B \in SUBSET Nat
    OBVIOUS
  <2> HIDE DEF B
  <2> QED
    BY <1>1, <2>1, LeastNumber
<1>3. CASE m = 0
  <2> DEFINE f == [i \in 0..0 |-> d]
  <2>1. f = [i \in 0..0 |-> IF i = 0 THEN d ELSE NextDay(f[i - 1])]
    OBVIOUS
  <2> HIDE DEF f
  <2>2. ListsDays(f, d, 0)
    BY <2>1 DEF ListsDays
  <2> QED
    BY <1>2, <1>3, <2>2
<1>4. CASE m # 0
  <2>1. m - 1 \in Nat /\ m - 1 \notin B
    BY <1>2, <1>4
  <2>2. PICK f : ListsDays(f, d, m - 1)
    BY <2>1
  <2> DEFINE g == [i \in 0..m |-> IF i = m THEN NextDay(f[m - 1]) ELSE f[i]]
  <2>3. \A i \in 0..(m - 1) : f[i] = IF i = 0 THEN d ELSE NextDay(f[i - 1])
    BY <2>1, <2>2, DayListed
  <2>4. \A i \in 0..m : g[i] = IF i = 0 THEN d ELSE NextDay(g[i - 1])
    <3> SUFFICES ASSUME NEW i \in 0..m PROVE g[i] = IF i = 0 THEN d ELSE NextDay(g[i - 1])
      OBVIOUS
    <3>1. i # 0 => i - 1 \in 0..m /\ i - 1 # m /\ g[i - 1] = f[i - 1]
      BY <1>2
    <3>2. CASE i = m
      BY <1>4, <3>1, <3>2
    <3>3. CASE i # m
      BY <1>2, <2>3, <3>1, <3>3
    <3> QED
      BY <3>2, <3>3
  <2>5. g = [i \in 0..m |-> IF i = 0 THEN d ELSE NextDay(g[i - 1])]
    BY <2>4
  <2> HIDE DEF g
  <2>6. ListsDays(g, d, m)
    BY <2>5 DEF ListsDays
  <2> QED
    BY <1>2, <2>6
<1> QED
  BY <1>3, <1>4

\* So the recursion of DaysLater lists the days.
LEMMA DaysLaterListed ==
  ASSUME NEW d, NEW n \in Nat
  PROVE  \E f : ListsDays(f, d, n) /\ DaysLater(d, n) = f[n]
<1> DEFINE day == CHOOSE f : f = [i \in 0..n |-> IF i = 0 THEN d ELSE NextDay(f[i - 1])]
<1>1. DaysLater(d, n) = day[n]
  BY DEF DaysLater
<1>2. \E f : f = [i \in 0..n |-> IF i = 0 THEN d ELSE NextDay(f[i - 1])]
  BY ListExists DEF ListsDays
<1>3. day = [i \in 0..n |-> IF i = 0 THEN d ELSE NextDay(day[i - 1])]
  BY <1>2, Zenon
<1> HIDE DEF day
<1>4. ListsDays(day, d, n)
  BY <1>3 DEF ListsDays
<1> QED
  BY <1>1, <1>4

\* What it lists are the dates that follow, one day after the other.
LEMMA ListedDates ==
  ASSUME NEW d \in Date, NEW n \in Nat, NEW f, ListsDays(f, d, n), NEW i \in 0..n
  PROVE  /\ f[i] \in Date /\ DayNumber(f[i]) = DayNumber(d) + i
         /\ \A j \in 0..n : j < i => isPastDate(f[j], f[i])
<1> DEFINE Good(k) == /\ f[k] \in Date /\ DayNumber(f[k]) = DayNumber(d) + k
                      /\ \A j \in 0..n : j < k => isPastDate(f[j], f[k])
           B == {k \in 0..n : ~Good(k)}
<1>1. SUFFICES ASSUME B # {} PROVE FALSE
  OBVIOUS
<1>2. PICK k \in B : \A l \in B : k <= l
  <2>1. B \in SUBSET Nat
    OBVIOUS
  <2> HIDE DEF B
  <2> QED
    BY <1>1, <2>1, LeastNumber
<1>3. DayNumber(d) \in Int
  BY DEF DayNumber, Date
<1>4. CASE k = 0
  <2>1. f[0] = d
    BY DayListed
  <2>2. Good(0)
    BY <1>3, <2>1
  <2> QED
    BY <1>2, <1>4, <2>2
<1>5. CASE k # 0
  <2>1. k - 1 \in 0..n /\ k - 1 \notin B /\ k \in 0..n
    BY <1>2, <1>5
  <2>2. Good(k - 1)
    BY <2>1
  <2>3. f[k] = NextDay(f[k - 1])
    BY <1>5, <2>1, DayListed
  <2>4. /\ f[k] \in Date /\ DayNumber(f[k]) = DayNumber(f[k - 1]) + 1
        /\ isPastDate(f[k - 1], f[k])
    BY <2>2, <2>3, NextDayFollows
  <2>5. DayNumber(f[k]) = DayNumber(d) + k
    BY <1>3, <2>1, <2>2, <2>4
  <2>6. ASSUME NEW j \in 0..n, j < k PROVE isPastDate(f[j], f[k])
    <3>1. CASE j = k - 1
      BY <2>4, <3>1
    <3>2. CASE j # k - 1
      <4>1. j < k - 1
        BY <2>1, <2>6, <3>2
      <4>2. isPastDate(f[j], f[k - 1])
        BY <2>2, <4>1
      <4>3. f[j] \in Date
        BY <1>2, <2>1, <2>6
      <4> QED
        BY <2>2, <2>4, <4>2, <4>3 DEF isPastDate, Date
    <3> QED
      BY <3>1, <3>2
  <2> QED
    BY <1>2, <2>1, <2>4, <2>5, <2>6
<1> QED
  BY <1>4, <1>5

LEMMA DaysLaterFollow ==
  ASSUME NEW d \in Date, NEW m \in Nat, NEW n \in Nat
  PROVE  /\ DaysLater(d, n) \in Date /\ DayNumber(DaysLater(d, n)) = DayNumber(d) + n
         /\ m < n => isPastDate(DaysLater(d, m), DaysLater(d, n))
<1>1. PICK f : ListsDays(f, d, n) /\ DaysLater(d, n) = f[n]
  BY DaysLaterListed
<1>2. PICK g : ListsDays(g, d, m) /\ DaysLater(d, m) = g[m]
  BY DaysLaterListed
<1>3. f[n] \in Date /\ DayNumber(f[n]) = DayNumber(d) + n
  BY <1>1, ListedDates
<1>4. ASSUME m < n PROVE isPastDate(g[m], f[n])
  <2>1. g[m] = f[m]
    BY <1>1, <1>2, <1>4, ListsAgree
  <2>2. isPastDate(f[m], f[n])
    BY <1>1, <1>4, ListedDates
  <2> QED
    BY <2>1, <2>2
<1> QED
  BY <1>1, <1>2, <1>3, <1>4

\* From a first date on, the due dates are dates, each after the one before it
\* (addFrequencyInterval); a week's or a fortnight's keep their distance, a
\* month's have one in every month, on the day or on the last of the month.
LEMMA DueDates ==
  ASSUME NEW d \in Date, NEW frequency \in Frequency, NEW n \in Nat
  PROVE  LET due == addFrequencyInterval(d, frequency, n + 1)
             last == addFrequencyInterval(d, frequency, n)
         IN /\ IsDate(due) /\ isPastDate(last, due)
            /\ IF frequency = "monthly"
                 THEN /\ 12 * due[1] + due[2] = 12 * d[1] + d[2] + n + 1
                      /\ due[3] # d[3] => due[3] < d[3] /\ NextDay(due)[3] = 1
                 ELSE DayNumber(due) - DayNumber(last) =
                        (IF frequency = "weekly" THEN 7 ELSE 14)
<1>1. CASE frequency # "monthly"
  <2> DEFINE step == IF frequency = "weekly" THEN 7 ELSE 14
  <2>1. step \in {7, 14}
    OBVIOUS
  <2>2. /\ addFrequencyInterval(d, frequency, n + 1) = DaysLater(d, step * (n + 1))
        /\ addFrequencyInterval(d, frequency, n) = DaysLater(d, step * n)
    BY <1>1 DEF addFrequencyInterval
  <2> HIDE DEF step
  <2>3. /\ step * (n + 1) \in Nat /\ step * n \in Nat /\ step * n < step * (n + 1)
        /\ step * (n + 1) - step * n = step
    BY <2>1
  <2>4. /\ DaysLater(d, step * (n + 1)) \in Date
        /\ DayNumber(DaysLater(d, step * (n + 1))) = DayNumber(d) + step * (n + 1)
        /\ DayNumber(DaysLater(d, step * n)) = DayNumber(d) + step * n
        /\ isPastDate(DaysLater(d, step * n), DaysLater(d, step * (n + 1)))
    BY <2>3, DaysLaterFollow
  <2>5. DayNumber(d) \in Int
    BY DEF DayNumber, Date
  <2>6. DayNumber(DaysLater(d, step * (n + 1))) - DayNumber(DaysLater(d, step * n)) = step
    BY <2>3, <2>4, <2>5
  <2> QED
    BY <1>1, <2>2, <2>4, <2>6 DEF Date, step
<1>2. CASE frequency = "monthly"
  <2> DEFINE y(k) == d[1] + ((d[2] - 1 + k) \div 12)
             m(k) == ((d[2] - 1 + k) % 12) + 1
             day(k) == IF d[3] < DaysInMonth(y(k), m(k)) THEN d[3] ELSE DaysInMonth(y(k), m(k))
  <2>1. d[1] \in Nat /\ d[2] \in 1..12 /\ d[3] \in 1..DaysInMonth(d[1], d[2])
    BY DEF Date, IsDate
  <2>2. \A k \in Nat : /\ y(k) \in Nat /\ m(k) \in 1..12
                       /\ 12 * y(k) + m(k) = 12 * d[1] + d[2] + k
    <3> SUFFICES ASSUME NEW k \in Nat
                 PROVE  /\ y(k) \in Nat /\ m(k) \in 1..12
                        /\ 12 * y(k) + m(k) = 12 * d[1] + d[2] + k
      OBVIOUS
    <3> DEFINE index == d[2] - 1 + k
               q == index \div 12
               r == index % 12
    <3>1. index \in Nat
      BY <2>1
    <3>2. y(k) = d[1] + q /\ m(k) = r + 1
      OBVIOUS
    <3>3. index = d[2] - 1 + k
      OBVIOUS
    <3> HIDE DEF index, y, m
    <3>4. q \in Nat /\ r \in 0..11 /\ 12 * q + r = index
      BY <3>1
    <3>5. d[1] \in Nat /\ d[2] \in Nat
      BY <2>1
    <3> HIDE DEF q, r
    <3> DEFINE a == d[1]
               b == d[2]
    <3>6. a \in Nat /\ b \in Nat /\ y(k) = a + q /\ 12 * q + r = b - 1 + k
      BY <3>2, <3>3, <3>4, <3>5
    <3> HIDE DEF a, b
    <3>7. y(k) \in Nat
      BY <3>4, <3>6
    <3>8. m(k) \in 1..12
      BY <3>2, <3>4
    <3>9. 12 * y(k) + m(k) = 12 * a + b + k
      BY <3>2, <3>4, <3>6
    <3> QED
      BY <3>7, <3>8, <3>9 DEF a, b
  <2>3. \A x \in Nat, z \in 1..12 : DaysInMonth(x, z) \in {28, 29, 30, 31}
    BY DEF DaysInMonth
  <2>4. d[3] \in Nat \ {0}
    BY <2>1, <2>3
  <2>5. \A k \in Nat : addFrequencyInterval(d, frequency, k) = <<y(k), m(k), day(k)>>
    BY <1>2 DEF addFrequencyInterval
  <2>6. \A k \in Nat : DaysInMonth(y(k), m(k)) \in {28, 29, 30, 31}
    BY <2>2, <2>3
  <2>7. \A k \in Nat : day(k) \in 1..DaysInMonth(y(k), m(k))
    BY <2>4, <2>6
  <2>8. \A k \in Nat : day(k) # d[3] => day(k) < d[3] /\ day(k) = DaysInMonth(y(k), m(k))
    BY <2>4, <2>6
  <2> HIDE DEF y, m, day
  <2> DEFINE Y == y(n + 1)
             M == m(n + 1)
             D == day(n + 1)
  <2>9. Y \in Nat /\ M \in 1..12 /\ D \in 1..DaysInMonth(Y, M)
        /\ 12 * Y + M = 12 * d[1] + d[2] + n + 1
    <3>1. n + 1 \in Nat
      OBVIOUS
    <3>2. Y \in Nat /\ M \in 1..12 /\ 12 * Y + M = 12 * d[1] + d[2] + (n + 1)
      BY <2>2, <3>1
    <3>3. D \in 1..DaysInMonth(Y, M)
      BY <2>7, <3>1
    <3>4. 12 * d[1] + d[2] + (n + 1) = 12 * d[1] + d[2] + n + 1
      BY <2>1
    <3> QED
      BY <3>2, <3>3, <3>4
  <2>10. 12 * Y + M = 12 * y(n) + m(n) + 1 /\ y(n) \in Nat /\ m(n) \in 1..12
    BY <2>2, <2>9
  <2>11. D # d[3] => D < d[3] /\ D = DaysInMonth(Y, M)
    BY <2>8
  <2>12. /\ addFrequencyInterval(d, frequency, n + 1) = <<Y, M, D>>
         /\ addFrequencyInterval(d, frequency, n) = <<y(n), m(n), day(n)>>
    BY <2>5
  <2> HIDE DEF Y, M, D
  <2>13. IsDate(<<Y, M, D>>)
    BY <2>9 DEF IsDate
  <2>14. isPastDate(<<y(n), m(n), day(n)>>, <<Y, M, D>>)
    <3>1. y(n) < Y \/ (y(n) = Y /\ m(n) < M)
      BY <2>9, <2>10
    <3> QED
      BY <3>1 DEF isPastDate
  <2>15. D # d[3] => D < d[3] /\ NextDay(<<Y, M, D>>)[3] = 1
    <3> SUFFICES ASSUME D # d[3] PROVE NextDay(<<Y, M, D>>)[3] = 1
      BY <2>11
    <3>1. D = DaysInMonth(Y, M) /\ DaysInMonth(Y, M) \in Nat
      BY <2>3, <2>9, <2>11
    <3>2. CASE M < 12
      BY <2>9, <3>1, <3>2 DEF NextDay
    <3>3. CASE M = 12
      BY <2>9, <3>1, <3>3 DEF NextDay
    <3> QED
      BY <2>9, <3>2, <3>3
  <2> QED
    BY <1>2, <2>9, <2>12, <2>13, <2>14, <2>15
<1> QED
  BY <1>1, <1>2

------------------------------------------------------------------------------
\* The schedule: amounts.

\* f adds up the amounts.
AddsUp(f, items) ==
  f = [n \in 0..Len(items) |-> IF n = 0 THEN 0 ELSE f[n - 1] + items[n].amount]

LEMMA AddedUp ==
  ASSUME NEW f, NEW items, Len(items) \in Nat, AddsUp(f, items), NEW i \in 0..Len(items)
  PROVE  f[i] = IF i = 0 THEN 0 ELSE f[i - 1] + items[i].amount
<1> DEFINE F == [n \in 0..Len(items) |-> IF n = 0 THEN 0 ELSE f[n - 1] + items[n].amount]
<1>1. f = F
  BY DEF AddsUp
<1>2. F[i] = IF i = 0 THEN 0 ELSE f[i - 1] + items[i].amount
  OBVIOUS
<1> HIDE DEF F
<1> QED
  BY <1>1, <1>2

\* There is one way to add them up: whoever shows one has the total.
LEMMA TotalIs ==
  ASSUME NEW items, Len(items) \in Nat, NEW g, AddsUp(g, items)
  PROVE  Total(items) = g[Len(items)]
<1> DEFINE sum == CHOOSE f : f = [n \in 0..Len(items) |->
                                    IF n = 0 THEN 0 ELSE f[n - 1] + items[n].amount]
<1>1. Total(items) = sum[Len(items)]
  BY DEF Total
<1>2. g = [n \in 0..Len(items) |-> IF n = 0 THEN 0 ELSE g[n - 1] + items[n].amount]
  BY DEF AddsUp
<1>3. \E f : f = [n \in 0..Len(items) |-> IF n = 0 THEN 0 ELSE f[n - 1] + items[n].amount]
  BY <1>2, Zenon
<1>4. sum = [n \in 0..Len(items) |-> IF n = 0 THEN 0 ELSE sum[n - 1] + items[n].amount]
  BY <1>3, Zenon
<1> HIDE DEF sum
<1>5. AddsUp(sum, items)
  BY <1>4 DEF AddsUp
<1> DEFINE B == {i \in 0..Len(items) : sum[i] # g[i]}
<1>6. SUFFICES ASSUME B # {} PROVE FALSE
  BY <1>1
<1>7. PICK i \in B : \A k \in B : i <= k
  <2>1. B \in SUBSET Nat
    OBVIOUS
  <2> HIDE DEF B
  <2> QED
    BY <1>6, <2>1, LeastNumber
<1>8. sum[0] = 0 /\ g[0] = 0
  BY <1>5, AddedUp
<1>9. i \in 1..Len(items) /\ i - 1 \in 0..Len(items) /\ i - 1 \notin B
  BY <1>7, <1>8
<1>10. sum[i] = sum[i - 1] + items[i].amount /\ g[i] = g[i - 1] + items[i].amount
  BY <1>5, <1>9, AddedUp
<1> QED
  BY <1>7, <1>9, <1>10

\* As many installments as it takes, and a last one of what is left over.
LEMMA NumberIsEnough ==
  ASSUME NEW input \in ValidTerms
  PROVE  LET k == numberOfInstallments(input) IN
         /\ k \in Nat
         /\ k = 0 => input.first = input.principal /\ finalPayment(input) = input.first
         /\ k # 0 => /\ finalPayment(input) \in 1..input.installment
                     /\ input.first + input.installment * (k - 1) + finalPayment(input)
                          = input.principal
<1> DEFINE rest == input.principal - input.first
           k == numberOfInstallments(input)
           size == input.installment
<1>1. /\ input.principal \in Nat /\ input.first \in Nat /\ size \in Nat
      /\ input.first <= input.principal /\ rest \in Nat
      /\ rest # 0 => size # 0
  BY ScheduleAssumption DEF ValidTerms
<1>2. CASE rest = 0
  BY <1>1, <1>2 DEF numberOfInstallments, finalPayment
<1>3. CASE rest # 0
  <2>1. k = (rest + size - 1) \div size
    BY <1>3 DEF numberOfInstallments
  <2>2. finalPayment(input) = rest - size * (k - 1)
    BY <1>1, <1>3 DEF finalPayment
  <2>3. rest \in Nat \ {0} /\ size \in Nat \ {0}
    BY <1>1, <1>3
  <2> HIDE DEF k, rest, size
  <2>4. k \in Nat \ {0} /\ size * (k - 1) < rest /\ rest <= size * k
    BY <2>1, <2>3
  <2>5. size * k = size * (k - 1) + size /\ size * (k - 1) \in Int
    BY <2>3, <2>4
  <2>6. finalPayment(input) \in 1..size
    BY <2>2, <2>3, <2>4, <2>5
  <2>7. input.first + size * (k - 1) + finalPayment(input) = input.principal
    BY <1>1, <2>2, <2>3, <2>5 DEF rest
  <2> QED
    BY <2>4, <2>6, <2>7 DEF k, size
<1> QED
  BY <1>2, <1>3

\* The items of a schedule, and what they add up to.
LEMMA ItemsOfTerms ==
  ASSUME NEW input \in ValidTerms
  PROVE  LET items == computeSchedule(input)
             k == numberOfInstallments(input)
         IN /\ Len(items) = k + 1 /\ k \in Nat
            /\ \A n \in 1..(k + 1) :
                 /\ items[n].due = addFrequencyInterval(input.date, input.frequency, n - 1)
                 /\ items[n].amount = IF n = 1 THEN input.first
                                      ELSE IF n = k + 1 THEN finalPayment(input)
                                      ELSE input.installment
            /\ Total(items) = input.principal
<1> DEFINE items == computeSchedule(input)
           k == numberOfInstallments(input)
           size == input.installment
           Item(n) == [due |-> addFrequencyInterval(input.date, input.frequency, n - 1),
                       amount |-> IF n = 1 THEN input.first
                                  ELSE IF n = k + 1 THEN finalPayment(input)
                                  ELSE size]
<1>1. /\ k \in Nat /\ input.first \in Nat /\ size \in Nat /\ input.principal \in Nat
      /\ k = 0 => input.first = input.principal
      /\ k # 0 => /\ finalPayment(input) \in 1..size
                  /\ input.first + size * (k - 1) + finalPayment(input) = input.principal
  BY NumberIsEnough, ScheduleAssumption DEF ValidTerms
<1>2. items = [n \in 1..(k + 1) |-> Item(n)]
  <2> DEFINE amount(n) == CASE n = 0 -> input.first
                            [] n # 0 /\ n = k -> finalPayment(input)
                            [] n # 0 /\ n # k -> size
  <2>1. items = [n \in 1..(k + 1) |->
                   [due |-> addFrequencyInterval(input.date, input.frequency, n - 1),
                    amount |-> amount(n - 1)]]
    BY DEF computeSchedule
  <2>2. ASSUME NEW n \in 1..(k + 1) PROVE amount(n - 1) = Item(n).amount
    <3>1. n \in Int /\ (n - 1 = 0 <=> n = 1) /\ (n - 1 = k <=> n = k + 1)
      BY <1>1
    <3> QED
      BY <3>1
  <2> HIDE DEF amount
  <2> QED
    BY <2>1, <2>2
<1> HIDE DEF items, k
<1>3. Len(items) = k + 1 /\ Len(items) \in Nat
  <2>1. items \in [1..(k + 1) -> Range(items)] /\ k + 1 \in Nat
    BY <1>1, <1>2 DEF Range
  <2>2. items \in Seq(Range(items))
    BY <2>1, SeqDef
  <2> QED
    BY <1>1, <1>2, <2>2, LenProperties
<1>4. \A n \in 1..(k + 1) :
        /\ items[n].due = addFrequencyInterval(input.date, input.frequency, n - 1)
        /\ items[n].amount = IF n = 1 THEN input.first
                             ELSE IF n = k + 1 THEN finalPayment(input) ELSE size
  BY <1>2
<1>5. Total(items) = input.principal
  <2> DEFINE g == [n \in 0..(k + 1) |-> IF n = 0 THEN 0
                                        ELSE IF n = k + 1 THEN input.principal
                                        ELSE input.first + size * (n - 1)]
  <2>1. ASSUME NEW n \in 0..(k + 1)
        PROVE  g[n] = IF n = 0 THEN 0 ELSE g[n - 1] + items[n].amount
    <3>1. CASE n = 0
      BY <3>1
    <3>2. CASE n = 1
      <4>1. items[1].amount = input.first /\ g[0] = 0
        <5>1. 1 \in 1..(k + 1) /\ 0 \in 0..(k + 1)
          BY <1>1
        <5>2. g[0] = 0
          BY <5>1
        <5> HIDE DEF g
        <5>3. items[1].amount = input.first
          BY <1>4, <5>1
        <5> QED
          BY <5>2, <5>3
      <4>2. g[1] = input.first
        BY <1>1
      <4> QED
        BY <1>1, <3>2, <4>1, <4>2
    <3>3. CASE n # 0 /\ n # 1 /\ n = k + 1
      <4>1. items[n].amount = finalPayment(input) /\ k # 0 /\ n - 1 = k
        BY <1>1, <1>4, <3>3
      <4>2. g[n] = input.principal
        BY <3>3
      <4>3. g[k] = input.first + size * (k - 1)
        BY <1>1, <4>1
      <4> QED
        BY <1>1, <3>3, <4>1, <4>2, <4>3
    <3>4. CASE n # 0 /\ n # 1 /\ n # k + 1
      <4>1. items[n].amount = size /\ n \in Nat
        BY <1>1, <1>4, <3>4
      <4>2. g[n] = input.first + size * (n - 1)
        BY <3>4
      <4>3. n - 1 \in 0..(k + 1) /\ n - 1 # 0 /\ n - 1 # k + 1
        BY <1>1, <3>4
      <4>4. g[n - 1] = input.first + size * (n - 1 - 1)
        BY <4>3
      <4> DEFINE p == size * (n - 1 - 1)
                 r == size * (n - 1)
                 a == input.first
      <4>5. r = p + size /\ p \in Int /\ a \in Int /\ size \in Int
        BY <1>1, <4>1
      <4>6. g[n - 1] = a + p /\ g[n] = a + r
        BY <4>2, <4>4
      <4> DEFINE x == g[n - 1]
                 z == g[n]
      <4> HIDE DEF p, r, a, g, x, z
      <4>7. x = a + p /\ z = a + r
        BY <4>6 DEF x, z
      <4>8. z = x + size
        BY <4>5, <4>7
      <4> QED
        BY <3>4, <4>1, <4>8 DEF x, z
    <3> QED
      BY <3>1, <3>2, <3>3, <3>4
  <2>2. g = [n \in 0..(k + 1) |-> IF n = 0 THEN 0 ELSE g[n - 1] + items[n].amount]
    BY <2>1
  <2>3. g[k + 1] = input.principal
    BY <1>1
  <2> HIDE DEF g
  <2>4. AddsUp(g, items)
    BY <1>3, <2>2 DEF AddsUp
  <2> QED
    BY <1>3, <2>3, <2>4, TotalIs
<1> QED
  BY <1>1, <1>3, <1>4, <1>5 DEF items, k

\* What is planned was computed from terms that were let through.
PlanInv == plan = NoPlan \/ \E input \in ValidTerms : plan = Planned(input)

LEMMA PlannedIsExact ==
  ASSUME NEW input \in ValidTerms, plan = Planned(input)
  PROVE  ScheduleIsExact
<1> DEFINE items == computeSchedule(input)
           k == numberOfInstallments(input)
           first == input.date
           frequency == input.frequency
<1>1. plan.items = items /\ plan.input = input /\ plan.final = finalPayment(input)
  BY DEF Planned
<1>2. /\ Len(items) = k + 1 /\ k \in Nat
      /\ \A n \in 1..(k + 1) :
           /\ items[n].due = addFrequencyInterval(first, frequency, n - 1)
           /\ items[n].amount = IF n = 1 THEN input.first
                                ELSE IF n = k + 1 THEN finalPayment(input)
                                ELSE input.installment
      /\ Total(items) = input.principal
  BY ItemsOfTerms
<1>3. /\ k = 0 => input.first = input.principal /\ finalPayment(input) = input.first
      /\ k # 0 => finalPayment(input) \in 1..input.installment
  BY NumberIsEnough
<1>4. first \in Date /\ frequency \in Frequency /\ input.installment \in Nat
  BY ScheduleAssumption DEF ValidTerms, Date
<1> HIDE DEF items, k, first, frequency
<1>5. items[k + 1].amount = finalPayment(input)
  <2>1. k + 1 \in 1..(k + 1) /\ (k + 1 = 1 <=> k = 0)
    BY <1>2
  <2>2. k = 0 => finalPayment(input) = input.first
    BY <1>3
  <2> QED
    BY <1>2, <2>1, <2>2
<1>6. ASSUME NEW n \in 2..(k + 1)
      PROVE  LET due == items[n].due IN
             /\ items[n].amount \in 1..input.installment
             /\ IsDate(due) /\ isPastDate(items[n - 1].due, due)
             /\ IF frequency = "monthly"
                  THEN /\ 12 * due[1] + due[2] = 12 * first[1] + first[2] + n - 1
                       /\ due[3] # first[3] => due[3] < first[3] /\ NextDay(due)[3] = 1
                  ELSE DayNumber(due) - DayNumber(items[n - 1].due) =
                         (IF frequency = "weekly" THEN 7 ELSE 14)
  <2>1. n \in 1..(k + 1) /\ n - 1 \in 1..(k + 1) /\ n - 2 \in Nat /\ n # 1 /\ k # 0
    BY <1>2, <1>6
  <2>2. input.installment # 0 /\ items[n].amount \in 1..input.installment
    <3>1. finalPayment(input) \in 1..input.installment
      BY <1>3, <2>1
    <3>2. input.installment \in 1..input.installment
      BY <1>4, <3>1
    <3> QED
      BY <1>2, <2>1, <3>1, <3>2
  <2>3. items[n].due = addFrequencyInterval(first, frequency, (n - 2) + 1)
        /\ items[n - 1].due = addFrequencyInterval(first, frequency, n - 2)
    <3>1. n - 1 = (n - 2) + 1 /\ (n - 1) - 1 = n - 2
      BY <2>1
    <3> QED
      BY <1>2, <2>1, <3>1
  <2> DEFINE due == items[n].due
             last == items[n - 1].due
  <2>4. /\ IsDate(due) /\ isPastDate(last, due)
        /\ IF frequency = "monthly"
             THEN /\ 12 * due[1] + due[2] = 12 * first[1] + first[2] + (n - 2) + 1
                  /\ due[3] # first[3] => due[3] < first[3] /\ NextDay(due)[3] = 1
             ELSE DayNumber(due) - DayNumber(last) = (IF frequency = "weekly" THEN 7 ELSE 14)
    BY <1>4, <2>1, <2>3, DueDates
  <2>5. 12 * first[1] + first[2] + (n - 2) + 1 = 12 * first[1] + first[2] + n - 1
    BY <1>4, <2>1 DEF Date
  <2> HIDE DEF due, last
  <2>6. IF frequency = "monthly"
          THEN /\ 12 * due[1] + due[2] = 12 * first[1] + first[2] + n - 1
               /\ due[3] # first[3] => due[3] < first[3] /\ NextDay(due)[3] = 1
          ELSE DayNumber(due) - DayNumber(last) = (IF frequency = "weekly" THEN 7 ELSE 14)
    BY <2>4, <2>5
  <2> QED
    BY <2>2, <2>4, <2>6 DEF due, last
<1>7. Len(plan.items) = k + 1 /\ Total(plan.items) = plan.input.principal
  BY <1>1, <1>2
<1>8. plan.items[Len(plan.items)].amount = plan.final
  BY <1>1, <1>5, <1>7
<1>9. \A n \in 2..Len(plan.items) :
        LET due == plan.items[n].due IN
        /\ plan.items[n].amount \in 1..plan.input.installment
        /\ IsDate(due) /\ isPastDate(plan.items[n - 1].due, due)
        /\ IF plan.input.frequency = "monthly"
             THEN /\ 12 * due[1] + due[2] = 12 * plan.input.date[1] + plan.input.date[2] + n - 1
                  /\ due[3] # plan.input.date[3] =>
                       due[3] < plan.input.date[3] /\ NextDay(due)[3] = 1
             ELSE DayNumber(due) - DayNumber(plan.items[n - 1].due) =
                    (IF plan.input.frequency = "weekly" THEN 7 ELSE 14)
  BY <1>1, <1>6, <1>7 DEF first, frequency
<1> QED
  BY <1>7, <1>8, <1>9 DEF ScheduleIsExact

\* For all terms and every first date the schedule comes out to the unit and
\* each due date where it belongs, over short months and leap years
\* (computeSchedule, addFrequencyInterval).
THEOREM SchedulesAreExact == ScheduleSpec => []ScheduleIsExact
<1>1. ScheduleInit => PlanInv
  BY DEF ScheduleInit, PlanInv
<1>2. PlanInv /\ [ScheduleNext]_plan => PlanInv'
  <2> SUFFICES ASSUME PlanInv, [ScheduleNext]_plan PROVE PlanInv'
    OBVIOUS
  <2>1. CASE buildTerms
    BY <2>1 DEF buildTerms, PlanInv
  <2>2. CASE reviseSchedule
    <3>1. PICK input \in ValidTerms : plan = Planned(input)
      BY <2>2 DEF reviseSchedule, PlanInv
    <3>2. PICK date \in FirstDates : plan' = Planned([plan.input EXCEPT !.date = date])
      BY <2>2 DEF reviseSchedule
    <3>3. [input EXCEPT !.date = date] \in ValidTerms
      BY <3>1 DEF ValidTerms
    <3>4. plan' = Planned([input EXCEPT !.date = date])
      BY <3>1, <3>2 DEF Planned
    <3> QED
      BY <3>3, <3>4 DEF PlanInv
  <2>3. CASE UNCHANGED plan
    BY <2>3 DEF PlanInv
  <2> QED
    BY <2>1, <2>2, <2>3 DEF ScheduleNext
<1>3. PlanInv => ScheduleIsExact
  <2>1. plan = NoPlan => ScheduleIsExact
    BY DEF ScheduleIsExact
  <2> QED
    BY <2>1, PlannedIsExact DEF PlanInv
<1> QED
  BY <1>1, <1>2, <1>3, PTL DEF ScheduleSpec
==============================================================================
