---------------------------- MODULE SignedDocument ---------------------------
(***************************************************************************)
(* The executed PDF of each signed version and the evidence the parties    *)
(* upload: a file in private storage and a row with its hash, written one  *)
(* after the other.  The request that collects the last signature makes    *)
(* the PDF, so does the one that applies an amendment, and whoever asks    *)
(* for a document that is missing makes it then.  They may all do so at    *)
(* once, and any of them may fail halfway.                                 *)
(*                                                                         *)
(* Every rendering is stamped with an id and a time of its own, so it is   *)
(* named by the request that made it.                                      *)
(***************************************************************************)
EXTENDS Naturals

CONSTANTS
  Handler,       \* requests
  Signer,        \* the one that brings the last signature
  EvidenceFile,  \* files offered as evidence; content and name make the path
  MaxExecuted    \* bound on versions in force, one after the other

NoFile == "no file"

ASSUME DocumentAssumption ==
  MaxExecuted \in Nat \ {0} /\ Signer \in Handler /\ NoFile \notin Handler \cup EvidenceFile

VARIABLES
  executed,  \* the current version: all up to it are signed by both
  files,     \* private storage, by path: a version's document, or evidence
  records,   \* the hash in agreement_pdf or evidence, by path
  jobs       \* what each request is doing

docVars == <<executed, files, records, jobs>>

Path == (1..MaxExecuted) \cup EvidenceFile

\* asked: the version the request looks up; path: where it will store.
NoJob == [pc |-> "idle", asked |-> 1, path |-> 1]

\* The last signature is committed, and the request that brought it goes on.
DocumentInit ==
  /\ executed = 1
  /\ files = [p \in Path |-> NoFile]
  /\ records = [p \in Path |-> NoFile]
  /\ jobs = [h \in Handler |-> IF h = Signer THEN [NoJob EXCEPT !.pc = "refresh"] ELSE NoJob]

------------------------------------------------------------------------------
JobIsAt(h, pc) == jobs[h].pc = pc
JobGoes(h, pc) == jobs' = [jobs EXCEPT ![h].pc = pc]
JobEnds(h)     == jobs' = [jobs EXCEPT ![h] = NoJob]
JobTakes(h, pc, path) == jobs' = [jobs EXCEPT ![h] = [pc |-> pc, asked |-> path, path |-> path]]

\* What the document and the evidence hold: evidence is what its path says.
Content(h) == IF jobs[h].path \in EvidenceFile THEN jobs[h].path ELSE h

\* sign, after the last signature: it prints what the agreement is by now ...
refreshAgreement(h) ==
  /\ JobIsAt(h, "refresh")
  /\ jobs' = [jobs EXCEPT ![h].pc = "find", ![h].path = executed]
  /\ UNCHANGED <<executed, files, records>>

\* ... unless the version it signed has its document.
findByVersion(h) ==
  /\ JobIsAt(h, "find")
  /\ IF records[jobs[h].asked] # NoFile THEN JobEnds(h) ELSE JobGoes(h, "upload")
  /\ UNCHANGED <<executed, files, records>>

\* AmendmentService: a new version is in force, and its document is due.
amendmentApplied(h) ==
  /\ JobIsAt(h, "idle") /\ executed < MaxExecuted
  /\ executed' = executed + 1
  /\ JobTakes(h, "ensure", executed + 1)
  /\ UNCHANGED <<files, records>>

\* Serves the document of the current version, or goes on to make it.
getSignedPdfUrl(h) ==
  /\ JobIsAt(h, "idle") /\ records[executed] = NoFile
  /\ JobTakes(h, "ensure", executed)
  /\ UNCHANGED <<executed, files, records>>

ensurePdfForVersion(h) ==
  /\ JobIsAt(h, "ensure")
  /\ IF records[jobs[h].path] # NoFile \/ executed # jobs[h].path THEN JobEnds(h) ELSE JobGoes(h, "upload")
  /\ UNCHANGED <<executed, files, records>>

uploadEvidence(h) ==
  /\ JobIsAt(h, "idle")
  /\ \E e \in EvidenceFile : JobTakes(h, "upload", e)
  /\ UNCHANGED <<executed, files, records>>

\* Mutant: the upload may replace a file.
Overwrites(h) ==
  files' = [files EXCEPT ![jobs[h].path] = Content(h)] /\ JobGoes(h, "insert")

\* Never over a file that is there (upsert: false): the request fails.
uploadPrivate(h) ==
  IF files[jobs[h].path] # NoFile THEN JobEnds(h) /\ UNCHANGED files
  ELSE files' = [files EXCEPT ![jobs[h].path] = Content(h)] /\ JobGoes(h, "insert")

buildAndStore(h) ==
  /\ JobIsAt(h, "upload") /\ uploadPrivate(h)
  /\ UNCHANGED <<executed, records>>

\* One row for a version; for evidence the path has seen to it.
insertRecord(h) ==
  /\ JobIsAt(h, "insert")
  /\ records' = IF records[jobs[h].path] # NoFile THEN records
                ELSE [records EXCEPT ![jobs[h].path] = Content(h)]
  /\ JobEnds(h)
  /\ UNCHANGED <<executed, files>>

\* A statement or the storage fails, or the process dies.
failJob(h) ==
  /\ ~JobIsAt(h, "idle") /\ JobEnds(h)
  /\ UNCHANGED <<executed, files, records>>

DocumentNext ==
  \E h \in Handler :
    \/ refreshAgreement(h) \/ findByVersion(h) \/ amendmentApplied(h)
    \/ getSignedPdfUrl(h) \/ ensurePdfForVersion(h) \/ uploadEvidence(h)
    \/ buildAndStore(h) \/ insertRecord(h) \/ failJob(h)

DocumentSpec == DocumentInit /\ [][DocumentNext]_docVars

------------------------------------------------------------------------------
\* Properties.

\* Once a document is recorded, the row stays and what is stored is what its
\* hash was taken of, however many requests make it at the same time.
KeepsDocuments ==
  \A p \in Path : records[p] # NoFile => records'[p] = records[p] /\ files'[p] = records[p]

\* signatureService.ts of a failed generation: "the very next view/download
\* attempt regenerates the missing PDF on the spot".  A file that is there
\* refuses the upload, so a document nobody is working on may be missing only
\* together with its file.
MissingIsRecoverable ==
  \A v \in 1..executed :
    records[v] = NoFile /\ (\A h \in Handler : JobIsAt(h, "idle")) => files[v] = NoFile
==============================================================================
