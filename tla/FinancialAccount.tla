--------------------------- MODULE FinancialAccount --------------------------
(***************************************************************************)
(* RelationshipFinancialAccountService and the part of RelationshipService *)
(* that decides over it: the accounts of the two parties, the account each *)
(* has assigned to the relationship's funding and payout slots, and the    *)
(* agreements that govern the relationship one after the other.            *)
(*                                                                         *)
(* A party is named by the role it took when the relationship was made.    *)
(* Every statement is a step of its own, but for replaceAssignment-        *)
(* Atomically, which is one transaction under an advisory lock.  Mandates, *)
(* cards, notifications and risk signals follow an assignment and are left *)
(* out.                                                                    *)
(***************************************************************************)
EXTENDS Naturals, Sequences, FiniteSets

CONSTANTS
  Member,       \* users of the two parties
  PartyOf,      \* the party each acts for
  BankAccount,  \* financial accounts, each with a provider's token of its own
  OwnerOf,      \* the party each belongs to
  Deal,         \* agreements between the two that may be linked
  CreditorIn,   \* the creditor of each
  Connected,    \* accounts verified before the first step
  MaxRows       \* bound on assignment rows

NoDeal == "no agreement"
Party  == {"creditor", "debtor"}
Usage  == {"funding", "payout"}

ASSUME AccountAssumption ==
  /\ PartyOf \in [Member -> Party] /\ OwnerOf \in [BankAccount -> Party]
  /\ CreditorIn \in [Deal -> Party] /\ NoDeal \notin Deal
  /\ MaxRows \in Nat

VARIABLES
  bank,        \* the accounts' statuses
  slots,       \* relationship_financial_account, in the order of insertion
  deals,       \* how far each agreement is: free, linked or over
  governing,   \* current_agreement_id
  connection,  \* the relationship's status
  acts         \* what each member's request is doing

accountVars == <<bank, slots, deals, governing, connection, acts>>

\* account and usage: what the request is about; over: the row it found
\* active, 0 for none; deal: the agreement it links.
NoAct == [op |-> "none", pc |-> "idle", account |-> CHOOSE a \in BankAccount : TRUE,
          usage |-> "funding", over |-> 0, deal |-> NoDeal]

AccountInit ==
  /\ bank = [a \in BankAccount |-> IF a \in Connected THEN "verified" ELSE "none"]
  /\ slots = <<>>
  /\ deals = [g \in Deal |-> "free"]
  /\ governing = NoDeal
  /\ connection = "financial_setup_pending"
  /\ acts = [m \in Member |-> NoAct]

------------------------------------------------------------------------------
Acting(m, pc) == acts[m].pc = pc
Act(m, act)   == acts' = [acts EXCEPT ![m] = act]
Proceeds(m, pc) == acts' = [acts EXCEPT ![m].pc = pc]
ActEnds(m)   == acts' = [acts EXCEPT ![m] = NoAct]

\* The role a party plays now: as in the agreement that governs, if there is one.
resolveEffectiveRole(party) ==
  IF governing = NoDeal THEN party
  ELSE IF CreditorIn[governing] = party THEN "creditor" ELSE "debtor"

usageForRole(role) == IF role = "debtor" THEN "funding" ELSE "payout"

\* The party that may manage a slot.
Manages(party, usage) == usageForRole(resolveEffectiveRole(party)) = usage

\* findActiveAssignment, as a row number, 0 for none.
findActiveAssignment(usage) ==
  LET active == {i \in DOMAIN slots : slots[i].usage = usage /\ slots[i].status = "active"} IN
  IF active = {} THEN 0 ELSE CHOOSE i \in active : TRUE

SlotIsReady(usage) ==
  LET i == findActiveAssignment(usage) IN i # 0 /\ bank[slots[i].account] = "verified"

Row(m, over) ==
  [usage |-> acts[m].usage, party |-> PartyOf[m], account |-> acts[m].account,
   status |-> "active", next |-> 0, over |-> over]

------------------------------------------------------------------------------
\* The accounts.

\* connectBankAccount: the provider tokenizes, addAccount inserts.
addAccount(m) ==
  /\ Acting(m, "idle")
  /\ \E a \in BankAccount :
       /\ OwnerOf[a] = PartyOf[m] /\ bank[a] = "none"
       /\ bank' = [bank EXCEPT ![a] = "pending_verification"]
       /\ Act(m, [NoAct EXCEPT !.op = "connect", !.pc = "result", !.account = a])
  /\ UNCHANGED <<slots, deals, governing, connection>>

applyVerificationResult(m) ==
  /\ Acting(m, "result")
  /\ IF bank[acts[m].account] = "pending_verification" THEN Proceeds(m, "mark") ELSE ActEnds(m)
  /\ UNCHANGED <<bank, slots, deals, governing, connection>>

\* By id, whatever became of the account since.
markVerified(m) ==
  /\ Acting(m, "mark")
  /\ \E outcome \in {"verified", "failed"} : bank' = [bank EXCEPT ![acts[m].account] = outcome]
  /\ ActEnds(m)
  /\ UNCHANGED <<slots, deals, governing, connection>>

disableAccount(m) ==
  /\ Acting(m, "idle")
  /\ \E a \in BankAccount :
       /\ OwnerOf[a] = PartyOf[m] /\ bank[a] \notin {"none", "disabled"}
       /\ Act(m, [NoAct EXCEPT !.op = "disable", !.pc = "inUse", !.account = a])
  /\ UNCHANGED <<bank, slots, deals, governing, connection>>

listActiveAssignmentsForAccount(m) ==
  /\ Acting(m, "inUse")
  /\ IF \E i \in DOMAIN slots : slots[i].account = acts[m].account /\ slots[i].status = "active"
       THEN ActEnds(m) ELSE Proceeds(m, "disable")
  /\ UNCHANGED <<bank, slots, deals, governing, connection>>

markDisabled(m) ==
  /\ Acting(m, "disable")
  /\ bank' = [bank EXCEPT ![acts[m].account] = "disabled"]
  /\ ActEnds(m)
  /\ UNCHANGED <<slots, deals, governing, connection>>

------------------------------------------------------------------------------
\* The slots.

\* What assignAccount and replaceAccount check before they look at the slot.
startAssignment(m) ==
  /\ Acting(m, "idle") /\ connection \notin {"closed", "cancelled"}
  /\ \E op \in {"assign", "replace"}, a \in BankAccount, usage \in Usage :
       /\ Manages(PartyOf[m], usage)
       /\ OwnerOf[a] = PartyOf[m] /\ bank[a] = "verified"
       /\ Act(m, [NoAct EXCEPT !.op = op, !.pc = "look", !.account = a, !.usage = usage])
  /\ UNCHANGED <<bank, slots, deals, governing, connection>>

assignAccount(m) ==
  /\ Acting(m, "look") /\ acts[m].op = "assign"
  /\ IF findActiveAssignment(acts[m].usage) = 0 THEN Proceeds(m, "insert") ELSE ActEnds(m)
  /\ UNCHANGED <<bank, slots, deals, governing, connection>>

\* The partial unique index on the active row of a slot refuses a second one.
insertAssignment(m) ==
  /\ Acting(m, "insert")
  /\ IF findActiveAssignment(acts[m].usage) # 0 THEN ActEnds(m) /\ UNCHANGED slots
     ELSE /\ Len(slots) < MaxRows
          /\ slots' = Append(slots, Row(m, 0))
          /\ Proceeds(m, "sync")
  /\ UNCHANGED <<bank, deals, governing, connection>>

\* Only what one's own side assigned may be replaced, and not by itself.
replaceAccount(m) ==
  LET existing == findActiveAssignment(acts[m].usage) IN
  /\ Acting(m, "look") /\ acts[m].op = "replace"
  /\ IF existing # 0 /\ (slots[existing].party # PartyOf[m] \/ slots[existing].account = acts[m].account)
       THEN ActEnds(m)
       ELSE Act(m, [acts[m] EXCEPT !.pc = "replace", !.over = existing])
  /\ UNCHANGED <<bank, slots, deals, governing, connection>>

\* Mutant: whatever is active by now is replaced.
AnyRow(m) == TRUE

\* The slot is still as the request found it.
IsAsExpected(m) == findActiveAssignment(acts[m].usage) = acts[m].over

replaceAssignmentAtomically(m) ==
  LET current == findActiveAssignment(acts[m].usage)
      new     == Len(slots) + 1 IN
  /\ Acting(m, "replace")
  /\ IF ~IsAsExpected(m) THEN ActEnds(m) /\ UNCHANGED slots
     ELSE /\ new <= MaxRows
          /\ slots' = Append([i \in DOMAIN slots |->
                IF i = current THEN [slots[i] EXCEPT !.status = "superseded", !.next = new] ELSE slots[i]],
              Row(m, acts[m].over))
          /\ Proceeds(m, "sync")
  /\ UNCHANGED <<bank, deals, governing, connection>>

syncFromFinancialAccounts(m) ==
  /\ Acting(m, "sync")
  /\ IF connection = "financial_setup_pending" /\ SlotIsReady("funding") /\ SlotIsReady("payout")
       THEN Proceeds(m, "ready") ELSE ActEnds(m)
  /\ UNCHANGED <<bank, slots, deals, governing, connection>>

markReady(m) ==
  /\ Acting(m, "ready")
  /\ connection' = "financial_accounts_ready"
  /\ ActEnds(m)
  /\ UNCHANGED <<bank, slots, deals, governing>>

------------------------------------------------------------------------------
\* The relationship.

\* Another agreement that is not over may govern too, unless its roles are
\* the other way round.
linkAgreement(m) ==
  /\ Acting(m, "idle")
  /\ \E g \in Deal :
       /\ deals[g] = "free"
       /\ \A h \in Deal : deals[h] = "linked" => CreditorIn[h] = CreditorIn[g]
       /\ Act(m, [NoAct EXCEPT !.op = "link", !.pc = "govern", !.deal = g])
  /\ UNCHANGED <<bank, slots, deals, governing, connection>>

setCurrentAgreementId(m) ==
  /\ Acting(m, "govern")
  /\ governing' = acts[m].deal
  /\ Proceeds(m, "linkRow")
  /\ UNCHANGED <<bank, slots, deals, connection>>

linkRelationship(m) ==
  /\ Acting(m, "linkRow")
  /\ deals' = [deals EXCEPT ![acts[m].deal] = "linked"]
  /\ Proceeds(m, "pending")
  /\ UNCHANGED <<bank, slots, governing, connection>>

markAgreementPending(m) ==
  /\ Acting(m, "pending")
  /\ connection' = "agreement_pending"
  /\ ActEnds(m)
  /\ UNCHANGED <<bank, slots, deals, governing>>

\* A linked agreement is paid, settled, canceled or closed.
endAgreement ==
  /\ \E g \in Deal : deals[g] = "linked" /\ deals' = [deals EXCEPT ![g] = "over"]
  /\ UNCHANGED <<bank, slots, governing, connection, acts>>

\* checkActivationPrerequisites.  That the agreement is signed and the mandate
\* or card in place is taken as given.
activate(m) ==
  /\ Acting(m, "idle") /\ connection \notin {"active", "closed"}
  /\ governing # NoDeal /\ SlotIsReady("funding") /\ SlotIsReady("payout")
  /\ Act(m, [NoAct EXCEPT !.op = "activate", !.pc = "activate"])
  /\ UNCHANGED <<bank, slots, deals, governing, connection>>

markActivated(m) ==
  /\ Acting(m, "activate")
  /\ connection' = "active"
  /\ ActEnds(m)
  /\ UNCHANGED <<bank, slots, deals, governing>>

\* Either side may close, whatever else is under way.
close(m) ==
  /\ Acting(m, "idle") /\ connection # "closed"
  /\ connection' = "closed"
  /\ UNCHANGED <<bank, slots, deals, governing, acts>>

\* A statement fails or the process dies.
abandonAct(m) ==
  /\ ~Acting(m, "idle") /\ ActEnds(m)
  /\ UNCHANGED <<bank, slots, deals, governing, connection>>

AccountNext ==
  \/ \E m \in Member :
       \/ addAccount(m) \/ applyVerificationResult(m) \/ markVerified(m)
       \/ disableAccount(m) \/ listActiveAssignmentsForAccount(m) \/ markDisabled(m)
       \/ startAssignment(m) \/ assignAccount(m) \/ insertAssignment(m)
       \/ replaceAccount(m) \/ replaceAssignmentAtomically(m)
       \/ syncFromFinancialAccounts(m) \/ markReady(m)
       \/ linkAgreement(m) \/ setCurrentAgreementId(m) \/ linkRelationship(m)
       \/ markAgreementPending(m) \/ activate(m) \/ markActivated(m) \/ close(m)
       \/ abandonAct(m)
  \/ endAgreement

AccountSpec == AccountInit /\ [][AccountNext]_accountVars

------------------------------------------------------------------------------
\* Properties.

\* The history of a slot is one line: each row took the place of the one its
\* request had seen there, so nobody's choice is replaced unseen, and only the
\* last is active.
SlotHistoryIsOneLine ==
  \A i \in DOMAIN slots :
    LET later   == {j \in DOMAIN slots : j > i /\ slots[j].usage = slots[i].usage}
        earlier == {j \in 1..(i - 1) : slots[j].usage = slots[i].usage} IN
    /\ slots[i].status = "active" <=> later = {}
    /\ later # {} => slots[i].next \in later /\ slots[slots[i].next].over = i
    /\ slots[i].over = 0 <=> earlier = {}

\* relationshipService.ts, of an agreement with reversed roles: "The debtor
\* must set up their own funding account for this agreement".  So whoever
\* manages a slot by its role may fill it: it is empty, or its account is its
\* own to replace.  Nobody else may ever empty it.
ManagerMayFill ==
  \A party \in Party, usage \in Usage :
    LET i == findActiveAssignment(usage) IN
    Manages(party, usage) => i = 0 \/ slots[i].party = party
==============================================================================
