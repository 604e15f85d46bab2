------------------------------ MODULE Agreement ------------------------------
(***************************************************************************)
(* The agreement with its amendments and its settlements.  The services    *)
(* share the agreement row and its versions, and take no notice of each    *)
(* other but for the foreign keys that keep an agreement from being        *)
(* deleted.                                                                *)
(***************************************************************************)
EXTENDS Amendment, Settlement

agreementVars == <<vars, amendmentVars, settlementVars>>

AgreementInit == Init /\ AmendmentInit /\ SettlementInit

NegotiationStep ==
  Next /\ KeepsAmended /\ KeepsProposed /\ UNCHANGED <<amendmentVars, settlementVars>>

AmendmentStep  == AmendmentNext  /\ UNCHANGED settlementVars
SettlementStep == SettlementNext /\ UNCHANGED amendmentVars

AgreementNext == NegotiationStep \/ AmendmentStep \/ SettlementStep

AgreementSpec == AgreementInit /\ [][AgreementNext]_agreementVars

------------------------------------------------------------------------------
\* Properties.

\* Every row keeps its type: what carries both signatures is locked, an amendment
\* in effect was signed by both parties and has made a version, a payment counts
\* towards a settlement that was accepted.
TypesOK == TypeOK /\ AmendmentTypeOK /\ SettlementTypeOK
==============================================================================
