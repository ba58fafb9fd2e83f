-------------------------- MODULE MCCrossValidation --------------------------
\* The campaign's geometry with lines of two bytes.
EXTENDS CrossValidation, MCReferenceCache

MCBaseTxn == FullWrite(0, FALSE)
MCOffsetTxn == FullWrite(4 * LineBytes, FALSE)
MCCampaignTxns == {MCBaseTxn, MCOffsetTxn}
=============================================================================
