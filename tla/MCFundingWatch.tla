--------------------------- MODULE MCFundingWatch ---------------------------
EXTENDS FundingWatch
=============================================================================
