----------------------------- MODULE MCSendPath -----------------------------
EXTENDS SendPath
=============================================================================
