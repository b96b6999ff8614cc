------------------------- MODULE MCChannelProtocol -------------------------
EXTENDS ChannelProtocol
=============================================================================
