-------------------------- MODULE MCIncomingPublish --------------------------
EXTENDS IncomingPublish
=============================================================================
