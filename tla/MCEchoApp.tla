----------------------------- MODULE MCEchoApp ------------------------------
EXTENDS EchoApp
Eol == <<0>>
=============================================================================
