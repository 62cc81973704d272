------------------------ MODULE MCObservedConnector ------------------------
EXTENDS ObservedConnector
=============================================================================
