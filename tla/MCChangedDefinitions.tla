------------------------ MODULE MCChangedDefinitions ------------------------
EXTENDS ChangedDefinitions
=============================================================================
