---------------------------- MODULE MCMacroStore ----------------------------
EXTENDS MacroStore
=============================================================================
