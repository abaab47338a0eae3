------------------------------ MODULE MCPlugins ------------------------------
EXTENDS Plugins

MCSlots == 1..2
=============================================================================
