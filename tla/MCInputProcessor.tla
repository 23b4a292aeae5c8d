-------------------------- MODULE MCInputProcessor --------------------------
EXTENDS InputProcessor

CONSTANTS left, right
=============================================================================
