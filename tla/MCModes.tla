------------------------------ MODULE MCModes ------------------------------
\* Instances of Modes for TLC: the values are in the .cfg files.
EXTENDS Modes

CONSTANTS console, observer, libconsole

\* The observer comes first, so that what it logs is dispatched before root's
\* StreamHandler has its turn.
OnRoot == <<observer, console>>
OnLib  == <<libconsole>>
=============================================================================
