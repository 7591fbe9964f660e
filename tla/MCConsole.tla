----------------------------- MODULE MCConsole -------------------------------
EXTENDS Console

CONSTANTS x, nl, eof

Keys == {x, nl, eof}
=============================================================================
