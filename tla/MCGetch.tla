------------------------------ MODULE MCGetch ------------------------------
EXTENDS Getch
=============================================================================
