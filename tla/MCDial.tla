------------------------------- MODULE MCDial -------------------------------
EXTENDS Dial

CONSTANTS temperature, fan

TwoPages == <<temperature, fan>>
=============================================================================
