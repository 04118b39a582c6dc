---------------------------- MODULE MCInterrupt ----------------------------
EXTENDS Interrupt

CONSTANT h1, h2

\* Three outputs: the second name needs a larger buffer, the third reuses it.
MCNameLen == <<3, 9, 5>>
=============================================================================
