----------------------------- MODULE MCTerminal -----------------------------
(* Instances of Terminal: what is typed.                                    *)
EXTENDS Terminal

CONSTANTS s, c

\* Editing, a telnet subnegotiation and an option, interrupts, end of file, and
\* more than the queue, the line and the ring hold.
SomeScripts ==
  { <<"x", "bs", "y", "cr", "nul">>,
    <<"x", "space", "y", "word", "cr">>,
    <<"iac", "sb", "iac", "se", "x", "cr">>,
    <<"iac", "will", "x", "iac", "iac", "cr">>,
    <<"x", "kill", "intr", "eof">> }
=============================================================================
