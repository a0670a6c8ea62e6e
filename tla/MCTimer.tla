------------------------------ MODULE MCTimer ------------------------------
\* Timer and ProcStat for TLC.
EXTENDS ProcStat

\* One page, and one page more than the word of getRSS can count in bytes.
MCPages == {1, 5}
============================================================================
