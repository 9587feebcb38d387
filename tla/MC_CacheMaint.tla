---------------------------- MODULE MC_CacheMaint ----------------------------
EXTENDS CacheMaint

\* One line of two bytes: a range that starts or ends inside the line
\* leaves the line's other byte outside it.
MC_LineSize == 2
MC_NLines == 1
MC_Vals == {0, 1}

=============================================================================
