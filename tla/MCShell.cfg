\* See MCShell.tla for the lines.  Of two lines the second finds what the first has left.
CONSTANTS
    NUM = 7
    Lines <- MCLines
    MaxLines = 2
SPECIFICATION Spec
INVARIANTS TypeOK
PROPERTIES AsWritten ReadyAgain
CHECK_DEADLOCK FALSE
