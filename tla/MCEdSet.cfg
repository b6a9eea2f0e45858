CONSTANTS
  Path = {p1, p2, p3}
  Num = {n60}
  NULL = NULL
  Stdin = Stdin
  Eof = Eof
  MaxArgs = 4
SPECIFICATION Spec
\* ed-set exits after one invocation.
CHECK_DEADLOCK FALSE
INVARIANT DocumentedUsage
