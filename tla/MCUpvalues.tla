----------------------------- MODULE MCUpvalues -----------------------------
(* Upvalues for TLC: a few frames, closures and values.                     *)
EXTENDS Upvalues

\* What the program can still read.  A slot above the top frame is written by
\* Frame before it is read, and no open upvalue points there (OpenInLiveFrame);
\* of a closed upvalue only the value is left.
LiveState ==
    <<frames, {<<a, stack[a]>> : a \in 0..(Base(Depth + 1) - 1)},
      [u \in UpvalueIds |-> IF upvalues[u].isClosed THEN upvalues[u].tv ELSE upvalues[u]],
      upvalueList, closures, throwing>>
=============================================================================
