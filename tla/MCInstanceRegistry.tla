-------------------------- MODULE MCInstanceRegistry --------------------------
(* Values of InstanceRegistry's constants for TLC.                         *)
EXTENDS InstanceRegistry

CONSTANTS l1, l2

\* One label, which a reload keeps, both, or one of them twice.
ShortPayloads == {<<l1>>, <<l1, l2>>, <<l2, l2>>}

\* One label or the other.
SwapPayloads == {<<l1>>, <<l2>>}
==============================================================================
