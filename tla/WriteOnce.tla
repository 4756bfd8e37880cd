----------------------------- MODULE WriteOnce -----------------------------
(***************************************************************************)
(* A place that is written at most once, as a whole, with a value of       *)
(* values: what the project promises of an evidence bundle's directory.    *)
(* It may have been written before the first step, and the values that may *)
(* be written change with time.                                            *)
(***************************************************************************)
CONSTANT Nothing

VARIABLES
    place,   \* what the place holds
    values   \* what may be written now

WriteInit == place = Nothing \/ place \in values

Write ==
    /\ place = Nothing
    /\ place' \in values

WriteSpec == WriteInit /\ [][Write]_place
=============================================================================
