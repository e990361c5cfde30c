----------------------------- MODULE Subsequence -----------------------------
(***************************************************************************)
(* The loop that walks a list from its first element to its last and keeps *)
(* some of them: records after a position of a log, rows of a table in the *)
(* order of their creation.                                                *)
(***************************************************************************)
LOCAL INSTANCE Integers
LOCAL INSTANCE Sequences

(* The elements of s at the positions in chosen, in the order of s.        *)
AtPositions(s, chosen) ==
    LET F[i \in 0..Len(s)] ==
            IF i = 0 THEN <<>>
            ELSE IF i \in chosen THEN Append(F[i - 1], s[i]) ELSE F[i - 1]
    IN  F[Len(s)]
=============================================================================
