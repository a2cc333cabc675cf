----------------------------- MODULE MCStrings -----------------------------
(* Spellings with equal hashes, with different hashes in one bucket, and   *)
(* in different buckets.                                                   *)
EXTENDS Strings, TLC

CONSTANTS a, b, c, d

MCTexts == {a, b, c, d}
MCHash == a :> 1 @@ b :> 1 @@ c :> 3 @@ d :> 2
=============================================================================
