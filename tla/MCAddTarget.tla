------------------------------ MODULE MCAddTarget -----------------------------
(* Two spellings of one applicant code, a second code and a blank message.     *)
EXTENDS AddTarget, TLC

CONSTANTS code, spaced, other, spaces

NormalForm == code :> code @@ spaced :> code @@ other :> other @@ spaces :> Blank
Interchangeable == Permutations(Calls) \cup Permutations(Users)
=============================================================================
