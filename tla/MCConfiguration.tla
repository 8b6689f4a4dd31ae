--------------------------- MODULE MCConfiguration ---------------------------
(***************************************************************************)
(* Configuration for TLC: by hand, nothing, the url of README's first      *)
(* command, or .env.example, which has no version.                         *)
(***************************************************************************)
EXTENDS Configuration, TLC

MCByHand == {Empty,
             [url |-> Operator],
             [url |-> Operator, auth_method |-> "basic"]}

Interchangeable == {p @@ q : p \in Permutations(Wizards), q \in Permutations(Dirs)}
=============================================================================
