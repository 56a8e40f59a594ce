------------------------ MODULE MCAuthorityGeneration ------------------------
(* Instances of AuthorityGeneration for TLC.                               *)
EXTENDS AuthorityGeneration, TLC

Symmetry == Permutations(Operators) \cup Permutations(Handlers)
            \cup Permutations(Releases)
=============================================================================
