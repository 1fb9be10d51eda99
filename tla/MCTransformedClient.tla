------------------------ MODULE MCTransformedClient ------------------------
(* Model-checking instance of TransformedClient.                           *)
EXTENDS TransformedClient

CONSTANTS n1, n2

MCNames == {n1, n2}
MCGens == {1, 2}

=============================================================================
