----------------------------- MODULE MCParties -----------------------------
(* A small instance of Parties: two spellings of one supplier, one text close to both,     *)
(* the usina, and one id to mint.                                                        *)
EXTENDS Parties

MCTexts == {"alfa", "alfa ltda", "alpha", "usina"}
MCMinted == {"party-1"}
MCPlace == [n \in MCTexts \cup MCMinted |->
    CHOOSE k \in 1..5 : <<"alfa", "alfa ltda", "alpha", "party-1", "usina">>[k] = n]
MCKeys == [n \in MCTexts \cup MCMinted |-> IF n = "alfa ltda" THEN "alfa" ELSE n]
MCSimilar == {{"alfa", "alpha"}}
=============================================================================
