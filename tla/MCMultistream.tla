--------------------------- MODULE MCMultistream ---------------------------
(* A small instance of Multistream for TLC. *)
EXTENDS Multistream, TLC, SequencesExt

CONSTANTS x, y, z

ThreeProtocols == {x, y, z}

\* Every list of up to three protocols, with repetitions and the empty one.
UpToThree == SeqOf(ThreeProtocols, 3)
=============================================================================
