---------------------- MODULE MCCollectionTransparent ----------------------
(* The programs of MCInterpreter, run twice.                               *)
EXTENDS CollectionTransparentProofs, MCInterpreter

MCTwinInputs == {"1", "x"}
=============================================================================
