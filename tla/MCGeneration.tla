---------------------------- MODULE MCGeneration ----------------------------
(* A required file spelled in two ways, a file of the application's own, and *)
(* two texts; one dependency every project has and one the model may name.   *)
EXTENDS Generation
CONSTANTS manifest, main, main2, app, t1, t2, react, lib
MCSpellings == {manifest, main, main2, app}
MCNormalize == [s \in MCSpellings |-> IF s = main2 THEN main ELSE s]
MCRequiredFiles == {manifest, main}
MCTemplate == [p \in {main, app} |-> t1]
MCRequired == [n \in {react} |-> 1]
=============================================================================
