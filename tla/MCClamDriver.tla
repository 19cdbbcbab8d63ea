---------------------------- MODULE MCClamDriver ----------------------------
(* The pipeline of main for an input that is bitcode already, with         *)
(* optimisation (clang is skipped), with --cpu and without.                *)
EXTENDS ClamDriver

FromBitcode == <<"pp", "opt", "clam">>
WithOrWithout == {{}, {"pp", "opt", "clam"}}
=============================================================================
