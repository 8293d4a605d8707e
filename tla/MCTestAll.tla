----------------------------- MODULE MCTestAll -----------------------------
(* TestAll with the scripts of one directory: the two of each algorithm.   *)
(* The loops also run over a second directory, in the same way.            *)
EXTENDS TestAll

MCScripts == << <<"lzo", "test-ndp.sh">>, <<"lzo", "test-cpu.sh">>,
                <<"lz4", "test-ndp.sh">>, <<"lz4", "test-cpu.sh">> >>
=============================================================================
