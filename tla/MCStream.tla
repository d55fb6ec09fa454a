------------------------------ MODULE MCStream ------------------------------
(* Small instances of Stream for TLC. *)
EXTENDS Stream, TLC

CONSTANTS func, file, empty

MCCall == {func, file, empty}
MCChunks == (func :> <<>>) @@ (file :> <<2, 1>>) @@ (empty :> <<>>)
MCStreams == {file, empty}
MCGarbage == {0, 1, 3}

=============================================================================
