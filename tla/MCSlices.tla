------------------------------ MODULE MCSlices ------------------------------
(* Small instances of Slices for TLC, with the default address pools. *)
EXTENDS Slices, TLC

CONSTANTS access, data

MCNetId == (access :> 1) @@ (data :> 2)
MCSlices == {1, 2}
\* slice numbers with one digit in one base and two in the other
MCDecimal == {1, 10}

=============================================================================
