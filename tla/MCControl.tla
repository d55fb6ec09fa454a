----------------------------- MODULE MCControl -----------------------------
(* Small instances of Control for TLC. *)
EXTENDS Control, SequencesExt

CONSTANTS h1, h2, c1, c2

\* two plain calls, as most tasks make them
MCBothDo == [c \in {c1, c2} |-> "do_do"]
\* a call and a file distribution to the same nodes
MCDoAndStream == (c1 :> "do_do") @@ (c2 :> "distribute")
\* the same with arguments per node
MCDiffAndStream == (c1 :> "do_diff") @@ (c2 :> "distribute")

\* The nodes differ by nothing when no connection is flaky.
Nodes == Permutations(Host)

=============================================================================
