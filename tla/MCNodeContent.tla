--------------------------- MODULE MCNodeContent ---------------------------
(* A small instance of NodeContent for TLC. *)
EXTENDS NodeContent, TLC

CONSTANTS nova, libvirt, t1, t2, t3, t4

\* Two calls for the same component, one for another, and the client.
MCAsked == (t1 :> nova) @@ (t2 :> nova) @@ (t3 :> libvirt) @@ (t4 :> Client)

=============================================================================
