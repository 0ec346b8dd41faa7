----------------------------- MODULE MCDatacenter -----------------------------
(* Two sources and two devices of a host; pages of two, at most four devices. *)
EXTENDS Datacenter, TLC

CONSTANTS s1, s2

Interchangeable == Permutations({s1, s2})

=============================================================================
