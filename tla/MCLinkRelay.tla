---------------------------- MODULE MCLinkRelay ----------------------------
(* One link and a few tunnels, which are all alike. *)
EXTENDS LinkRelay, TLC

CONSTANTS a, b

TunnelSymmetry == Permutations(Tunnels)
MCQuotaLocks == {{}}
MCDeviceLocks == {{}, {a}}

=============================================================================
