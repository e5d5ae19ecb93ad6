----------------------------- MODULE MCSecrets -----------------------------
(***************************************************************************)
(* Instances of Secrets for TLC.                                           *)
(*                                                                         *)
(* Rotation: four slots, two active secrets; a secret gets or loses its    *)
(* limits, a key is listed twice.  Swap: two slots, one active secret, so  *)
(* that a second rotation finds no free slot.  Crowd: one pinned secret    *)
(* and as many secrets in the file as may be active in all.                *)
(***************************************************************************)
EXTENDS Secrets, TLC

CONSTANTS k1, k2, k3, k4

Plain(k) == [key |-> k, limit |-> 0, quota |-> 0, rate_limit |-> 0, max_ips |-> 0]
Strict(k) == [key |-> k, limit |-> 1, quota |-> 1, rate_limit |-> 0, max_ips |-> 1]

NoPinned == <<>>
OnePinned == <<Plain(k1)>>

Rotation == {<<>>, <<Plain(k1)>>, <<Strict(k1), Plain(k2)>>, <<Plain(k2), Plain(k3)>>, <<Plain(k3), Plain(k3)>>}
Swap == {<<Strict(k1)>>, <<Plain(k2)>>, <<Plain(k3)>>}
Crowd == {<<Plain(k1), Plain(k2)>>, <<Plain(k3), Plain(k4)>>}

Symmetry == Permutations(Conns) \cup Permutations(IPs)
=============================================================================
