----------------------------- MODULE MCFragment -----------------------------
(* Instances of Fragment for TLC: as few ids as IdsSuffice allows. *)
EXTENDS Fragment

ASSUME TightIds == IdsSuffice /\ Rate * (Timeout + MaxDelay + 2) > IdSpace

=============================================================================
