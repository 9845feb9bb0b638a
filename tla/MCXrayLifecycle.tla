-------------------------- MODULE MCXrayLifecycle --------------------------
(***************************************************************************)
(* Instances of XrayLifecycle for TLC.                                     *)
(***************************************************************************)
EXTENDS XrayLifecycle, TLC

\* One handler at a time makes any edit, or two at once change the settings.
Rebuilds == {[ops |-> {"settings"}, handlers |-> 2]}
AnyEdit == {[ops |-> {"add", "del", "update", "settings"}, handlers |-> 1]} \cup Rebuilds

\* One handler, for the liveness run.
OneRebuild == {[ops |-> {"settings"}, handlers |-> 1]}

Symmetry == Permutations(Tags) \cup Permutations(Editors)
=============================================================================
