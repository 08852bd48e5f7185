---------------------------- MODULE MC_Handshake ----------------------------
(* Instances of the handshake for TLC.                                      *)
EXTENDS Handshake

\* Every failure the code handles may happen.
MCAllFaults == FaultKinds

\* The user namespace entry forms whose handling parent and child agree on.
MCAgreedUserNs == {"absent", "unset", "set"}

\* A user namespace entry with an empty path.
MCEmptyUserNs == {"empty"}

\* No failures at all.
MCNoFaults == {}
=============================================================================
