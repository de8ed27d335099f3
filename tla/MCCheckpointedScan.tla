-------------------------- MODULE MCCheckpointedScan --------------------------
(* Instance of CheckpointedScan for TLC: three units and two workers; an     *)
(* attempt may select them all, two of them, or one (no checkpoint then).    *)
EXTENDS CheckpointedScan

CONSTANTS u1, u2, u3

MCUnits == {u1, u2, u3}
AllOrFewer == {MCUnits, {u1, u2}, {u1}}
AllOnly == {MCUnits}
=============================================================================
