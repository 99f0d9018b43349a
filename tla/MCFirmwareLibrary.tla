------------------------- MODULE MCFirmwareLibrary -------------------------
EXTENDS FirmwareLibrary, TLC

CONSTANT b1

\* A full package and a delta of one version: their links lead to one key.
MCBinOf == [n \in Names |-> b1]

Busy == {r \in Requests : pc[r] # "idle"}
Called == {f \in Firmwares : name[f] # NoName}

\* Three requests and three firmwares are there for the quota, where no file is
\* shared, linked or left over and no task is there; two of each for the files.
MCBound ==
    \/ Cardinality(Busy) <= 2 /\ Cardinality(Called) <= 2
    \/ /\ \A f \in Called : file[f] \in {f, Elsewhere} /\ name[f] \in FullNames
       /\ \A k \in Tasks : taskOf[k] = NoFirmware
       /\ \A r \in Requests : pc[r] \notin TaskPc
       /\ linked = {} /\ leftover = {} /\ object \subseteq Firmwares

MCSymmetry == Permutations(Requests) \cup Permutations(Firmwares)
=============================================================================
