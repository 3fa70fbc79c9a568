--------------------------- MODULE MC_NumaTopology ---------------------------
(* Bounded inputs for NumaTopology: sequences of length at most 2 over    *)
(* values on each side of every bound the Validator checks.               *)
EXTENDS NumaTopology, SequencesExt

MCConfigs ==
    [maxProcs : {0, 4}, maxMem : {0, 1024}, preferred : {<<>>, <<0, 1>>},
     mapped : BoundedSeq({0, 63, 64, 255}, 2),
     procCounts : BoundedSeq({0, 4}, 2),
     memCounts : BoundedSeq({0, 1024}, 2)]

MCTopologies ==
    BoundedSeq({Setting(v, p, 0, c, m) : v \in {0, 64, 65}, p \in {0, 63, 64, 255},
                                         c \in {0, 4}, m \in {0, 1024}}, 2)
=============================================================================
