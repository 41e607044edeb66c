------------------------------ MODULE MCLineage ------------------------------
(* Lineage on coverages with few lineages, dated in every way.             *)
EXTENDS Lineage

CONSTANTS
    MaxPrior,   \* most lineages of the coverage itself
    Skew,       \* how far the backend's clock may differ
    Written     \* how the backend writes dates

\* EOMetadata with the lineages ls, indented or not.
EOMetadata(ls, outer) ==
    IF outer
    THEN FlattenSeq([i \in 1..(Len(ls) + 1) |->
            <<Space("in"), IF i = 1 THEN Other ELSE ls[i - 1]>>]) \o <<Space("out")>>
    ELSE <<Other>> \o ls

\* The lineages of the coverage, and maybe one the backend adds.
MCSent(now) ==
    {EOMetadata(ls \o own, outer) :
        ls \in UNION {BoundedSeq({Lineage("coverage", Text(t, f), e) :
                                    t \in 1..now, f \in Written}, MaxPrior) : e \in {"none", "in"}},
        own \in {<<>>} \cup {<<Lineage("backend", Text(t, f), e)>> :
                    t \in (now - Skew)..(now + Skew), f \in Written, e \in {"none", "in"}},
        outer \in BOOLEAN}
=============================================================================
