------------------------------- MODULE MCProbes -------------------------------
EXTENDS Probes, TLC

\* Each kind alone, and a pair for what one kind does to the saves of another.
MCUses == {{k} : k \in Kinds} \cup {{"tcp", "dns"}}

\* The first probe of the file and one more, or two of the kinds that the forms
\* may set to what Validate refuses, or that there is one of, and for the pair
\* two, for a port that is dialled from the target before one that is not.
MCMaxBorn == [used \in MCUses |-> IF used \in {{"ping"}, {"listening"}, {"tcp", "dns"}} THEN 2 ELSE 1]

\* Two pages for the kind with most variants and for the one that is no list.
MCMaxOpen ==
    [used \in MCUses |->
       IF used \in {{"ping"}, {"tcp"}} THEN 2
       ELSE IF used \in {{"listening"}, {"tcp", "dns"}} THEN 0 ELSE 1]

Symmetry == Permutations(Tabs)
=============================================================================
