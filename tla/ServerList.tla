------------------------------ MODULE ServerList ------------------------------
(***************************************************************************)
(* Lists of servers as the configuration holds them.  A server is its      *)
(* name, the edit it comes from, and whether the field checks of validate  *)
(* accept it.                                                              *)
(***************************************************************************)
EXTENDS Integers, Sequences, FiniteSets

CONSTANTS
    Names,       \* the names of servers
    Garbage,     \* what a reader without the lock may find in place of a name
    Localhost,   \* the name of the built-in diagnostic server
    Needs,       \* Needs[n]: depends_on of the server n
    Selected,    \* the names picked by -servers and -tags
    MaxEdits     \* the edits of a behaviour

ASSUME NameAssumption ==
    /\ IsFiniteSet(Names) /\ Localhost \in Names /\ Garbage \notin Names
    /\ Needs \in [Names -> SUBSET Names]

ASSUME EditAssumption == MaxEdits \in Nat

\* Version 0 is in the first file; -1 is what nobody wrote.
Versions == -1 .. MaxEdits

Entries == [name : Names \cup {Garbage}, ver : Versions, ok : BOOLEAN]

\* An empty file says nothing of the web interface, and its default is off.
Globals == {"initial", "changed", "empty"}

Diagnostic == [name |-> Localhost, ver |-> 0, ok |-> TRUE]

\* The servers of the list with a name in S, in their order: the one sequence
\* of their positions that increases, applied to the list.
Kept(list, S) ==
    LET positions == {i \in DOMAIN list : list[i].name \in S}
    IN {[i \in DOMAIN f |-> list[f[i]]] : f \in
         {f \in UNION {[1 .. m -> positions] : m \in 0 .. Len(list)} :
            /\ \A i, k \in DOMAIN f : i < k => f[i] < f[k]
            /\ {f[i] : i \in DOMAIN f} = positions}}

Without(list, n) == Kept(list, (Names \cup {Garbage}) \ {n})

\* main puts the built-in server in place of an empty list, then selects.
Started(list) == Kept(IF list = <<>> THEN <<Diagnostic>> ELSE list, Selected)

NamesOf(list) == {list[i].name : i \in DOMAIN list}

NeedsOf(n) == IF n \in Names THEN Needs[n] ELSE {}

\* validate: fields are right, no name is there twice, dependencies are known
\* and go round in no circle.
NamesAreUnique(list) == \A i, k \in DOMAIN list : list[i].name = list[k].name => i = k

DependenciesAreKnown(list) == \A n \in NamesOf(list) : NeedsOf(n) \subseteq NamesOf(list)

Acyclic(list) ==
    \A S \in SUBSET NamesOf(list) : S # {} => \E n \in S : NeedsOf(n) \cap S = {}

Accepted(list) ==
    /\ \A i \in DOMAIN list : list[i].ok
    /\ NamesAreUnique(list) /\ DependenciesAreKnown(list) /\ Acyclic(list)
=============================================================================
