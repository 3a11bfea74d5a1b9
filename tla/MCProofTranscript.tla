-------------------------- MODULE MCProofTranscript --------------------------
(* Circuits with every mixture of instances, lookups, permutation sets and      *)
(* degrees, small enough that both transcripts can be listed in full.           *)
EXTENDS ProofTranscript

Query(col, rotation) == [col |-> col, at |-> rotation]

\* No column; a column of two values and an empty one.
InstanceColumns == {<<>>, <<2, 0>>}

\* One column; two, the first queried at four rotations, one of them that of LastRow.
AdviceColumns ==
    { [columns |-> 1, queries |-> <<Query(1, 0)>>],
      [columns |-> 2, queries |-> <<Query(2, 1), Query(1, 0), Query(1, -7), Query(1, 1),
                                    Query(1, 2)>>] }

Circuit(entry, query, instances, advice, phases, challenges, lookups, columns, degree) ==
    [ entry |-> entry, queryInstance |-> query, instances |-> instances,
      instanceQueries |-> [i \in 1..Len(instances) |-> Query(i, 0)],
      advicePhase |-> [c \in 1..advice.columns |-> IF c = 1 THEN 0 ELSE phases],
      adviceQueries |-> advice.queries,
      fixedQueries |-> <<Query(2, 0), Query(1, 0), Query(1, -1)>>,
      challengePhase |-> [i \in 1..challenges |-> 0],
      lookups |-> lookups, permutationColumns |-> columns, degree |-> degree ]

Circuits(entries, phases, challenges) ==
    { Circuit(e, q, i, a, p, c, l, s, d) :
        e \in entries, q \in BOOLEAN, i \in InstanceColumns, a \in AdviceColumns,
        p \in phases, c \in challenges, l \in {0, 2}, s \in 0..3, d \in 3..5 }

\* A lookup asks for degree 4.
Sound(circuits) == {c \in circuits : c.lookups > 0 => c.degree >= 4}

\* Advice synthesized by the caller comes with two challenges or none; create_proof
\* synthesizes circuits without challenges and refuses those with two phases.
MCShapes ==
    Sound(Circuits({"advice"}, {0}, {0, 2}) \cup Circuits({"circuit"}, {0, 1}, {0}))

ASSUME MCShapesAreSupported == \A s \in MCShapes : Supported(s)

\* A circuit of one phase with a challenge, synthesized by create_proof.
MCChallengeShapes == Sound(Circuits({"circuit"}, {0}, {0, 1}))
==============================================================================
