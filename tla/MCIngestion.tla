---------------------------- MODULE MCIngestion ----------------------------
\* TLC instances of Ingestion.
EXTENDS Ingestion

\* Two documents, an event of the first, and contents 1 and 2.
MCIds == {"d", "e", "f"}
MCHashes == {1, 2}
MCParent == [i \in MCIds |-> IF i = "e" THEN "d" ELSE "none"]
U(i, h) == [id |-> i, hash |-> h]
R(o, us, n) == [outcome |-> o, units |-> us, next |-> n]

\* The first page may be answered in full, in part, with changed content or not at
\* all; the second holds a parent after its event; the third ends the flow.
MCAnswers ==
    [p \in 0..2 |->
        CASE p = 0 -> {R("success", <<U("e", 1)>>, 1), R("partial", <<U("d", 1)>>, 1),
                       R("success", <<U("d", 2)>>, 1), R("timeout", <<>>, 0)}
          [] p = 1 -> {R("success", <<U("d", 1), U("f", 1)>>, 2), R("empty", <<>>, 2)}
          [] p = 2 -> {R("empty", <<>>, 2), R("empty", <<>>, 0), R("success", <<U("d", 2)>>, 1)}]

============================================================================
