--------------------------- MODULE MCTaskIdFormat ---------------------------
(***************************************************************************)
(* Checks the task-id formatting against a reference parser over every     *)
(* triple of numbers up to MaxField: each state holds one input triple.    *)
(***************************************************************************)
EXTENDS TaskIdFormat, Naturals, Sequences, FiniteSets

CONSTANT MaxField    \* largest block number, extrinsic index and event count tried

VARIABLE input

Fields == 0..MaxField

\* Reference reading of a decimal digit string.
DigitValue(c) == CHOOSE d \in 0..9 : DigitChar[d] = c
ReadDecimal[s \in Seq(STRING)] ==
    IF s = <<>> THEN 0
    ELSE 10 * ReadDecimal[SubSeq(s, 1, Len(s) - 1)] + DigitValue(s[Len(s)])

\* Reference parser: split the id at its two "-" characters and read the
\* three fields; NoParse when the id does not have exactly three fields.
NoParse == <<>>
ParseTaskId(id) ==
    LET seps == {i \in 1..Len(id) : id[i] = "-"}
        p1 == CHOOSE i \in seps : \A j \in seps : i <= j
        p2 == CHOOSE i \in seps : \A j \in seps : i >= j
        fields == <<SubSeq(id, 1, p1 - 1), SubSeq(id, p1 + 1, p2 - 1),
                    SubSeq(id, p2 + 1, Len(id))>>
    IN IF Cardinality(seps) = 2 /\ \A f \in 1..3 : fields[f] # <<>>
       THEN [f \in 1..3 |-> ReadDecimal[fields[f]]]
       ELSE NoParse

Init == input \in Fields \X Fields \X Fields
Next == UNCHANGED input

\* The id generated from a (block, extrinsic, event) triple is non-empty and
\* parses back to that triple, so two different triples never yield the same
\* id: the uniqueness the task store relies on when it inserts without a
\* duplicate check (lib.rs 851).
IdParsesBack ==
    LET id == GenerateTaskId(input[1], input[2], input[3])
    IN /\ id # <<>>
       /\ ParseTaskId(id) = input
=============================================================================
