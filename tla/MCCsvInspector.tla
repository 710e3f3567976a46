------------------------------ MODULE MCCsvInspector ------------------------------
(* Model-checking instance of CsvInspector. *)
EXTENDS CsvInspector

(* The units contents are made of: a carriage return comes with its line    *)
(* feed or alone, a lead byte with its continuation or alone.              *)
Units == {<<"x">>, <<",">>, <<"q">>, <<"n">>, <<"r", "n">>, <<"r">>, <<"L", "C">>, <<"L">>}

(* Up to three units, alone or under a header of one or two columns. *)
MCContents ==
    {head \o FlattenSeq(units) :
        head \in {<<>>, <<"x", "n">>, <<"x", ",", "L", "C", "r", "n">>},
        units \in SeqOf(Units, 3)}

MCChunkSizes == {1, 2, 3}

(* A byte is appended, the last one is cut off or the first one replaced. *)
MCChanges(content) ==
    {Append(content, "x")}
        \cup (IF content = <<>> THEN {} ELSE
                {SubSeq(content, 1, Len(content) - 1), [content EXCEPT ![1] = "q"],
                 [content EXCEPT ![Len(content)] = "x"]})
================================================================================
