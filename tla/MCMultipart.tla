---------------------------- MODULE MCMultipart -----------------------------
(* Multipart for TLC: every short value made of the bytes of delimiters,    *)
(* before a file that is longer than the flush limit, or a file that does   *)
(* not fit in memory.                                                       *)
EXTENDS Multipart

Part(name, content) == [name |-> name, content |-> content]

ShortBoundary == <<"-", "-", "b">>

Values == BoundedSeq({"CR", "LF", "-", "x"}, 3)
LongFile == <<"x", "CR", "LF", "-", "-", "x", "CR", "LF", "y">>
More == <<"CR", "y">>

AllForms ==
    {<<Part("value", v), Part("file", LongFile)>> : v \in Values}
        \cup {<<Part("file", LongFile), Part("value", v)>> : v \in Values}
        \cup {<<Part("file", LongFile \o more)>> : more \in {<<"y">>, More}}
=============================================================================
