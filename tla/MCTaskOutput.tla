---------------------------- MODULE MCTaskOutput ----------------------------
(* Instances of TaskOutput for TLC. *)
EXTENDS TaskOutput

\* Bytes at the borders of the decoder's cases.
Borders == {65, 128, 143, 144, 159, 160, 193, 194, 224, 237, 240, 244, 245}

Text(s) == [Empty EXCEPT !["stdout"] = s]

\* All pairs, and what may follow the leads whose second byte is restricted.
BorderOutputs ==
    {Empty, Text(<<65>>), Text(<<224, 160, 128>>)}
        \union {Text(<<c, d>>) : c \in Borders, d \in Borders}
        \union {Text(<<c, d, 128, 65>>) : c \in {224, 237}, d \in Borders}
        \union {Text(<<c, d, 128, 191>>) : c \in {240, 244}, d \in Borders}

\* A text that grows by the conversion, one on both streams, one that the conversion
\* makes too long for the master (MaxLogUploadBytes), and one too long for the worker.
LogOutputs ==
    {Text(<<128>>), [stdout |-> <<65>>, stderr |-> <<237>>], Text(<<65, 128>>),
     Text(<<65, 65, 65, 65, 65>>)}

MCOutputs == BorderOutputs \union LogOutputs

MCReruns == {[stdout |-> <<66>>, stderr |-> <<>>]}

\* The two purposes of the instance are kept apart: the outputs at the borders are
\* uploaded with no other run and no follower; and what follows Run, which does not read
\* the platform, is explored for one of the two.
Focus ==
    /\ written \notin LogOutputs => UNCHANGED <<upload["other"], follower>>
    /\ step' # "run" => platform = "posix"
=============================================================================
