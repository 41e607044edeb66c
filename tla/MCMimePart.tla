----------------------------- MODULE MCMimePart -----------------------------
(* MimePart on small instances: every short file behind a plain header, and *)
(* shorter ones behind other headers, and every short header.              *)
EXTENDS MimePart

CONSTANTS MaxFile, MaxOther,  \* longest file behind either (bounds)
          MaxLine             \* longest header on an empty file (a bound)

UpTo(n, S) == UNION {[1..k -> S] : k \in 0..n}

Plain == <<";", "boundary=", "a">>

OtherLines ==
    {<<"boundary=", "a">>, <<"boundary=", "a", ";">>, <<";">>,
     <<";", "boundary=", "blank", "a", "a">>, <<";", "boundary=", "a", "a", "a">>,
     <<";", "boundary=", "a", "blank">>, <<";", "boundary=", "quote", "a", "quote">>,
     <<";", "boundary=", "a", ";", "a">>, <<";", "a", ";", "boundary=", "a">>}

MCInputs ==
    [line : {Plain}, file : UpTo(MaxFile, FileChars)] \cup
    [line : OtherLines, file : UpTo(MaxOther, FileChars)] \cup
    [line : UpTo(MaxLine, LineChars), file : {<<>>}]
=============================================================================
