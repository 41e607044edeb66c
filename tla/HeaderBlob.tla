------------------------------ MODULE HeaderBlob ------------------------------
(***************************************************************************)
(* How the head of a WCS 2.0 answer is read: sp_build_response20           *)
(* (src/sp_wcs20.c) has sp_load_header_blob fill a buffer line by line     *)
(* through sp_stream_getline, then has sp_parseHttpHeaders_buf look for    *)
(* the Content-Type with sp_copyline (all three in src/sp_util.c).  What   *)
(* the head leaves in the stream is the body.                              *)
(*                                                                         *)
(* Characters are the classes the code tells apart; "key" stands for the   *)
(* text "Content-Type:", "x" for any other character.                      *)
(***************************************************************************)
EXTENDS Integers, Sequences, FiniteSets

CONSTANTS
    Alphabet,    \* the characters the stream can hold
    HeadLen,        \* size of header_buf (2560 in the code)
    LineMax,     \* size of tmpBuf in the parser (512 in the code)
    MaxIn,       \* longest stream that is explored (a bound)
    ReadFails    \* TRUE: a read of the stream may fail

Chars == {"x", "key", "cr", "lf", "nul"}

ASSUME AlphabetAssumption == Alphabet \subseteq Chars
ASSUME SizesAssumption == HeadLen \in Nat \ {0} /\ LineMax \in Nat \ {0} /\ MaxIn \in Nat
ASSUME ReadFailsAssumption == ReadFails \in BOOLEAN

VARIABLES
    pc,       \* next statement, or how sp_build_response20 goes on
    got,      \* characters taken from the stream so far
    ended,    \* the stream has reported its end
    failed,   \* a read of the stream has failed
    c,        \* the char c of sp_stream_getline
    mem,      \* header_buf
    line,     \* where buf points in it: the start of the current line
    pos,      \* characters of the current line stored, n_read - 1
    space,    \* buf_space
    total,    \* total_size
    src,      \* where src_buf points in header_buf
    value     \* hh.values[SP_HH_CONTENTTYPE]

stream == <<got, ended, failed>>
buffer == <<mem, line, pos, space, total>>
vars == <<pc, stream, c, buffer, src, value>>

NoValue == <<"null">>

(***************************************************************************)
(* The string that starts at index i of a buffer, and its strlen.          *)
(***************************************************************************)
Strlen(m, i) ==
    CHOOSE k \in 0..(HeadLen - i - 1) :
        m[i + k] = "nul" /\ \A j \in 0..(k - 1) : m[i + j] # "nul"

Text(m, i) == [j \in 1..Strlen(m, i) |-> m[i + j - 1]]

TypeOK ==
    /\ pc \in {"getline", "line", "toobig", "parse", "past",
               "no_type", "body"}
    /\ got \in Seq(Alphabet) /\ ended \in BOOLEAN /\ failed \in BOOLEAN
    /\ c \in Chars
    /\ mem \in [0..(HeadLen - 1) -> Chars]
    /\ line \in 0..(HeadLen - 1) /\ pos \in 0..(HeadLen - 1)
    /\ space \in 1..HeadLen /\ total \in 0..HeadLen
    /\ src \in 0..HeadLen
    /\ value \in Seq(Chars) \cup {NoValue}

\* The rest of header_buf is whatever the stack held: "x" stands for it here,
\* since no statement reads it before ParsePast, which assumes nothing of it.
Init ==
    /\ pc = "getline"
    /\ got = <<>> /\ ended = FALSE /\ failed = FALSE
    /\ c \in Chars
    /\ mem = [i \in 0..(HeadLen - 1) |-> IF i = 0 THEN "nul" ELSE "x"]
    /\ line = 0 /\ pos = 0
    /\ space = HeadLen /\ total = 0
    /\ src = 0
    /\ value = NoValue

-----------------------------------------------------------------------------
(***************************************************************************)
(* sp_stream_getline, one character a step.                                *)
(***************************************************************************)

\* while (size > n_read) leaves the loop: the line has filled the buffer.
LineFull ==
    /\ pc = "getline" /\ space <= pos + 1
    /\ pc' = "line"
    /\ UNCHANGED <<stream, c, buffer, src, value>>

\* What follows a read that did not return 0: ch is the value of c then.
Store(ch) ==
    /\ c' = ch
    /\ IF ch = "cr"
       THEN UNCHANGED <<pc, buffer>>
       ELSE /\ mem' = [mem EXCEPT ![line + pos] = ch]
            /\ pos' = pos + 1
            /\ pc' = IF ch \in {"lf", "nul"} THEN "line" ELSE "getline"
            /\ UNCHANGED <<line, space, total>>
    /\ UNCHANGED <<src, value>>

\* The slip of a getline that keeps the carriage returns.
ReadChar_keepcr(ch) ==
    /\ pc = "getline" /\ space > pos + 1
    /\ ~ended /\ Len(got) < MaxIn
    /\ got' = Append(got, ch)
    /\ c' = ch
    /\ mem' = [mem EXCEPT ![line + pos] = ch]
    /\ pos' = pos + 1
    /\ pc' = IF ch \in {"lf", "nul"} THEN "line" ELSE "getline"
    /\ UNCHANGED <<ended, failed, line, space, total, src, value>>

ReadChar(ch) ==
    /\ pc = "getline" /\ space > pos + 1
    /\ ~ended /\ Len(got) < MaxIn
    /\ got' = Append(got, ch)
    /\ UNCHANGED <<ended, failed>>
    /\ Store(ch)

\* axutil_stream_read returns -1, which is not 0: c is stored once more, or
\* holds anything when this call of getline has not read yet.
ReadFail(ch) ==
    /\ pc = "getline" /\ space > pos + 1
    /\ ReadFails /\ ~ended
    /\ pos > 0 \/ c = "cr" => ch = c
    /\ failed' = TRUE
    /\ UNCHANGED <<got, ended>>
    /\ Store(ch)

ReadEnd ==
    /\ pc = "getline" /\ space > pos + 1
    /\ ended' = TRUE
    /\ pc' = IF pos = 0 THEN "parse" ELSE "line"
    /\ UNCHANGED <<got, failed, c, buffer, src, value>>

-----------------------------------------------------------------------------
(***************************************************************************)
(* The body of the loop of sp_load_header_blob.                            *)
(***************************************************************************)

\* m is header_buf with the line ended in it, n its strlen(buf).
TakeLine(m, n, used, stops) ==
    /\ mem' = m
    /\ space' = space - used
    /\ total' = total + n
    /\ IF space - used <= 0 THEN pc' = "toobig" /\ UNCHANGED <<line, pos>>
       ELSE IF m[line] \in stops THEN pc' = "parse" /\ UNCHANGED <<line, pos>>
       ELSE pc' = "getline" /\ line' = line + n /\ pos' = 0
    /\ UNCHANGED <<stream, c, src, value>>

\* Getline's last act is *buf = 0.
Ended == [mem EXCEPT ![line + pos] = "nul"]

\* The slip that counts the NUL of every line as room used.
EndLine_countnul ==
    /\ pc = "line"
    /\ TakeLine(Ended, Strlen(Ended, line), Strlen(Ended, line) + 1, {"lf", "nul"})

\* The slip that reads on after the blank line.
EndLine_noblank ==
    /\ pc = "line"
    /\ TakeLine(Ended, Strlen(Ended, line), Strlen(Ended, line), {"nul"})

EndLine ==
    /\ pc = "line"
    /\ TakeLine(Ended, Strlen(Ended, line), Strlen(Ended, line), {"lf", "nul"})

-----------------------------------------------------------------------------
(***************************************************************************)
(* sp_parseHttpHeaders_buf.                                                *)
(***************************************************************************)

\* What sp_copyline(tmpBuf, header_buf + i, LineMax) returns, less one: the
\* characters it passed, the newline or the NUL that stopped it included.
Passed(i) ==
    CHOOSE k \in 0..(LineMax - 1) :
        /\ \A j \in 0..(k - 2) : mem[i + j] \notin {"lf", "nul"}
        /\ k = LineMax - 1 \/ (k > 0 /\ mem[i + k - 1] \in {"lf", "nul"})

\* The string it leaves in tmpBuf.
Copied(i) ==
    LET k == Passed(i)
        n == IF k > 0 /\ mem[i + k - 1] \in {"lf", "nul"} THEN k - 1 ELSE k
    IN  [j \in 1..n |-> mem[i + j - 1]]

\* The slip that keeps the first header of a name and not the last.
ParseLine_first ==
    /\ pc = "parse" /\ Copied(src) # <<>>
    /\ value' = IF Head(Copied(src)) = "key" /\ value = NoValue
                THEN Tail(Copied(src)) ELSE value
    /\ src' = src + Passed(src)
    /\ pc' = IF mem[src + Passed(src) - 1] = "nul" THEN "past" ELSE "parse"
    /\ UNCHANGED <<stream, c, buffer>>

\* A line that the NUL ended is passed together with the NUL.
ParseLine ==
    /\ pc = "parse" /\ Copied(src) # <<>>
    /\ value' = IF Head(Copied(src)) = "key" THEN Tail(Copied(src)) ELSE value
    /\ src' = src + Passed(src)
    /\ pc' = IF mem[src + Passed(src) - 1] = "nul" THEN "past" ELSE "parse"
    /\ UNCHANGED <<stream, c, buffer>>

\* The caller goes on to the body, or reports SP_USER_ERR_CONTENTHEADERS.
GoOn(v) ==
    /\ value' = v
    /\ pc' = IF v = NoValue THEN "no_type" ELSE "body"
    /\ UNCHANGED <<stream, c, buffer, src>>

ParseEnd == pc = "parse" /\ Copied(src) = <<>> /\ GoOn(value)

\* Beyond the NUL the parser finds anything, a Content-Type among it.
ParsePast(v) == pc = "past" /\ GoOn(v)

Next ==
    \/ LineFull \/ ReadEnd \/ EndLine \/ ParseLine \/ ParseEnd
    \/ \E ch \in Alphabet : ReadChar(ch)
    \/ \E ch \in Chars : ReadFail(ch)
    \/ \E v \in {value, <<"x">>} : ParsePast(v)

Spec == Init /\ [][Next]_vars

-----------------------------------------------------------------------------
(***************************************************************************)
(* What the head should be: the characters taken, less carriage returns.   *)
(***************************************************************************)

\* How many of the first k characters of r are kept.
Kept(r, k) == Cardinality({j \in 1..k : r[j] # "cr"})

\* s is a whole head: its last line, and no other, is blank.
Whole(s) ==
    LET blank(i) == s[i] = "lf" /\ (i = 1 \/ s[i - 1] = "lf")
    IN  s # <<>> /\ \A i \in 1..Len(s) : blank(i) <=> i = Len(s)

Loaded == pc \in {"parse", "past", "no_type", "body"}

\* A stream of a backend in order: every read succeeds, and no NUL in it.
Proper == ~failed /\ \A i \in 1..Len(got) : got[i] # "nul"

\* header_buf then holds what was taken from the stream and nothing else, and
\* no more was taken than the head: the first blank line, the end of the
\* stream or a full buffer stopped it.  So the body, which the caller reads
\* next from the same stream, starts where it should unless the head did not
\* fit (sp_load_header_blob, lines 294-325).
HeadExact ==
    Loaded /\ Proper =>
        LET head == Text(mem, 0)
        IN  /\ Len(head) = total /\ total = Kept(got, Len(got))
            /\ \A k \in 1..Len(got) : got[k] # "cr" => head[Kept(got, k)] = got[k]
            /\ \A i \in 1..(Len(head) - 1) : ~Whole(SubSeq(head, 1, i))
            /\ Whole(head) \/ ended \/ Len(head) = HeadLen - 1

\* The value of the last Content-Type line of a head.
LastValue(s) ==
    LET starts == {i \in 1..Len(s) : s[i] = "key" /\ (i = 1 \/ s[i - 1] = "lf")}
        start  == CHOOSE i \in starts : \A j \in starts : j <= i
        stop   == CHOOSE i \in start..Len(s) :
                      s[i] = "lf" /\ \A j \in start..(i - 1) : s[j] # "lf"
    IN  IF starts = {} THEN NoValue ELSE SubSeq(s, start + 1, stop - 1)

ShortLines(s) ==
    \A i \in 1..Len(s) :
        i + LineMax - 2 <= Len(s) => \E j \in i..(i + LineMax - 2) : s[j] = "lf"

\* In a head that is whole and has no line longer than tmpBuf, the parser
\* stays inside and finds the last Content-Type, or none when there is none
\* (sp_parseHttpHeaders_buf, lines 427-462).
TypeFromHead ==
    LET head == Text(mem, 0)
    IN  Loaded /\ Proper /\ Whole(head) /\ ShortLines(head) =>
            /\ pc # "past"
            /\ pc \in {"no_type", "body"} => value = LastValue(head)

\* The caller takes a negative result for headers that do not fit in the
\* buffer and reports them (src/sp_wcs20.c:397-404).  Contradicted: the
\* result is never negative, and the rest of the head becomes the body.
OversizeReported ==
    pc = "body" /\ Proper => ended \/ Whole(Text(mem, 0))
=============================================================================
