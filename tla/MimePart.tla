------------------------------ MODULE MimePart ------------------------------
(***************************************************************************)
(* One part of a multipart answer, read from a file: the boundary is       *)
(* scanned from the Content-Type line (scan_boundId, src/sp_util.c), the   *)
(* file is searched for it (seek_to_boundary), the image behind it is read *)
(* buffer by buffer up to the next boundary (rp_read_bin_mime_image in     *)
(* src/sp_image.c, rp_fill_buff_CB in src/sp_process_mime.c) and made a    *)
(* node (rp_make_img_node11, src/sp_wcs11.c), and what follows the         *)
(* boundary is looked at (check_end_bound).                                *)
(*                                                                         *)
(* Characters are classes: "-", which begins a boundary; "a", any other    *)
(* that a boundary may hold; the newline "lf"; "ff", the byte that equals  *)
(* EOF once it is in a char.  "stack" is what memory held before.          *)
(***************************************************************************)
EXTENDS Integers, Sequences

CONSTANTS
    Inputs,    \* the Content-Type line and the file
    Size,      \* SP_IMG_BUF_SIZE: characters one call is asked for
    MaxTok,    \* SP_HTTP_BOUNDLEN: longest boundary, less its two dashes
    LineMax    \* sizeof(tmpBuf) in seek_to_boundary

LineChars == {"boundary=", ";", "quote", "blank", "a"}
FileChars == {"-", "a", "lf", "ff"}

ASSUME InputsAssumption ==
    Inputs \subseteq [line : Seq(LineChars), file : Seq(FileChars)]
ASSUME SizesAssumption ==
    Size \in Nat \ {0} /\ MaxTok \in Nat \ {0} /\ LineMax \in Nat \ {0, 1}

VARIABLES
    line, file,  \* the input
    pc,
    bound,       \* boundId, with its dashes; <<>> when there is none
    pos,         \* characters taken from fp
    start,       \* those taken before the image
    done,        \* ctx->done
    buf,         \* ctx->buf
    piece,       \* what this call has written to its buffer
    room,        \* n_to_read
    image        \* contents of the list of TmpStores, in order

input == <<line, file>>
fill == <<done, buf, piece, room>>
vars == <<input, pc, bound, pos, start, fill, image>>

Verdicts == {"next_part", "last_part", "bad_end"}   \* check_end_bound: 0, 1, -1
Labels == {"scan", "seek", "ended", "lost", "call", "fill", "return", "compose",
           "null", "composed", "node", "failed"} \cup Verdicts
MemChars == FileChars \cup {"nul", "stack"}

TypeOK ==
    /\ line \in Seq(LineChars) /\ file \in Seq(FileChars)
    /\ pc \in Labels
    /\ bound \in Seq({"-", "a", "blank"}) /\ Len(bound) <= MaxTok + 2
    /\ pos \in 0..Len(file) /\ start \in 0..pos
    /\ done \in BOOLEAN
    /\ buf \in [0..(MaxTok + 3) -> MemChars]
    /\ piece \in Seq(MemChars) /\ Len(piece) <= Size
    /\ room \in -(MaxTok + 3)..Size
    /\ image \in Seq(MemChars)

Init ==
    /\ \E i \in Inputs : line = i.line /\ file = i.file
    /\ pc = "scan"
    /\ bound = <<>>
    /\ pos = 0 /\ start = 0
    /\ done = FALSE
    /\ buf = [i \in 0..(MaxTok + 3) |-> IF i = 0 THEN "nul" ELSE "stack"]
    /\ piece = <<>> /\ room = Size
    /\ image = <<>>

-----------------------------------------------------------------------------
(***************************************************************************)
(* scan_boundId and getNextToken.                                          *)
(***************************************************************************)

\* How many characters of chars s begins with: skipBlanks and skipChars.
Skip(s, chars) ==
    CHOOSE n \in 0..Len(s) : /\ \A i \in 1..n : s[i] \in chars
                             /\ n = Len(s) \/ s[n + 1] \notin chars

First(S) == CHOOSE i \in S : \A j \in S : i <= j

\* The slip of a token cut to make room for the NUL.
NextToken_short(s) ==
    LET t == SubSeq(s, Skip(s, {"blank"}) + 1, Len(s))
        n == Skip(t, {"a", "blank"})
    IN  SubSeq(t, 1, IF n >= MaxTok THEN MaxTok - 1 ELSE n)

\* rp_hh_boundChars has the blank in it, the quote and the semicolon not.
NextToken(s) ==
    LET t == SubSeq(s, Skip(s, {"blank"}) + 1, Len(s))
        n == Skip(t, {"a", "blank"})
    IN  SubSeq(t, 1, IF n > MaxTok THEN MaxTok ELSE n)

\* Only what follows the first semicolon is searched, if there is one.
ScanBoundId(l) ==
    LET semis == {i \in DOMAIN l : l[i] = ";"}
        keys  == {i \in DOMAIN l : /\ l[i] = "boundary="
                                   /\ semis # {} => i > First(semis)}
        token == NextToken(SubSeq(l, First(keys) + 1, Len(l)))
    IN  IF keys = {} \/ token = <<>> THEN <<>> ELSE <<"-", "-">> \o token

\* The caller may have fp in front of a boundary or behind the head of a part.
Scan ==
    /\ pc = "scan"
    /\ bound' = ScanBoundId(line)
    /\ pc' \in {"seek", "call"}
    /\ UNCHANGED <<input, pos, start, fill, image>>

-----------------------------------------------------------------------------
(***************************************************************************)
(* seek_to_boundary, a line at a time.                                     *)
(***************************************************************************)

\* How many characters fgets(dst, n, fp) takes after the first p.
LineLen(p, n) ==
    CHOOSE k \in 0..(n - 1) :
        /\ p + k <= Len(file)
        /\ \A j \in 1..(k - 1) : file[p + j] # "lf"
        /\ k = n - 1 \/ p + k = Len(file) \/ (k > 0 /\ file[p + k] = "lf")

Dashed(s) == Len(s) > 1 /\ s[1] = "-" /\ s[2] = "-"

\* The slip of a comparison that ends with the boundary.
BoundLine_prefix(s) ==
    Dashed(s) /\ Len(s) >= Len(bound) /\ SubSeq(s, 1, Len(bound)) = bound

BoundLine(s) == Dashed(s) /\ s = bound \o <<"lf">>
LastLine(s) == Dashed(s) /\ s = bound \o <<"-", "-", "lf">>

SeekLine ==
    /\ pc = "seek" /\ pos < Len(file)
    /\ LET k == LineLen(pos, LineMax)
           s == SubSeq(file, pos + 1, pos + k)
       IN  /\ pos' = pos + k
           /\ start' = pos + k
           /\ pc' = IF BoundLine(s) THEN "call" ELSE IF LastLine(s) THEN "ended" ELSE "seek"
    /\ UNCHANGED <<input, bound, fill, image>>

SeekEnd ==
    /\ pc = "seek" /\ pos = Len(file)
    /\ pc' = "lost"
    /\ UNCHANGED <<input, bound, pos, start, fill, image>>

-----------------------------------------------------------------------------
(***************************************************************************)
(* rp_fill_buff_CB, called by rp_read_bin_mime_image.                      *)
(***************************************************************************)
BoundLen == Len(bound)

Strlen(m) == CHOOSE n \in DOMAIN m : m[n] = "nul" /\ \A i \in 0..(n - 1) : m[i] # "nul"

Emptied(m) == [m EXCEPT ![0] = "nul"]

\* memcpy(b, m, n)
Bytes(m, n) == [i \in 1..n |-> m[i - 1]]

\* No boundary: fread.
CallPlain ==
    /\ pc = "call" /\ bound = <<>>
    /\ LET n == IF Len(file) - pos < Size THEN Len(file) - pos ELSE Size
       IN  /\ piece' = SubSeq(file, pos + 1, pos + n)
           /\ pos' = pos + n
           /\ room' = Size - n
    /\ pc' = "return"
    /\ UNCHANGED <<input, bound, start, done, buf, image>>

CallFresh ==
    /\ pc = "call" /\ bound # <<>> /\ Strlen(buf) = 0
    /\ piece' = <<>>
    /\ room' = Size
    /\ pc' = "fill"
    /\ UNCHANGED <<input, bound, pos, start, done, buf, image>>

\* What does not fit of the read-ahead is dropped; when all of it fits,
\* n_to_read becomes its length negated, and nothing is read.
CallCarry ==
    /\ pc = "call" /\ bound # <<>> /\ Strlen(buf) > 0
    /\ LET n == Strlen(buf)
       IN  IF Size <= n THEN piece' = Bytes(buf, Size) /\ room' = 0
                        ELSE piece' = Bytes(buf, n) /\ room' = -n
    /\ buf' = Emptied(buf)
    /\ pc' = "return"
    /\ UNCHANGED <<input, bound, pos, start, done, image>>

Filling == pc = "fill" /\ room > 0

\* The part ends: done = 1, and the read-ahead is emptied.
Stop(p) ==
    /\ pos' = p
    /\ done' = TRUE
    /\ buf' = Emptied(buf)
    /\ pc' = "return"
    /\ UNCHANGED <<input, bound, start, piece, room, image>>

FillEOF ==
    /\ Filling
    /\ \/ pos = Len(file) /\ Stop(pos)
       \/ pos < Len(file) /\ file[pos + 1] = "ff" /\ Stop(pos + 1)

\* s goes to the buffer.
Put(s) ==
    /\ piece' = piece \o s
    /\ room' = room - Len(s)
    /\ pc' = IF room = Len(s) THEN "return" ELSE "fill"
    /\ UNCHANGED <<input, bound, start, done, image>>

FillChar ==
    /\ Filling /\ pos < Len(file) /\ file[pos + 1] \notin {"ff", bound[1]}
    /\ Put(<<file[pos + 1]>>)
    /\ pos' = pos + 1
    /\ UNCHANGED buf

\* A candidate: its first character, and what fgets(buf + 1, BoundLen, fp) takes.
Candidate == Filling /\ pos < Len(file) /\ file[pos + 1] = bound[1]

\* The slip of a line one character longer.
RestLen_more == LineLen(pos + 1, BoundLen + 1)

RestLen == LineLen(pos + 1, BoundLen)
Ahead == [i \in DOMAIN buf |-> IF i <= RestLen THEN file[pos + 1 + i]
                               ELSE IF i = RestLen + 1 THEN "nul" ELSE buf[i]]
AfterCandidate == pos + 1 + RestLen

\* Nothing is behind the first character, which is lost.
FillLast == Candidate /\ RestLen = 0 /\ Stop(pos + 1)

FillMatch ==
    Candidate /\ RestLen > 0 /\ Bytes(Ahead, BoundLen) = bound /\ Stop(AfterCandidate)

\* The slip of a copy that is not cut to the room left.
FillMiss_over ==
    /\ Candidate /\ RestLen > 0 /\ Bytes(Ahead, BoundLen) # bound
    /\ Put(Bytes(Ahead, BoundLen))
    /\ buf' = Emptied(Ahead)
    /\ pos' = AfterCandidate

\* The slip of a copy that leaves out the first character.
FillMiss_shift ==
    /\ Candidate /\ RestLen > 0 /\ Bytes(Ahead, BoundLen) # bound
    /\ IF room <= BoundLen THEN Put(Bytes(Ahead, room)) /\ buf' = Ahead
                           ELSE Put(Tail(Bytes(Ahead, BoundLen))) /\ buf' = Emptied(Ahead)
    /\ pos' = AfterCandidate

\* No boundary.  When the buffer gets full the read-ahead is moved by n_to_read,
\* 0 by now; else BoundLen characters are copied however few were taken.
FillMiss ==
    /\ Candidate /\ RestLen > 0 /\ Bytes(Ahead, BoundLen) # bound
    /\ IF room <= BoundLen THEN Put(Bytes(Ahead, room)) /\ buf' = Ahead
                           ELSE Put(Bytes(Ahead, BoundLen)) /\ buf' = Emptied(Ahead)
    /\ pos' = AfterCandidate

\* The call returns size - n_to_read, and so many bytes of its TmpStore count.
Return ==
    /\ pc = "return"
    /\ LET n == Size - room
           rest == [i \in 1..(n - Len(piece)) |-> "stack"]
       IN  /\ image' = image \o piece \o rest
           /\ pc' = IF n = 0 \/ done THEN "compose" ELSE "call"
    /\ piece' = <<>>
    /\ room' = Size
    /\ UNCHANGED <<input, bound, pos, start, done, buf>>

-----------------------------------------------------------------------------
\* compose_buffer: NULL for an empty list.
Compose ==
    /\ pc = "compose"
    /\ pc' = IF image = <<>> THEN "null" ELSE "composed"
    /\ UNCHANGED <<input, bound, pos, start, fill, image>>

\* rp_make_img_node11.
MakeNode ==
    /\ pc \in {"null", "composed"}
    /\ pc' = IF pc = "null" THEN "failed" ELSE "node"
    /\ UNCHANGED <<input, bound, pos, start, fill, image>>

CheckEndBound ==
    /\ pc \in {"node", "failed"}
    /\ LET next(i) == IF pos + i <= Len(file) THEN file[pos + i] ELSE "eof"
           taken == IF next(1) = "-" THEN 2 ELSE 1
       IN  /\ pc' = IF next(1) = "lf" THEN "next_part"
                    ELSE IF next(1) = "-" /\ next(2) = "-" THEN "last_part" ELSE "bad_end"
           /\ pos' = IF pos + taken > Len(file) THEN Len(file) ELSE pos + taken
    /\ UNCHANGED <<input, bound, start, fill, image>>

Next ==
    \/ Scan \/ SeekLine \/ SeekEnd
    \/ CallPlain \/ CallFresh \/ CallCarry
    \/ FillEOF \/ FillChar \/ FillLast \/ FillMatch \/ FillMiss \/ Return
    \/ Compose \/ MakeNode \/ CheckEndBound

Spec == Init /\ [][Next]_vars

-----------------------------------------------------------------------------
(***************************************************************************)
(* Properties.                                                             *)
(***************************************************************************)

\* The value of the boundary parameter by the grammar of the header: up to the
\* semicolon, without the blanks around it; NoValue if it is quoted.
Declared(l) ==
    LET from == First({i \in DOMAIN l : l[i] = "boundary="}) + 1
        stop == First({i \in from..(Len(l) + 1) : i = Len(l) + 1 \/ l[i] = ";"})
        own  == {i \in from..(stop - 1) : l[i] # "blank"}
    IN  IF own = {} THEN <<>>
        ELSE SubSeq(l, First(own), CHOOSE i \in own : \A j \in own : j <= i)

\* A parameter the scanner can read: the only one of its name, behind the type,
\* bare, no longer than the 70 characters of the grammar, and with no blank
\* behind its last character.
Readable(l) ==
    /\ \E i \in DOMAIN l : l[i] = "boundary=" /\ \A j \in DOMAIN l : l[j] = "boundary=" => j = i
    /\ \E i \in DOMAIN l : l[i] = ";" /\ \A j \in 1..i : l[j] # "boundary="
    /\ Declared(l) # <<>> /\ Len(Declared(l)) <= MaxTok
    /\ \A i \in DOMAIN l : /\ l[i] # "quote"
                           /\ l[i] = "blank" => i < Len(l) /\ l[i + 1] \in {"a", "blank"}

(***************************************************************************)
(* "Returns the boundary string in boundId, with '--' pre-pended", "may be *)
(* preceded by one other key/value pair": so it is for every parameter the *)
(* scanner can read (scan_boundId, getNextToken).                          *)
(***************************************************************************)
BoundDeclared ==
    pc # "scan" /\ Readable(line) => bound = <<"-", "-">> \o Declared(line)

\* s stands in the file after its first p characters.
Occurs(s, p) == p + Len(s) <= Len(file) /\ \A i \in 1..Len(s) : file[p + i] = s[i]

\* So does the boundary, a 0xFF or the end.
Ends(p) == p = Len(file) \/ Occurs(<<"ff">>, p) \/ Occurs(bound, p)
PartEnd == First({p \in start..Len(file) : Ends(p)})

\* The part has a "-" only where n_to_read exceeds the boundary's length and no
\* newline or end follows within that length.
Benign ==
    \A i \in (start + 1)..PartEnd : file[i] = bound[1] =>
        /\ i + BoundLen - 1 <= PartEnd
        /\ \A j \in (i + 1)..(i + BoundLen - 2) : file[j] # "lf"
        /\ \E q \in 0..Len(file) : /\ q * Size <= i - 1 - start
                                   /\ i - 1 - start + BoundLen < (q + 1) * Size

(***************************************************************************)
(* The image is what stands between its start and the first boundary, or   *)
(* the first 0xFF, however many buffers it takes and whatever in it begins *)
(* like a boundary, where such a beginning is clear of the end of a        *)
(* buffer, of newlines and of the boundary.  Without a boundary it is all  *)
(* the rest of the file (rp_fill_buff_CB, rp_read_bin_mime_image).         *)
(***************************************************************************)
PartExact ==
    pc \in {"compose", "null", "composed", "node", "failed"} =>
        IF bound = <<>> THEN image = SubSeq(file, start + 1, Len(file))
        ELSE Benign => image = SubSeq(file, start + 1, PartEnd)

(***************************************************************************)
(* The file is left "at the char immediately following the boundary", "so  *)
(* as to enable the caller to recognize the end-boundary": check_end_bound *)
(* then tells the last part from others.                                   *)
(***************************************************************************)
EndKnown ==
    LET p == PartEnd + BoundLen
    IN  /\ pc \in Verdicts /\ bound # <<>> /\ Benign
        /\ Occurs(bound, PartEnd)
        => /\ pc = "last_part" <=> Occurs(<<"-", "-">>, p)
           /\ pc = "next_part" <=> Occurs(<<"lf">>, p)

\* The lines of the file end here, and how the line up to p reads.
LineEnds == {p \in 1..Len(file) : file[p] = "lf"}
LineUpTo(p) ==
    LET before == {q \in LineEnds : q < p}
        from == IF before = {} THEN 1 ELSE 1 + CHOOSE q \in before : \A r \in before : r <= q
    IN  SubSeq(file, from, p)

\* The lines sought, and a file with no line longer than tmpBuf.
Marks == {p \in LineEnds : LineUpTo(p) \in {bound \o <<"lf">>, bound \o <<"-", "-", "lf">>}}
Short ==
    \A i \in 1..Len(file) : i + LineMax - 2 <= Len(file) =>
        \E j \in i..(i + LineMax - 2) : file[j] = "lf"

(***************************************************************************)
(* Of a file with no line longer than tmpBuf, seek_to_boundary stops right *)
(* behind the first line that is the boundary, 0, or the end-boundary, 1,  *)
(* and else at its end, -1.                                                *)
(***************************************************************************)
SeekRight ==
    Short /\ bound # <<>> =>
        /\ pc \in {"ended", "call"} /\ start > 0 =>
              /\ start \in Marks /\ \A p \in Marks : start <= p
              /\ pc = "call" <=> LineUpTo(start) = bound \o <<"lf">>
        /\ pc = "lost" => Marks = {}
=============================================================================
