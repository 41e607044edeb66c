------------------------------ MODULE Properties ------------------------------
(***************************************************************************)
(* The parameters of the service as a request sees them: rp_load_props     *)
(* (src/sp_props.c) copies them into an sp_props, the readers of           *)
(* src/sp_props.c hand out pointers into it.  A copy is a strncpy: a value *)
(* that fills its field has no NUL there, and its reader runs on into what *)
(* is declared behind it (src/sp_props.h).                                 *)
(*                                                                         *)
(* A character is the name of the parameter it comes from.                 *)
(***************************************************************************)
EXTENDS Integers, Sequences

CONSTANT Field    \* SP_MAX_MPATHS_LEN: characters of a string field

ASSUME FieldAssumption == Field \in Nat /\ Field > 3

\* A parameter is absent or a string of some length; From is the address of the
\* endpoint in the request, and parsed what axutil_url_parse_string makes of
\* BackendURL: nothing, a host or path that is too short, or a good URL.
Absent == -1
Lengths == Nat \cup {Absent}
Configurations ==
    [MapFile : Lengths, MapServ : Lengths, BackendURL : Lengths,
     SOAPOperationsURL : Lengths, From : Lengths,
     parsed : {"malformed", "short", "good"}, debug : BOOLEAN]

\* The value of the parameter name, n characters long.
Value(name, n) == [i \in 1..(IF n = Absent THEN 0 ELSE n) |-> name]

\* strncpy(dest, src, SP_MAX_MPATHS_LEN), up to the NUL if it leaves one.
Copied(s) == SubSeq(s, 1, IF Len(s) < Field THEN Len(s) ELSE Field)

UrlGiven(c) == c.BackendURL # Absent

\* BackendURL, or else both MapFile and MapServ.
PropsLoaded(c) ==
    IF UrlGiven(c) THEN c.parsed # "malformed" ELSE c.MapFile # Absent /\ c.MapServ # Absent

\* The fields, in the order of their declaration.  The first byte of the int
\* url_mode is 1 or, as a NUL, ends a string that runs on to it.
rp_load_props(c) ==
    [mapfile         |-> Copied(Value("MapFile", c.MapFile)),
     mapserv         |-> IF UrlGiven(c) THEN <<>> ELSE Copied(Value("MapServ", c.MapServ)),
     backend_url_str |-> Copied(Value("BackendURL", c.BackendURL)),
     soapops_url_str |->
        IF c.SOAPOperationsURL # Absent THEN Copied(Value("SOAPOperationsURL", c.SOAPOperationsURL))
        ELSE IF c.From # Absent THEN Copied(Value("From", c.From)) ELSE <<"unknown">>,
     url_mode        |-> IF UrlGiven(c) /\ PropsLoaded(c) THEN <<"1">> ELSE <<>>]

\* The string that begins in a field, when the memory behind reads as given.
ReadOn(field, behind) == IF Len(field) < Field THEN field ELSE field \o behind

rp_getUrlMode(p) == p.url_mode # <<>>
rp_getSoapOpsURL(p) == ReadOn(p.soapops_url_str, p.url_mode)
rp_getBackendURL(p) == ReadOn(p.backend_url_str, rp_getSoapOpsURL(p))
rp_getMapserverExec(p) == ReadOn(p.mapserv, rp_getBackendURL(p))
rp_getMapfile(p) == ReadOn(p.mapfile, rp_getMapserverExec(p))
=============================================================================
