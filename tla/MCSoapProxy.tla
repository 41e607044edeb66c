----------------------------- MODULE MCSoapProxy -----------------------------
(* SoapProxy in small configurations of the service, with fields of four   *)
(* characters: strings that fit, fill their field, and are too long.       *)
EXTENDS SoapProxy

CONSTANTS w1, w2

\* The second thread is asked for nothing that takes a backend.
MCAsked == [w \in Workers |-> IF w = w1 THEN Ops ELSE {"unknown", "GetMsVersion"}]

\* A request served by mapserv, and one sent to a URL.
ExecConf(file, serv, ops, from, dbg) ==
    [MapFile |-> file, MapServ |-> serv, BackendURL |-> Absent, SOAPOperationsURL |-> ops,
     From |-> from, parsed |-> "malformed", debug |-> dbg]
UrlConf(file, ops, from, how, dbg) ==
    [MapFile |-> file, MapServ |-> 3, BackendURL |-> 3, SOAPOperationsURL |-> ops,
     From |-> from, parsed |-> how, debug |-> dbg]

\* Run; refused; not loaded; sent; not sent.
MCConfs ==
    {ExecConf(3, 3, 2, 3, TRUE), ExecConf(2, 5, Absent, 3, FALSE)}
    \cup {ExecConf(3, 2, 2, 3, FALSE), ExecConf(4, 0, 2, 3, FALSE),
          ExecConf(4, 3, 4, 3, FALSE), ExecConf(5, 5, 5, 3, FALSE)}
    \cup {ExecConf(Absent, 3, 2, 3, FALSE), ExecConf(3, Absent, 2, 3, FALSE)}
    \cup {UrlConf(5, 3, Absent, "good", TRUE)}
    \cup {UrlConf(3, Absent, Absent, how, FALSE) : how \in {"short", "malformed"}}
=============================================================================
