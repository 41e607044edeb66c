------------------------------ MODULE SoapProxy ------------------------------
(***************************************************************************)
(* One request through the service: rpSvc_invoke (src/sp_svc.c) loads the  *)
(* properties, rp_dispatch_op and rp_invokeBackend (src/sp_dispatch.c)     *)
(* pick the operation and the backend, sp_execMapserv or sp_backend_socket *)
(* (src/sp_backend_sock.c) yields a stream, sp_build_response20            *)
(* (src/sp_wcs20.c) turns what the stream holds into a node, and the       *)
(* stream is cleaned up.  Several threads of one process do so at once.    *)
(*                                                                         *)
(* The forking backend is taken at its word, BackendCall, which            *)
(* ExecMapserv implements.  An answer is counted in chunks: the first is   *)
(* its head, the others the body.  What threads share is the configuration *)
(* (Properties), the table of error messages, which the first requests     *)
(* fill without a lock (rp_init_errors, src/sp_fault.c), and the process.  *)
(***************************************************************************)
EXTENDS Properties, FiniteSets

CONSTANTS
    Workers,       \* threads that serve requests
    Asked,         \* Asked[w]: operations that w's clients ask for
    MaxChunks,     \* longest answer, head included (a bound)
    Confs,         \* configurations of the service
    FlagAt         \* messages the build stores before rp_errors_initialized

ASSUME WorkersAssumption == IsFiniteSet(Workers)
ASSUME BoundsAssumption == MaxChunks \in Nat
ASSUME ConfsAssumption == Confs \subseteq Configurations

VARIABLES
    up,          \* the hosting process is running
    conf,        \* the parameters of services.xml
    messages,    \* errors that have their text in axutil_error_messages
    ready,       \* rp_errors_initialized
    told,        \* told[w]: stores of rp_init_errors that w has done
    fd0,         \* descriptor 0: taken by the host, free, or a socket lost
    pc,          \* pc[w]: what w does next
    op,          \* op[w]: the operation asked for
    open,        \* workers whose stream is open
    sent,        \* sent[w]: parts of the request the socket has taken
    broken,      \* broken[w]: a write to the socket has failed
    avail,       \* avail[w]: chunks the stream can deliver
    ends,        \* ends[w]: how the stream goes on after them
    taken,       \* taken[w]: chunks read from the stream
    ctype,       \* ctype[w]: class of the Content-Type
    node,        \* node[w]: return_node, and the body chunks in it
    error,       \* error[w]: last error set with SP_ERROR
    phase, produced, delivered   \* of the forking backend

Exec == INSTANCE BackendCall

evars == <<phase, produced, delivered>>
svars == <<sent, broken, avail, ends, taken, ctype>>
table == <<messages, ready, told>>
pvars == <<up, conf, table, fd0>>
vars == <<pvars, pc, op, open, svars, node, error, evars>>

Ops == {"DescribeCoverage", "GetCoverage", "GetCapabilities", "GetMsVersion",
        "unknown", "overlong"}
Types == {"xml", "mixed", "tiff", "text", "other", "absent"}
Errors == {"none", "PROPSLOAD", "NO_INPUT", "INVALID_XML", "BAD_OP", "BAD_REQ",
           "MS_EXEC", "NOT_IMPLEMENTED", "CONTENTHEADERS", "CONTENTTYPE",
           "DATA_LOAD", "PARSE"}

\* The messages of rp_init_errors that a request can ask for, as they are stored;
\* that of INVALID_XML is Axis2's own.
Messages == <<"NO_INPUT", "BAD_OP", "BAD_REQ", "DATA_LOAD", "PARSE", "CONTENTTYPE",
              "CONTENTHEADERS", "MS_EXEC", "PROPSLOAD", "NOT_IMPLEMENTED">>
Stores == Len(Messages) + 1    \* the flag is a store too

ASSUME FlagAssumption == FlagAt \in 0..Len(Messages)

ASSUME AskedAssumption == Asked \in [Workers -> SUBSET Ops]

NoNode == [kind |-> "NULL", body |-> 0]
Nodes == [kind : {"NULL", "xml", "coverage", "version"}, body : 0..MaxChunks]

\* rp_invokeBackend between taking the stream and cleaning it up.
Using == {"head", "looping", "parse", "load", "dump", "cleanup"}
Sending == {"send_head", "send_body"}
Labels == Using \cup Sending \cup
    {"idle", "errors", "props", "node", "dispatch", "backend", "connect", "calling",
     "no_stream", "after", "reply", "dead"}

TypeOK ==
    /\ up \in BOOLEAN
    /\ conf \in Configurations
    /\ messages \in SUBSET Errors /\ ready \in BOOLEAN
    /\ told \in [Workers -> 0..Len(Messages)]
    /\ fd0 \in {"taken", "free", "lost"}
    /\ pc \in [Workers -> Labels]
    /\ op \in [Workers -> Ops]
    /\ open \in SUBSET Workers
    /\ sent \in [Workers -> SUBSET {"head", "body"}]
    /\ broken \in [Workers -> BOOLEAN]
    /\ avail \in [Workers -> 0..MaxChunks]
    /\ ends \in [Workers -> {"more", "eof", "reset"}]
    /\ taken \in [Workers -> 0..MaxChunks]
    /\ ctype \in [Workers -> Types]
    /\ node \in [Workers -> Nodes]
    /\ error \in [Workers -> Errors]
    /\ phase \in [Workers -> {"idle", "busy", "stream", "null", "dead"}]
    /\ produced \in [Workers -> 0..MaxChunks]
    /\ delivered \in [Workers -> 0..MaxChunks]

Init ==
    /\ up = TRUE
    /\ conf \in Confs
    /\ messages = {} /\ ready = FALSE
    /\ told = [w \in Workers |-> 0]
    /\ fd0 \in {"taken", "free"}
    /\ pc = [w \in Workers |-> "idle"]
    /\ op = [w \in Workers |-> "unknown"]
    /\ open = {}
    /\ sent = [w \in Workers |-> {}]
    /\ broken = [w \in Workers |-> FALSE]
    /\ avail = [w \in Workers |-> 0]
    /\ ends = [w \in Workers |-> "more"]
    /\ taken = [w \in Workers |-> 0]
    /\ ctype = [w \in Workers |-> "absent"]
    /\ node = [w \in Workers |-> NoNode]
    /\ error = [w \in Workers |-> "none"]
    /\ Exec!Init

-----------------------------------------------------------------------------
Goto(w, l) == pc' = [pc EXCEPT ![w] = l]

\* SP_ERROR and a return of NULL to the statement l of a caller.
Failed(w, e, l) ==
    /\ Goto(w, l)
    /\ error' = [error EXCEPT ![w] = e]
    /\ UNCHANGED <<pvars, op, open, svars, node, evars>>

Step(w, l) ==
    /\ Goto(w, l)
    /\ UNCHANGED <<pvars, op, open, svars, node, error, evars>>

\* The process ends, and the requests of all its threads with it.
Die ==
    /\ up' = FALSE
    /\ pc' = [w \in Workers |-> "dead"]
    /\ open' = {}
    /\ Exec!Die
    /\ UNCHANGED <<conf, table, fd0, op, svars, node, error>>

-----------------------------------------------------------------------------
(***************************************************************************)
(* rpSvc_invoke and rp_dispatch_op.                                        *)
(***************************************************************************)

Invoke(w, o) ==
    /\ pc[w] = "idle"
    /\ Goto(w, IF ready THEN "props" ELSE "errors")
    /\ op' = [op EXCEPT ![w] = o]
    /\ UNCHANGED <<pvars, open, svars, node, error, evars>>

\* What the thread w does when n stores of rp_init_errors are done.
Stored(w, n) ==
    /\ told' = [told EXCEPT ![w] = IF n = Stores THEN 0 ELSE n]
    /\ Goto(w, IF n = Stores THEN "props" ELSE "errors")
    /\ UNCHANGED <<up, conf, fd0, op, open, svars, node, error, evars>>

\* The slip of a flag that is set before the table is filled.
InitErrors_first(w) ==
    LET n == told[w] + 1
    IN  /\ pc[w] = "errors"
        /\ IF n = 1 THEN ready' = TRUE /\ UNCHANGED messages
           ELSE messages' = messages \cup {Messages[n - 1]} /\ UNCHANGED ready
        /\ Stored(w, n)

\* Store number n of rp_init_errors.  Nothing but the order of the source puts
\* that of the flag after the others.
Store(n) ==
    \/ n = FlagAt + 1 /\ ready' = TRUE /\ UNCHANGED messages
    \/ n <= FlagAt /\ messages' = messages \cup {Messages[n]} /\ UNCHANGED ready
    \/ n > FlagAt + 1 /\ messages' = messages \cup {Messages[n - 1]} /\ UNCHANGED ready

InitErrors(w) ==
    /\ pc[w] = "errors"
    /\ Store(told[w] + 1)
    /\ Stored(w, told[w] + 1)

props == rp_load_props(conf)
UrlMode == rp_getUrlMode(props)

LoadProps(w) ==
    /\ pc[w] = "props"
    /\ IF PropsLoaded(conf) THEN Step(w, "node") ELSE Failed(w, "PROPSLOAD", "reply")

\* The body of the SOAP request: an element, another node, or nothing.
TakeNode(w) ==
    /\ pc[w] = "node"
    /\ \/ Step(w, "dispatch")
       \/ Failed(w, "INVALID_XML", "reply")
       \/ Failed(w, "NO_INPUT", "reply")

Dispatch(w) ==
    /\ pc[w] = "dispatch"
    /\ CASE op[w] = "overlong" -> Failed(w, "BAD_REQ", "reply")
         [] op[w] = "unknown" -> Failed(w, "BAD_OP", "reply")
         [] op[w] = "GetMsVersion" /\ UrlMode -> Failed(w, "NOT_IMPLEMENTED", "reply")
         \* rp_execMs_dashV is defined nowhere: the call cannot be bound.
         [] op[w] = "GetMsVersion" /\ ~UrlMode -> Die
         [] OTHER -> Step(w, "backend")

-----------------------------------------------------------------------------
(***************************************************************************)
(* The forking backend, as BackendCall promises it.                        *)
(***************************************************************************)

\* The slip of a MapFile whose length nobody looks at.
Runnable_any == Len(rp_getMapserverExec(props)) \in 3..Field

\* What sp_execMapserv demands of its strings.
Runnable ==
    /\ Len(rp_getMapserverExec(props)) \in 3..Field
    /\ Len(rp_getMapfile(props)) <= Field

\* The request may be empty or too long, and a pipe may fail.
CallExec(w) ==
    /\ pc[w] = "backend" /\ ~UrlMode
    /\ \/ Runnable /\ Exec!Call(w) /\ Goto(w, "calling")
       \/ Exec!Refuse(w) /\ Goto(w, "no_stream")
    /\ UNCHANGED <<pvars, op, open, svars, node, error>>

Produce(w) ==
    /\ pc[w] = "calling" /\ produced[w] < MaxChunks
    /\ Exec!Produce(w)
    /\ UNCHANGED <<pvars, pc, op, open, svars, node, error>>

ExecAnswer(w) ==
    /\ pc[w] = "calling"
    /\ Exec!Answer(w)
    /\ open' = open \cup {w}
    /\ avail' = [avail EXCEPT ![w] = produced[w]]
    /\ ends' = [ends EXCEPT ![w] = "eof"]
    /\ Goto(w, "head")
    /\ UNCHANGED <<pvars, op, sent, broken, taken, ctype, node, error>>

ExecFail(w) ==
    /\ pc[w] = "calling"
    /\ Exec!Fail(w)
    /\ Goto(w, "no_stream")
    /\ UNCHANGED <<pvars, op, open, svars, node, error>>

\* A fork that fails, or whatever else ends the process during the call.
ExecDie(w) == pc[w] = "calling" /\ Die

-----------------------------------------------------------------------------
(***************************************************************************)
(* sp_backend_socket and sp_sock_connect.                                  *)
(***************************************************************************)

CallSock(w) ==
    /\ pc[w] = "backend" /\ UrlMode
    /\ \/ conf.parsed = "short" /\ Failed(w, "MS_EXEC", "no_stream")
       \/ conf.parsed # "short" /\ Step(w, "no_stream")   \* request empty or too long
       \/ conf.parsed # "short" /\ Step(w, "connect")

ConnectFail(w) == pc[w] = "connect" /\ Step(w, "no_stream")

Connect(w) ==
    /\ pc[w] = "connect" /\ fd0 # "free"
    /\ open' = open \cup {w}
    /\ Goto(w, "send_head")
    /\ UNCHANGED <<pvars, op, svars, node, error, evars>>

\* A socket numbered 0 is taken for a failure and never closed.
ConnectZero(w) ==
    /\ pc[w] = "connect" /\ fd0 = "free"
    /\ fd0' = "lost"
    /\ Goto(w, "no_stream")
    /\ UNCHANGED <<up, conf, table, op, open, svars, node, error, evars>>

\* The slip of a failing write that leaves its socket open.
DropSock_leak(w) ==
    /\ Goto(w, "no_stream")
    /\ UNCHANGED <<pvars, op, open, svars, node, error, evars>>

\* Sp_stream_cleanup after a write that took less than it was given.
DropSock(w) ==
    /\ open' = open \ {w}
    /\ Goto(w, "no_stream")
    /\ UNCHANGED <<pvars, op, svars, node, error, evars>>

Took(w, part) ==
    /\ sent' = [sent EXCEPT ![w] = @ \cup {part}]
    /\ UNCHANGED <<pvars, op, open, broken, avail, ends, taken, ctype, node, error, evars>>

WriteHead(w) == pc[w] = "send_head" /\ Took(w, "head") /\ Goto(w, "send_body")

WriteHeadShort(w) == pc[w] = "send_head" /\ DropSock(w)

\* A result of -1 is compared as a size_t, passes for enough and goes unseen;
\* the socket may well take what is written next.
WriteHeadFail(w) ==
    /\ pc[w] = "send_head"
    /\ broken' = [broken EXCEPT ![w] = TRUE]
    /\ Goto(w, "send_body")
    /\ UNCHANGED <<pvars, op, open, sent, avail, ends, taken, ctype, node, error, evars>>

WriteBody(w) == pc[w] = "send_body" /\ Took(w, "body") /\ Goto(w, "head")

\* The slip of a body write whose result is compared the same way.
WriteBodyFail_unseen(w) ==
    /\ pc[w] = "send_body"
    /\ broken' = [broken EXCEPT ![w] = TRUE]
    /\ Goto(w, "head")
    /\ UNCHANGED <<pvars, op, open, sent, avail, ends, taken, ctype, node, error, evars>>

WriteBodyFail(w) == pc[w] = "send_body" /\ DropSock(w)

\* The server at the other end of the socket.
PeerSend(w) ==
    /\ w \in open /\ UrlMode /\ ends[w] = "more" /\ avail[w] < MaxChunks
    /\ avail' = [avail EXCEPT ![w] = @ + 1]
    /\ UNCHANGED <<pvars, pc, op, open, sent, broken, ends, taken, ctype, node, error, evars>>

PeerEnd(w, how) ==
    /\ w \in open /\ UrlMode /\ ends[w] = "more"
    /\ ends' = [ends EXCEPT ![w] = how]
    /\ UNCHANGED <<pvars, pc, op, open, sent, broken, avail, taken, ctype, node, error, evars>>

\* The slip of a backend's NULL that is passed on without an error.
NoStream_silent(w) ==
    /\ pc[w] = "no_stream"
    /\ Goto(w, "after")
    /\ IF UrlMode THEN UNCHANGED evars ELSE Exec!Done(w)
    /\ UNCHANGED <<pvars, op, open, svars, node, error>>

\* Back in rp_invokeBackend with NULL for a stream.
NoStream(w) ==
    /\ pc[w] = "no_stream"
    /\ Goto(w, "after")
    /\ error' = [error EXCEPT ![w] = "MS_EXEC"]
    /\ IF UrlMode THEN UNCHANGED evars ELSE Exec!Done(w)
    /\ UNCHANGED <<pvars, op, open, svars, node>>

-----------------------------------------------------------------------------
(***************************************************************************)
(* sp_build_response20, and what it reads the body with.                   *)
(***************************************************************************)

Drained(w) == taken[w] = avail[w] /\ ends[w] # "more"

\* The slip of a reader that waits for a head although the stream has ended.
ReadHead_wait(w, t) ==
    /\ pc[w] = "head" /\ taken[w] < avail[w]
    /\ taken' = [taken EXCEPT ![w] = @ + 1]
    /\ ctype' = [ctype EXCEPT ![w] = t]
    /\ error' = [error EXCEPT ![w] =
          IF t = "absent" THEN "CONTENTHEADERS"
          ELSE IF t \in {"text", "other"} THEN "CONTENTTYPE" ELSE @]
    /\ Goto(w, CASE t = "xml" -> "parse"
                 [] t \in {"mixed", "tiff"} -> "load"
                 [] t = "text" /\ conf.debug -> "dump"
                 [] OTHER -> "cleanup")
    /\ UNCHANGED <<pvars, op, open, sent, broken, avail, ends, node, evars>>

\* Sp_load_header_blob, sp_parseHttpHeaders_buf and the choice of the type.
ReadHead(w, t) ==
    /\ pc[w] = "head"
    /\ \/ /\ taken[w] < avail[w]
          /\ taken' = [taken EXCEPT ![w] = @ + 1]
       \/ /\ Drained(w) /\ t = "absent"
          /\ UNCHANGED taken
    /\ ctype' = [ctype EXCEPT ![w] = t]
    /\ error' = [error EXCEPT ![w] =
          IF t = "absent" THEN "CONTENTHEADERS"
          ELSE IF t \in {"text", "other"} THEN "CONTENTTYPE" ELSE @]
    /\ Goto(w, CASE t = "xml" -> "parse"
                 [] t \in {"mixed", "tiff"} -> "load"
                 [] t = "text" /\ conf.debug -> "dump"
                 [] OTHER -> "cleanup")
    /\ UNCHANGED <<pvars, op, open, sent, broken, avail, ends, node, evars>>

\* Reads that keep failing once what there is of the head has been taken: behind
\* a carriage return, or into a character never set that happens to be one,
\* sp_stream_getline goes round for ever (HeaderBlob).
HeadFail(w) ==
    /\ pc[w] = "head" /\ avail[w] <= 1 /\ ends[w] = "reset"
    /\ Step(w, "looping")

\* The slip of a reader that does not stop at the end of the stream.
ReadBody_past(w) ==
    /\ pc[w] \in {"parse", "load", "dump"} /\ ends[w] = "eof" /\ taken[w] <= avail[w]
    /\ taken' = [taken EXCEPT ![w] = @ + 1]
    /\ UNCHANGED <<pvars, pc, op, open, sent, broken, avail, ends, ctype, node, error, evars>>

ReadBody(w) ==
    /\ pc[w] \in {"parse", "load", "dump"} /\ taken[w] < avail[w]
    /\ taken' = [taken EXCEPT ![w] = @ + 1]
    /\ UNCHANGED <<pvars, pc, op, open, sent, broken, avail, ends, ctype, node, error, evars>>

(***************************************************************************)
(* Axis2's parser reads until the stream ends or fails, or stops in a      *)
(* chunk with the last tag or with what is no XML.  Nobody asks how it     *)
(* ended: whatever root element there is by then is handed back, with as   *)
(* much of the document as was built, and only its lack is an error.       *)
(***************************************************************************)
ParseEnd(w) ==
    /\ pc[w] = "parse"
    /\ \/ Drained(w) /\ UNCHANGED taken
       \/ taken[w] < avail[w] /\ taken' = [taken EXCEPT ![w] = @ + 1]
    /\ \/ /\ \E n \in 1..(taken'[w] - 1) :
                node' = [node EXCEPT ![w] = [kind |-> "xml", body |-> n]]
          /\ UNCHANGED error
       \/ /\ error' = [error EXCEPT ![w] = "PARSE"]
          /\ UNCHANGED node
    /\ Goto(w, "cleanup")
    /\ UNCHANGED <<pvars, op, open, sent, broken, avail, ends, ctype, evars>>

\* The body in one piece, and a coverage made of it.
Built(w) ==
    /\ Goto(w, "cleanup")
    /\ node' = [node EXCEPT ![w] = [kind |-> "coverage", body |-> taken[w] - 1]]
    /\ UNCHANGED <<pvars, op, open, svars, error, evars>>

\* The slip of a load that ends with the chunks that are there.
LoadEnd_early(w) ==
    /\ pc[w] = "load" /\ taken[w] = avail[w]
    /\ IF ctype[w] = "tiff" /\ taken[w] = 1
       THEN Failed(w, "DATA_LOAD", "cleanup")
       ELSE Built(w)

\* Sp_load_binary_file and sp_make_MTOM_node20: nothing is not data, unless the
\* Content-Type was put in front of it.  Compose_buffer adds up sizes that it
\* reads from memory it has freed, and its assertion about them may fail.
LoadEnd(w) ==
    /\ pc[w] = "load" /\ Drained(w) /\ ends[w] = "eof"
    /\ IF ctype[w] = "tiff" /\ taken[w] = 1
       THEN Failed(w, "DATA_LOAD", "cleanup")
       ELSE Built(w) \/ Die

DumpEnd(w) ==
    /\ pc[w] = "dump" /\ Drained(w) /\ ends[w] = "eof"
    /\ Step(w, "cleanup") \/ Die

\* A read that returns -1 is taken for a piece of that size, and memcpy runs
\* out of the process.
LoadReset(w) ==
    /\ pc[w] \in {"load", "dump"} /\ Drained(w) /\ ends[w] = "reset"
    /\ Die

Cleanup(w) ==
    /\ pc[w] = "cleanup"
    /\ Goto(w, "after")
    /\ open' = open \ {w}
    /\ IF UrlMode THEN UNCHANGED evars ELSE Exec!Done(w)
    /\ UNCHANGED <<pvars, op, svars, node, error>>

\* What rp_dispatch_op does with the node, see Lineage and Capabilities: either
\* edit reads from NULL on some answers.
After(w) ==
    /\ pc[w] = "after"
    /\ \/ Step(w, "reply")
       \/ op[w] \in {"GetCoverage", "GetCapabilities"} /\ node[w].kind = "xml" /\ Die

\* Axis2 sends the node, or a fault that tells the error; what was local to the
\* request is gone.
Reply(w) ==
    /\ pc[w] = "reply"
    /\ Goto(w, "idle")
    /\ op' = [op EXCEPT ![w] = "unknown"]
    /\ sent' = [sent EXCEPT ![w] = {}]
    /\ broken' = [broken EXCEPT ![w] = FALSE]
    /\ avail' = [avail EXCEPT ![w] = 0]
    /\ ends' = [ends EXCEPT ![w] = "more"]
    /\ taken' = [taken EXCEPT ![w] = 0]
    /\ ctype' = [ctype EXCEPT ![w] = "absent"]
    /\ node' = [node EXCEPT ![w] = NoNode]
    /\ error' = [error EXCEPT ![w] = "none"]
    /\ UNCHANGED <<pvars, open, evars>>

-----------------------------------------------------------------------------
Request(w) ==
    \/ InitErrors(w) \/ LoadProps(w) \/ TakeNode(w) \/ Dispatch(w) \/ CallExec(w) \/ CallSock(w)
    \/ Connect(w) \/ ConnectZero(w) \/ ConnectFail(w)
    \/ WriteHead(w) \/ WriteHeadShort(w) \/ WriteHeadFail(w)
    \/ WriteBody(w) \/ WriteBodyFail(w) \/ NoStream(w)

Response(w) ==
    \/ \E t \in Types : ReadHead(w, t)
    \/ HeadFail(w) \/ ReadBody(w) \/ ParseEnd(w) \/ LoadEnd(w) \/ DumpEnd(w) \/ LoadReset(w)
    \/ Cleanup(w) \/ After(w) \/ Reply(w)

Forked(w) == Produce(w) \/ ExecAnswer(w) \/ ExecFail(w) \/ ExecDie(w)

Next == \E w \in Workers :
    \/ \E o \in Asked[w] : Invoke(w, o)
    \/ Request(w) \/ Response(w) \/ Forked(w)
    \/ PeerSend(w) \/ \E how \in {"eof", "reset"} : PeerEnd(w, how)

Spec == Init /\ [][Next]_vars

\* Threads are scheduled.  Nothing in the code makes a server answer or end the
\* connection, or a forked call end.
Fairness == \A w \in Workers : WF_vars(Request(w) \/ Response(w))

FairSpec == Spec /\ Fairness

-----------------------------------------------------------------------------
\* A stream is open exactly while the request that took it sends to it or reads
\* from it: every way out of sp_backend_socket and rp_invokeBackend passes
\* sp_stream_cleanup once (src/sp_dispatch.c:162).
StreamsAccounted == open = {w \in Workers : pc[w] \in Using \cup Sending}

\* A request that returns NULL has told why, and one that returns a node has
\* not; and the error says where it stopped: the backend is blamed only when it
\* gave nothing to read, the answer only when there was one.
NullHasCause ==
    \A w \in Workers :
        /\ pc[w] = "reply" => (node[w] = NoNode <=> error[w] # "none")
        /\ error[w] = "MS_EXEC" => taken[w] = 0 /\ ctype[w] = "absent"
        /\ error[w] \in {"CONTENTTYPE", "DATA_LOAD", "PARSE"} => taken[w] > 0

\* A coverage handed back holds the whole body that the backend gave before it
\* ended the stream in order, however the reads fell (sp_load_binary_file).  Of
\* an XML answer there is no such promise, see ParseEnd.
BodyWhole ==
    \A w \in Workers :
        node[w].kind = "coverage" => ends[w] = "eof" /\ node[w].body = avail[w] - 1

(***************************************************************************)
(* An answer is read only from a server that was sent the request: its     *)
(* body always, since a write that failed or fell short there gives up the *)
(* stream, and its head unless the write of that failed (RequestWhole).    *)
(***************************************************************************)
BodySent ==
    \A w \in Workers :
        UrlMode /\ pc[w] \in Using =>
            "body" \in sent[w] /\ ("head" \in sent[w] \/ broken[w])

\* No answer is read from a server that has not been sent the whole request:
\* sp_backend_socket is to return NULL "on error".
RequestWhole ==
    \A w \in Workers :
        UrlMode /\ pc[w] \in Using => sent[w] = {"head", "body"}

(***************************************************************************)
(* A MapFile of whatever length is given to the child in full, never run   *)
(* together with MapServ behind it in an sp_props, or there is no child    *)
(* (sp_execMapserv).  The program is the one configured, and a backend     *)
(* behind a URL is sent the MapFile configured, where they are no longer   *)
(* than a field.  The address advertised is the configured one, or else    *)
(* "the URL where it is invoked", where it is shorter than a field.        *)
(***************************************************************************)
ConfiguredUsed ==
    \A w \in Workers : pc[w] \in Using \cup Sending \cup {"calling"} =>
        /\ ~UrlMode \/ conf.MapFile <= Field =>
              rp_getMapfile(props) = Value("MapFile", conf.MapFile)
        /\ ~UrlMode /\ conf.MapServ <= Field =>
              rp_getMapserverExec(props) = Value("MapServ", conf.MapServ)
        /\ conf.SOAPOperationsURL \in 0..(Field - 1) =>
              rp_getSoapOpsURL(props) = Value("SOAPOperationsURL", conf.SOAPOperationsURL)
        /\ conf.SOAPOperationsURL = Absent /\ conf.From \in 0..(Field - 1) =>
              rp_getSoapOpsURL(props) = Value("From", conf.From)

(***************************************************************************)
(* A fault finds the text of its error, also when another thread was still *)
(* filling the table as the request came in: rp_init_errors returns at     *)
(* once only when all of it is there.                                      *)
(***************************************************************************)
FaultTold ==
    \A w \in Workers :
        pc[w] = "reply" /\ error[w] \notin {"none", "INVALID_XML"} => error[w] \in messages

\* What a thread waits for that nothing in the program can bring about: its
\* forked call; a server that neither sends more nor ends; a read of the head to
\* stop failing.
Awaits(w) ==
    \/ pc[w] \in {"calling", "looping"}
    \/ /\ pc[w] \in {"head", "parse", "load", "dump"}
       /\ taken[w] = avail[w] /\ ends[w] = "more"

\* Every request is replied to, unless the process ends or it waits for good for
\* one of these.  No thread waits for another.
EveryRequestReplied ==
    \A w \in Workers :
        []<>(pc[w] \in {"idle", "reply", "dead"}) \/ <>[]Awaits(w)
=============================================================================
