# Verification of soap-proxy

soap-proxy is an Axis2/C service that stands in front of MapServer. It takes a
WCS request as the body of a SOAP message, has MapServer answer it (by forking
the `mapserv` program, or over a socket), edits the answer, and hands it to
Axis2 as the body of the SOAP response. This directory models it in TLA+. TLC
checks small instances, TLAPS proves the main safety properties for every value
of the constants.

Paths below are those of the repository; the C sources are in its `src/`.

## The system

| Component | Source | State | Operations |
|---|---|---|---|
| Service | `sp_svc.c` | one `axutil_env_t` per request with the last error | `rpSvc_init`, `rpSvc_invoke`, `rpSvc_on_fault`, `rpSvc_free` |
| Properties | `sp_props.c` | `sp_props`, on the stack of each request | `rp_load_props` and readers |
| Errors | `sp_fault.c` | the table of messages and the flag `rp_errors_initialized`, of the whole process | `rp_init_errors` |
| Dispatch | `sp_dispatch.c` | none | `rp_dispatch_op`, `rp_invokeBackend` |
| Forking backend | `sp_exec_ms.c` | descriptor table of the process, two pipes, a temporary file and a child per call | `sp_execMapserv`, `do_child` |
| Socket backend | `sp_backend_sock.c` | a socket and its stream per call | `sp_backend_socket`, `sp_sock_connect` |
| Head of an answer | `sp_util.c`, `sp_wcs20.c` | `header_buf` and pointers into it | `sp_load_header_blob`, `sp_stream_getline`, `sp_parseHttpHeaders_buf`, `sp_copyline` |
| Body of an answer | `sp_image.c`, `sp_process_mime.c`, `sp_wcs20.c` | the position of the stream, the node built | `sp_load_binary_file`, `sp_make_MTOM_node20`, `rp_process_xml_with_cbctx` |
| Capabilities | `sp_wcs20.c`, `sp_util.c` | the tree of the answer, edited in place | `rp_inject_soap_cap20`, `rp_delete_nonsoap`, `sp_add_soapurl` |
| Lineage | `sp_wcs20.c`, `sp_time_util.c` | the trees of answer and request, the clock | `sp_update_lineage`, `sp_latest_named`, `sp_parse_time_str` |
| Multipart reader | `sp_process_mime.c`, `sp_image.c`, `sp_util.c` | the boundary, a read-ahead buffer and the flag `done` | `scan_boundId`, `seek_to_boundary`, `rp_fill_buff_CB`, `rp_read_bin_mime_image`, `check_end_bound` |
| MapServer version | `sp_ms_version.c` | a temporary file | `rp_getMsVers`, `sp_execMs_dashV` |
| WCS 1.1 | `sp_wcs11.c` | a hash of coverages | called from nowhere |

How they interact: Axis2 calls `rpSvc_invoke` on a worker thread, and everything
of one request happens in that call. A request goes through properties,
dispatch, one of the two backends (which yields an `axutil_stream_t` or `NULL`
and an error), the head, the body, `sp_stream_cleanup`, and for GetCoverage and
GetCapabilities an edit of the tree. Of the program's variables threads share
only the table of messages, which the first requests fill without a lock, and
the parameters of the service. They do share the process: its descriptors, which
every `fork` copies to a child, and its children, which `wait(NULL)` reaps
without asking whose they are. The multipart reader is complete, but only the
code for WCS 1.1 uses it, and nothing calls that.

What is hard here, and what each component has to keep:

* **Forking backend.** Calls meet through inherited pipe ends, `wait(NULL)` and
  low descriptors; pipes have a capacity, so parent and child can wait for each
  other; every step may fail. Right when: a stream holds all that the call's own
  child wrote; as many children are reaped as were forked; a finished call
  leaves nothing open; every call returns.
* **Properties and errors.** `strncpy` into fields that lie side by side; a table
  filled by several threads at once. Right when: a forked backend gets the whole
  MapFile or is not called; every other string is used as configured where it fits
  its field; a fault finds the text of its error.
* **Socket backend and response.** The server may stop, reset, or take half a
  request. Right when: NULL comes with the error that caused it; the stream is
  closed once on every path; a coverage holds the whole body; no answer is read for
  a request that was not sent (true of its body, see `find_sent` for its head).
* **Head.** A line-wise read into a buffer of fixed size, then a parse of it.
  Right when: exactly the head is taken; the buffer is not overrun; the type
  found is one that stands in the head.
* **Capabilities.** Three edits whose searches match prefixes and the first hit
  in document order. Right when: every operation offers SOAP once, the deletion
  takes the backend's pair of addresses and never the new one, and all else stays.
* **Lineage.** A decision on a date that the backend wrote between two readings
  of a clock of whole seconds, and pointers kept over deletions. Right when: the
  history of the coverage stays, the backend's account of this request is
  replaced, and the request element has one parent.
* **Multipart reader.** A boundary searched a character at a time, across buffers
  and with a read-ahead that may have to be kept. Right when: the image is what
  stands before the boundary; nothing is written past a buffer; the end-boundary
  can be told from another.

PROJECT.json lists each hazard at its line with the properties that cover it.

## Modules

| Module | Models | Extends / instantiates |
|---|---|---|
| `BackendCall` | what `rp_invokeBackend` may rely on of a call that forks: the abstract specification | |
| `ExecMapserv` | `sp_execMapserv` and `do_child`, several threads and children | refines `BackendCall` |
| `HeaderBlob` | reading and parsing the head, one character a step | |
| `Properties` | the fields of `sp_props` and what their readers see | |
| `SoapProxy` | a request through service, dispatch, either backend and response, and the table of messages, several threads | extends `Properties`, composes `BackendCall` |
| `MimePart` | the multipart reader, one character or line a step | |
| `XmlTree` | searches and edits on AXIOM trees | |
| `Capabilities` | the three edits of a GetCapabilities answer | extends `XmlTree` |
| `Lineage` | `sp_update_lineage` between clock and backend | |
| `MCExecMapserv`, `MCSoapProxy`, `MCMimePart`, `MCCapabilities`, `MCLineage` | instances for TLC | the module named |
| `ExecMapservInvProofs`, `ExecMapservProofs`, `ExecMapservHostProofs`, `HeaderBlobProofs`, `SoapProxyProofs`, `MimePartProofs`, `CapabilitiesProofs`, `LineageProofs` | proofs | the module named |

**ExecMapserv.** `pc[w]` is the next system call of thread `w`. Pipe ends are
pairs of an end and a call; `fds` are those open in the process, `held[k]` those
open in child `k`, a copy of `fds` at the fork. Reads and writes move chunks of
up to `SP_BUF_READSIZE` bytes; a read sees end of file only when no process
holds the other end. The retry loop around the first read (`nRead < 0`, eight
tries, counter declared inside the loop) is there as it is written. A failing
`mkostemp`, `pipe`, `fork`, `fdopen`, `read`, `write` and `execve` each have an action.
mapserv is external: it reads CONTENT_LENGTH chunks or to end of file, then
writes an answer of any length up to a bound, or ends. Not modelled: SIGPIPE
(the host, httpd or axis2_http_server, ignores it, so a write to a broken pipe
fails); the environment of the child. The closes that follow each other with
nothing between are one step.

**BackendCall.** A call is idle, busy, and then hands out a stream that holds
everything produced, or NULL. The refinement is `Backend == INSTANCE BackendCall
WITH phase <- callPhase, produced <- childMade, delivered <- streamHolds` in
ExecMapserv: a call is busy from the checks of its arguments to the outcome,
produced is what its own child wrote, delivered what the file holds.

**HeaderBlob.** Characters are the classes that the code tells apart (`\n`,
`\r`, NUL, the key `Content-Type:`, others). `line`, `pos`, `space` and `total` are
`buf`, `n_read - 1`, `buf_space` and `total_size`. After `sp_copyline` has
stepped past the end of the text, the value is whatever the stack held: any.

**Properties.** A character of a string is the name of the parameter it comes
from, so that a string which runs on into another is seen to. The four fields
and `url_mode` lie in the order of their declaration without padding between;
the first byte of `url_mode`, an `int` of a little-endian build, is 1 or a NUL.
A copy is `strncpy`: a value of `Field` characters or more has no NUL, and its
reader goes on into what is declared behind. What Axis2 makes of BackendURL,
and the lengths of its host and path, are one value, `parsed`.

**SoapProxy.** The stream of a request is the chunks it can deliver (`avail`),
how it goes on (`ends`: more, end of file, reset) and how many were taken; the
first chunk is the head. The configuration `conf` comes from services.xml and
is the same for all threads. `Asked[w]` are the operations that reach a thread. In
URL mode every write may be short or fail and the peer sends or ends at any
time; otherwise the request uses `BackendCall` through its actions. A write of
the headers that fails goes unseen, and the write of the body behind it may succeed
or fail. The head is read in one step (HeaderBlob has its characters), or never:
where reads keep failing `sp_stream_getline` may go round for ever, the state
`looping`. An XML answer ends in a node or an error however the stream ended, since
`rp_process_xml_with_cbctx` does not ask: the node holds as much of the
document as was built. A death of
the process (`fork` fails, a length of -1 goes into `memcpy`, `rp_execMs_dashV`
cannot be bound, an edit reads from NULL, the assertion of `compose_buffer` fails
on sizes it reads from freed memory) is `up = FALSE`. `messages`, `ready`
and `told` are the table that `rp_init_errors` fills without a lock, the flag
behind it and how many stores a thread has done. The flag is the last statement
of the source; as the variables are plain, a build may store it earlier, and
`FlagAt` says behind how many messages.

**MimePart.** The line of the header and the file are sequences of characters
that the code tells apart; `MaxTok`, `LineMax` and `Size` are
`SP_HTTP_BOUNDLEN`, the size of `tmpBuf` and `SP_IMG_BUF_SIZE`.
`buf`, `done` and `room` are the read-ahead buffer, the flag and `n_to_read`; `room`
goes below 0 where the code says `n_to_read =- left_over_len`. The reader comes
from the start of the parts (`seek`) or from behind the head of one (`call`), as
the comments of the functions ask. The head of a part, which stands between the
two, is read the way `HeaderBlob` models.

**XmlTree, Capabilities.** A tree is kept the way it is written: an element is the
place of its start tag and is mapped to its name, its text and the place of its
end tag; what lies between the two is below it. A node pointer is a place, and
a search is the least place that matches. `FindDeep` is what
`rp_find_named_node_re` finds; `XmlTree` also has that function as it calls
itself, and the theorem `RecursionFinds` says that the two agree (on the small
trees TLC evaluates that as well, `DeepAssumption`). The backend leaves `Room` between its tags for what is added, so that
an edit moves no place (`AnswersAssumption`); the same assumption says that an
address, Get or Post, holds no other, and is not the proxy's. The address is the
text of its node. The actions are the three calls of `rp_dispatch_op`, in its
order; the calls that `sp_func_at_nodes` makes for the operations are made at
once, since none looks at what another does.

**Lineage.** EOMetadata is the sequence of its child nodes, white space
included, since `sp_update_lineage` copies and moves it. The backend adds at
most one lineage of its own (`SentAssumption`). A lineage without the text of a
date ends the process (`FindUndated`). A date is a second and
the way it is written: `strncmp` orders dates by second and then by the
character after it, `sp_parse_time_str` reads only those that end in Z. Its
`sscanf` stores an `int` in a `char`: dates with a fraction count as 0, except
fractions with the code of Z or z, which may read as anything between. Clock
ticks interleave with the answer and each step of the update.

## Runs

| Run | Module | Question | Bounds |
|---|---|---|---|
| `exec_one` | MCExecMapserv | does a call by itself end, never wait for a child that waits for it, reap its own child, and let mapserv see its end of file? Later reads of the answer may fail, the disk may fill, mapserv reads to end of file | 1 thread, 3 children, requests and answers of 2 chunks, pipe of 1, 1 try |
| `exec_two` | MCExecMapserv | do two calls at once each deliver their own child's whole answer, as BackendCall says, and what do failing calls leave behind? Descriptors 0 to 2 are free, forks fail, the first read may fail | 2 threads, 3 children, 10 descriptors, otherwise the same; symmetric |
| `head` | HeaderBlob | is exactly the head taken, and the type found in it? | buffer of 7, line of 5, 6 characters read, all character classes, reads fail any number of times |
| `proxy` | MCSoapProxy | does every request end in a node, an error that fits and finds its text, the end of the process or one of three waits for good, with its stream closed, its body sent, its coverage whole and the parameters used as configured? | 2 threads, the second asked only for what takes no backend; answers of 3 chunks, 11 configurations, fields of 4, flag behind all 10 messages |
| `part` | MCMimePart | is the boundary found, the image exact, the end told from others? | files of up to 7 characters behind a plain header, 5 behind nine others, every header of up to 6 tokens; buffer 4, token 2, line 5 |
| `caps` | MCCapabilities | do the edits of the capabilities reach every operation, and nothing else? | up to 2 operations of 7 shapes, up to 2 children of ServiceIdentification |
| `lineage` | MCLineage | does the update keep the history, replace the backend's account and move the request once? | 3 seconds, 2 lineages of the coverage, a backend clock 1 s off, 3 ways to write dates and none |
| `find_eof`, `find_retry`, `find_oversize`, `find_nolineage`, `find_sent` | | the five disagreements below | small |

Why the bounds are enough: two chunks through a pipe of one chunk make each side
wait for the other; two threads are what it takes for a child to inherit a
stranger's pipe ends or to be reaped by a stranger; three free descriptors
below 3 are the most there are, and with three pools of pipes calls fail both
ways before one succeeds; one byte of the buffer is kept for the NUL, so six
characters in a buffer of 7 are a head that is shorter, just fits or is cut, with
every character class at each place. In `proxy` two threads meet in the table of messages and in the death of
the process, nowhere else, so the second needs no backend; three chunks are a
head, a body chunk and one more; strings of 3, 4 and 5 in a field of 4 fit, fill
it and are too long. In `part` a boundary is three characters or four, so that
a file of seven holds one with a beginning of another before it, and a buffer of
four meets it at each of its places. One HTTP element with up to three
addresses, one of them with a constraint, an operation without HTTP and one with two cover every branch of the
edits; three seconds are before, in and after the second of the request. Where
a theorem is listed below the bounds are of no matter to the result.

Deadlock is checked in `exec_one`, `find_eof` and `find_retry`, where no thread
may ever be stuck. `exec_two` stops when the process ends; the sequential runs
(`head`, `part`, `caps`, `lineage`, and `proxy` after the death of the process)
stop when they are done.

Fairness: threads are scheduled (weak fairness of the steps of a thread). A
thread in `wait(NULL)` is woken by each exit but another may take the child
first: strong fairness of the wait. A child runs (weak fairness); no child has
to fail and nobody has to call. In `proxy` threads are scheduled, and that is
all: nothing in the code makes a server answer or end the connection, or a forked
call end, since there is no timeout. So `EveryRequestReplied` says of each request
that it is replied to, or the process ends, or from some time on it waits for
one of three things (`Awaits`): more from a server that neither sends nor ends, its forked
call, or an end to reads of the head that keep failing. It waits for nothing else,
and never for another thread.

## Proofs

| Theorem | For every | Says |
|---|---|---|
| `ExecMapservProofs!TypeCorrect`, `ReapBalanced`, `NothingLeft` | threads, children, capacities and faults | typing; children unreaped = waits owed; what is open has an owner |
| `ExecMapservProofs!StreamIsWhole`, `Refines` | the same, if `~DiskFills` and `"more" \notin ReadFails` | a stream is all its child wrote; the call implements BackendCall |
| `ExecMapservHostProofs!PlugsLowNumbers` | threads, children, capacities and faults | at most two calls fail over descriptors below 3 |
| `ExecMapservHostProofs!EOFReached`, `OwnReaped` | children, capacities and faults, one thread | mapserv sees its end of file; a call reaps its own child |
| `ExecMapservHostProofs!GoesOn` | the same | a call and its child never wait for each other |
| `ExecMapservHostProofs!CallShrinks` | the same, if `"first" \notin ReadFails` | a call has finitely many steps |
| `ExecMapservHostProofs!OnlyUnheardStuck` | threads, children, capacities and faults, if `~ReadsToEOF` | where no call and no child can go on, there is a child whose answer nobody reads |
| `HeaderBlobProofs!HeadFits`, `TooBigUnreachable` | buffer and line size, stream | no overrun; `sp_load_header_blob` never reports a head that is too big |
| `HeaderBlobProofs!HeadRead`, `TypeFound` | the same | exactly the head is taken; the last Content-Type is found |
| `HeaderBlobProofs!HeadEnds` | the same, with reads that fail any number of times | reading and parsing end, unless a read keeps failing behind a carriage return |
| `SoapProxyProofs!TypeCorrect`, `StreamsClosed`, `NullTold`, `BodyKept` | threads, configurations and answers | typing; one stream per request, closed; errors and nodes agree; the body of a coverage is whole |
| `SoapProxyProofs!RequestSent` | the same | no answer is read for a request whose body was not sent, or whose head was not unless the write of it failed |
| `SoapProxyProofs!ConfiguredGiven` | field size, lengths of all strings | a forked backend gets the MapFile in full or is not called; the other strings are those configured if they fit their fields |
| `SoapProxyProofs!NobodyForgotten` | threads, configurations and answers | who waits for more of an answer has a connection to a server, or reads a head whose reads fail; a forked call is in the phase its request takes it to be in |
| `SoapProxyProofs!RequestShrinks` | the same | no step brings a request further from its reply, each uses up some of what is left of one or is a new one; so it comes to the reply, or to a wait that `Awaits` names |
| `SoapProxyProofs!TextFound` | threads, if the flag is stored behind all messages | a fault finds its text |
| `MimePartProofs!NoOverrun`, `ImageIsPart`, `LastPartTold` | sizes, headers and files | no overrun; the image is the part; the end-boundary is known |
| `MimePartProofs!DeclaredFound`, `FirstFound` | the same | the boundary is the one declared; the first boundary line is found |
| `MimePartProofs!PartEnds` | the same | the scan, the search, the reading and the look behind the part end |
| `CapabilitiesProofs!RecursionFinds` | tree, node and name | `rp_find_named_node_re`, calling itself, finds the first match below the node |
| `CapabilitiesProofs!SoapOffered`, `NonSoapDeleted` | answer that is a tree | the address of the proxy is added once to each operation with HTTP; of an operation with one pair of addresses both are gone, and nothing outside an address |
| `CapabilitiesProofs!NothingElse`, `ProfilesAdded` | the same | all else stays; the profiles are in their place |
| `LineageProofs!TypeCorrect`, `OneParent`, `HistoryStays`, `OwnGoes`, `ClosesRight` | backend and length of the clock | pointers stay inside; one parent; history kept; own lineage gone; white space as before |

How they go. Each is an inductive invariant that has the property as a
consequence, proved action by action.

*ExecMapserv.* None of the properties is inductive by itself. The invariant adds
who owns which pipe ends and which child at each statement (a child belongs to
one call from its first pipe to the outcome; an end of a pipe is open only in
the processes that got it; the chunks in a pipe and in the file add up to those
written). `ExecMapservInvProofs` proves that each action keeps it,
`ExecMapservProofs` draws the theorems. The two assumptions are real: the write
to the temporary file is not checked, and an error of a later read is taken for
the end, so with either the stream may be short. `ExecMapservHostProofs` adds for
the low descriptors that each call given up has paid with two of them
(`GivenUp`, `Paid`), and for one thread that a child has only inherited ends of
its own call or of calls given up, and that no other child lives by then
(`Inherited`, `RequestEnd`, `Gone`). With two threads both fail, see `find_eof`.
`GoesOn` needs besides which ends a child still holds at each of its statements
(`KidEnds`), and that what it has yet to read is what the call has yet to write and
what is in the pipe (`Asked`, `Served`). `OnlyUnheardStuck` rests on the same: a
call whose child waits for it is itself not blocked, and once no child lives no pipe has
another holder and, by `ReapBalance`, each `wait(NULL)` finds a child.


*HeaderBlob.* The arithmetic of the buffer (the space left is the size less where
the line starts, and the line fits into it) and a NUL ahead of the parser
give the first two. `HeadRead` ties the text in the buffer to the characters
taken, less carriage returns. `TypeFound` assumes a complete head of lines that
fit `tmpBuf` without NULs; its invariant says that the parser stands at the
start of a line and the value is that of the last key before it.

*SoapProxy.* The invariant ties the state of the stream, the forked call and the
error to the program counter. For `RequestSent` the only states behind the writes
are those in which the body went out, and either the head did or its write failed;
`RequestWhole`, which asks for both, is violated in `find_sent`. `ConfiguredGiven` follows the lengths through
`strncpy` and the checks of `sp_execMapserv`; `TextFound` says that a thread which
has done n stores has put the first n messages in the table, so that it is full
whenever the flag is set. With a smaller `FlagAt` it is false.

*MimePart.* Between the calls, the image, the piece under way and the
read-ahead are together what was taken since the start, unless `Benign` fails:
a beginning of a boundary near the end of a buffer, before a newline or into
the boundary is where the code loses or repeats characters. `FirstFound` adds that
no line sought was passed, and that with lines shorter than `tmpBuf` each `fgets`
takes one line.

*Capabilities.* The invariant `Edited` gives the document at each step as what the
edits make of the answer, so the work is in the edits. A tree less some whole
elements below others is a `Part` of it, and a search finds the same in both as
long as it ends at a node of the part (`SameDeep`, `SameFlat`). The profiles and
the new Posts are chains written into free places (`Grafted`): they make a tree
of which the old one is a part (`GraftTree`, `GraftPart`), and have none of the
names the later edits look for (`SameLooked`). What is deleted lies in addresses
below one operation and below no other (`GoneIs`, `OperationsApart`), so the
operations, their HTTP and the profiles stay (`Stays`).

*Lineage.* The invariant says what the pointers point to: `curr_lineage` is the
node its date was read from, `eom_whsp_node` is a text, so taking it out loses
neither a lineage nor the request; and a date that counts as recent is either
really so or 0, which is before any request. The history is followed by an
order-preserving map from the answer, the white space by counting it.

*That everything ends.* Liveness needs ENABLED, which is out of the prover's
reach, but its safety core is proved: a natural number, `Left`, goes down with every
step (`CallShrinks`, `RequestShrinks`, `HeadEnds`, `PartEnds`), and nobody waits
for what cannot come (`GoesOn`, `NobodyForgotten`). `Left` is the statements
yet to be reached, and more for each chunk or character yet to be moved than moving
it adds elsewhere: two for a chunk that goes into a pipe and out of it.

*RecursionFinds.* There is no induction over the depth of a tree, but the places
of a tree are numbers: an element for which the two differ has a child for
which they differ, and which ends before it, so none of them ends first.

Only model-checked: the two liveness properties themselves, `CallReturns` and
`EveryRequestReplied`.

## Findings

* `find_eof`: "Reader will see EOF", says `sp_exec_ms.c` where it closes the
  request pipe. With a second call under way a foreign child holds that end
  open, because the pipes have no close-on-exec flag.
* `find_retry`: the retry counter of the first read is declared inside the
  loop it should end; a read that keeps failing is retried for ever.
* `find_oversize`: `sp_load_header_blob` cannot report a head that is too big;
  the rest of the head becomes the body.
* `find_nolineage`: an EOMetadata without a lineage, or whose latest lineage
  holds no white space, makes `strncpy` read NULL, although the code around
  tests for both.
* `find_sent`: `n_writ < strlen(headers)` compares an `int` with a `size_t`, so the
  -1 of a failing write of the headers passes; if the write of the body then
  succeeds, the answer to half a request is read, where the comment says "On
  error return NULL".

Seen while modelling and not made a run: a failing `fork` ends the hosting
process, where the comment promises NULL; a failing `execve` yields an empty
stream instead of NULL; the spooling write is unchecked; `sp_copyline` counts
the line end differently from its comment and steps past a NUL;
`rp_execMs_dashV` is called and not defined;
`sp_stream_getline` never ends if a read keeps failing right behind a carriage
return, because `continue` neither counts nor ends; `SP_LINEAGE_TIME_DIFF` ("If
greater, lineage is not changed") is used nowhere; two lineages of one second leave the choice to their order; a
Profile without text makes the search of `rp_inject_soap_cap20` pass NULL to
`strncmp`.

Four more of these contradict what the repository says, and have no run of their
own only because the ones above came first:

* `sp_exec_ms.c:140-144` means to refuse a MapServ that is too long, but
  `strncpy` has cut it by then, so a program of another name is run; a MapFile
  that is too long is cut the same way in URL mode. `ConfiguredUsed` therefore speaks of
  strings that fit, and of any length only for the MapFile of a forked backend.
* "delete GET & POST capabilities coming from the backend" (`sp_props.c:178-180`,
  and the comments in `TEMPLATE_services.xml:38-39` and `sp_wcs20.c:454-458`): of a
  second Get or Post, or in a second DCP, they stay. `NonSoapGone` therefore promises
  the deletion for one pair in one HTTP.
* The read-ahead of `rp_fill_buff_CB` is moved by `n_to_read` after that was set to
  0 (`sp_process_mime.c:238-240`), so it still begins with what was delivered,
  although the comment says it moves the remaining data. Nothing calls that code.
* An XML answer that was cut, reset or malformed behind its root tag is handed back as far
  as it was built, without an error (`sp_process_mime.c:325-337`).

Also: `compose_buffer` reads `ts->size` of memory it has just freed
(`sp_image.c:80-88`) and asserts the sum; a lineage without the text of a
timePosition, like the Profile, passes NULL to `strncmp` (`sp_util.c:1161`); when
the second `pipe` fails the first one stays open, call after call.

Two calls at once can block each other for ever. With a mapserv that reads to
end of file, each child may hold the write end of the other's request pipe. With
CONTENT_LENGTH, where `mkostemp` fails in both calls, nobody reads the answers, and
a child that writes into its full pipe gets no SIGPIPE, since the other child
has inherited the read end.

Of the multipart reader: `n_to_read =- left_over_len` sets where it should take
away; a candidate line shorter than the boundary has stale bytes of the buffer
copied behind it; a "-" that is the last character of the file is lost; a "-"
right before the boundary swallows it; a byte 0xFF ends the image; a second
`boundary=`, or a blank before the ";" that ends one, is read otherwise than the
header means it. The flag of `rp_init_errors` is last only in the source.

## Not modelled

* WCS 1.1 beyond the multipart reader (`sp_wcs11.c` but for `rp_make_img_node11`,
  the `_fp` and `_st` header parsers): nothing calls it, or it is compiled out.
* The XML parser, the SOAP engine and the parsing of URLs, which are Axis2's.
* Namespaces, log texts, debug output, `rp_error_elem`, `rp_fault_elem`,
  `f_add_PostEncodingSOAP`: formatting, or called from nowhere.
* `sp_execMs_dashV` and the body of `rp_getMsVers` behind it, which cannot be
  reached, since the name called is defined nowhere.
* The four strings that `rp_get_contentType` compares: SoapProxy has their
  classes.
* Packaging, service descriptors and the SoapUI projects.

## Plan

The order in which this was written, the most exposed part first: BackendCall and
ExecMapserv, HeaderBlob, SoapProxy, XmlTree with Capabilities, Lineage,
Properties, MimePart; each with its runs, then its proofs. What is left:

1. SoapProxy with `Lineage` and `Capabilities` in the place of its action
   `After`, so that the shape of an answer decides the outcome.
2. The environment that `do_child` builds from the properties.
