-------------------------- MODULE ScriptedConnection --------------------------
(***************************************************************************)
(* A connection whose requests come from the script and whose responses    *)
(* go to it (src/script.c, src/wrk.c): request() is called for a batch,    *)
(* sock.write takes the batch piece by piece (over TLS with OpenSSL's rule *)
(* for a write that is retried), the parser's callbacks collect header     *)
(* strings and body in two growing buffers, and response_complete matches  *)
(* them against --expect-body and hands them to response().                *)
(*                                                                         *)
(* Bytes are counted, not spelled: a string is its length, a batch has an  *)
(* identity and a length.  The server answers whole batches.               *)
(***************************************************************************)
EXTENDS Integers, Sequences

CONSTANTS
    Tls,               \* BOOLEAN values: sock is ssl_* or sock_*
    Lengths,           \* lengths of what request() may return
    Pieces,            \* lengths of what a callback of the parser may be given
    Increment,         \* what buffer_append enlarges a buffer by (1024)
    MaxFields,         \* bound: headers of a response
    MaxUsed,           \* bound: bytes in a buffer
    NoCall

ASSUME ScriptedAssumption ==
    /\ Tls \subseteq BOOLEAN
    /\ Lengths \subseteq Nat \ {0} /\ Pieces \subseteq Nat
    /\ Increment \in Nat \ {0} /\ MaxFields \in Nat /\ MaxUsed \in Nat

Identities == 0 .. 2      \* of batches: told apart from the two before

VARIABLES
    \* how the run was set up; these do not change
    tls, dynamic,      \* request() is a function of the script, or its text is fixed
    want_response, expect_body,
    \* struct connection
    request, written,  \* the batch [id, length], and how much of it was written
    state, headers, body,
    \* the parser and the socket
    parser,            \* what the parser has seen of the response
    ssl,               \* how much of the batch a retried SSL_write has already taken
    wire,              \* identities of the batch's bytes that the socket took
    \* history
    own,               \* the strings and the body of the response being read
    leftover,          \* the buffers hold what an earlier response left in them
    call               \* what response(), or --expect-body, was last given

setup == <<tls, dynamic, want_response, expect_body>>
sending == <<request, written, ssl, wire>>
vars == <<setup, sending, state, headers, body, parser, own, leftover, call>>

\* A buffer: its allocation, its cursor, the strings in it that are terminated and
\* the length of the one that is not.  A body is one string, with or without S.
Null == [length |-> 0, used |-> 0, strings |-> <<>>, tail |-> 0, matches |-> FALSE]

Nothing == [strings |-> <<>>, body |-> 0, matches |-> FALSE]

Init ==
    /\ tls \in Tls /\ dynamic \in BOOLEAN
    /\ want_response \in BOOLEAN /\ expect_body \in BOOLEAN
    /\ request \in [id : {0}, length : Lengths] /\ written = 0
    /\ state = "FIELD" /\ headers = Null /\ body = Null
    /\ parser = "idle" /\ ssl = 0 /\ wire = <<>>
    /\ own = Nothing /\ leftover = FALSE /\ call = NoCall

-------------------------------------------------------------------------------
(* script_request, sock_write, ssl_write, socket_writeable *)

\* request() is called again whenever nothing of the batch counts as written; its
\* text may move to another place.
ScriptRequest ==
    IF dynamic /\ written = 0
      THEN \E n \in Lengths :
             request' = [id |-> (request.id + 1) % 3, length |-> n]
      ELSE UNCHANGED request

Units(n) == [i \in 1 .. n |-> request'.id]

\* send() takes some of it, or nothing.
SockWrite ==
    /\ ~tls
    /\ \E n \in 0 .. request'.length - written :
         /\ wire' = wire \o Units(n)
         /\ written' = (written + n) % request'.length
         /\ parser' = IF written + n = request'.length THEN "awaiting" ELSE parser
    /\ UNCHANGED ssl

\* Mutant: a retried write starts the batch over.
SslWriteRestarts ==
    /\ tls
    /\ \E n \in 0 .. request'.length :
         /\ wire' = wire \o Units(n)
         /\ ssl' = 0
         /\ parser' = IF n = request'.length THEN "awaiting" ELSE parser
    /\ UNCHANGED written

\* SSL_write returns only when it has taken all; until then it must be called with
\* the same buffer, which it continues behind what it has already taken.
SslWrite ==
    /\ tls /\ request'.length >= ssl
    /\ \E n \in ssl .. request'.length :
         /\ wire' = wire \o Units(n - ssl)
         /\ ssl' = n % request'.length
         /\ parser' = IF n = request'.length THEN "awaiting" ELSE parser
    /\ UNCHANGED written

SocketWriteable ==
    /\ parser = "idle"
    /\ ScriptRequest
    /\ SockWrite \/ SslWrite
    /\ UNCHANGED <<setup, state, headers, body, own, leftover, call>>

-------------------------------------------------------------------------------
(* buffer_append, buffer_reset *)

\* Mutant: one byte less is kept free.
EnlargedTight(length, needed) ==
    IF needed - 1 <= length THEN length
    ELSE length + Increment * ((needed - length) \div Increment + 1)

\* while (needed >= length) length += 1024
Enlarged(length, needed) ==
    IF needed < length THEN length
    ELSE length + Increment * ((needed - length) \div Increment + 1)

BufferAppend(b, n) ==
    [b EXCEPT !.length = Enlarged(@, b.used + n + 1), !.used = @ + n, !.tail = @ + n]

BufferReset(b) == [Null EXCEPT !.length = b.length]

\* *cursor++ = '\0': the buffer is not enlarged for it.
Terminate(b) ==
    [b EXCEPT !.used = @ + 1, !.strings = Append(@, b.tail), !.tail = 0]

-------------------------------------------------------------------------------
(* header_field, header_value, response_body *)

\* Bookkeeping: the string that a callback begins, or goes on with.
Begin(n) == own' = [own EXCEPT !.strings = Append(@, n)]
Continue(n) == own' = [own EXCEPT !.strings[Len(own.strings)] = @ + n]

HeaderField(n) ==
    /\ want_response
    /\ \/ parser \in {"awaiting", "value"} /\ Len(own.strings) < 2 * MaxFields /\ Begin(n)
       \/ parser = "field" /\ Continue(n)
    /\ n > 0 /\ headers.used + n < MaxUsed
    /\ parser' = "field" /\ state' = "FIELD"
    /\ headers' = BufferAppend(IF state = "VALUE" THEN Terminate(headers) ELSE headers, n)
    /\ call' = NoCall
    /\ UNCHANGED <<setup, sending, body, leftover>>

\* Mutant: the flag is not changed.
HeaderValueSameState(n) ==
    /\ want_response
    /\ \/ parser = "field" /\ Begin(n)
       \/ parser = "value" /\ Continue(n)
    /\ headers.used + n < MaxUsed
    /\ parser' = "value" /\ UNCHANGED state
    /\ headers' = BufferAppend(IF state = "FIELD" THEN Terminate(headers) ELSE headers, n)
    /\ call' = NoCall
    /\ UNCHANGED <<setup, sending, body, leftover>>

HeaderValue(n) ==
    /\ want_response
    /\ \/ parser = "field" /\ Begin(n)
       \/ parser = "value" /\ Continue(n)
    /\ headers.used + n < MaxUsed
    /\ parser' = "value" /\ state' = "VALUE"
    /\ headers' = BufferAppend(IF state = "FIELD" THEN Terminate(headers) ELSE headers, n)
    /\ call' = NoCall
    /\ UNCHANGED <<setup, sending, body, leftover>>

\* A piece of the body, which may complete the text that is expected.
ResponseBody(n) ==
    /\ want_response \/ expect_body
    /\ parser \in {"awaiting", "value", "body"}
    /\ n > 0 /\ body.used + n < MaxUsed
    /\ parser' = "body"
    /\ \E m \in BOOLEAN :
         /\ body' = [BufferAppend(body, n) EXCEPT !.matches = @ \/ m]
         /\ own' = [own EXCEPT !.body = @ + n, !.matches = @ \/ m]
    /\ call' = NoCall
    /\ UNCHANGED <<setup, sending, state, headers, leftover>>

-------------------------------------------------------------------------------
(* response_complete, script_response, reconnect_socket *)

\* Mutant: the body is not reset.
ScriptResponseKeepsBody ==
    /\ headers' = BufferReset(headers) /\ body' = body
    /\ state' = "FIELD" /\ leftover' = FALSE

\* response() is called with the strings in pairs; then both buffers are reset.
ScriptResponse ==
    /\ headers' = BufferReset(headers) /\ body' = BufferReset(body)
    /\ state' = "FIELD" /\ leftover' = FALSE

\* What the response is measured by: the body, and what response() is given.
Given(handed) ==
    [strings |-> IF handed THEN Terminate(headers).strings ELSE <<>>,
     body |-> body.used, matches |-> body.matches,
     own |-> own, sure |-> ~leftover /\ (want_response => own.strings # <<>>)]

\* The batch may have further, pipelined, responses.
NextResponse ==
    /\ parser' \in {"idle", "awaiting"} /\ own' = Nothing
    /\ wire' = IF parser' = "idle" THEN <<>> ELSE wire
    /\ UNCHANGED <<setup, request, written, ssl>>

\* response() is not called when no header was ever seen on the connection.
ResponseComplete ==
    /\ parser \in {"awaiting", "value", "body"}
    /\ call' = IF want_response \/ expect_body THEN Given(headers.length > 0) ELSE NoCall
    /\ IF headers.length > 0 THEN ScriptResponse
       ELSE /\ body' = IF expect_body THEN BufferReset(body) ELSE body
            /\ leftover' = (body'.used > 0)
            /\ UNCHANGED <<state, headers>>
    /\ NextResponse

\* Once the run stops: response_complete returns before it looks at the buffers.
ResponseIgnored ==
    /\ parser \in {"awaiting", "value", "body"}
    /\ leftover' = (leftover \/ headers.used > 0 \/ body.used > 0)
    /\ call' = NoCall
    /\ NextResponse
    /\ UNCHANGED <<state, headers, body>>

\* The socket is lost, at any moment: written and SSL start anew with the next one,
\* the buffers and state stay as they are.
ReconnectSocket ==
    /\ parser' = "idle" /\ own' = Nothing /\ wire' = <<>>
    /\ written' = 0 /\ ssl' = 0 /\ call' = NoCall
    /\ leftover' = (leftover \/ headers.used > 0 \/ body.used > 0)
    /\ UNCHANGED <<setup, request, state, headers, body>>

Next ==
    \/ SocketWriteable \/ ResponseComplete \/ ResponseIgnored \/ ReconnectSocket
    \/ \E n \in Pieces : HeaderField(n) \/ HeaderValue(n) \/ ResponseBody(n)

Spec == Init /\ [][Next]_vars

-------------------------------------------------------------------------------
(* Properties *)

Buffers == [length : Nat, used : Nat, strings : Seq(Nat), tail : Nat, matches : BOOLEAN]

\* Every variable has its type.
TypeOK ==
    /\ tls \in BOOLEAN /\ dynamic \in BOOLEAN
    /\ want_response \in BOOLEAN /\ expect_body \in BOOLEAN
    /\ request \in [id : Identities, length : Nat \ {0}] /\ written \in Nat /\ ssl \in Nat
    /\ state \in {"FIELD", "VALUE"} /\ headers \in Buffers /\ body \in Buffers
    /\ parser \in {"idle", "awaiting", "field", "value", "body"}

\* The terminators that header_field, header_value and response_complete write
\* without asking for room always have it, whatever lengths the parser delivers,
\* wherever a socket is lost or the run stops: buffer_append leaves room for one, and there are
\* never two without a buffer_append or a reset in between.
RoomForTerminator ==
    /\ headers.length > 0 => headers.used < headers.length
    /\ parser = "field" \/ state = "VALUE" => headers.length > 0

\* response() is given the header strings and the body of its own response, whole
\* and in order, in however many pieces they came, and --expect-body judges it by
\* its own body - unless an earlier response was cut off, or this one has no header.
ResponseIsOwn ==
    call # NoCall /\ call.sure =>
        /\ want_response => call.strings = call.own.strings /\ call.body = call.own.body
        /\ call.matches = call.own.matches

\* What the server reads as one batch is what one call of request() returned: a
\* batch is never continued with the text of another one.  Excepted is a dynamic
\* batch over TLS (README, section 8).
BatchIsWhole ==
    ~(tls /\ dynamic) =>
        /\ \A i \in DOMAIN wire : wire[i] = request.id
        /\ parser \in {"awaiting", "field", "value", "body"} => Len(wire) = request.length

\* What SCRIPTING and the options promise without those conditions; neither holds.
ResponseIsAlwaysOwn ==
    call # NoCall => /\ want_response => call.strings = call.own.strings
                     /\ call.matches = call.own.matches
BatchIsAlwaysWhole == \A i \in DOMAIN wire : wire[i] = request.id
===============================================================================
