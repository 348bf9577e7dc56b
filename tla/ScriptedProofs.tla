----------------------------- MODULE ScriptedProofs -----------------------------
(***************************************************************************)
(* What holds between a connection and its script for every increment of   *)
(* the buffers, every length the parser can deliver and every length and   *)
(* piece of a batch: there is room for the terminators that are written    *)
(* without asking (Inv), a batch on the wire is one batch (BatchInv), and  *)
(* the buffers hold the response being read (OwnInv).                      *)
(***************************************************************************)
EXTENDS ScriptedConnection, SequenceTheorems, TLAPS

\* The flag says VALUE only when something was appended before, and a buffer that
\* exists has a byte left; that is also what the next callback leaves behind.
Inv == TypeOK /\ RoomForTerminator

\* A buffer is enlarged by so many increments that it exceeds what is needed.
LEMMA EnlargedIsEnough ==
    ASSUME NEW length \in Nat, NEW needed \in Nat
    PROVE  Enlarged(length, needed) \in Nat /\ Enlarged(length, needed) > needed
<1>1. CASE needed < length
  BY <1>1 DEF Enlarged
<1>2. CASE ~(needed < length)
  <2> DEFINE more == needed - length
             n    == more \div Increment
  <2>1. more \in Nat /\ Increment \in Nat \ {0}
    BY <1>2, ScriptedAssumption
  <2>2. n \in Nat /\ more < Increment * (n + 1)
    BY <2>1
  <2>3. Increment * (n + 1) \in Nat
    BY <2>1, <2>2
  <2>4. Enlarged(length, needed) = length + Increment * (n + 1)
    BY <1>2 DEF Enlarged
  <2>5. needed = length + more
    BY <2>1
  <2> HIDE DEF n, more
  <2> QED
    BY <2>1, <2>2, <2>3, <2>4, <2>5
<1> QED
  BY <1>1, <1>2

\* The fields of a buffer, and of one whose fields are changed.
LEMMA FieldTypes ==
    ASSUME NEW b \in Buffers
    PROVE  /\ b.length \in Nat /\ b.used \in Nat /\ b.tail \in Nat
           /\ b.strings \in Seq(Nat) /\ b.matches \in BOOLEAN
BY Zenon DEF Buffers

\* The same without regard to what the last field is.
Records(S, B) == [length : Nat, used : Nat, strings : S, tail : Nat, matches : B]

Appended(b, l, u, t) == [b EXCEPT !.length = l, !.used = u, !.tail = t]

\* What buffer_append assigns has its types.
LEMMA AppendFields ==
    ASSUME NEW S, NEW B, NEW b \in Records(S, B),
           NEW l \in Nat, NEW u \in Nat, NEW t \in Nat
    PROVE  /\ Appended(b, l, u, t) \in Records(S, B)
           /\ Appended(b, l, u, t).length = l
           /\ Appended(b, l, u, t).used = u
BY DEF Records, Appended

\* What a terminator changes has its types.
LEMMA TerminateFields ==
    ASSUME NEW S, NEW B, NEW b \in Records(S, B),
           NEW u \in Nat, NEW s \in S, NEW t \in Nat
    PROVE  [b EXCEPT !.used = u, !.strings = s, !.tail = t] \in Records(S, B)
BY DEF Records

\* What a match of --expect-body changes has its types.
LEMMA MatchField ==
    ASSUME NEW S, NEW B, NEW b \in Records(S, B), NEW m \in B
    PROVE  [b EXCEPT !.matches = m] \in Records(S, B)
BY DEF Records

\* A buffer that is empty, with or without an allocation.
LEMMA MadeAnew ==
    ASSUME NEW S, NEW B,
           NEW l \in Nat, NEW x \in Nat, NEW z \in Nat, NEW s \in S, NEW m \in B
    PROVE  LET null == [length |-> x, used |-> z, strings |-> s, tail |-> z, matches |-> m]
           IN  /\ null \in Records(S, B) /\ null.length = x /\ null.used = z
               /\ [null EXCEPT !.length = l] \in Records(S, B)
               /\ [null EXCEPT !.length = l].length = l
               /\ [null EXCEPT !.length = l].used = z
BY DEF Records

\* Buffers, as one of those.
LEMMA BuffersAreRecords == Buffers = Records(Seq(Nat), BOOLEAN)
BY Zenon DEF Buffers, Records

\* Appending leaves a byte free.
LEMMA AppendLeavesRoom ==
    ASSUME NEW b \in Buffers, NEW n \in Nat
    PROVE  /\ BufferAppend(b, n) \in Buffers
           /\ BufferAppend(b, n).used < BufferAppend(b, n).length
<1> DEFINE l == Enlarged(b.length, b.used + n + 1)
           u == b.used + n
           t == b.tail + n
<1>1. b.length \in Nat /\ b.used \in Nat /\ b.tail \in Nat /\ b.used + n + 1 \in Nat
  BY FieldTypes
<1>2. l \in Nat /\ l > b.used + n + 1
  BY <1>1, EnlargedIsEnough
<1>3. u \in Nat /\ t \in Nat /\ u < l
  BY <1>1, <1>2
<1>4. BufferAppend(b, n) = Appended(b, l, u, t)
  BY Zenon DEF BufferAppend, Appended
<1> HIDE DEF l, u, t
<1>5. b \in Records(Seq(Nat), BOOLEAN)
  BY BuffersAreRecords, Zenon
<1>6. /\ Appended(b, l, u, t) \in Records(Seq(Nat), BOOLEAN)
      /\ Appended(b, l, u, t).length = l /\ Appended(b, l, u, t).used = u
  <2>1. l \in Nat /\ u \in Nat /\ t \in Nat
    BY <1>2, <1>3
  <2> QED
    BY <2>1, <1>5, AppendFields
<1> QED
  BY <1>3, <1>4, <1>6, BuffersAreRecords, Zenon

\* A buffer stays one behind a terminator.
LEMMA TerminateType == ASSUME NEW b \in Buffers PROVE Terminate(b) \in Buffers
<1> DEFINE u == b.used + 1
           s == Append(b.strings, b.tail)
<1>1. u \in Nat /\ s \in Seq(Nat) /\ 0 \in Nat
  BY FieldTypes
<1>2. Terminate(b) = [b EXCEPT !.used = u, !.strings = s, !.tail = 0]
  BY Zenon DEF Terminate
<1> HIDE DEF u, s
<1> DEFINE R == Records(Seq(Nat), BOOLEAN)
<1>3. b \in R
  BY BuffersAreRecords, Zenon
<1>4. [b EXCEPT !.used = u, !.strings = s, !.tail = 0] \in R
  BY <1>1, <1>3, TerminateFields, Zenon
<1> QED
  BY <1>2, <1>4, BuffersAreRecords, Zenon

\* The buffer of a connection that has not been used.
LEMMA NullType == Null \in Buffers /\ Null.length = 0 /\ Null.used = 0
<1>1. 0 \in Nat /\ <<>> \in Seq(Nat) /\ FALSE \in BOOLEAN
  OBVIOUS
<1> QED
  BY <1>1, MadeAnew, BuffersAreRecords, Zenon DEF Null

\* Emptying a buffer that exists leaves all of it free.
LEMMA ResetLeavesRoom ==
    ASSUME NEW b \in Buffers
    PROVE  /\ BufferReset(b) \in Buffers /\ BufferReset(b).length = b.length
           /\ BufferReset(b).used = 0
<1>1. 0 \in Nat /\ <<>> \in Seq(Nat) /\ FALSE \in BOOLEAN
  OBVIOUS
<1> QED
  BY <1>1, MadeAnew, FieldTypes, BuffersAreRecords, Zenon DEF BufferReset, Null

\* Both buffers start empty.
LEMMA InitInv == Init => Inv
<1> SUFFICES ASSUME Init PROVE Inv
  OBVIOUS
<1>1. request \in [id : Identities, length : Nat \ {0}]
  <2>1. 0 \in Identities /\ Lengths \subseteq Nat \ {0}
    BY ScriptedAssumption DEF Identities
  <2>2. request \in [id : {0}, length : Lengths]
    BY DEF Init
  <2> QED
    BY <2>1, <2>2
<1>2. headers \in Buffers /\ headers.length = 0 /\ body \in Buffers /\ 0 \in Nat
  BY NullType DEF Init
<1>3. TypeOK
  BY <1>1, <1>2, ScriptedAssumption, Zenon DEF Init, TypeOK
<1>4. RoomForTerminator
  BY <1>2 DEF Init, RoomForTerminator
<1> QED
  BY <1>3, <1>4 DEF Inv

\* A write does not touch the buffers.
LEMMA WriteableInv == ASSUME Inv, SocketWriteable PROVE Inv'
<1> USE DEF Inv
<1>1. request' \in [id : Identities, length : Nat \ {0}]
  BY ScriptedAssumption DEF SocketWriteable, ScriptRequest, TypeOK, Identities
<1>2. written' \in Nat /\ ssl' \in Nat /\ parser' \in {"idle", "awaiting"}
  <2>1. CASE SockWrite
    BY <1>1, <2>1 DEF SocketWriteable, SockWrite, TypeOK
  <2>2. CASE SslWrite
    BY <1>1, <2>2 DEF SocketWriteable, SslWrite, TypeOK
  <2> QED
    BY <2>1, <2>2 DEF SocketWriteable
<1> QED
  BY <1>1, <1>2 DEF SocketWriteable, TypeOK, RoomForTerminator, setup

\* header_field and header_value append to the headers, perhaps behind a terminator.
LEMMA HeaderInv ==
    ASSUME Inv, NEW n \in Pieces, HeaderField(n) \/ HeaderValue(n)
    PROVE  Inv'
<1> USE DEF Inv
<1>1. n \in Nat
  BY ScriptedAssumption
<1>2. PICK b \in {headers, Terminate(headers)} : headers' = BufferAppend(b, n)
  BY DEF HeaderField, HeaderValue
<1>3. b \in Buffers
  BY <1>2, TerminateType DEF TypeOK
<1>4. headers' \in Buffers /\ headers'.used < headers'.length
  BY <1>1, <1>2, <1>3, AppendLeavesRoom
<1>5. {headers'.used, headers'.length} \subseteq Nat
  BY <1>4, FieldTypes
<1>6. TypeOK'
  BY <1>4 DEF HeaderField, HeaderValue, TypeOK, setup, sending
<1>7. RoomForTerminator'
  BY <1>4, <1>5 DEF RoomForTerminator
<1> QED
  BY <1>6, <1>7

\* response_body appends to the body, and a match changes no length.
LEMMA BodyInv == ASSUME Inv, NEW n \in Pieces, ResponseBody(n) PROVE Inv'
<1> USE DEF Inv
<1>1. n \in Nat
  BY ScriptedAssumption
<1>2. BufferAppend(body, n) \in Buffers
  BY <1>1, AppendLeavesRoom DEF TypeOK
<1>3. body.matches \in BOOLEAN
  BY FieldTypes DEF TypeOK
<1>4. PICK m \in BOOLEAN : body' = [BufferAppend(body, n) EXCEPT !.matches = @ \/ m]
  BY DEF ResponseBody
<1>5. body' \in Buffers
  <2> DEFINE a == BufferAppend(body, n)
  <2>1. (a.matches \/ m) \in BOOLEAN
    OBVIOUS
  <2> HIDE DEF a
  <2> QED
    BY <1>2, <1>4, <2>1, MatchField, BuffersAreRecords, Zenon DEF a
<1> QED
  BY <1>5 DEF ResponseBody, TypeOK, RoomForTerminator, setup, sending

\* response_complete resets what exists.
LEMMA CompleteInv == ASSUME Inv, ResponseComplete PROVE Inv'
<1> USE DEF Inv
<1>1. /\ BufferReset(headers) \in Buffers /\ BufferReset(body) \in Buffers
      /\ BufferReset(headers).used = 0 /\ BufferReset(headers).length = headers.length
  BY ResetLeavesRoom DEF TypeOK
<1>2. headers.length \in Nat
  BY FieldTypes DEF TypeOK
<1>3. parser' \in {"idle", "awaiting"} /\ UNCHANGED <<setup, request, written, ssl>>
  BY DEF ResponseComplete, NextResponse
<1>4. CASE headers.length > 0
  <2>1. headers' = BufferReset(headers) /\ body' = BufferReset(body) /\ state' = "FIELD"
    BY <1>4 DEF ResponseComplete, ScriptResponse
  <2> QED
    BY <1>1, <1>2, <1>3, <2>1 DEF TypeOK, RoomForTerminator, setup
<1>5. CASE ~(headers.length > 0)
  <2>1. body' \in {body, BufferReset(body)} /\ UNCHANGED <<state, headers>>
    BY <1>5 DEF ResponseComplete
  <2> QED
    BY <1>1, <1>3, <2>1 DEF TypeOK, RoomForTerminator, setup
<1> QED
  BY <1>4, <1>5

\* A response that is ignored, and a lost socket, leave the buffers as they are.
LEMMA OtherInv ==
    ASSUME Inv, ResponseIgnored \/ ReconnectSocket \/ UNCHANGED vars
    PROVE  Inv'
<1>1. CASE ResponseIgnored
  BY <1>1 DEF Inv, ResponseIgnored, NextResponse, TypeOK, RoomForTerminator, setup
<1>2. CASE ReconnectSocket
  BY <1>2 DEF Inv, ReconnectSocket, TypeOK, RoomForTerminator, setup
<1>3. CASE UNCHANGED vars
  BY <1>3 DEF Inv, TypeOK, RoomForTerminator, vars, setup, sending
<1> QED
  BY <1>1, <1>2, <1>3

\* The invariant of the buffers.
LEMMA Inductive == Spec => []Inv
<1>1. ASSUME Inv, [Next]_vars PROVE Inv'
  BY <1>1, WriteableInv, HeaderInv, BodyInv, CompleteInv, OtherInv DEF Next
<1> QED
  BY <1>1, InitInv, PTL DEF Spec

\* The '\0' after a header string is always inside the buffer, although it is written
\* without buffer_append: whatever the lengths of the pieces, the increment, and the
\* moments at which sockets are lost.
THEOREM TerminatorsHaveRoom == Spec => []RoomForTerminator
<1>1. Inv => RoomForTerminator
  BY DEF Inv
<1> QED
  BY <1>1, Inductive, PTL

\* Every variable has its type.
THEOREM TypeCorrect == Spec => []TypeOK
<1>1. Inv => TypeOK
  BY DEF Inv
<1> QED
  BY <1>1, Inductive, PTL

-------------------------------------------------------------------------------
(* Batches *)

\* What c->written, or OpenSSL over TLS, counts of the batch as taken.
Sent == IF tls THEN ssl ELSE written

\* Until the batch is whole, what the socket took of it is what is counted; after
\* that nothing is counted.
BatchInv ==
    ~(tls /\ dynamic) =>
        /\ wire \in Seq(Identities)
        /\ \A i \in 1 .. Len(wire) : wire[i] = request.id
        /\ Len(wire) = IF parser = "idle" THEN Sent ELSE request.length
        /\ Sent < request.length
        /\ parser # "idle" => Sent = 0
        /\ tls => written = 0

\* A piece of n bytes more.
LEMMA Extended ==
    ASSUME NEW T, NEW w \in Seq(T), NEW x \in T, NEW n \in Nat,
           NEW v, v = w \o [i \in 1 .. n |-> x]
    PROVE  /\ v \in Seq(T) /\ Len(v) = Len(w) + n
           /\ \A i \in 1 .. Len(v) : v[i] = IF i <= Len(w) THEN w[i] ELSE x
<1> DEFINE u == [i \in 1 .. n |-> x]
<1>1. u \in Seq(T) /\ Len(u) = n
  OBVIOUS
<1>2. \A i \in 1 .. n : u[i] = x
  OBVIOUS
<1>3. Len(w) \in Nat
  OBVIOUS
<1> HIDE DEF u
<1>4. v = w \o u
  BY DEF u
<1>5. v \in Seq(T) /\ Len(v) = Len(w) + n
  BY <1>1, <1>4
<1>6. ASSUME NEW i \in 1 .. Len(v)
      PROVE  v[i] = IF i <= Len(w) THEN w[i] ELSE u[i - Len(w)]
  BY <1>1, <1>3, <1>4, <1>5
<1>7. ASSUME NEW i \in 1 .. Len(v), ~(i <= Len(w))
      PROVE  i - Len(w) \in 1 .. n
  BY <1>3, <1>5, <1>7
<1> QED
  BY <1>2, <1>5, <1>6, <1>7

\* The piece is of the batch, and a batch begun anew has nothing on the wire.
LEMMA PieceOfBatch ==
    ASSUME Inv, Inv', BatchInv, SocketWriteable, ~(tls /\ dynamic), NEW n \in Nat,
           wire' = wire \o Units(n)
    PROVE  /\ wire' \in Seq(Identities) /\ Len(wire') = Sent + n
           /\ \A i \in 1 .. Len(wire') : wire'[i] = request'.id
           /\ Sent \in Nat /\ Len(wire) = Sent
           /\ request'.length \in Nat \ {0} /\ Sent < request'.length
<1>1. request \in [id : Identities, length : Nat \ {0}]
      /\ request' \in [id : Identities, length : Nat \ {0}]
      /\ written \in Nat /\ ssl \in Nat
  BY DEF Inv, TypeOK
<1>2. Sent \in Nat /\ Sent < request.length /\ Len(wire) = Sent /\ wire \in Seq(Identities)
      /\ \A i \in 1 .. Len(wire) : wire[i] = request.id
  BY <1>1 DEF BatchInv, Sent, SocketWriteable
<1>3. request' = request \/ Sent = 0
  BY DEF SocketWriteable, ScriptRequest, BatchInv, Sent
<1>4. request'.id \in Identities /\ request'.length \in Nat \ {0}
  BY <1>1
<1>5. Units(n) = [i \in 1 .. n |-> request'.id]
  BY DEF Units
<1>6. /\ wire' \in Seq(Identities) /\ Len(wire') = Len(wire) + n
      /\ \A i \in 1 .. Len(wire') : wire'[i] = IF i <= Len(wire) THEN wire[i] ELSE request'.id
  <2> DEFINE x == request'.id
  <2>1. x \in Identities /\ wire \in Seq(Identities)
    BY <1>2, <1>4
  <2>2. wire' = wire \o [i \in 1 .. n |-> x]
    BY <1>5
  <2> HIDE DEF x
  <2>3. /\ wire' \in Seq(Identities) /\ Len(wire') = Len(wire) + n
        /\ \A i \in 1 .. Len(wire') : wire'[i] = IF i <= Len(wire) THEN wire[i] ELSE x
    BY <2>1, <2>2, Extended
  <2> QED
    BY <2>3 DEF x
<1>7. ASSUME NEW i \in 1 .. Len(wire')
      PROVE  wire'[i] = request'.id
  <2>1. i <= Len(wire) => Sent # 0 /\ wire[i] = request.id
    BY <1>2
  <2> QED
    BY <1>3, <1>6, <2>1
<1>8. Sent < request'.length
  BY <1>2, <1>3, <1>4
<1> QED
  BY <1>2, <1>4, <1>6, <1>7, <1>8

\* m of a batch of k: what is counted is m, or nothing when that is all.
LEMMA Counted ==
    ASSUME NEW k \in Nat \ {0}, NEW m \in 0 .. k
    PROVE  /\ m % k \in Nat /\ m % k < k
           /\ m % k = IF m = k THEN 0 ELSE m
<1>1. CASE m = k
  BY <1>1
<1>2. CASE m < k
  BY <1>2
<1> QED
  BY <1>1, <1>2

\* A write keeps BatchInv.
LEMMA WriteableBatch ==
    ASSUME Inv, Inv', BatchInv, SocketWriteable
    PROVE  BatchInv'
<1> SUFFICES ASSUME ~(tls /\ dynamic)' PROVE BatchInv'
  BY DEF BatchInv
<1>1. tls' = tls /\ dynamic' = dynamic /\ ~(tls /\ dynamic) /\ parser = "idle"
  BY DEF SocketWriteable, setup
<1>2. tls => written = 0
  BY <1>1 DEF BatchInv
<1>3. CASE SockWrite
  <2>1. PICK n \in 0 .. request'.length - written :
          /\ wire' = wire \o Units(n)
          /\ written' = (written + n) % request'.length
          /\ parser' = IF written + n = request'.length THEN "awaiting" ELSE parser
    BY <1>3 DEF SockWrite
  <2>2. ~tls /\ Sent = written
    BY <1>3 DEF SockWrite, Sent
  <2>3. n \in Nat /\ request'.length \in Nat \ {0}
        /\ written \in Nat /\ written + n \in 0 .. request'.length
    <3>1. request'.length \in Nat \ {0} /\ written \in Nat
      BY DEF Inv, TypeOK
    <3> QED
      BY <2>1, <3>1
  <2>4. /\ wire' \in Seq(Identities) /\ Len(wire') = written + n
        /\ \A i \in 1 .. Len(wire') : wire'[i] = request'.id
    BY <1>1, <2>1, <2>2, <2>3, PieceOfBatch
  <2>5. /\ written' < request'.length
        /\ written' = IF written + n = request'.length THEN 0 ELSE written + n
    BY <2>1, <2>3, Counted
  <2>6. Sent' = written'
    BY <1>1, <2>2 DEF Sent
  <2> QED
    BY <1>1, <2>1, <2>2, <2>4, <2>5, <2>6 DEF BatchInv
<1>4. CASE SslWrite
  <2>1. PICK n \in ssl .. request'.length :
          /\ wire' = wire \o Units(n - ssl)
          /\ ssl' = n % request'.length
          /\ parser' = IF n = request'.length THEN "awaiting" ELSE parser
    BY <1>4 DEF SslWrite
  <2>2. tls /\ Sent = ssl /\ written' = written
    BY <1>4 DEF SslWrite, Sent
  <2>3. n - ssl \in Nat /\ request'.length \in Nat \ {0}
        /\ ssl \in Nat /\ n \in 0 .. request'.length /\ ssl + (n - ssl) = n
    <3>1. request'.length \in Nat \ {0} /\ ssl \in Nat
      BY DEF Inv, TypeOK
    <3> QED
      BY <2>1, <3>1
  <2>4. /\ wire' \in Seq(Identities) /\ Len(wire') = n
        /\ \A i \in 1 .. Len(wire') : wire'[i] = request'.id
    BY <1>1, <2>1, <2>2, <2>3, PieceOfBatch
  <2>5. /\ ssl' < request'.length
        /\ ssl' = IF n = request'.length THEN 0 ELSE n
    BY <2>1, <2>3, Counted
  <2>6. Sent' = ssl'
    BY <1>1, <2>2 DEF Sent
  <2> QED
    BY <1>1, <1>2, <2>1, <2>2, <2>4, <2>5, <2>6 DEF BatchInv
<1> QED
  BY <1>3, <1>4 DEF SocketWriteable

\* Every step keeps BatchInv.
LEMMA BatchStep ==
    ASSUME Inv, Inv', BatchInv, [Next]_vars
    PROVE  BatchInv'
<1>1. request \in [id : Identities, length : Nat \ {0}]
  BY DEF Inv, TypeOK
<1>2. CASE SocketWriteable
  BY <1>2, WriteableBatch
<1>3. CASE ResponseComplete \/ ResponseIgnored
  <2>1. /\ parser # "idle" /\ parser' \in {"idle", "awaiting"}
        /\ wire' = (IF parser' = "idle" THEN <<>> ELSE wire)
        /\ UNCHANGED <<setup, request, written, ssl>>
    BY <1>3 DEF ResponseComplete, ResponseIgnored, NextResponse
  <2> QED
    BY <2>1 DEF BatchInv, Sent, setup
<1>4. CASE ReconnectSocket
  BY <1>1, <1>4 DEF ReconnectSocket, BatchInv, Sent, setup
<1>5. CASE \E n \in Pieces : HeaderField(n) \/ HeaderValue(n) \/ ResponseBody(n)
  <2>1. /\ parser # "idle" /\ parser' # "idle"
        /\ UNCHANGED <<setup, sending>>
    BY <1>5 DEF HeaderField, HeaderValue, ResponseBody
  <2> QED
    BY <2>1 DEF BatchInv, Sent, setup, sending
<1>6. CASE UNCHANGED vars
  BY <1>6 DEF vars, BatchInv, Sent, setup, sending
<1> QED
  BY <1>2, <1>3, <1>4, <1>5, <1>6 DEF Next

\* The server never reads one batch continued with the text of another, nor a part of
\* one as a whole: for batches of any length, taken in pieces of any length, with
\* writes that block and sockets that are lost anywhere - over TLS, where OpenSSL
\* counts what it has taken, when the text of the batch is fixed.
THEOREM BatchesAreWhole == Spec => []BatchIsWhole
<1>1. Init => BatchInv
  <2> SUFFICES ASSUME Init PROVE BatchInv
    OBVIOUS
  <2>1. request.length \in Nat \ {0}
    BY ScriptedAssumption DEF Init
  <2> QED
    BY <2>1 DEF Init, BatchInv, Sent
<1>2. Inv /\ Inv' /\ BatchInv /\ [Next]_vars => BatchInv'
  BY BatchStep
<1>3. BatchInv => BatchIsWhole
  <2> SUFFICES ASSUME BatchInv, ~(tls /\ dynamic)
               PROVE  /\ \A i \in DOMAIN wire : wire[i] = request.id
                      /\ parser # "idle" => Len(wire) = request.length
    BY DEF BatchIsWhole
  <2>1. DOMAIN wire = 1 .. Len(wire)
    BY DEF BatchInv
  <2> QED
    BY <2>1 DEF BatchInv
<1> QED
  BY <1>1, <1>2, <1>3, Inductive, PTL DEF Spec

-------------------------------------------------------------------------------
(* Responses *)

Strings == [strings : Seq(Nat), body : Nat, matches : BOOLEAN]

\* The buffers hold what the parser delivered of the response being read, when an
\* earlier one left nothing in them; an empty one is as if it were new.
OwnInv ==
    /\ own \in Strings
    /\ headers.length = 0 => headers.used = 0
    /\ headers.used = 0 =>
         headers.strings = <<>> /\ headers.tail = 0 /\ state = "FIELD"
    /\ body.used = 0 => ~body.matches
    /\ parser \in {"idle", "awaiting"} => own = Nothing
    /\ parser = "field" => state = "FIELD" /\ own.strings # <<>>
    /\ parser = "value" => state = "VALUE" /\ own.strings # <<>>
    /\ ~leftover =>
         /\ own.body = body.used /\ own.matches = body.matches
         /\ own.strings = IF headers.used = 0 THEN <<>>
                          ELSE Append(headers.strings, headers.tail)

\* The fields a buffer gets.
LEMMA AppendValues ==
    ASSUME NEW b \in Buffers, NEW n \in Nat
    PROVE  LET a == BufferAppend(b, n) IN
           /\ a \in Buffers /\ a.length \in Nat /\ a.length > 0
           /\ a.used = b.used + n /\ a.tail = b.tail + n
           /\ a.strings = b.strings /\ a.matches = b.matches
<1> DEFINE a == BufferAppend(b, n)
           l == Enlarged(b.length, b.used + n + 1)
<1>1. a \in Buffers /\ a.used < a.length /\ a.length \in Nat /\ a.used \in Nat
  BY AppendLeavesRoom, FieldTypes
<1>2. a = [b EXCEPT !.length = l, !.used = b.used + n, !.tail = b.tail + n]
  BY Zenon DEF BufferAppend
<1> HIDE DEF l
<1>3. /\ a.used = b.used + n /\ a.tail = b.tail + n
      /\ a.strings = b.strings /\ a.matches = b.matches
  BY <1>2 DEF Buffers
<1> HIDE DEF a
<1> QED
  BY <1>1, <1>3 DEF a

\* The fields of a buffer after a match.
LEMMA MatchValues ==
    ASSUME NEW S, NEW B, NEW b \in Records(S, B), NEW m
    PROVE  /\ [b EXCEPT !.matches = m].used = b.used
           /\ [b EXCEPT !.matches = m].matches = m
BY DEF Records

\* The fields a buffer gets with a terminator: the string in it is whole.
LEMMA TerminateValues ==
    ASSUME NEW b \in Buffers
    PROVE  LET a == Terminate(b) IN
           /\ a \in Buffers /\ a.length = b.length /\ a.used = b.used + 1 /\ a.tail = 0
           /\ a.strings = Append(b.strings, b.tail) /\ a.matches = b.matches
<1>1. /\ Terminate(b).length = b.length /\ Terminate(b).used = b.used + 1
      /\ Terminate(b).tail = 0 /\ Terminate(b).strings = Append(b.strings, b.tail)
      /\ Terminate(b).matches = b.matches
  BY DEF Terminate, Buffers
<1> QED
  BY <1>1, TerminateType

\* The fields of a buffer that was reset.
LEMMA ResetValues ==
    ASSUME NEW b \in Buffers
    PROVE  LET a == BufferReset(b) IN
           /\ a.length = b.length /\ a.used = 0 /\ a.tail = 0
           /\ a.strings = <<>> /\ ~a.matches
BY DEF BufferReset, Null

\* The bookkeeping of strings, without regard to what the last field is.
StringRecords(S, B) == [strings : S, body : Nat, matches : B]

\* The bookkeeping with other strings.
LEMMA StringFields ==
    ASSUME NEW S, NEW B, NEW o \in StringRecords(S, B), NEW s \in S
    PROVE  /\ [o EXCEPT !.strings = s] \in StringRecords(S, B)
           /\ [o EXCEPT !.strings = s].strings = s
           /\ [o EXCEPT !.strings = s].body = o.body
           /\ [o EXCEPT !.strings = s].matches = o.matches
BY DEF StringRecords

\* The bookkeeping, as one of those.
LEMMA StringsAreRecords == Strings = StringRecords(Seq(Nat), BOOLEAN)
BY Zenon DEF Strings, StringRecords

\* The types of the bookkeeping.
LEMMA StringTypes ==
    ASSUME NEW o \in Strings
    PROVE  o.strings \in Seq(Nat) /\ o.body \in Nat /\ o.matches \in BOOLEAN
BY Zenon DEF Strings

\* The bookkeeping of a response of which nothing was read.
LEMMA NothingType ==
    /\ Nothing \in Strings /\ Nothing.strings = <<>>
    /\ Nothing.body = 0 /\ ~Nothing.matches
<1>1. <<>> \in Seq(Nat) /\ 0 \in Nat /\ FALSE \in BOOLEAN
  OBVIOUS
<1>2. Nothing \in Strings
  BY <1>1, Zenon DEF Nothing, Strings
<1>3. Nothing.strings = <<>> /\ Nothing.body = 0 /\ ~Nothing.matches
  BY DEF Nothing
<1> QED
  BY <1>2, <1>3

\* What a sequence of strings with one more is.
LEMMA AppendIs ==
    ASSUME NEW s \in Seq(Nat), NEW t \in Nat, NEW w \in [1 .. Len(s) + 1 -> Nat],
           w[Len(s) + 1] = t, \A j \in 1 .. Len(s) : w[j] = s[j]
    PROVE  w = Append(s, t)
<1> DEFINE v == Append(s, t)
<1>1. /\ v \in Seq(Nat) /\ Len(v) = Len(s) + 1
      /\ v[Len(s) + 1] = t /\ \A j \in 1 .. Len(s) : v[j] = s[j]
  BY AppendProperties
<1>2. Len(s) \in Nat
  BY LenProperties
<1> HIDE DEF v
<1>3. v \in [1 .. Len(s) + 1 -> Nat]
  <2>1. v \in [1 .. Len(v) -> Nat]
    BY <1>1, LenProperties
  <2> QED
    BY <1>1, <2>1
<1>4. ASSUME NEW j \in 1 .. Len(s) + 1 PROVE v[j] = w[j]
  <2>1. j = Len(s) + 1 \/ j \in 1 .. Len(s)
    BY <1>2
  <2> QED
    BY <1>1, <2>1
<1>5. v = w
  BY <1>3, <1>4
<1> QED
  BY <1>5 DEF v

\* What a callback does to the strings of the response changes nothing else.
LEMMA StringsGrow ==
    ASSUME own \in Strings, NEW n \in Nat, NEW x \in Seq(Nat),
           own' = [own EXCEPT !.strings = x]
    PROVE  /\ own' \in Strings /\ own'.strings = x
           /\ own'.body = own.body /\ own'.matches = own.matches
<1> DEFINE S == Seq(Nat)
           B == BOOLEAN
<1>1. Strings = StringRecords(S, B) /\ x \in S
  BY StringsAreRecords, Zenon
<1> HIDE DEF S, B
<1>2. own' \in StringRecords(S, B) /\ own'.strings = x
      /\ own'.body = own.body /\ own'.matches = own.matches
  BY <1>1, StringFields
<1> QED
  BY <1>1, <1>2

\* A string is begun.
LEMMA StringBegins ==
    ASSUME own \in Strings, NEW n \in Nat, Begin(n)
    PROVE  /\ own' \in Strings /\ own'.strings = Append(own.strings, n)
           /\ own'.body = own.body /\ own'.matches = own.matches
<1>1. Append(own.strings, n) \in Seq(Nat)
  BY StringTypes, AppendProperties
<1> QED
  BY <1>1, StringsGrow DEF Begin

\* The last string goes on.
LEMMA StringContinues ==
    ASSUME own \in Strings, NEW n \in Nat, Continue(n), own.strings # <<>>
    PROVE  /\ own' \in Strings /\ own'.strings # <<>>
           /\ own'.body = own.body /\ own'.matches = own.matches
           /\ \A s \in Seq(Nat), t \in Nat :
                own.strings = Append(s, t) => own'.strings = Append(s, t + n)
<1> DEFINE u == own.strings
           x == [u EXCEPT ![Len(u)] = @ + n]
<1>1. u \in Seq(Nat)
  BY StringTypes
<1>2. own' = [own EXCEPT !.strings = x]
  BY StringTypes DEF Continue, Strings
<1>3. PICK s \in Seq(Nat), t \in Nat : u = Append(s, t)
  BY <1>1, SequenceEmptyOrAppend
<1>4. ASSUME NEW r \in Seq(Nat), NEW e \in Nat, u = Append(r, e)
      PROVE  x = Append(r, e + n) /\ x \in Seq(Nat)
  <2> DEFINE m == Len(r) + 1
             k == e + n
  <2> HIDE DEF u
  <2>1. /\ Len(r) \in Nat /\ Len(u) = m /\ u[m] = e /\ k \in Nat
        /\ \A j \in 1 .. Len(r) : u[j] = r[j]
    BY <1>4, AppendProperties
  <2>2. u \in [1 .. m -> Nat]
    BY <1>1, <2>1, LenProperties
  <2>3. x = [u EXCEPT ![m] = k]
    BY <2>1
  <2>4. m \in 1 .. m /\ \A j \in 1 .. Len(r) : j \in 1 .. m /\ j # m
    BY <2>1
  <2> HIDE DEF x, k
  <2>5. x \in [1 .. m -> Nat] /\ x[m] = k /\ \A j \in 1 .. Len(r) : x[j] = u[j]
    <3> HIDE DEF m
    <3> QED
      BY <2>1, <2>2, <2>3, <2>4
  <2>6. x = Append(r, k)
    BY <2>1, <2>5, AppendIs
  <2>7. Append(r, k) \in Seq(Nat)
    BY <2>1, AppendProperties
  <2> QED
    BY <2>6, <2>7 DEF k
<1>5. x \in Seq(Nat)
  BY <1>3, <1>4
<1>6. x # <<>>
  <2>1. x = Append(s, t + n)
    BY <1>3, <1>4
  <2> QED
    BY <1>3, <2>1
<1> HIDE DEF u, x
<1>7. own' \in Strings /\ own'.strings = x
      /\ own'.body = own.body /\ own'.matches = own.matches
  BY <1>2, <1>5, StringsGrow
<1> QED
  BY <1>4, <1>6, <1>7 DEF u

\* header_field and header_value: the response's strings and the buffer's are begun
\* together and grow together.
LEMMA HeaderOwn ==
    ASSUME Inv, OwnInv, NEW b \in Buffers, NEW n \in Nat, b.used + n > 0,
           headers' = BufferAppend(b, n), UNCHANGED <<body, leftover>>,
           \/ Begin(n) /\ (~leftover => b.strings = own.strings /\ b.tail = 0)
           \/ /\ Continue(n) /\ own.strings # <<>>
              /\ ~leftover => own.strings = Append(b.strings, b.tail),
           \/ parser' = "field" /\ state' = "FIELD"
           \/ parser' = "value" /\ state' = "VALUE"
    PROVE  OwnInv'
<1> DEFINE a == BufferAppend(b, n)
<1>1. /\ headers' = a /\ a.length > 0 /\ a.used = b.used + n /\ a.tail = b.tail + n
      /\ a.strings = b.strings /\ a.used # 0 /\ a.length # 0
  <2>1. /\ a.length > 0 /\ a.used = b.used + n /\ a.tail = b.tail + n
        /\ a.strings = b.strings /\ a.length \in Nat
    BY AppendValues
  <2>2. b.used \in Nat
    BY FieldTypes
  <2> QED
    BY <2>1, <2>2
<1> HIDE DEF a
<1>2. own \in Strings /\ b.strings \in Seq(Nat) /\ b.tail \in Nat
  BY FieldTypes DEF OwnInv
<1>3. /\ own' \in Strings /\ own'.strings # <<>>
      /\ own'.body = own.body /\ own'.matches = own.matches
      /\ ~leftover => own'.strings = Append(b.strings, b.tail + n)
  <2>1. CASE Begin(n) /\ (~leftover => b.strings = own.strings /\ b.tail = 0)
    <3>1. /\ own' \in Strings /\ own'.strings = Append(own.strings, n)
          /\ own'.body = own.body /\ own'.matches = own.matches
      BY <1>2, <2>1, StringBegins
    <3>2. own'.strings # <<>>
      BY <1>2, <3>1, StringTypes, AppendProperties
    <3>3. b.tail = 0 => b.tail + n = n
      OBVIOUS
    <3> QED
      BY <2>1, <3>1, <3>2, <3>3
  <2>2. CASE /\ Continue(n) /\ own.strings # <<>>
             /\ ~leftover => own.strings = Append(b.strings, b.tail)
    BY <1>2, <2>2, StringContinues
  <2> QED
    BY <2>1, <2>2
<1>4. /\ headers'.length # 0 /\ headers'.used # 0
      /\ headers'.strings = b.strings /\ headers'.tail = b.tail + n
  BY <1>1
<1>5. body' = body /\ leftover' = leftover
  OBVIOUS
<1>6. parser' \notin {"idle", "awaiting"}
  OBVIOUS
<1> QED
  BY <1>3, <1>4, <1>5, <1>6 DEF OwnInv

\* What the strings of a response say of the buffer, when nothing is left over.
LEMMA OwnStrings ==
    ASSUME Inv, OwnInv, ~leftover
    PROVE  /\ own.strings = <<>> => headers.strings = <<>> /\ headers.tail = 0
                                    /\ headers.used = 0 /\ state = "FIELD"
           /\ own.strings # <<>> => own.strings = Append(headers.strings, headers.tail)
<1>1. headers \in Buffers
  BY DEF Inv, TypeOK
<1>2. Append(headers.strings, headers.tail) # <<>>
  BY <1>1, FieldTypes, AppendProperties
<1> QED
  BY <1>2 DEF OwnInv

\* header_field begins a name, behind a value or as the first, or goes on with one.
LEMMA FieldOwn ==
    ASSUME Inv, OwnInv, NEW n \in Pieces, HeaderField(n)
    PROVE  OwnInv'
<1> DEFINE b == IF state = "VALUE" THEN Terminate(headers) ELSE headers
<1>1. /\ n \in Nat /\ n > 0 /\ headers' = BufferAppend(b, n) /\ UNCHANGED <<body, leftover>>
      /\ parser' = "field" /\ state' = "FIELD"
  BY ScriptedAssumption DEF HeaderField
<1>2. headers \in Buffers /\ Terminate(headers) \in Buffers
  BY TerminateType DEF Inv, TypeOK
<1>3. b \in Buffers
  BY <1>2
<1>4. b.used + n > 0
  BY <1>1, <1>3, FieldTypes
<1>5. Terminate(headers).strings = Append(headers.strings, headers.tail)
      /\ Terminate(headers).tail = 0
  BY <1>2, TerminateValues
<1>6. state = "FIELD" => b = headers
  OBVIOUS
<1>7. state = "VALUE" => b = Terminate(headers)
  OBVIOUS
<1> HIDE DEF b
<1>8. \/ Begin(n) /\ (~leftover => b.strings = own.strings /\ b.tail = 0)
      \/ /\ Continue(n) /\ own.strings # <<>>
         /\ ~leftover => own.strings = Append(b.strings, b.tail)
  <2>1. CASE parser = "awaiting" /\ Begin(n)
    <3>1. own.strings = <<>>
      BY <2>1, NothingType DEF OwnInv
    <3> QED
      BY <1>6, <2>1, <3>1, OwnStrings
  <2>2. CASE parser = "value" /\ Begin(n)
    <3>1. state = "VALUE" /\ own.strings # <<>>
      BY <2>2 DEF OwnInv
    <3> QED
      BY <1>5, <1>7, <2>2, <3>1, OwnStrings
  <2>3. CASE parser = "field" /\ Continue(n)
    <3>1. state = "FIELD" /\ own.strings # <<>>
      BY <2>3 DEF OwnInv
    <3> QED
      BY <1>6, <2>3, <3>1, OwnStrings
  <2> QED
    BY <2>1, <2>2, <2>3 DEF HeaderField
<1> QED
  BY <1>1, <1>3, <1>4, <1>8, HeaderOwn

\* header_value begins the value of a name, or goes on with it.
LEMMA ValueOwn ==
    ASSUME Inv, OwnInv, NEW n \in Pieces, HeaderValue(n)
    PROVE  OwnInv'
<1> DEFINE b == IF state = "FIELD" THEN Terminate(headers) ELSE headers
<1>1. /\ n \in Nat /\ headers' = BufferAppend(b, n) /\ UNCHANGED <<body, leftover>>
      /\ parser' = "value" /\ state' = "VALUE"
  BY ScriptedAssumption DEF HeaderValue
<1>2. headers \in Buffers /\ Terminate(headers) \in Buffers
  BY TerminateType DEF Inv, TypeOK
<1>3. b \in Buffers
  BY <1>2
<1>4. Terminate(headers).strings = Append(headers.strings, headers.tail)
      /\ Terminate(headers).tail = 0 /\ Terminate(headers).used = headers.used + 1
  BY <1>2, TerminateValues
<1>5. state = "FIELD" => b = Terminate(headers)
  OBVIOUS
<1>6. state = "VALUE" => b = headers
  OBVIOUS
<1> HIDE DEF b
<1>7. headers.used \in Nat
  BY <1>2, FieldTypes
<1>8. \/ parser = "field" /\ Begin(n) /\ state = "FIELD" /\ own.strings # <<>>
      \/ parser = "value" /\ Continue(n) /\ state = "VALUE" /\ own.strings # <<>>
  BY DEF HeaderValue, OwnInv
<1>9. b.used + n > 0
  <2>1. state = "VALUE" => headers.used # 0
    BY DEF OwnInv
  <2>2. b.used \in Nat /\ b.used > 0
    BY <1>4, <1>5, <1>6, <1>7, <1>8, <2>1
  <2> QED
    BY <1>1, <2>2
<1>10. \/ Begin(n) /\ (~leftover => b.strings = own.strings /\ b.tail = 0)
       \/ /\ Continue(n) /\ own.strings # <<>>
          /\ ~leftover => own.strings = Append(b.strings, b.tail)
  BY <1>4, <1>5, <1>6, <1>8, OwnStrings
<1> QED
  BY <1>1, <1>3, <1>9, <1>10, HeaderOwn

\* response_body counts a piece of the body, and a match, on both sides.
LEMMA BodyOwn ==
    ASSUME Inv, OwnInv, NEW n \in Pieces, ResponseBody(n)
    PROVE  OwnInv'
<1>1. n \in Nat /\ n > 0 /\ body \in Buffers /\ own \in Strings
  BY ScriptedAssumption DEF ResponseBody, Inv, TypeOK, OwnInv
<1>2. PICK m \in BOOLEAN :
        /\ body' = [BufferAppend(body, n) EXCEPT !.matches = @ \/ m]
        /\ own' = [own EXCEPT !.body = @ + n, !.matches = @ \/ m]
  BY DEF ResponseBody
<1> DEFINE a == BufferAppend(body, n)
           B == BOOLEAN
           am == a.matches \/ m
           om == own.matches \/ m
           S == Seq(Nat)
<1>3. /\ a \in Buffers /\ a.used = body.used + n /\ a.matches = body.matches
      /\ body.used \in Nat
  BY <1>1, AppendValues, FieldTypes
<1>4. own.body \in Nat /\ own.body + n \in Nat
  BY <1>1, StringTypes
<1>5. om \in B
  OBVIOUS
<1>6. Strings = StringRecords(S, B)
  BY StringsAreRecords, Zenon
<1>7. own' = [own EXCEPT !.body = own.body + n, !.matches = om]
  BY <1>2
<1>8. body' = [a EXCEPT !.matches = am]
  BY <1>2
<1>9. am <=> (body.matches \/ m)
  BY <1>3
<1>10. om <=> (own.matches \/ m)
  OBVIOUS
<1>11. am = om \/ body.matches # own.matches
  BY <1>9, <1>10
<1> HIDE DEF a, am, om, B, S
<1>12. body'.used = a.used /\ body'.matches = am
  <2>1. a \in Records(S, B)
    BY <1>3, BuffersAreRecords, Zenon DEF S, B
  <2> QED
    BY <1>8, <2>1, MatchValues
<1>13. /\ own' \in Strings /\ own'.strings = own.strings
       /\ own'.body = own.body + n /\ own'.matches = om
  <2> DEFINE x == own.body + n
  <2>1. x \in Nat /\ own \in StringRecords(S, B)
    BY <1>1, <1>4, <1>6
  <2> HIDE DEF x
  <2>2. own' = [own EXCEPT !.body = x, !.matches = om]
    BY <1>7 DEF x
  <2>3. own' \in StringRecords(S, B) /\ own'.strings = own.strings
        /\ own'.body = x /\ own'.matches = om
    BY <1>5, <2>1, <2>2 DEF StringRecords
  <2> QED
    BY <1>6, <2>3 DEF x
<1>14. body'.used # 0
  BY <1>1, <1>3, <1>12
<1>15. /\ parser' = "body" /\ UNCHANGED <<state, headers, leftover>>
  BY DEF ResponseBody
<1>16. ~leftover => /\ own.body = body.used /\ own.matches = body.matches
  BY DEF OwnInv
<1>17. ~leftover => own'.body = body'.used /\ own'.matches = body'.matches
  BY <1>3, <1>11, <1>12, <1>13, <1>16
<1> QED
  BY <1>13, <1>14, <1>15, <1>17 DEF OwnInv

\* A response that begins when the buffers are empty, or known to hold another's.
LEMMA OwnAnew ==
    ASSUME Inv, OwnInv, own' = Nothing, parser' \in {"idle", "awaiting"},
           headers'.length = 0 => headers'.used = 0,
           headers'.used = 0 =>
             headers'.strings = <<>> /\ headers'.tail = 0 /\ state' = "FIELD",
           body'.used = 0 => ~body'.matches,
           ~leftover' => headers'.used = 0 /\ body'.used = 0,
           body' \in Buffers
    PROVE  OwnInv'
<1>1. body'.matches \in BOOLEAN
  BY FieldTypes
<1>2. ~leftover' => Nothing.matches = body'.matches
  <2>1. ~leftover' => ~body'.matches
    OBVIOUS
  <2>2. Nothing.matches \in BOOLEAN /\ ~Nothing.matches
    BY NothingType, StringTypes
  <2> QED
    BY <1>1, <2>1, <2>2, Zenon
<1> QED
  BY <1>2, NothingType DEF OwnInv

\* Every step keeps OwnInv.
LEMMA OwnStep ==
    ASSUME Inv, Inv', OwnInv, [Next]_vars
    PROVE  OwnInv'
<1>0. headers \in Buffers /\ body \in Buffers /\ body' \in Buffers
  BY DEF Inv, TypeOK
<1>1. /\ headers.used \in Nat /\ body.used \in Nat /\ body'.used \in Nat
      /\ headers.length \in Nat
  BY <1>0, FieldTypes
<1>2. CASE SocketWriteable
  <2>1. /\ parser = "idle" /\ parser' \in {"idle", "awaiting"}
        /\ UNCHANGED <<state, headers, body, own, leftover>>
    BY <1>2 DEF SocketWriteable, SockWrite, SslWrite
  <2> QED
    BY <2>1 DEF OwnInv
<1>3. CASE ResponseComplete
  <2>1. own' = Nothing /\ parser' \in {"idle", "awaiting"}
    BY <1>3 DEF ResponseComplete, NextResponse
  <2>2. CASE headers.length > 0
    <3>1. /\ headers' = BufferReset(headers) /\ body' = BufferReset(body)
          /\ state' = "FIELD"
      BY <1>3, <2>2 DEF ResponseComplete, ScriptResponse
    <3>2. /\ headers'.used = 0 /\ headers'.strings = <<>> /\ headers'.tail = 0
          /\ body'.used = 0 /\ ~body'.matches
      BY <1>0, <3>1, ResetValues
    <3> QED
      BY <1>0, <2>1, <3>1, <3>2, OwnAnew
  <2>3. CASE ~(headers.length > 0)
    <3>1. /\ body' \in {body, BufferReset(body)}
          /\ leftover' = (body'.used > 0)
          /\ UNCHANGED <<state, headers>>
      BY <1>3, <2>3 DEF ResponseComplete
    <3>2. headers.used = 0
      BY <1>1, <2>3 DEF OwnInv
    <3>3. body'.used = 0 => ~body'.matches
      <4>1. CASE body' = body
        BY <4>1, Zenon DEF OwnInv
      <4>2. CASE body' = BufferReset(body)
        BY <1>0, <4>2, ResetValues
      <4> QED
        BY <3>1, <4>1, <4>2
    <3>4. ~leftover' => ~(body'.used > 0)
      BY <3>1, Zenon
    <3>5. ~leftover' => body'.used = 0
      BY <1>1, <3>4
    <3> QED
      BY <1>0, <2>1, <3>1, <3>2, <3>3, <3>5, OwnAnew DEF OwnInv
  <2> QED
    BY <2>2, <2>3
<1>4. CASE ResponseIgnored \/ ReconnectSocket
  <2>1. /\ own' = Nothing /\ parser' \in {"idle", "awaiting"}
        /\ leftover' = (leftover \/ headers.used > 0 \/ body.used > 0)
        /\ UNCHANGED <<state, headers, body>>
    BY <1>4 DEF ResponseIgnored, ReconnectSocket, NextResponse
  <2>2. ~leftover' => ~(headers.used > 0) /\ ~(body.used > 0)
    BY <2>1, Zenon
  <2>3. ~leftover' => headers.used = 0 /\ body.used = 0
    BY <1>1, <2>2
  <2> QED
    BY <1>0, <2>1, <2>3, OwnAnew DEF OwnInv
<1>5. CASE \E n \in Pieces : HeaderField(n) \/ HeaderValue(n) \/ ResponseBody(n)
  BY <1>5, FieldOwn, ValueOwn, BodyOwn
<1>6. CASE UNCHANGED vars
  BY <1>6 DEF vars, OwnInv
<1> QED
  BY <1>2, <1>3, <1>4, <1>5, <1>6 DEF Next

\* What response() is given, and --expect-body looks at, when a response is complete.
LEMMA GivenIsOwn ==
    ASSUME Inv, OwnInv, ResponseComplete
    PROVE  ResponseIsOwn'
<1> DEFINE g == Given(headers.length > 0)
<1>1. call' \in {g, NoCall} /\ want_response' = want_response
  BY DEF ResponseComplete, NextResponse, setup
<1>2. /\ g.strings = IF headers.length > 0 THEN Terminate(headers).strings ELSE <<>>
      /\ g.body = body.used /\ g.matches = body.matches /\ g.own = own
      /\ g.sure = (~leftover /\ (want_response => own.strings # <<>>))
  BY DEF Given
<1> HIDE DEF g
<1>3. headers \in Buffers
  BY DEF Inv, TypeOK
<1>4. ASSUME g.sure, want_response
      PROVE  g.strings = own.strings
  <2>1. ~leftover /\ own.strings # <<>>
    BY <1>2, <1>4
  <2>2. own.strings = Append(headers.strings, headers.tail) /\ headers.used # 0
    BY <2>1, OwnStrings DEF OwnInv
  <2>3. headers.length > 0
    BY <1>3, <2>2, FieldTypes DEF OwnInv
  <2> QED
    BY <1>2, <1>3, <2>2, <2>3, TerminateValues
<1>5. ASSUME g.sure
      PROVE  g.body = own.body /\ g.matches = own.matches
  BY <1>2, <1>5 DEF OwnInv
<1> QED
  BY <1>1, <1>2, <1>4, <1>5 DEF ResponseIsOwn

\* response() gets the header strings and the body of its own response, whole and in
\* order, and --expect-body judges it by its own body: in whatever pieces the parser
\* delivers them, and after any number of responses and lost sockets - unless a
\* response before was cut off, or this one has no header.
THEOREM ResponsesAreOwn == Spec => []ResponseIsOwn
<1>1. Init => OwnInv /\ ResponseIsOwn
  <2> SUFFICES ASSUME Init PROVE OwnInv /\ ResponseIsOwn
    OBVIOUS
  <2>1. /\ Null.length = 0 /\ Null.used = 0 /\ Null.tail = 0 /\ Null.strings = <<>>
        /\ ~Null.matches /\ Null.matches = Nothing.matches
    BY DEF Null, Nothing
  <2>2. OwnInv
    BY <2>1, NothingType DEF Init, OwnInv
  <2>3. ResponseIsOwn
    BY DEF Init, ResponseIsOwn
  <2> QED
    BY <2>2, <2>3
<1>2. Inv /\ Inv' /\ OwnInv /\ ResponseIsOwn /\ [Next]_vars => OwnInv' /\ ResponseIsOwn'
  <2> SUFFICES ASSUME Inv, Inv', OwnInv, ResponseIsOwn, [Next]_vars
               PROVE  OwnInv' /\ ResponseIsOwn'
    OBVIOUS
  <2>1. OwnInv'
    BY OwnStep
  <2>2. CASE ResponseComplete
    BY <2>1, <2>2, GivenIsOwn
  <2>3. CASE ~ResponseComplete
    <3>1. (call' = call /\ want_response' = want_response) \/ call' = NoCall
      BY <2>3 DEF Next, SocketWriteable, ResponseIgnored, ReconnectSocket,
                  HeaderField, HeaderValue, ResponseBody, vars, setup
    <3> QED
      BY <2>1, <3>1 DEF ResponseIsOwn
  <2> QED
    BY <2>2, <2>3
<1> QED
  BY <1>1, <1>2, Inductive, PTL DEF Spec
===============================================================================
