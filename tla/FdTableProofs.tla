----------------------------- MODULE FdTableProofs -----------------------------
(***************************************************************************)
(* The table of numbers is right for any threads, connections and sizes,   *)
(* also when numbers are closed twice or by a connection they are not of:  *)
(* numbers stay below the peak of open sockets, and each leads to its own  *)
(* socket until somebody closes that.                                      *)
(***************************************************************************)
EXTENDS FdTable, FiniteSetTheorems, TLAPS

\* The numbers handed out so far.
Given == WPK_FIRST_FD .. next_fd - 1

\* The stack holds each number that is not in use, once.
StackOK ==
    /\ \A i \in 1 .. Len(free_fds) :
         free_fds[i] \in Given /\ fds[free_fds[i]] = INVALID_SOCKET
    /\ \A i, j \in 1 .. Len(free_fds) : free_fds[i] = free_fds[j] => i = j
    /\ \A f \in Given : fds[f] = INVALID_SOCKET =>
         \E i \in 1 .. Len(free_fds) : free_fds[i] = f

\* A number in use was handed out, and no socket has two.
InUseOK ==
    /\ \A f \in Numbers : fds[f] # INVALID_SOCKET => f \in Given
    /\ \A f, g \in Numbers : fds[f] = fds[g] /\ fds[f] # INVALID_SOCKET => f = g

\* A socket is in the table, or in the hands of one call.
HandleOK ==
    /\ \A c \in Conns : pc[c] \in {"new", "creating", "connecting", "idle"} =>
         handle[c] = INVALID_SOCKET
    /\ \A c \in Conns : pc[c] = "created" => handle[c] # INVALID_SOCKET
    /\ \A c \in Conns : handle[c] # INVALID_SOCKET =>
         /\ \A f \in Numbers : fds[f] # handle[c]
         /\ \A d \in Conns : handle[d] = handle[c] => c = d

\* The number of a connection that nobody has robbed leads to its socket.
OwnOK ==
    /\ \A c \in Conns : pc[c] \notin {"connecting", "idle"} => mine[c] = INVALID_SOCKET
    /\ \A c \in Conns : mine[c] # INVALID_SOCKET /\ c \notin robbed =>
         Number(c) \in Given /\ fds[Number(c)] = mine[c]

PeakOK == Cardinality(OpenSockets) <= peak /\ BelowPeak

Inv == TypeOK /\ StackOK /\ InUseOK /\ HandleOK /\ OwnOK /\ PeakOK

\* The open sockets are finitely many.
LEMMA OpenIsFinite ==
    ASSUME TypeOK
    PROVE  IsFiniteSet(OpenSockets) /\ Cardinality(OpenSockets) \in Nat
<1>1. OpenSockets \subseteq Sockets
  BY DEF TypeOK, OpenSockets
<1> QED
  BY <1>1, FS_Subset, FS_CardinalityType, TableAssumption

\* A step that opens no socket stays below the peak.
LEMMA NoneOpened ==
    ASSUME Inv, OpenSockets' \subseteq OpenSockets, UNCHANGED peak
    PROVE  Cardinality(OpenSockets') <= peak'
<1>1. IsFiniteSet(OpenSockets) /\ Cardinality(OpenSockets) \in Nat
  BY OpenIsFinite DEF Inv
<1>2. /\ Cardinality(OpenSockets') <= Cardinality(OpenSockets)
      /\ Cardinality(OpenSockets') \in Nat
  BY <1>1, FS_Subset, FS_CardinalityType
<1> QED
  BY <1>1, <1>2 DEF Inv, PeakOK, TypeOK

LEMMA InitInv == Init => Inv
<1> SUFFICES ASSUME Init PROVE Inv
  OBVIOUS
<1> USE TableAssumption DEF Init, Given, Numbers
<1>1. TypeOK
  BY DEF TypeOK
<1>2. OpenSockets = {}
  BY DEF OpenSockets
<1>3. PeakOK
  BY <1>2, FS_EmptySet DEF PeakOK, BelowPeak
<1>4. StackOK /\ InUseOK /\ HandleOK /\ OwnOK
  BY DEF StackOK, InUseOK, HandleOK, OwnOK
<1> QED
  BY <1>1, <1>3, <1>4 DEF Inv

\* A call takes a new handle, or gets none.
LEMMA HandleKept ==
    ASSUME HandleOK, NEW c \in Conns, NEW s, fds' = fds,
           \A d \in Conns : d # c => handle'[d] = handle[d] /\ pc'[d] = pc[d],
           handle'[c] = s, pc'[c] = IF s = INVALID_SOCKET THEN "idle" ELSE "created",
           s # INVALID_SOCKET => /\ \A d \in Conns : s # handle[d]
                                 /\ \A f \in Numbers : s # fds[f]
    PROVE  HandleOK'
<1>1. ASSUME NEW d \in Conns, handle'[d] # INVALID_SOCKET, NEW f \in Numbers
      PROVE  fds'[f] # handle'[d]
  BY <1>1 DEF HandleOK
<1>2. ASSUME NEW d \in Conns, handle'[d] # INVALID_SOCKET, NEW e \in Conns,
             handle'[e] = handle'[d]
      PROVE  d = e
  <2>1. CASE d = c /\ e # c
    BY <1>2, <2>1, Zenon
  <2>2. CASE d # c /\ e = c
    BY <1>2, <2>2, Zenon
  <2>3. CASE d # c /\ e # c
    <3>1. handle[d] # INVALID_SOCKET /\ handle[e] = handle[d]
      BY <1>2, <2>3, Zenon
    <3> QED
      BY <3>1, Zenon DEF HandleOK
  <2> QED
    BY <2>1, <2>2, <2>3
<1>3. \A d \in Conns :
        /\ pc'[d] \in {"new", "creating", "connecting", "idle"} =>
             handle'[d] = INVALID_SOCKET
        /\ pc'[d] = "created" => handle'[d] # INVALID_SOCKET
  BY DEF HandleOK
<1> QED
  BY <1>1, <1>2, <1>3 DEF HandleOK

LEMMA CreateInv == ASSUME Inv, NEW c \in Conns, Create(c) PROVE Inv'
<1> USE TableAssumption DEF Inv, Create
<1>1. PICK s \in (Sockets \ OpenSockets) \cup {INVALID_SOCKET} :
        /\ handle' = [handle EXCEPT ![c] = s]
        /\ pc' = [pc EXCEPT ![c] = IF s = INVALID_SOCKET THEN "idle" ELSE "created"]
  <2>1. handle[c] = INVALID_SOCKET
    BY DEF HandleOK
  <2>2. handle = [handle EXCEPT ![c] = INVALID_SOCKET]
    BY <2>1 DEF TypeOK
  <2> QED
    BY <2>2
<1>2. /\ handle' \in [Conns -> Sockets \cup {INVALID_SOCKET}]
      /\ fds' = fds
  BY <1>1 DEF TypeOK
<1>3. OpenSockets' \subseteq Sockets
  BY <1>2 DEF OpenSockets, TypeOK
<1>4. Cardinality(OpenSockets') \in Nat
  BY <1>3, FS_Subset, FS_CardinalityType
<1>5. TypeOK'
  <2>1. peak' \in Nat
    BY <1>4 DEF TypeOK
  <2> QED
    BY <1>1, <1>2, <2>1 DEF TypeOK
<1>6. StackOK' /\ InUseOK'
  BY DEF StackOK, InUseOK, Given
<1>7. HandleOK'
  <2>1. s # INVALID_SOCKET => /\ \A d \in Conns : s # handle[d]
                              /\ \A f \in Numbers : s # fds[f]
    BY <1>1 DEF OpenSockets
  <2>2. \A d \in Conns : d # c => handle'[d] = handle[d] /\ pc'[d] = pc[d]
    BY <1>1 DEF TypeOK
  <2>3. handle'[c] = s /\ pc'[c] = IF s = INVALID_SOCKET THEN "idle" ELSE "created"
    BY <1>1 DEF TypeOK
  <2> QED
    BY <1>2, <2>1, <2>2, <2>3, HandleKept DEF HandleOK
<1>8. OwnOK'
  BY <1>1 DEF OwnOK, Given, TypeOK, Number
<1>9. PeakOK'
  BY <1>4 DEF PeakOK, BelowPeak, TypeOK
<1> QED
  BY <1>5, <1>6, <1>7, <1>8, <1>9

\* When no number lies on the stack, each number handed out leads to an open
\* socket, and the one that is to get a number is not among these.
LEMMA FreshIsBelowPeak ==
    ASSUME Inv, NEW c \in Conns, pc[c] = "created", free_fds = <<>>
    PROVE  next_fd + 1 - WPK_FIRST_FD <= peak
<1> USE TableAssumption DEF Inv
<1> DEFINE Others == OpenSockets \ {handle[c]}
           Leads  == [f \in Given |-> fds[f]]
<1>1. \A f \in Given : fds[f] # INVALID_SOCKET /\ f \in Numbers
  BY DEF StackOK, Given, Numbers, TypeOK
<1>2. handle[c] \in OpenSockets
  BY DEF HandleOK, OpenSockets
<1>3. \A f \in Given : Leads[f] \in Others
  BY <1>1, <1>2 DEF HandleOK, OpenSockets
<1>4. Leads \in Injection(Given, Others)
  BY <1>1, <1>3 DEF Injection, IsInjective, InUseOK
<1>5. IsFiniteSet(Given) /\ Cardinality(Given) = next_fd - WPK_FIRST_FD
  <2> DEFINE last == next_fd - 1
  <2>1. WPK_FIRST_FD \in Int /\ last \in Int /\ WPK_FIRST_FD <= last + 1
        /\ next_fd \in Int
    BY DEF TypeOK
  <2>2. /\ IsFiniteSet(WPK_FIRST_FD .. last)
        /\ Cardinality(WPK_FIRST_FD .. last) =
             IF WPK_FIRST_FD > last THEN 0 ELSE last - WPK_FIRST_FD + 1
    <3> HIDE DEF last
    <3> QED
      BY <2>1, FS_Interval
  <2>3. Given = WPK_FIRST_FD .. last
    BY DEF Given
  <2> QED
    BY <2>1, <2>2, <2>3
<1>6. IsFiniteSet(OpenSockets) /\ Cardinality(OpenSockets) \in Nat
  BY OpenIsFinite
<1>7. IsFiniteSet(Others) /\ Cardinality(Others) = Cardinality(OpenSockets) - 1
  BY <1>2, <1>6, FS_RemoveElement
<1>8. Cardinality(Given) <= Cardinality(Others)
  BY <1>4, <1>5, <1>7, FS_Injection
<1> QED
  BY <1>5, <1>6, <1>7, <1>8 DEF PeakOK, TypeOK

\* A sequence without its last element.
LEMMA SeqSub ==
    ASSUME NEW S, NEW s \in Seq(S), s # <<>>
    PROVE  /\ Len(SubSeq(s, 1, Len(s) - 1)) = Len(s) - 1
           /\ \A i \in 1 .. Len(s) - 1 : SubSeq(s, 1, Len(s) - 1)[i] = s[i]
<1> DEFINE n == Len(s) - 1
<1>1. n \in Nat /\ \A i \in 1 .. n : s[i] \in S
  OBVIOUS
<1>2. SubSeq(s, 1, n) = [i \in 1 .. n |-> s[i]]
  BY <1>1
<1> HIDE DEF n
<1>3. Len(SubSeq(s, 1, n)) = n /\ \A i \in 1 .. n : SubSeq(s, 1, n)[i] = s[i]
  BY <1>1, <1>2
<1> QED
  BY <1>3 DEF n

\* A socket enters the table under a number that is not in use.
LEMMA EnterKeeps ==
    ASSUME Inv, NEW c \in Conns, NEW f \in Numbers, Enter(c, f), pc[c] = "created",
           fds[f] = INVALID_SOCKET, Given \subseteq Given', f \in Given',
           free_fds' \in Seq(Numbers), next_fd' \in WPK_FIRST_FD .. WPK_MAX_FDS
    PROVE  /\ TypeOK' /\ InUseOK' /\ HandleOK' /\ OwnOK'
           /\ OpenSockets' \subseteq OpenSockets
           /\ fds'[f] # INVALID_SOCKET /\ \A g \in Numbers : g # f => fds'[g] = fds[g]
<1> USE DEF Inv
<1> DEFINE s == handle[c]
<1>1. s \in Sockets /\ s # INVALID_SOCKET
  BY TableAssumption DEF HandleOK, TypeOK
<1>2. /\ fds' = [fds EXCEPT ![f] = s]
      /\ got' = [got EXCEPT ![c] = f]
      /\ mine' = [mine EXCEPT ![c] = s]
      /\ handle' = [handle EXCEPT ![c] = INVALID_SOCKET]
      /\ pc' = [pc EXCEPT ![c] = "connecting"]
      /\ UNCHANGED <<fd, client, timer, robbed, peak>>
  BY DEF Enter
<1>3. \A g \in Numbers : fds[g] # s
  BY <1>1 DEF HandleOK
<1>4. \A d \in Conns : d # c => handle[d] # s
  BY <1>1 DEF HandleOK
<1>5. /\ fds'[f] = s /\ \A g \in Numbers : g # f => fds'[g] = fds[g]
      /\ handle'[c] = INVALID_SOCKET
      /\ \A d \in Conns : d # c => handle'[d] = handle[d] /\ pc'[d] = pc[d]
      /\ pc'[c] = "connecting"
  BY <1>2 DEF TypeOK
<1>6. TypeOK'
  BY <1>1, <1>2 DEF TypeOK
<1> HIDE DEF s
<1>7. InUseOK'
  BY <1>1, <1>3, <1>5 DEF InUseOK
<1>8. HandleOK'
  BY <1>1, <1>4, <1>5 DEF HandleOK
<1>9. OwnOK'
  <2>1. /\ mine'[c] = s /\ got'[c] = f
        /\ \A d \in Conns : d # c => /\ mine'[d] = mine[d] /\ got'[d] = got[d]
                                    /\ fd'[d] = fd[d]
        /\ robbed' = robbed
    BY <1>2 DEF TypeOK
  <2>2. Number(c)' = f /\ \A d \in Conns : d # c => Number(d)' = Number(d)
    BY <1>5, <2>1 DEF Number
  <2>3. ASSUME NEW d \in Conns, mine'[d] # INVALID_SOCKET, d \notin robbed'
        PROVE  Number(d)' \in Given' /\ fds'[Number(d)'] = mine'[d]
    <3>1. CASE d = c
      BY <1>5, <2>1, <2>2, <3>1
    <3>2. CASE d # c
      <4>1. Number(d) \in Given /\ fds[Number(d)] = mine[d] /\ mine[d] # INVALID_SOCKET
        BY <2>1, <2>3, <3>2 DEF OwnOK
      <4>2. Number(d) # f /\ Number(d) \in Numbers
        BY TableAssumption, <4>1 DEF Given, Numbers, TypeOK
      <4> QED
        BY <1>5, <2>1, <2>2, <3>2, <4>1, <4>2
    <3> QED
      BY <3>1, <3>2
  <2>4. \A d \in Conns : pc'[d] \notin {"connecting", "idle"} => mine'[d] = INVALID_SOCKET
    BY <1>5, <2>1 DEF OwnOK
  <2> QED
    BY <2>3, <2>4 DEF OwnOK
<1>10. OpenSockets' \subseteq OpenSockets
  BY <1>1, <1>5 DEF OpenSockets, s
<1> QED
  BY <1>1, <1>5, <1>6, <1>7, <1>8, <1>9, <1>10

LEMMA AllocateInv == ASSUME Inv, NEW c \in Conns, Allocate(c) PROVE Inv'
<1> USE TableAssumption
<1>0. pc[c] = "created"
  BY DEF Allocate
<1>1. CASE free_fds # <<>>
  <2> DEFINE n == Len(free_fds)
             f == free_fds[n]
  <2>1. /\ n \in Nat \ {0} /\ f \in Given /\ f \in Numbers /\ fds[f] = INVALID_SOCKET
        /\ free_fds' = SubSeq(free_fds, 1, n - 1)
        /\ next_fd' = next_fd
        /\ Enter(c, f)
    BY <1>1 DEF Allocate, StackOK, TypeOK, Given, Numbers, Inv
  <2>2. Len(free_fds') = n - 1 /\ \A i \in 1 .. n - 1 : free_fds'[i] = free_fds[i]
    BY <1>1, <2>1, SeqSub DEF TypeOK, Inv
  <2>3. /\ Given' = Given
        /\ free_fds' \in Seq(Numbers) /\ next_fd' \in WPK_FIRST_FD .. WPK_MAX_FDS
    BY <2>1 DEF Given, TypeOK, Inv
  <2> HIDE DEF f
  <2>4. /\ TypeOK' /\ InUseOK' /\ HandleOK' /\ OwnOK'
        /\ OpenSockets' \subseteq OpenSockets
        /\ fds'[f] # INVALID_SOCKET /\ \A g \in Numbers : g # f => fds'[g] = fds[g]
    BY <1>0, <2>1, <2>3, EnterKeeps
  <2>5. StackOK'
    <3>1. \A i \in 1 .. n - 1 : free_fds[i] # f /\ free_fds[i] \in Given
      BY <2>1 DEF StackOK, Inv, f
    <3>2. \A g \in Given : g \in Numbers
      BY DEF Given, Numbers, TypeOK, Inv
    <3>3. \A i \in 1 .. Len(free_fds') :
            free_fds'[i] \in Given' /\ fds'[free_fds'[i]] = INVALID_SOCKET
      BY <2>1, <2>2, <2>3, <2>4, <3>1, <3>2, SMTT(30) DEF StackOK, Inv
    <3>4. \A i, j \in 1 .. Len(free_fds') : free_fds'[i] = free_fds'[j] => i = j
      BY <2>1, <2>2 DEF StackOK, Inv
    <3>5. ASSUME NEW g \in Given', fds'[g] = INVALID_SOCKET
          PROVE  \E i \in 1 .. Len(free_fds') : free_fds'[i] = g
      <4>1. g # f /\ g \in Given /\ fds[g] = INVALID_SOCKET
        BY <2>3, <2>4, <3>2, <3>5
      <4>2. PICK i \in 1 .. n : free_fds[i] = g
        BY <4>1 DEF StackOK, Inv
      <4>3. i \in 1 .. n - 1
        BY <4>1, <4>2, <2>1 DEF f
      <4> QED
        BY <4>2, <4>3, <2>2
    <3> QED
      BY <3>3, <3>4, <3>5 DEF StackOK
  <2>6. PeakOK'
    BY <2>1, <2>4, NoneOpened DEF Inv, PeakOK, BelowPeak, Enter
  <2> QED
    BY <2>4, <2>5, <2>6 DEF Inv
<1>2. CASE free_fds = <<>>
  <2>1. /\ next_fd < WPK_MAX_FDS /\ next_fd \in Numbers /\ free_fds' = <<>>
        /\ next_fd' = next_fd + 1
        /\ Enter(c, next_fd)
    BY <1>2 DEF Allocate, Enter, TypeOK, Numbers, Inv
  <2>2. /\ Given' = Given \cup {next_fd} /\ next_fd \notin Given
        /\ Given \subseteq Numbers /\ fds[next_fd] = INVALID_SOCKET
    BY <2>1 DEF Given, TypeOK, Numbers, InUseOK, Inv
  <2>3. free_fds' \in Seq(Numbers) /\ next_fd' \in WPK_FIRST_FD .. WPK_MAX_FDS
    BY <2>1 DEF TypeOK, Inv
  <2>4. /\ TypeOK' /\ InUseOK' /\ HandleOK' /\ OwnOK'
        /\ OpenSockets' \subseteq OpenSockets
        /\ fds'[next_fd] # INVALID_SOCKET
        /\ \A g \in Numbers : g # next_fd => fds'[g] = fds[g]
    BY <1>0, <2>1, <2>2, <2>3, EnterKeeps
  <2>5. StackOK'
    <3>1. \A g \in Given' : fds'[g] # INVALID_SOCKET
      BY <1>2, <2>2, <2>4 DEF StackOK, Inv
    <3> QED
      BY <2>1, <3>1 DEF StackOK
  <2>6. PeakOK'
    <3>1. next_fd + 1 - WPK_FIRST_FD <= peak
      BY <1>0, <1>2, FreshIsBelowPeak
    <3> QED
      BY <2>1, <2>4, <3>1, NoneOpened DEF PeakOK, BelowPeak, Enter, Inv, TypeOK
  <2> QED
    BY <2>4, <2>5, <2>6 DEF Inv
<1> QED
  BY <1>1, <1>2

LEMMA ExhaustedInv == ASSUME Inv, NEW c \in Conns, Exhausted(c) PROVE Inv'
<1> USE DEF Inv, Exhausted
<1>1. OpenSockets' = OpenSockets /\ Given' = Given
  BY DEF OpenSockets, Given
<1>2. \A d \in Conns : mine[d] # INVALID_SOCKET => Number(d)' = Number(d)
  BY DEF Number, TypeOK, OwnOK
<1>3. OwnOK'
  BY <1>1, <1>2 DEF OwnOK, TypeOK
<1> QED
  BY <1>1, <1>3 DEF TypeOK, StackOK, InUseOK, HandleOK, PeakOK, BelowPeak

LEMMA ConnectedInv == ASSUME Inv, NEW c \in Conns, Connected(c) PROVE Inv'
<1> USE DEF Inv, Connected
<1>1. OpenSockets' = OpenSockets /\ Given' = Given
  BY DEF OpenSockets, Given
<1>2. \A d \in Conns : Number(d)' = Number(d)
  BY DEF Number, TypeOK
<1>3. OwnOK'
  BY <1>1, <1>2 DEF OwnOK, TypeOK
<1>4. TypeOK'
  BY DEF TypeOK, Registered
<1> QED
  BY <1>1, <1>3, <1>4 DEF TypeOK, StackOK, InUseOK, HandleOK, PeakOK, BelowPeak

\* wpk_close frees the number of an open socket, and no other, and only the
\* connections whose socket it closed are robbed.
LEMMA ReleaseKeeps ==
    ASSUME Inv, NEW c \in Conns, NEW f, Release(c, f), NEW next \in {"failing", "closing"},
           pc[c] \in {"connecting", "idle"}, pc' = [pc EXCEPT ![c] = next],
           client' \subseteq Conns, got' \in [Conns -> Numbers \cup {0}],
           \A d \in Conns : d # c => got'[d] = got[d]
    PROVE  Inv'
<1> USE TableAssumption
<1>0. /\ next_fd' = next_fd /\ fd' = fd /\ timer' = timer /\ peak' = peak
      /\ mine' = [mine EXCEPT ![c] = INVALID_SOCKET]
      /\ Given' = Given
  BY DEF Release, Given
<1>1. /\ mine'[c] = INVALID_SOCKET /\ \A d \in Conns : d # c => mine'[d] = mine[d]
      /\ pc'[c] = next /\ \A d \in Conns : d # c => pc'[d] = pc[d]
  BY <1>0 DEF Inv, TypeOK
<1>2. \A d \in Conns : d # c => Number(d)' = Number(d)
  BY <1>0, <1>1 DEF Number
<1>3. CASE Native(f) = INVALID_SOCKET
  <2>1. fds' = fds /\ free_fds' = free_fds /\ handle' = handle /\ robbed' = robbed \ {c}
    BY <1>3 DEF Release
  <2>2. TypeOK'
    BY <1>0, <2>1 DEF Inv, TypeOK
  <2>3. StackOK' /\ InUseOK'
    BY <1>0, <2>1 DEF Inv, StackOK, InUseOK
  <2>4. HandleOK'
    BY <1>1, <2>1 DEF Inv, HandleOK
  <2>5. OwnOK'
    BY <1>0, <1>1, <1>2, <2>1 DEF Inv, OwnOK
  <2>6. PeakOK'
    <3>1. OpenSockets' = OpenSockets
      BY <2>1 DEF OpenSockets
    <3> QED
      BY <1>0, <3>1 DEF Inv, PeakOK, BelowPeak
  <2> QED
    BY <2>2, <2>3, <2>4, <2>5, <2>6 DEF Inv
<1>4. CASE Native(f) # INVALID_SOCKET
  <2> DEFINE s == fds[f]
             n == Len(free_fds)
  <2>1. /\ f \in Numbers /\ s # INVALID_SOCKET /\ s \in Sockets
        /\ f \in Given
    BY <1>4 DEF Native, Inv, TypeOK, InUseOK
  <2>2. /\ fds' = [fds EXCEPT ![f] = INVALID_SOCKET]
        /\ free_fds' = Append(free_fds, f)
        /\ handle' = [handle EXCEPT ![c] = s]
        /\ robbed' = (robbed \cup {d \in Conns : mine[d] = s}) \ {c}
    BY <1>4 DEF Release
  <2>3. TypeOK'
    BY <1>0, <2>1, <2>2 DEF Inv, TypeOK
  <2>4. /\ n \in Nat /\ Len(free_fds') = n + 1 /\ free_fds'[n + 1] = f
        /\ \A i \in 1 .. n : free_fds'[i] = free_fds[i]
    BY <2>2 DEF Inv, TypeOK
  <2>5. /\ fds'[f] = INVALID_SOCKET /\ \A g \in Numbers : g # f => fds'[g] = fds[g]
        /\ handle'[c] = s /\ \A d \in Conns : d # c => handle'[d] = handle[d]
    BY <2>1, <2>2 DEF Inv, TypeOK
  <2>6. Given \subseteq Numbers
    BY DEF Given, Numbers, Inv, TypeOK
  <2>7. \A g \in Numbers : g # f => fds[g] # s
    BY <2>1 DEF Inv, InUseOK
  <2>8. \A d \in Conns : handle[d] # s
    BY <2>1 DEF Inv, HandleOK
  <2> HIDE DEF s
  <2>9. StackOK'
    <3>1. \A i \in 1 .. n : free_fds[i] # f
      BY <2>1 DEF Inv, StackOK, s
    <3>2. \A i \in 1 .. Len(free_fds') :
            free_fds'[i] \in Given' /\ fds'[free_fds'[i]] = INVALID_SOCKET
      BY <1>0, <2>1, <2>4, <2>5, <2>6, <3>1, SMTT(30) DEF Inv, StackOK
    <3>3. \A i, j \in 1 .. Len(free_fds') : free_fds'[i] = free_fds'[j] => i = j
      BY <2>4, <3>1 DEF Inv, StackOK
    <3>4. \A g \in Given' : fds'[g] = INVALID_SOCKET =>
            \E i \in 1 .. Len(free_fds') : free_fds'[i] = g
      <4> SUFFICES ASSUME NEW g \in Given, fds'[g] = INVALID_SOCKET
                   PROVE  \E i \in 1 .. n + 1 : free_fds'[i] = g
        BY <1>0, <2>4
      <4>1. CASE g = f
        BY <4>1, <2>4
      <4>2. CASE g # f
        BY <4>2, <2>4, <2>5, <2>6 DEF Inv, StackOK
      <4> QED
        BY <4>1, <4>2
    <3> QED
      BY <3>2, <3>3, <3>4 DEF StackOK
  <2>10. InUseOK'
    BY <1>0, <2>5 DEF Inv, InUseOK
  <2>11. HandleOK'
    BY <1>1, <2>1, <2>5, <2>7, <2>8 DEF Inv, HandleOK
  <2>12. OwnOK'
    <3>1. ASSUME NEW d \in Conns, mine'[d] # INVALID_SOCKET, d \notin robbed'
          PROVE  Number(d)' \in Given' /\ fds'[Number(d)'] = mine'[d]
      <4>1. d # c /\ mine[d] # s /\ d \notin robbed /\ mine[d] # INVALID_SOCKET
        BY <1>1, <2>2, <3>1
      <4>2. Number(d) \in Given /\ fds[Number(d)] = mine[d]
        BY <4>1 DEF Inv, OwnOK
      <4>3. Number(d) # f
        BY <4>1, <4>2 DEF s
      <4> QED
        BY <1>0, <1>1, <1>2, <2>5, <2>6, <4>1, <4>2, <4>3
    <3>2. \A d \in Conns : pc'[d] \notin {"connecting", "idle"} => mine'[d] = INVALID_SOCKET
      BY <1>1 DEF Inv, OwnOK
    <3> QED
      BY <3>1, <3>2 DEF OwnOK
  <2>13. PeakOK'
    <3>1. OpenSockets' \subseteq OpenSockets
      BY <2>1, <2>5 DEF OpenSockets, s
    <3> QED
      BY <1>0, <3>1, NoneOpened DEF Inv, PeakOK, BelowPeak
  <2> QED
    BY <2>3, <2>9, <2>10, <2>11, <2>12, <2>13 DEF Inv
<1> QED
  BY <1>3, <1>4

LEMMA ConnectFailsInv == ASSUME Inv, NEW c \in Conns, ConnectFails(c) PROVE Inv'
<1>1. /\ Release(c, got[c]) /\ pc[c] = "connecting"
      /\ pc' = [pc EXCEPT ![c] = "failing"] /\ got' = [got EXCEPT ![c] = 0]
      /\ client' = client
  BY DEF ConnectFails
<1>2. /\ client' \subseteq Conns /\ got' \in [Conns -> Numbers \cup {0}]
      /\ \A d \in Conns : d # c => got'[d] = got[d]
  BY <1>1 DEF Inv, TypeOK
<1> QED
  BY <1>1, <1>2, ReleaseKeeps

LEMMA ReconnectInv == ASSUME Inv, NEW c \in Conns, Reconnect(c) PROVE Inv'
<1>1. /\ Release(c, fd[c]) /\ pc[c] = "idle"
      /\ pc' = [pc EXCEPT ![c] = "closing"] /\ got' = got
      /\ client' = client \ {c}
  BY DEF Reconnect
<1>2. client' \subseteq Conns /\ got' \in [Conns -> Numbers \cup {0}]
  BY <1>1 DEF Inv, TypeOK
<1> QED
  BY <1>1, <1>2, ReleaseKeeps

LEMMA CloseSocketInv == ASSUME Inv, NEW c \in Conns, CloseSocket(c) PROVE Inv'
<1> USE TableAssumption DEF Inv, CloseSocket
<1>1. TypeOK'
  BY DEF TypeOK
<1>2. Given' = Given
  BY DEF Given
<1>3. StackOK' /\ InUseOK'
  BY <1>2 DEF StackOK, InUseOK
<1>4. /\ handle'[c] = INVALID_SOCKET /\ pc'[c] \in {"creating", "idle"}
      /\ \A d \in Conns : d # c => handle'[d] = handle[d] /\ pc'[d] = pc[d]
  BY DEF TypeOK
<1>5. HandleOK'
  BY <1>4 DEF HandleOK
<1>6. OwnOK'
  <2>1. mine[c] = INVALID_SOCKET /\ \A d \in Conns : d # c => Number(d)' = Number(d)
    BY <1>4 DEF OwnOK, Number
  <2> QED
    BY <1>2, <1>4, <2>1 DEF OwnOK
<1>7. PeakOK'
  <2>1. OpenSockets' \subseteq OpenSockets
    BY <1>4 DEF OpenSockets
  <2> QED
    BY <2>1, NoneOpened DEF PeakOK, BelowPeak
<1> QED
  BY <1>1, <1>3, <1>5, <1>6, <1>7

\* Timers and registrations do not touch the table.
LEMMA TimersInv ==
    ASSUME Inv, NEW c \in Conns, Delay(c) \/ DelayRequest(c) PROVE Inv'
<1> USE DEF Inv, Delay, DelayRequest
<1>1. TypeOK'
  BY DEF TypeOK, Registered
<1>2. OpenSockets' = OpenSockets /\ Given' = Given
  BY DEF OpenSockets, Given
<1>3. \A d \in Conns : Number(d)' = Number(d)
  BY DEF Number
<1>4. StackOK' /\ InUseOK' /\ HandleOK'
  BY <1>2 DEF StackOK, InUseOK, HandleOK
<1>5. OwnOK' /\ PeakOK'
  BY <1>2, <1>3 DEF OwnOK, PeakOK, BelowPeak
<1> QED
  BY <1>1, <1>4, <1>5

LEMMA StutterInv == ASSUME Inv, UNCHANGED vars PROVE Inv'
<1>1. UNCHANGED <<fds, free_fds, next_fd, pc, fd, got, handle, client, timer, mine, robbed, peak>>
  BY DEF vars
<1>2. OpenSockets' = OpenSockets /\ Given' = Given
  BY <1>1 DEF OpenSockets, Given
<1>3. TypeOK' /\ StackOK'
  BY <1>1, <1>2 DEF Inv, TypeOK, StackOK
<1>4. InUseOK' /\ HandleOK'
  BY <1>1, <1>2 DEF Inv, InUseOK, HandleOK
<1>5. OwnOK' /\ PeakOK'
  BY <1>1, <1>2 DEF Inv, OwnOK, Number, PeakOK, BelowPeak
<1> QED
  BY <1>3, <1>4, <1>5 DEF Inv

LEMMA Inductive == Spec => []Inv
<1>1. ASSUME Inv, [Next]_vars PROVE Inv'
  <2>1. ASSUME NEW c \in Conns,
               \/ Create(c) \/ Allocate(c) \/ Exhausted(c) \/ Connected(c)
               \/ ConnectFails(c) \/ Reconnect(c) \/ CloseSocket(c)
               \/ Delay(c) \/ DelayRequest(c)
        PROVE  Inv'
    BY <1>1, <2>1, CreateInv, AllocateInv, ExhaustedInv, ConnectedInv, ConnectFailsInv,
       ReconnectInv, CloseSocketInv, TimersInv
  <2> QED
    BY <1>1, <2>1, StutterInv DEF Next
<1> QED
  BY <1>1, InitInv, PTL DEF Spec

\* Every variable has its type.
THEOREM TypeCorrect == Spec => []TypeOK
<1>1. Inv => TypeOK
  BY DEF Inv
<1> QED
  BY <1>1, Inductive, PTL

\* Numbers are handed out in such a way that they stay below the peak number of
\* open sockets, whatever the threads do between the calls and the lock, and
\* whichever numbers they close.
THEOREM NumbersStayBelowPeak == Spec => []BelowPeak
<1>1. Inv => BelowPeak
  BY DEF Inv, PeakOK
<1> QED
  BY <1>1, Inductive, PTL

\* Without the lock, wpk_native finds the socket of the connection that asks, unless
\* another connection has closed that socket.
THEOREM LookupFindsOwn == Spec => []OwnSocket
<1>1. Inv => OwnSocket
  BY TableAssumption DEF Inv, OwnOK, OwnSocket, Finds, Native, Given, Numbers, TypeOK
<1> QED
  BY <1>1, Inductive, PTL
===============================================================================
