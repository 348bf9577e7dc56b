-------------------------- MODULE PollBackendsProofs --------------------------
(***************************************************************************)
(* Whatever the backend and however many descriptors there are, what the   *)
(* kernel watches is what is registered.                                   *)
(***************************************************************************)
EXTENDS PollBackends, FiniteSetTheorems, SequenceTheorems, TLAPS

EntryType == [fd : Fds, bits : SUBSET {R, W}, rfired : BOOLEAN, live : BOOLEAN]

\* The inductive form of WatchedIsRegistered for one descriptor: beside it, only
\* event ports have pending entries, only an fd_set can hold a number that is
\* closed, and an event that is registered has a procedure.
Sound(d) ==
    /\ d \in Descriptor
    /\ Consistent(d)
    /\ backend # "evport" => d.pend = {}
    /\ backend # "select" /\ ~d.open => d.mask = {}
    /\ R \in d.mask => d.rproc # "none"
    /\ W \in d.mask => d.wproc # "none"

TableInv == \A f \in Fds : Sound(desc[f])

IInv == TypeOK /\ TableInv

-------------------------------------------------------------------------------
(* The operations on one descriptor *)

LEMMA AddKeeps ==
    ASSUME NEW d, Sound(d), backend \in Backends, NEW m \in SUBSET {R, W},
           NEW rp \in {"connected", "readable"}, NEW wp \in {"connected", "writeable"}
    PROVE  /\ Sound(CreateFileEvent(d, m, rp, wp))
           /\ CreateFileEvent(d, m, rp, wp).open = d.open
  <1>. USE DEF Sound, Descriptor, Consistent
  <1>1. CASE ~Accepts(d)  BY <1>1 DEF CreateFileEvent
  <1>2. CASE Accepts(d) /\ backend = "select"
    BY <1>2 DEF CreateFileEvent, Accepts, AddEvent, SelectAdd
  <1>3. CASE Accepts(d) /\ backend = "kqueue"
    BY <1>3 DEF CreateFileEvent, Accepts, AddEvent, KqueueAdd
  <1>4. CASE Accepts(d) /\ backend = "evport"
    BY <1>4, ZenonT(60) DEF CreateFileEvent, Accepts, AddEvent, EvportAdd, EvportAccepts
  <1>5. CASE Accepts(d) /\ backend = "wepoll"
    BY <1>5 DEF CreateFileEvent, Accepts, AddEvent, WepollAdd, EpollAdd, EpollAccepts
  <1>6. CASE Accepts(d) /\ backend \notin {"select", "kqueue", "evport", "wepoll"}
    BY <1>6 DEF CreateFileEvent, Accepts, AddEvent, EpollAdd, EpollAccepts
  <1>. QED  BY <1>1, <1>2, <1>3, <1>4, <1>5, <1>6

LEMMA DelKeeps ==
    ASSUME NEW d, Sound(d), NEW m \in SUBSET {R, W}
    PROVE  /\ Sound(DeleteFileEvent(d, m))
           /\ DeleteFileEvent(d, m).mask = d.mask \ m
           /\ DeleteFileEvent(d, m).open = d.open
  <1>. USE DEF Sound, Descriptor, Consistent
  <1>1. CASE d.mask = {}  BY <1>1 DEF DeleteFileEvent
  <1>2. CASE d.mask # {} /\ backend = "select"
    BY <1>2 DEF DeleteFileEvent, DelEvent, SelectDel
  <1>3. CASE d.mask # {} /\ backend = "kqueue"
    BY <1>3 DEF DeleteFileEvent, DelEvent, KqueueDel
  <1>4. CASE d.mask # {} /\ backend = "evport"
    BY <1>4, ZenonT(60) DEF DeleteFileEvent, DelEvent, EvportDel
  <1>5. CASE d.mask # {} /\ backend = "wepoll"
    BY <1>5 DEF DeleteFileEvent, DelEvent, WepollDel, EpollDel
  <1>6. CASE d.mask # {} /\ backend \notin {"select", "kqueue", "evport", "wepoll"}
    BY <1>6 DEF DeleteFileEvent, DelEvent, EpollDel
  <1>. QED  BY <1>1, <1>2, <1>3, <1>4, <1>5, <1>6

LEMMA CloseKeeps ==
    ASSUME NEW d, Sound(d)
    PROVE  Sound(CloseSocket(DeleteFileEvent(d, {R, W})))
  <1>. DEFINE e == DeleteFileEvent(d, {R, W})
  <1>1. Sound(e) /\ e.mask = {}  BY DelKeeps DEF Sound, Descriptor
  <1>. HIDE DEF e
  <1>2. e.kernel = {} /\ e.pend = {}  BY <1>1 DEF Sound, Consistent
  <1>3. Sound(CloseSocket(e))
    BY <1>1, <1>2 DEF Sound, Descriptor, Consistent, CloseSocket
  <1>. QED  BY <1>3 DEF e

LEMMA ConnectingKeeps ==
    ASSUME NEW d, Sound(d), backend \in Backends
    PROVE  Sound(Connecting(d))
  <1>1. Sound([d EXCEPT !.open = TRUE])  BY DEF Sound, Descriptor, Consistent
  <1>. QED  BY <1>1, AddKeeps DEF Connecting

LEMMA WriteableKeeps ==
    ASSUME NEW d, Sound(d), backend \in Backends
    PROVE  Sound(Writeable(d))
  BY AddKeeps DEF Writeable

\* With event ports a poll only moves registrations between the kernel and the
\* pending entries.
LEMMA ReassociateKeeps ==
    ASSUME NEW d, Sound(d), backend = "evport"
    PROVE  /\ Sound(Reassociate(d)) /\ Reassociate(d).pend = {}
           /\ Sound([Reassociate(d) EXCEPT !.pend = Reassociate(d).kernel, !.kernel = {}])
  <1>1. Sound(Reassociate(d)) /\ Reassociate(d).pend = {}
    BY DEF Sound, Descriptor, Consistent, Reassociate
  <1>. DEFINE e == Reassociate(d)
  <1>. HIDE DEF e
  <1>2. Sound([e EXCEPT !.pend = e.kernel, !.kernel = {}])
    <2>1. Sound(e) /\ e.pend = {}  BY <1>1 DEF e
    <2>. QED  BY <2>1 DEF Sound, Descriptor, Consistent
  <1>. QED  BY <1>1, <1>2 DEF e

-------------------------------------------------------------------------------
(* The steps *)

LEMMA TypeFromTable ==
    ASSUME desc \in [Fds -> Descriptor], NEW f \in Fds, NEW d, Sound(d), TableInv
    PROVE  /\ [desc EXCEPT ![f] = d] \in [Fds -> Descriptor]
           /\ \A g \in Fds : Sound([desc EXCEPT ![f] = d][g])
  BY DEF Sound, TableInv

\* Whatever a handler does, the table stays sound.
LEMMA OutcomesKeep ==
    ASSUME IInv, NEW f \in Fds, NEW proc \in {"none", "connected", "readable", "writeable"},
           proc # "none", NEW o \in Outcomes(f, proc)
    PROVE  /\ o.table \in [Fds -> Descriptor]
           /\ \A g \in Fds : Sound(o.table[g])
           /\ o.replaced \in BOOLEAN
  <1>. USE DEF IInv, TypeOK, TableInv
  <1>1. CASE o = Then(desc)  BY <1>1 DEF Then
  <1>2. CASE o \in Reconnects(f)
    <2>. DEFINE gone == [desc EXCEPT ![f] = CloseSocket(DeleteFileEvent(@, {R, W}))]
    <2>1. /\ gone \in [Fds -> Descriptor]
          /\ \A g \in Fds : Sound(gone[g])
      BY CloseKeeps, TypeFromTable DEF Sound
    <2>2. \A g \in Fds : /\ [gone EXCEPT ![g] = Connecting(@)] \in [Fds -> Descriptor]
                         /\ \A h \in Fds : Sound([gone EXCEPT ![g] = Connecting(@)][h])
      <3>. HIDE DEF gone
      <3>. TAKE g \in Fds
      <3>1. Sound(Connecting(gone[g]))  BY <2>1, ConnectingKeeps
      <3>. QED  BY <2>1, <3>1 DEF Sound
    <2>3. PICK t \in {gone} \cup {[gone EXCEPT ![g] = Connecting(@)] :
                                     g \in {h \in Fds : ~gone[h].open}} :
             o = [table |-> t, replaced |-> TRUE]
      BY <1>2 DEF Reconnects
    <2>. HIDE DEF gone
    <2>. QED  BY <2>1, <2>2, <2>3
  <1>3. CASE proc = "connected" /\ o = Then([desc EXCEPT ![f] =
              Writeable(CreateFileEvent(@, {R}, "readable", "writeable"))])
    <2>1. Sound(CreateFileEvent(desc[f], {R}, "readable", "writeable"))  BY AddKeeps
    <2>2. Sound(Writeable(CreateFileEvent(desc[f], {R}, "readable", "writeable")))
      BY <2>1, WriteableKeeps
    <2>. QED  BY <1>3, <2>2, TypeFromTable DEF Then
  <1>4. CASE proc = "readable" /\ o = Then([desc EXCEPT ![f] = Writeable(@)])
    BY <1>4, WriteableKeeps, TypeFromTable DEF Then
  <1>5. CASE proc = "writeable" /\ o = Then([desc EXCEPT ![f] = DeleteFileEvent(@, {W})])
    BY <1>5, DelKeeps, TypeFromTable DEF Then
  <1>. QED  BY <1>1, <1>2, <1>3, <1>4, <1>5 DEF Outcomes

LEMMA EntriesFinite == IsFiniteSet(EntryType)
  <1>. DEFINE P == (Fds \X SUBSET {R, W}) \X (BOOLEAN \X BOOLEAN)
              h == [p \in P |-> [fd |-> p[1][1], bits |-> p[1][2],
                                 rfired |-> p[2][1], live |-> p[2][2]]]
  <1>1. IsFiniteSet(P)
    <2>1. IsFiniteSet({R, W}) /\ IsFiniteSet(BOOLEAN)
      <3>1. BOOLEAN = {TRUE} \cup {FALSE} /\ {R, W} = {R} \cup {W}  OBVIOUS
      <3>2. \A x : IsFiniteSet({x})  BY FS_Singleton
      <3>3. IsFiniteSet({TRUE} \cup {FALSE})  BY <3>2, FS_Union
      <3>4. IsFiniteSet({R} \cup {W})  BY <3>2, FS_Union
      <3>. QED  BY <3>1, <3>3, <3>4
    <2>2. IsFiniteSet(SUBSET {R, W})  BY <2>1, FS_SUBSET
    <2>3. IsFiniteSet(Fds \X SUBSET {R, W})  BY <2>2, FS_Product, PollAssumption
    <2>4. IsFiniteSet(BOOLEAN \X BOOLEAN)  BY <2>1, FS_Product
    <2>. QED  BY <2>3, <2>4, FS_Product
  <1>2. h \in Surjection(P, EntryType)
    <2>1. h \in [P -> EntryType]  BY DEF EntryType
    <2>2. \A e \in EntryType : \E p \in P : h[p] = e
      <3>. TAKE e \in EntryType
      <3>1. <<<<e.fd, e.bits>>, <<e.rfired, e.live>>>> \in P  BY DEF EntryType
      <3>2. h[<<<<e.fd, e.bits>>, <<e.rfired, e.live>>>>] = e
        BY <3>1, Zenon DEF EntryType
      <3>. QED  BY <3>1, <3>2
    <2>. QED  BY <2>1, <2>2 DEF Surjection
  <1>. HIDE DEF P, h
  <1>. QED  BY <1>1, <1>2, FS_Surjection

LEMMA FireType ==
    ASSUME NEW S, S \subseteq EntryType, Fire(S)
    PROVE  fired' \in Seq(EntryType)
  <1>1. IsFiniteSet(S)  BY EntriesFinite, FS_Subset
  <1>2. Cardinality(S) \in Nat  BY <1>1, FS_CardinalityType
  <1>3. fired' \in [1 .. Cardinality(S) -> S]  BY DEF Fire, SetToSeqs
  <1>4. fired' \in [1 .. Cardinality(S) -> EntryType]  BY <1>3
  <1>. HIDE DEF EntryType
  <1>. QED  BY <1>2, <1>4, SeqDef

LEMMA MarkedType ==
    ASSUME NEW s \in Seq(EntryType), NEW f, NEW r \in BOOLEAN
    PROVE  Marked(s, f, r) \in Seq(EntryType)
  <1>1. /\ Len(s) \in Nat /\ DOMAIN s = 1 .. Len(s)
        /\ \A i \in 1 .. Len(s) : s[i] \in EntryType
    BY LenProperties, ElementOfSeq
  <1>2. Marked(s, f, r) \in [1 .. Len(s) -> EntryType]
    BY <1>1 DEF Marked, EntryType
  <1>. HIDE DEF EntryType
  <1>. QED  BY <1>1, <1>2, SeqDef

LEMMA InitSound == Init => IInv
  BY PollAssumption DEF Init, IInv, TypeOK, TableInv, Sound, Consistent, Unused,
     Descriptor

\* A poll changes the table with event ports only, and reports entries.
LEMMA PollKeeps == IInv /\ Poll => IInv'
  <1>. SUFFICES ASSUME IInv, Poll PROVE IInv'  OBVIOUS
  <1>. USE DEF IInv, TypeOK
  <1>0. \A f \in Fds : Reportable(f) \in SUBSET {R, W} /\ desc[f].mask \in SUBSET {R, W}
    BY DEF Reportable, Descriptor
  <1>1. \A f \in Fds, bits \in SUBSET {R, W} : Entry(f, bits) \in EntryType
    BY DEF Entry, EntryType
  <1>2. CASE UNCHANGED desc /\ fired' \in Seq(EntryType)
    <2>1. TableInv'  BY <1>2 DEF Poll, TableInv, Sound, Consistent, Descriptor
    <2>. QED  BY <1>2, <2>1 DEF Poll, EntryType
  <1>3. CASE backend = "select"
    <2>1. \A f \in Fds : Entry(f, desc[f].mask \cap Reportable(f)) \in EntryType
      BY <1>0, <1>1
    <2>. QED  BY <1>2, <1>3, <2>1, FireType DEF Poll, SelectPoll
  <1>4. CASE backend = "kqueue"
    <2>1. \A f \in Fds : \A b \in Reportable(f) : Entry(f, {b}) \in EntryType
      BY <1>0, <1>1
    <2>2. UNION {{Entry(f, {b}) : b \in Reportable(f)} : f \in Fds} \subseteq EntryType
      <3>1. SUFFICES ASSUME NEW e, NEW f \in Fds, e \in {Entry(f, {b}) : b \in Reportable(f)}
                     PROVE  e \in EntryType
        OBVIOUS
      <3>. QED  BY <2>1, <3>1
    <2>. QED  BY <1>2, <1>4, <2>2, FireType DEF Poll, KqueuePoll
  <1>5. CASE backend \notin {"select", "kqueue", "evport"}
    <2>1. \A f \in Fds : Entry(f, EpollBits(f)) \in EntryType
      BY <1>0, <1>1 DEF EpollBits
    <2>2. {Entry(f, EpollBits(f)) : f \in {g \in Fds : EpollBits(g) # {}}} \subseteq EntryType
      BY <2>1
    <2>. QED  BY <1>2, <1>5, <2>2, FireType DEF Poll, EpollPoll, WepollPoll
  <1>6. CASE backend = "evport"
    <2>. DEFINE again == [f \in Fds |-> Reassociate(desc[f])]
                due == {f \in Fds : again[f].kernel \cap again[f].ready # {}}
    <2>1. PICK batch \in SUBSET due :
            /\ Fire({Entry(f, again[f].kernel \cap again[f].ready) : f \in batch})
            /\ desc' = [f \in Fds |->
                 IF f \in batch
                   THEN [again[f] EXCEPT !.pend = again[f].kernel, !.kernel = {}]
                   ELSE again[f]]
      BY <1>6 DEF Poll, EvportPoll
    <2>2. \A f \in Fds : /\ Sound(again[f])
                         /\ Sound([again[f] EXCEPT !.pend = again[f].kernel, !.kernel = {}])
      BY <1>6, ReassociateKeeps DEF TableInv
    <2>3. \A f \in Fds : desc'[f] \in Descriptor /\ Sound(desc'[f])
      <3>. HIDE DEF again
      <3>. QED  BY <2>1, <2>2 DEF Sound
    <2>4. TableInv'  BY <2>3 DEF Poll, TableInv, Sound, Consistent
    <2>5. \A f \in Fds : again[f].kernel \cap again[f].ready \in SUBSET {R, W}
      <3>. HIDE DEF again
      <3>. QED  BY <2>2 DEF Sound, Descriptor
    <2>6. fired' \in Seq(EntryType)
      <3>0. batch \subseteq Fds  OBVIOUS
      <3>1. {Entry(f, again[f].kernel \cap again[f].ready) : f \in batch} \subseteq EntryType
        <4>. HIDE DEF again, due
        <4>1. \A f \in batch :
                Entry(f, again[f].kernel \cap again[f].ready) \in EntryType
          <5>. TAKE f \in batch
          <5>. DEFINE bits == again[f].kernel \cap again[f].ready
          <5>1. f \in Fds /\ bits \in SUBSET {R, W}  BY <2>5, <3>0
          <5>. HIDE DEF bits
          <5>2. Entry(f, bits) \in EntryType  BY <1>1, <5>1
          <5>. QED  BY <5>2 DEF bits
        <4>. QED  BY <4>1
      <3>. QED  BY <2>1, <3>1, FireType
    <2>. QED  BY <2>1, <2>3, <2>4, <2>6 DEF Poll, EntryType
  <1>. QED  BY <1>3, <1>4, <1>5, <1>6

\* A handler called for the head entry, for one bit of it.
LEMMA CallKeeps ==
    ASSUME IInv, fired # <<>>, NEW e, e \in EntryType,
           NEW proc \in {"connected", "readable", "writeable"},
           NEW o \in Outcomes(e.fd, proc), NEW rest, rest \in Seq(EntryType),
           desc' = o.table, fired' = Marked(rest, e.fd, o.replaced),
           UNCHANGED <<backend, phase>>
    PROVE  IInv'
  <1>1. e.fd \in Fds  BY DEF EntryType
  <1>2. /\ o.table \in [Fds -> Descriptor] /\ o.replaced \in BOOLEAN
        /\ \A g \in Fds : Sound(o.table[g])
    BY <1>1, OutcomesKeep
  <1>3. TableInv'  BY <1>2 DEF TableInv, Sound, Consistent
  <1>4. fired' \in Seq(EntryType)  BY <1>2, MarkedType
  <1>. QED  BY <1>2, <1>3, <1>4 DEF IInv, TypeOK, EntryType

LEMMA StepKeeps == IInv /\ [Next]_vars => IInv'
  <1>. SUFFICES ASSUME IInv, [Next]_vars PROVE IInv'  OBVIOUS
  <1>0. fired # <<>> => fired[1] \in EntryType /\ Tail(fired) \in Seq(EntryType)
    <2>1. fired \in Seq(EntryType)  BY DEF IInv, TypeOK, EntryType
    <2>. HIDE DEF EntryType
    <2>2. ASSUME fired # <<>> PROVE Head(fired) \in EntryType /\ Tail(fired) \in Seq(EntryType)
      BY <2>1, <2>2, HeadTailProperties
    <2>. QED  BY <2>1, <2>2
  <1>1. CASE Poll  BY <1>1, PollKeeps
  <1>2. CASE CallRead
    <2>. DEFINE e == [fired[1] EXCEPT !.bits = @ \ {R}, !.rfired = TRUE]
    <2>1. e \in EntryType /\ e.fd = fired[1].fd /\ fired[1].fd \in Fds
      BY <1>0, <1>2 DEF CallRead, EntryType
    <2>2. PICK o \in Outcomes(e.fd, desc[e.fd].rproc) :
            desc' = o.table /\ fired' = Marked(<<e>> \o Tail(fired), e.fd, o.replaced)
      BY <1>2 DEF CallRead
    <2>3. <<e>> \o Tail(fired) \in Seq(EntryType)
      BY <1>0, <1>2, <2>1 DEF CallRead
    <2>4. desc[e.fd].rproc \in {"connected", "readable", "writeable"}
      <3>1. R \in desc[e.fd].mask  BY <1>2, <2>1 DEF CallRead, ReadCalled, Due
      <3>. QED  BY <2>1, <3>1 DEF IInv, TableInv, Sound, Descriptor
    <2>. HIDE DEF e
    <2>. QED  BY <1>2, <2>1, <2>2, <2>3, <2>4, CallKeeps DEF CallRead
  <1>3. CASE CallWrite
    <2>. DEFINE e == fired[1]
    <2>1. e \in EntryType /\ e.fd \in Fds  BY <1>0, <1>3 DEF CallWrite, EntryType
    <2>2. PICK o \in Outcomes(e.fd, desc[e.fd].wproc) :
            desc' = o.table /\ fired' = Marked(Tail(fired), e.fd, o.replaced)
      BY <1>3 DEF CallWrite
    <2>3. desc[e.fd].wproc \in {"connected", "readable", "writeable"}
      <3>1. W \in desc[e.fd].mask  BY <1>3, <2>1 DEF CallWrite, WriteCalled, Due
      <3>. QED  BY <2>1, <3>1 DEF IInv, TableInv, Sound, Descriptor
    <2>. HIDE DEF e
    <2>. QED  BY <1>0, <1>3, <2>1, <2>2, <2>3, CallKeeps DEF CallWrite
  <1>4. CASE NoCall
    <2>1. TableInv'  BY <1>4 DEF NoCall, IInv, TableInv, Sound, Consistent
    <2>. QED  BY <1>0, <1>4, <2>1 DEF NoCall, IInv, TypeOK, EntryType
  <1>5. ASSUME NEW f \in Fds, NEW d, Sound(d), desc' = [desc EXCEPT ![f] = d],
               UNCHANGED <<backend, fired, phase>>
        PROVE  IInv'
    <2>1. desc' \in [Fds -> Descriptor] /\ \A g \in Fds : Sound(desc'[g])
      BY <1>5, TypeFromTable DEF IInv, TypeOK
    <2>2. TableInv'  BY <1>5, <2>1 DEF TableInv, Sound, Consistent
    <2>. QED  BY <1>5, <2>1, <2>2 DEF IInv, TypeOK
  <1>6. ASSUME NEW f \in Fds, DelayedInitialConnect(f) PROVE IInv'
    <2>1. Sound(Connecting(desc[f]))  BY ConnectingKeeps DEF IInv, TypeOK, TableInv
    <2>. QED  BY <1>5, <1>6, <2>1 DEF DelayedInitialConnect
  <1>7. ASSUME NEW f \in Fds, DelayRequest(f) PROVE IInv'
    <2>1. Sound(Writeable(desc[f]))  BY WriteableKeeps DEF IInv, TypeOK, TableInv
    <2>. QED  BY <1>5, <1>7, <2>1 DEF DelayRequest
  <1>8. ASSUME NEW f \in Fds, Readiness(f) PROVE IInv'
    <2>1. PICK s \in (SUBSET {R, W}) \cup {{R, W, "err"}} :
            desc' = [desc EXCEPT ![f].ready = s]
      BY <1>8 DEF Readiness
    <2>2. Sound([desc[f] EXCEPT !.ready = s])
      <3>0. s \in SUBSET {R, W} \/ s = {R, W, "err"}  BY <2>1
      <3>1. s \in SUBSET {R, W, "err"}  BY <3>0
      <3>2. Sound(desc[f])  BY DEF IInv, TableInv
      <3>. QED  BY <3>1, <3>2 DEF Sound, Consistent, Descriptor
    <2>3. desc' = [desc EXCEPT ![f] = [desc[f] EXCEPT !.ready = s]]  BY <2>1
    <2>. QED  BY <1>5, <1>8, <2>2, <2>3 DEF Readiness
  <1>9. CASE NextRound
    <2>1. TableInv'  BY <1>9 DEF NextRound, IInv, TableInv, Sound, Consistent
    <2>. QED  BY <1>9, <2>1 DEF NextRound, Dispatched, IInv, TypeOK
  <1>10. CASE UNCHANGED vars
    <2>1. TableInv'  BY <1>10 DEF vars, IInv, TableInv, Sound, Consistent
    <2>. QED  BY <1>10, <2>1 DEF vars, IInv, TypeOK
  <1>. QED  BY <1>1, <1>2, <1>3, <1>4, <1>6, <1>7, <1>8, <1>9, <1>10 DEF Next

-------------------------------------------------------------------------------
(* What a poll reports *)

\* Fire puts each entry into the list once.
LEMMA FireAll ==
    ASSUME NEW S, S \subseteq EntryType, Fire(S)
    PROVE  /\ fired' \in Seq(EntryType) /\ DOMAIN fired' = 1 .. Len(fired')
           /\ Len(fired') = Cardinality(S)
           /\ \A i \in DOMAIN fired' : fired'[i] \in S
           /\ \A i, j \in DOMAIN fired' : i # j => fired'[i] # fired'[j]
           /\ \A e \in S : \E i \in DOMAIN fired' : fired'[i] = e
  <1>. DEFINE n == Cardinality(S)
  <1>1. IsFiniteSet(S)  BY EntriesFinite, FS_Subset
  <1>2. n \in Nat  BY <1>1, FS_CardinalityType
  <1>. HIDE DEF n
  <1>3. /\ fired' \in [1 .. n -> S]
        /\ \A i, j \in 1 .. n : i # j => fired'[i] # fired'[j]
    BY DEF Fire, SetToSeqs, n
  <1>4. fired' \in Seq(EntryType)  BY FireType
  <1>5. DOMAIN fired' = 1 .. n  BY <1>3
  <1>. HIDE DEF EntryType
  <1>6. Len(fired') = n /\ DOMAIN fired' = 1 .. Len(fired')
    BY <1>2, <1>4, <1>5, LenProperties
  <1>7. fired' \in Injection(1 .. n, S)
    BY <1>3 DEF Injection, IsInjective
  <1>8. Cardinality(1 .. n) = Cardinality(S)
    BY <1>2, FS_Interval DEF n
  <1>9. fired' \in Surjection(1 .. n, S)  BY <1>1, <1>7, <1>8, FS_Injection
  <1>10. \A e \in S : \E i \in 1 .. n : fired'[i] = e  BY <1>9 DEF Surjection
  <1>. QED  BY <1>3, <1>4, <1>5, <1>6, <1>10 DEF n

\* The poll makes one entry of each descriptor in S, with the bits B[f].
OneEach(S, B) ==
    /\ S \subseteq Fds /\ \A f \in S : B[f] \in SUBSET {R, W}
    /\ Fire({Entry(f, B[f]) : f \in S})

\* Then no two entries are of the same descriptor, and what the poll says of f
\* is B[f].
LEMMA FireOnce ==
    ASSUME NEW S, NEW B, OneEach(S, B)
    PROVE  /\ Len(fired') = Cardinality(S)
           /\ fired' # << >> => S # {}
           /\ \A i, j \in DOMAIN fired' : i # j => fired'[i].fd # fired'[j].fd
           /\ \A i \in DOMAIN fired' : fired'[i].live
           /\ \A f \in S : Told(f) = B[f]
           /\ \A f \in Fds \ S : Told(f) = {}
  <1>. USE DEF OneEach
  <1>. DEFINE E == {Entry(f, B[f]) : f \in S}
  <1>1. \A f \in S : /\ Entry(f, B[f]).fd = f /\ Entry(f, B[f]).bits = B[f]
                     /\ Entry(f, B[f]).live
    BY DEF Entry
  <1>2. E \subseteq EntryType
    <2>1. \A f \in Fds, bits \in SUBSET {R, W} : Entry(f, bits) \in EntryType
      BY DEF Entry, EntryType
    <2>. QED  BY <2>1
  <1>3. /\ fired' \in Seq(EntryType) /\ DOMAIN fired' = 1 .. Len(fired')
        /\ Len(fired') = Cardinality(E)
        /\ \A i \in DOMAIN fired' : fired'[i] \in E
        /\ \A i, j \in DOMAIN fired' : i # j => fired'[i] # fired'[j]
        /\ \A e \in E : \E i \in DOMAIN fired' : fired'[i] = e
    <2>. HIDE DEF E
    <2>1. Fire(E)  BY DEF E
    <2>. QED  BY <1>2, <2>1, FireAll
  <1>4. \A i \in DOMAIN fired' : /\ fired'[i].fd \in S /\ fired'[i].live
                                 /\ fired'[i] = Entry(fired'[i].fd, B[fired'[i].fd])
                                 /\ fired'[i].bits = B[fired'[i].fd]
    <2>. TAKE i \in DOMAIN fired'
    <2>1. fired'[i] \in E  BY <1>3, Zenon
    <2>2. PICK f \in S : fired'[i] = Entry(f, B[f])  BY <2>1, Zenon
    <2>. QED  BY <1>1, <2>2
  <1>5. \A i, j \in DOMAIN fired' : i # j => fired'[i].fd # fired'[j].fd
    BY <1>3, <1>4
  <1>6. ASSUME NEW f \in S PROVE Told(f) = B[f]
    <2>1. PICK i \in DOMAIN fired' : fired'[i] = Entry(f, B[f])  BY <1>3, Zenon
    <2>2. {j \in DOMAIN fired' : fired'[j].fd = f} = {i}  BY <1>1, <1>5, <2>1
    <2>3. Told(f) = UNION {fired'[j].bits : j \in {i}}  BY <2>2 DEF Told
    <2>. QED  BY <1>1, <2>1, <2>3
  <1>7. ASSUME NEW f \in Fds \ S PROVE Told(f) = {}
    <2>1. {j \in DOMAIN fired' : fired'[j].fd = f} = {}  BY <1>4
    <2>. QED  BY <2>1 DEF Told
  <1>8. Cardinality(E) = Cardinality(S)
    <2>. DEFINE g == [f \in S |-> Entry(f, B[f])]
    <2>1. g \in Bijection(S, E)
      <3>1. g \in [S -> E]  OBVIOUS
      <3>2. \A e \in E : \E f \in S : g[f] = e  OBVIOUS
      <3>3. \A f, h \in S : g[f] = g[h] => f = h  BY <1>1
      <3>. QED  BY <3>1, <3>2, <3>3 DEF Bijection, Injection, Surjection, IsInjective
    <2>2. IsFiniteSet(S)  BY PollAssumption, FS_Subset
    <2>3. ExistsBijection(S, E)  BY <2>1 DEF ExistsBijection
    <2>. HIDE DEF E
    <2>. QED  BY <2>2, <2>3, FS_Bijection
  <1>9. fired' # << >> => S # {}
    <2>. SUFFICES ASSUME fired' # << >> PROVE S # {}  OBVIOUS
    <2>1. fired' \in Seq(EntryType)  BY <1>3
    <2>2. 1 \in DOMAIN fired'
      <3>. HIDE DEF EntryType
      <3>. QED  BY <1>3, <2>1, EmptySeq, LenProperties
    <2>. QED  BY <1>4, <2>2
  <1>. HIDE DEF E
  <1>. QED  BY <1>3, <1>4, <1>5, <1>6, <1>7, <1>8, <1>9

\* An error is reported only of a socket that is readable and writable too.
ErrInv == \A f \in Fds : "err" \in desc[f].ready => W \in desc[f].ready

\* What is not in S has nothing to report, or an event port's batch is full, or
\* the set of select holds a closed number.
Reports(S, B) ==
    /\ OneEach(S, B)
    /\ \A f \in Fds :
         \/ f \in S /\ B[f] \cap desc[f].mask = desc[f].ready \cap desc[f].mask
         \/ f \notin S /\ desc[f].ready \cap desc[f].mask = {}
         \/ f \notin S /\ backend = "evport" /\ Cardinality(S) = MaxBatch
         \/ S = {} /\ Poisoned

LEMMA PollReports ==
    ASSUME IInv, ErrInv, Poll, backend # "kqueue"
    PROVE  \E S \in SUBSET Fds : \E B \in [Fds -> SUBSET {R, W}] : Reports(S, B)
  <1>0. \A f \in Fds : /\ Sound(desc[f]) /\ desc[f] \in Descriptor
                       /\ Reportable(f) \in SUBSET {R, W}
                       /\ desc[f].mask \in SUBSET {R, W}
    BY DEF IInv, TypeOK, TableInv, Reportable, Descriptor
  <1>1. CASE backend = "select"
    <2>. DEFINE some == ~Poisoned /\ \E f \in Fds : Reportable(f) # {}
                S == {f \in Fds : some /\ desc[f].mask # {}}
                B == [f \in Fds |-> desc[f].mask \cap Reportable(f)]
    <2>1. B \in [Fds -> SUBSET {R, W}]  BY <1>0
    <2>2. Fire({Entry(f, B[f]) : f \in S})
      <3>1. {Entry(f, B[f]) : f \in S} =
              {Entry(f, desc[f].mask \cap Reportable(f)) : f \in S}
        OBVIOUS
      <3>. QED  BY <1>1, <3>1 DEF Poll, SelectPoll
    <2>3. ASSUME ~Poisoned, NEW f \in Fds, f \notin S
          PROVE  desc[f].ready \cap desc[f].mask = {}
      <3>1. CASE desc[f].mask = {}  BY <3>1
      <3>2. CASE \A g \in Fds : Reportable(g) = {}
        <4>1. Reportable(f) = {}  BY <3>2
        <4>2. desc[f].mask = desc[f].kernel  BY <1>0, <1>1 DEF Sound, Consistent
        <4>. QED  BY <4>1, <4>2 DEF Reportable
      <3>. QED  BY <2>3, <3>1, <3>2
    <2>4. ASSUME NEW f \in Fds
          PROVE  B[f] \cap desc[f].mask = desc[f].ready \cap desc[f].mask
      BY <1>0, <1>1 DEF Sound, Consistent, Reportable
    <2>. HIDE DEF B, S
    <2>5. S \in SUBSET Fds  BY DEF S
    <2>6. \A f \in S : B[f] \in SUBSET {R, W}  BY <2>1, <2>5
    <2>7. Poisoned => S = {}  BY DEF S
    <2>8. Reports(S, B)  BY <2>2, <2>3, <2>4, <2>5, <2>6, <2>7 DEF Reports, OneEach
    <2>. QED  BY <2>1, <2>5, <2>8
  <1>2. CASE backend \notin {"select", "kqueue", "evport"}
    <2>. DEFINE S == {g \in Fds : EpollBits(g) # {}}
                B == [f \in Fds |-> EpollBits(f)]
    <2>1. B \in [Fds -> SUBSET {R, W}]  BY <1>0 DEF EpollBits
    <2>2. Fire({Entry(f, B[f]) : f \in S})
      <3>1. {Entry(f, B[f]) : f \in S} = {Entry(f, EpollBits(f)) : f \in S}
        OBVIOUS
      <3>. QED  BY <1>2, <3>1 DEF Poll, EpollPoll, WepollPoll
    <2>3. ASSUME NEW f \in Fds
          PROVE  EpollBits(f) \cap desc[f].mask = desc[f].ready \cap desc[f].mask
      <3>1. desc[f].kernel = desc[f].mask  BY <1>0, <1>2 DEF Sound, Consistent
      <3>. QED  BY <3>1 DEF EpollBits, Reportable, ErrInv
    <2>4. ASSUME NEW f \in Fds, f \notin S PROVE desc[f].ready \cap desc[f].mask = {}
      BY <2>3, <2>4
    <2>5. \A f \in Fds : B[f] = EpollBits(f)  OBVIOUS
    <2>. HIDE DEF B, S
    <2>6. S \in SUBSET Fds  BY DEF S
    <2>7. \A f \in S : B[f] \in SUBSET {R, W}  BY <2>1, <2>6
    <2>8. Reports(S, B)  BY <2>2, <2>3, <2>4, <2>5, <2>6, <2>7 DEF Reports, OneEach
    <2>. QED  BY <2>1, <2>6, <2>8
  <1>3. CASE backend = "evport"
    <2>. DEFINE again == [f \in Fds |-> Reassociate(desc[f])]
                due == {f \in Fds : again[f].kernel \cap again[f].ready # {}}
                B == [f \in Fds |-> again[f].kernel \cap again[f].ready]
    <2>1. PICK S \in SUBSET due :
            /\ IF Cardinality(due) <= MaxBatch THEN S = due
                                               ELSE Cardinality(S) = MaxBatch
            /\ Fire({Entry(f, again[f].kernel \cap again[f].ready) : f \in S})
      BY <1>3 DEF Poll, EvportPoll
    <2>2. ASSUME NEW f \in Fds
          PROVE  /\ B[f] \in SUBSET {R, W}
                 /\ B[f] \cap desc[f].mask = desc[f].ready \cap desc[f].mask
                 /\ f \notin due => desc[f].ready \cap desc[f].mask = {}
      <3>0. \A d \in Descriptor : /\ Reassociate(d).mask = d.mask
                                 /\ Reassociate(d).ready = d.ready
        BY DEF Reassociate, Descriptor
      <3>1. /\ Sound(again[f]) /\ again[f].pend = {}
            /\ again[f].mask = desc[f].mask /\ again[f].ready = desc[f].ready
        BY <1>0, <1>3, <3>0, ReassociateKeeps
      <3>. HIDE DEF again
      <3>2. again[f].kernel = desc[f].mask  BY <3>1 DEF Sound, Consistent
      <3>3. desc[f].mask \in SUBSET {R, W}  BY <1>0
      <3>. QED  BY <3>1, <3>2, <3>3
    <2>3. Fire({Entry(f, B[f]) : f \in S})
      <3>1. {Entry(f, B[f]) : f \in S} =
              {Entry(f, again[f].kernel \cap again[f].ready) : f \in S}
        OBVIOUS
      <3>. QED  BY <2>1, <3>1
    <2>4. S \subseteq Fds /\ \A f \in due : f \in Fds  OBVIOUS
    <2>5. B \in [Fds -> SUBSET {R, W}]
      <3>1. B = [f \in Fds |-> B[f]]  OBVIOUS
      <3>. HIDE DEF B
      <3>. QED  BY <2>2, <3>1
    <2>. HIDE DEF B, due, again
    <2>. QED  BY <1>3, <2>1, <2>2, <2>3, <2>4, <2>5 DEF Reports, OneEach
  <1>. QED  BY <1>1, <1>2, <1>3

\* With kqueue too, a poll tells all of the truth about every descriptor.
LEMMA PollTruth ==
    ASSUME IInv, ErrInv, Poll, NEW f \in Fds
    PROVE  \/ ToldAll(f)
           \/ backend = "evport" /\ Told(f) = {} /\ Len(fired') = MaxBatch
           \/ Poisoned /\ fired' = <<>>
  <1>1. CASE backend = "kqueue"
    <2>. DEFINE E == UNION {{Entry(g, {b}) : b \in Reportable(g)} : g \in Fds}
    <2>1. \A g \in Fds : /\ Reportable(g) \in SUBSET {R, W}
                         /\ \A b \in Reportable(g) : Entry(g, {b}) \in EntryType
      <3>1. \A g \in Fds : Reportable(g) \in SUBSET {R, W}
        BY DEF IInv, TypeOK, Reportable, Descriptor
      <3>2. \A g \in Fds, bits \in SUBSET {R, W} : Entry(g, bits) \in EntryType
        BY DEF Entry, EntryType
      <3>. QED  BY <3>1, <3>2
    <2>2. \A e \in E : /\ \E g \in Fds : \E b \in Reportable(g) : e = Entry(g, {b})
                       /\ e \in EntryType
      <3>. TAKE e \in E
      <3>1. PICK g \in Fds : e \in {Entry(g, {b}) : b \in Reportable(g)}
        OBVIOUS
      <3>2. PICK b \in Reportable(g) : e = Entry(g, {b})  BY <3>1
      <3>. QED  BY <2>1, <3>2
    <2>3. ASSUME NEW g \in Fds, NEW b \in Reportable(g) PROVE Entry(g, {b}) \in E
      <3>1. Entry(g, {b}) \in {Entry(g, {c}) : c \in Reportable(g)}  OBVIOUS
      <3>. QED  BY <3>1
    <2>4. Fire(E)  BY <1>1 DEF Poll, KqueuePoll
    <2>. HIDE DEF E
    <2>5. /\ \A i \in DOMAIN fired' : fired'[i] \in E
          /\ \A e \in E : \E i \in DOMAIN fired' : fired'[i] = e
      BY <2>2, <2>4, FireAll
    <2>6. \A g \in Fds, b \in {R, W} :
            Entry(g, {b}).fd = g /\ Entry(g, {b}).bits = {b}
      BY DEF Entry
    <2>7. Told(f) \subseteq Reportable(f)
      <3>. SUFFICES ASSUME NEW i \in DOMAIN fired', fired'[i].fd = f,
                           NEW b \in fired'[i].bits
                    PROVE  b \in Reportable(f)
        BY DEF Told
      <3>1. PICK g \in Fds : \E c \in Reportable(g) : fired'[i] = Entry(g, {c})
        BY <2>2, <2>5
      <3>2. PICK c \in Reportable(g) : fired'[i] = Entry(g, {c})  BY <3>1
      <3>3. c \in {R, W}  BY <2>1, <3>2
      <3>4. Entry(g, {c}).fd = g /\ Entry(g, {c}).bits = {c}  BY DEF Entry
      <3>5. fired'[i].fd = g /\ fired'[i].bits = {c}  BY <3>2, <3>4
      <3>. QED  BY <3>5
    <2>8. Reportable(f) \subseteq Told(f)
      <3>. SUFFICES ASSUME NEW b \in Reportable(f) PROVE b \in Told(f)  OBVIOUS
      <3>1. b \in {R, W}  BY <2>1
      <3>2. PICK i \in DOMAIN fired' : fired'[i] = Entry(f, {b})  BY <2>3, <2>5
      <3>3. fired'[i].fd = f /\ b \in fired'[i].bits  BY <2>6, <3>1, <3>2
      <3>. QED  BY <3>3 DEF Told
    <2>9. desc[f].kernel = desc[f].mask
      BY <1>1 DEF IInv, TableInv, Sound, Consistent
    <2>. QED  BY <2>7, <2>8, <2>9 DEF Reportable, ToldAll
  <1>2. CASE backend # "kqueue"
    <2>1. PICK S \in SUBSET Fds, B \in [Fds -> SUBSET {R, W}] : Reports(S, B)
      BY <1>2, PollReports
    <2>2. OneEach(S, B)  BY <2>1 DEF Reports
    <2>3. /\ Len(fired') = Cardinality(S)
          /\ fired' # << >> => S # {}
          /\ \A g \in S : Told(g) = B[g]
          /\ \A g \in Fds \ S : Told(g) = {}
      BY <2>2, FireOnce, Zenon
    <2>4. \/ f \in S /\ B[f] \cap desc[f].mask = desc[f].ready \cap desc[f].mask
          \/ f \notin S /\ desc[f].ready \cap desc[f].mask = {}
          \/ f \notin S /\ backend = "evport" /\ Cardinality(S) = MaxBatch
          \/ S = {} /\ Poisoned
      BY <2>1, <2>3, Zenon DEF Reports
    <2>5. f \in S => Told(f) = B[f]  BY <2>3
    <2>6. f \notin S => Told(f) = {}  BY <2>3
    <2>. QED  BY <2>3, <2>4, <2>5, <2>6 DEF ToldAll
  <1>. QED  BY <1>1, <1>2

-------------------------------------------------------------------------------
(* The handlers, for the two invariants below *)

\* Registering and removing events leave what the socket is ready for.
LEMMA ReadyKept ==
    ASSUME NEW d \in Descriptor, NEW m \in SUBSET {R, W}, backend \in Backends,
           NEW rp \in {"connected", "readable"}, NEW wp \in {"connected", "writeable"}
    PROVE  /\ CreateFileEvent(d, m, rp, wp).ready = d.ready
           /\ DeleteFileEvent(d, m).ready = d.ready
  <1>1. CreateFileEvent(d, m, rp, wp).ready = d.ready
    BY DEF Descriptor, CreateFileEvent, AddEvent, SelectAdd, KqueueAdd, EvportAdd,
           WepollAdd, EpollAdd
  <1>2. DeleteFileEvent(d, m).ready = d.ready
    BY DEF Descriptor, DeleteFileEvent, DelEvent, SelectDel, KqueueDel, EvportDel,
           WepollDel, EpollDel
  <1>. QED  BY <1>1, <1>2

ErrSound(d) == "err" \in d.ready => W \in d.ready

\* One procedure serves both directions, if the writable one is registered.
OneProc(d) == W \in d.mask => d.wproc = d.rproc

LEMMA ConnectingReady ==
    ASSUME NEW d, Sound(d), backend \in Backends
    PROVE  Connecting(d).ready = d.ready
  <1>. DEFINE e == [d EXCEPT !.open = TRUE]
  <1>1. e \in Descriptor /\ e.ready = d.ready  BY DEF Sound, Descriptor
  <1>2. Connecting(d) = CreateFileEvent(e, {R, W}, "connected", "connected")
    BY DEF Connecting
  <1>. HIDE DEF e
  <1>. QED  BY <1>1, <1>2, ReadyKept

\* A socket that reconnect_socket has put in the place of another's is registered
\* with socket_connected for both directions, or not at all.
LEMMA ConnectingFresh ==
    ASSUME NEW d, Sound(d), d.mask = {}, backend \in Backends
    PROVE  OneProc(Connecting(d))
  <1>. DEFINE e == [d EXCEPT !.open = TRUE]
  <1>1. e \in Descriptor /\ e.mask = {}  BY DEF Sound, Descriptor
  <1>2. Connecting(d) = CreateFileEvent(e, {R, W}, "connected", "connected")
    BY DEF Connecting
  <1>. HIDE DEF e
  <1>3. CASE ~Accepts(e)
    <2>1. Connecting(d) = e  BY <1>2, <1>3 DEF CreateFileEvent
    <2>. QED  BY <1>1, <2>1 DEF OneProc
  <1>4. CASE Accepts(e)
    <2>1. AddEvent(e, {R, W}) \in Descriptor
      BY <1>1 DEF Descriptor, AddEvent, SelectAdd, KqueueAdd, EvportAdd, WepollAdd,
                  EpollAdd
    <2>2. Connecting(d) = [AddEvent(e, {R, W}) EXCEPT
             !.mask = @ \cup {R, W}, !.rproc = "connected", !.wproc = "connected"]
      BY <1>2, <1>4 DEF CreateFileEvent
    <2>3. Connecting(d).rproc = "connected" /\ Connecting(d).wproc = "connected"
      BY <2>1, <2>2 DEF Descriptor
    <2>. QED  BY <2>3 DEF OneProc
  <1>. QED  BY <1>3, <1>4

\* Closing takes the registrations and the readiness with the socket.
LEMMA ClosedFresh ==
    ASSUME NEW d, Sound(d), backend \in Backends
    PROVE  /\ CloseSocket(DeleteFileEvent(d, {R, W})).mask = {}
           /\ CloseSocket(DeleteFileEvent(d, {R, W})).ready = {}
  <1>. DEFINE e == DeleteFileEvent(d, {R, W})
  <1>1. e \in Descriptor /\ e.mask = {}
    <2>1. Sound(e) /\ e.mask = d.mask \ {R, W}  BY DelKeeps
    <2>. QED  BY <2>1 DEF Sound, Descriptor
  <1>. HIDE DEF e
  <1>2. CloseSocket(e).mask = {} /\ CloseSocket(e).ready = {}
    BY <1>1 DEF CloseSocket, Descriptor
  <1>. QED  BY <1>2 DEF e

LEMMA ReconnectsFresh ==
    ASSUME IInv, ErrInv, NEW f \in Fds, NEW o \in Reconnects(f)
    PROVE  /\ \A g \in Fds : ErrSound(o.table[g])
           /\ OneProc(o.table[f])
  <1>. USE DEF IInv, TypeOK, TableInv
  <1>. DEFINE gone == [desc EXCEPT ![f] = CloseSocket(DeleteFileEvent(@, {R, W}))]
  <1>1. /\ \A g \in Fds : Sound(gone[g]) /\ ErrSound(gone[g])
        /\ gone[f].mask = {} /\ gone \in [Fds -> Descriptor]
    BY CloseKeeps, ClosedFresh DEF Sound, ErrInv, ErrSound
  <1>2. PICK t \in {gone} \cup {[gone EXCEPT ![g] = Connecting(@)] :
                                   g \in {h \in Fds : ~gone[h].open}} :
           o = [table |-> t, replaced |-> TRUE]
    BY DEF Reconnects
  <1>. HIDE DEF gone
  <1>3. CASE t = gone
    BY <1>1, <1>2, <1>3 DEF OneProc
  <1>4. ASSUME NEW g \in Fds, ~gone[g].open, t = [gone EXCEPT ![g] = Connecting(@)]
        PROVE  (\A h \in Fds : ErrSound(t[h])) /\ OneProc(t[f])
    <2>1. ErrSound(Connecting(gone[g]))
      BY <1>1, ConnectingReady DEF ErrSound
    <2>2. g = f => OneProc(Connecting(gone[g]))  BY <1>1, ConnectingFresh
    <2>3. OneProc(gone[f])  BY <1>1 DEF OneProc
    <2>. QED  BY <1>1, <1>4, <2>1, <2>2, <2>3
  <1>. QED  BY <1>2, <1>3, <1>4

\* What any handler leaves: errors come with writability, and a socket is
\* replaced only by reconnect_socket.
LEMMA OutcomesFresh ==
    ASSUME IInv, ErrInv, NEW f \in Fds, NEW proc \in {"connected", "readable", "writeable"},
           NEW o \in Outcomes(f, proc)
    PROVE  /\ \A g \in Fds : ErrSound(o.table[g])
           /\ o.replaced => OneProc(o.table[f])
  <1>. USE DEF IInv, TypeOK, TableInv
  <1>1. ASSUME NEW d \in Descriptor, d.ready = desc[f].ready,
               o = Then([desc EXCEPT ![f] = d])
        PROVE  (\A g \in Fds : ErrSound(o.table[g])) /\ ~o.replaced
    BY <1>1 DEF Then, ErrInv, ErrSound
  <1>2. CASE o = Then(desc)  BY <1>2 DEF Then, ErrInv, ErrSound
  <1>3. CASE o \in Reconnects(f)  BY <1>3, ReconnectsFresh
  <1>4. ASSUME NEW d, Sound(d)
        PROVE  Writeable(d) \in Descriptor /\ Writeable(d).ready = d.ready
    <2>1. d \in Descriptor /\ Sound(Writeable(d))
      BY <1>4, WriteableKeeps DEF Sound
    <2>. QED  BY <2>1, ReadyKept DEF Writeable, Sound
  <1>5. CASE proc = "connected" /\ o = Then([desc EXCEPT ![f] =
              Writeable(CreateFileEvent(@, {R}, "readable", "writeable"))])
    <2>1. /\ Sound(CreateFileEvent(desc[f], {R}, "readable", "writeable"))
          /\ CreateFileEvent(desc[f], {R}, "readable", "writeable").ready = desc[f].ready
      BY AddKeeps, ReadyKept
    <2>. QED  BY <1>1, <1>4, <1>5, <2>1
  <1>6. CASE proc = "readable" /\ o = Then([desc EXCEPT ![f] = Writeable(@)])
    BY <1>1, <1>4, <1>6
  <1>7. CASE proc = "writeable" /\ o = Then([desc EXCEPT ![f] = DeleteFileEvent(@, {W})])
    <2>1. /\ Sound(DeleteFileEvent(desc[f], {W}))
          /\ DeleteFileEvent(desc[f], {W}).ready = desc[f].ready
      BY DelKeeps, ReadyKept
    <2>. QED  BY <1>1, <1>7, <2>1 DEF Sound
  <1>. QED  BY <1>2, <1>3, <1>5, <1>6, <1>7 DEF Outcomes

\* A handler is called with a procedure that is registered.
LEMMA Called ==
    ASSUME IInv, fired # << >>
    PROVE  /\ fired[1] \in EntryType /\ fired[1].fd \in Fds
           /\ Tail(fired) \in Seq(EntryType)
           /\ Len(fired) \in Nat \ {0} /\ Len(Tail(fired)) = Len(fired) - 1
           /\ DOMAIN fired = 1 .. Len(fired)
           /\ \A i \in 1 .. Len(fired) - 1 : Tail(fired)[i] = fired[i + 1]
           /\ ReadCalled(fired[1]) =>
                desc[fired[1].fd].rproc \in {"connected", "readable", "writeable"}
           /\ WriteCalled(fired[1]) =>
                desc[fired[1].fd].wproc \in {"connected", "readable", "writeable"}
  <1>1. fired \in Seq(EntryType)  BY DEF IInv, TypeOK, EntryType
  <1>2. /\ fired[1] \in EntryType /\ Tail(fired) \in Seq(EntryType)
        /\ Len(fired) \in Nat \ {0} /\ Len(Tail(fired)) = Len(fired) - 1
        /\ DOMAIN fired = 1 .. Len(fired)
        /\ \A i \in 1 .. Len(fired) - 1 : Tail(fired)[i] = fired[i + 1]
    <2>. HIDE DEF EntryType
    <2>. QED  BY <1>1, HeadTailProperties, LenProperties, EmptySeq, ElementOfSeq
  <1>3. fired[1].fd \in Fds  BY <1>2 DEF EntryType
  <1>4. Sound(desc[fired[1].fd])  BY <1>3 DEF IInv, TableInv
  <1>5. ReadCalled(fired[1]) => R \in desc[fired[1].fd].mask
    BY DEF ReadCalled, Due
  <1>6. WriteCalled(fired[1]) => W \in desc[fired[1].fd].mask
    BY DEF WriteCalled, Due
  <1>. QED  BY <1>2, <1>3, <1>4, <1>5, <1>6 DEF Sound, Descriptor

LEMMA ErrKeeps == IInv /\ ErrInv /\ [Next]_vars => ErrInv'
  <1>. SUFFICES ASSUME IInv, ErrInv, [Next]_vars PROVE ErrInv'  OBVIOUS
  <1>. USE DEF IInv, TypeOK, TableInv
  <1>1. CASE Poll
    <2>1. CASE UNCHANGED desc  BY <2>1 DEF ErrInv
    <2>2. CASE backend = "evport"
      <3>1. \A d \in Descriptor :
              /\ Reassociate(d).ready = d.ready
              /\ [Reassociate(d) EXCEPT !.pend = Reassociate(d).kernel,
                                        !.kernel = {}].ready = d.ready
        BY DEF Reassociate, Descriptor
      <3>2. \A f \in Fds : desc'[f].ready = desc[f].ready
        BY <1>1, <2>2, <3>1 DEF Poll, EvportPoll
      <3>. QED  BY <3>2 DEF ErrInv
    <2>. QED  BY <1>1, <2>1, <2>2
         DEF Poll, SelectPoll, KqueuePoll, EpollPoll, WepollPoll
  <1>2. CASE CallRead
    <2>. DEFINE e == [fired[1] EXCEPT !.bits = @ \ {R}, !.rfired = TRUE]
    <2>1. e.fd = fired[1].fd /\ fired[1].fd \in Fds
      BY <1>2, Called DEF CallRead, EntryType
    <2>2. PICK o \in Outcomes(e.fd, desc[e.fd].rproc) : desc' = o.table
      BY <1>2 DEF CallRead
    <2>. HIDE DEF e
    <2>3. \A g \in Fds : ErrSound(o.table[g])
      BY <1>2, <2>1, <2>2, Called, OutcomesFresh DEF CallRead
    <2>. QED  BY <2>2, <2>3 DEF ErrInv, ErrSound
  <1>3. CASE CallWrite
    <2>1. PICK o \in Outcomes(fired[1].fd, desc[fired[1].fd].wproc) : desc' = o.table
      BY <1>3 DEF CallWrite
    <2>2. \A g \in Fds : ErrSound(o.table[g])
      BY <1>3, <2>1, Called, OutcomesFresh DEF CallWrite
    <2>. QED  BY <2>1, <2>2 DEF ErrInv, ErrSound
  <1>4. CASE NoCall  BY <1>4 DEF NoCall, ErrInv
  <1>5. ASSUME NEW f \in Fds, NEW d, ErrSound(d), desc' = [desc EXCEPT ![f] = d]
        PROVE  ErrInv'
    BY <1>5 DEF ErrInv, ErrSound
  <1>6. ASSUME NEW f \in Fds, DelayedInitialConnect(f) PROVE ErrInv'
    <2>1. ErrSound(Connecting(desc[f]))  BY ConnectingReady DEF ErrSound, ErrInv
    <2>. QED  BY <1>5, <1>6, <2>1 DEF DelayedInitialConnect
  <1>7. ASSUME NEW f \in Fds, DelayRequest(f) PROVE ErrInv'
    <2>1. Writeable(desc[f]).ready = desc[f].ready  BY ReadyKept DEF Writeable
    <2>2. ErrSound(Writeable(desc[f]))  BY <2>1 DEF ErrSound, ErrInv
    <2>. QED  BY <1>5, <1>7, <2>2 DEF DelayRequest
  <1>8. ASSUME NEW f \in Fds, Readiness(f) PROVE ErrInv'
    <2>1. PICK s \in (SUBSET {R, W}) \cup {{R, W, "err"}} :
            desc' = [desc EXCEPT ![f] = [desc[f] EXCEPT !.ready = s]]
      BY <1>8 DEF Readiness
    <2>2. "err" \in s => W \in s  BY <2>1 DEF R, W
    <2>3. [desc[f] EXCEPT !.ready = s].ready = s  BY DEF Descriptor
    <2>. QED  BY <1>5, <2>1, <2>2, <2>3 DEF ErrSound
  <1>9. CASE NextRound  BY <1>9 DEF NextRound, ErrInv
  <1>10. CASE UNCHANGED vars  BY <1>10 DEF vars, ErrInv
  <1>. QED  BY <1>1, <1>2, <1>3, <1>4, <1>6, <1>7, <1>8, <1>9, <1>10 DEF Next

\* No two entries are of one descriptor, so a handler can only make the entry it
\* was called for stale; and then what is left of that entry is its writable bit,
\* while the number has one procedure for both directions, or no event.
StaleInv ==
    backend # "kqueue" =>
      /\ \A i, j \in DOMAIN fired : i # j => fired[i].fd # fired[j].fd
      /\ \A i \in DOMAIN fired : i # 1 => fired[i].live
      /\ fired # << >> /\ ~fired[1].live =>
           /\ R \notin fired[1].bits /\ fired[1].rfired
           /\ OneProc(desc[fired[1].fd])

\* When the entry at the head has been dealt with, no entry is stale.
LEMMA PopKeeps ==
    ASSUME IInv, StaleInv, [Next]_vars, fired # << >>, backend' = backend,
           backend # "kqueue", DOMAIN fired' = 1 .. Len(fired) - 1,
           \A i \in 1 .. Len(fired) - 1 : fired'[i] = Tail(fired)[i]
    PROVE  StaleInv'
  <1>1. /\ Len(fired) \in Nat \ {0} /\ DOMAIN fired = 1 .. Len(fired)
        /\ \A i \in DOMAIN fired' : fired'[i] = fired[i + 1]
    BY Called
  <1>2. \A i \in DOMAIN fired' : i + 1 \in DOMAIN fired /\ i + 1 # 1 /\ i \in Int
    BY <1>1
  <1>3. \A i, j \in DOMAIN fired' : i # j => i + 1 # j + 1
    BY <1>2
  <1>4. \A i, j \in DOMAIN fired' : i # j => fired'[i].fd # fired'[j].fd
    BY <1>1, <1>2, <1>3 DEF StaleInv
  <1>5. \A i \in DOMAIN fired' : fired'[i].live
    BY <1>1, <1>2 DEF StaleInv
  <1>6. fired' # << >> => 1 \in DOMAIN fired'
    <2>1. fired' \in Seq(EntryType)  BY StepKeeps DEF IInv, TypeOK, EntryType
    <2>. HIDE DEF EntryType
    <2>. QED  BY <2>1, LenProperties, EmptySeq
  <1>. QED  BY <1>4, <1>5, <1>6 DEF StaleInv

LEMMA StaleKeeps == IInv /\ ErrInv /\ StaleInv /\ [Next]_vars => StaleInv'
  <1>. SUFFICES ASSUME IInv, ErrInv, StaleInv, [Next]_vars, (backend # "kqueue")'
                PROVE  StaleInv'
    BY DEF StaleInv
  <1>. USE DEF IInv, TypeOK, TableInv
  <1>0. backend # "kqueue" /\ backend' = backend
    BY DEF Next, Poll, CallRead, CallWrite, NoCall, DelayedInitialConnect,
           DelayRequest, NextRound, Readiness, vars
  <1>1. CASE Poll
    <2>1. PICK S \in SUBSET Fds, B \in [Fds -> SUBSET {R, W}] : Reports(S, B)
      BY <1>0, <1>1, PollReports
    <2>2. OneEach(S, B)  BY <2>1 DEF Reports
    <2>3. /\ \A i, j \in DOMAIN fired' : i # j => fired'[i].fd # fired'[j].fd
          /\ \A i \in DOMAIN fired' : fired'[i].live
      BY <2>2, FireOnce
    <2>4. fired' # << >> => 1 \in DOMAIN fired'
      <3>1. fired' \in Seq(EntryType)
        BY <1>1, PollKeeps DEF EntryType
      <3>. HIDE DEF EntryType
      <3>. QED  BY <3>1, LenProperties, EmptySeq
    <2>. QED  BY <2>3, <2>4 DEF StaleInv
  <1>2. CASE CallRead
    <2>. DEFINE h == fired[1]
                e == [h EXCEPT !.bits = @ \ {R}, !.rfired = TRUE]
                rest == <<e>> \o Tail(fired)
    <2>1. /\ fired # << >> /\ ReadCalled(h) /\ h.live
          /\ h \in EntryType /\ h.fd \in Fds
      <3>1. fired # << >> /\ ReadCalled(h)  BY <1>2 DEF CallRead
      <3>2. R \in h.bits  BY <3>1 DEF ReadCalled, Due
      <3>. QED  BY <1>0, <3>1, <3>2, Called DEF StaleInv
    <2>2. /\ e \in EntryType /\ e.fd = h.fd /\ e.live
          /\ R \notin e.bits /\ e.rfired
      BY <2>1 DEF EntryType
    <2>3. PICK o \in Outcomes(h.fd, desc[h.fd].rproc) :
            desc' = o.table /\ fired' = Marked(rest, h.fd, o.replaced)
      BY <1>2, <2>2 DEF CallRead
    <2>4. /\ DOMAIN rest = 1 .. Len(fired) /\ rest[1] = e
          /\ \A i \in 2 .. Len(fired) : rest[i] = fired[i]
      <3>. HIDE DEF e
      <3>1. <<e>> \in Seq(EntryType) /\ Len(<<e>>) = 1 /\ <<e>>[1] = e
        BY <2>2
      <3>2. Tail(fired) \in Seq(EntryType)  BY <2>1, Called
      <3>. HIDE DEF EntryType
      <3>3. /\ rest \in Seq(EntryType) /\ Len(rest) = 1 + Len(Tail(fired))
            /\ \A i \in 1 .. 1 + Len(Tail(fired)) :
                 rest[i] = IF i <= 1 THEN <<e>>[i] ELSE Tail(fired)[i - 1]
        BY <3>1, <3>2, ConcatProperties
      <3>4. DOMAIN rest = 1 .. Len(rest)  BY <3>3, LenProperties
      <3>5. /\ Len(fired) \in Nat \ {0} /\ Len(Tail(fired)) = Len(fired) - 1
            /\ \A i \in 1 .. Len(fired) - 1 : Tail(fired)[i] = fired[i + 1]
        BY <2>1, Called
      <3>6. \A i \in 2 .. Len(fired) : Tail(fired)[i - 1] = fired[(i - 1) + 1]
        BY <3>5
      <3>. HIDE DEF e, rest
      <3>7. rest[1] = e  BY <3>1, <3>3, <3>5
      <3>8. \A i \in 2 .. Len(fired) : rest[i] = Tail(fired)[i - 1]
        BY <3>3, <3>5
      <3>. QED  BY <3>3, <3>4, <3>5, <3>6, <3>7, <3>8
    <2>. HIDE DEF e, rest
    <2>5. DOMAIN fired = 1 .. Len(fired) /\ Len(fired) \in Nat \ {0}
      BY <2>1, Called
    <2>6. o.replaced => OneProc(o.table[h.fd])
      <3>1. desc[h.fd].rproc \in {"connected", "readable", "writeable"}
        BY <2>1, Called
      <3>. QED  BY <2>1, <2>3, <3>1, OutcomesFresh
    <2>7. \A i \in 2 .. Len(fired) : fired[i].fd # h.fd /\ fired[i].live
      BY <1>0, <2>5 DEF StaleInv
    <2>8. /\ DOMAIN fired' = 1 .. Len(fired)
          /\ \A i \in 2 .. Len(fired) : fired'[i] = fired[i]
          /\ fired'[1] = IF o.replaced THEN [e EXCEPT !.live = FALSE] ELSE e
      <3>1. \A i \in 2 .. Len(fired) : rest[i].fd # h.fd  BY <2>4, <2>7
      <3>2. DOMAIN fired' = 1 .. Len(fired)  BY <2>3, <2>4 DEF Marked
      <3>3. \A i \in 1 .. Len(fired) :
              fired'[i] = IF rest[i].fd = h.fd /\ o.replaced
                            THEN [rest[i] EXCEPT !.live = FALSE] ELSE rest[i]
        BY <2>3, <2>4 DEF Marked
      <3>4. 1 \in 1 .. Len(fired) /\ \A i \in 2 .. Len(fired) : i \in 1 .. Len(fired)
        BY <2>5
      <3>5. \A i \in 2 .. Len(fired) : fired'[i] = fired[i]
        BY <2>4, <3>1, <3>3, <3>4
      <3>6. fired'[1] = IF o.replaced THEN [e EXCEPT !.live = FALSE] ELSE e
        BY <2>2, <2>4, <3>3, <3>4
      <3>. QED  BY <3>2, <3>5, <3>6
    <2>9. /\ fired'[1].fd = h.fd /\ R \notin fired'[1].bits /\ fired'[1].rfired
          /\ ~fired'[1].live => o.replaced
      BY <2>2, <2>8 DEF EntryType
    <2>10. \A i, j \in DOMAIN fired' : i # j => fired'[i].fd # fired'[j].fd
      <3>1. \A i \in DOMAIN fired' : fired'[i].fd = fired[i].fd
        <4>1. \A i \in DOMAIN fired' : i = 1 \/ i \in 2 .. Len(fired)
          BY <2>5, <2>8
        <4>. QED  BY <2>8, <2>9, <4>1
      <3>. QED  BY <1>0, <2>5, <2>8, <3>1 DEF StaleInv
    <2>11. \A i \in DOMAIN fired' : i # 1 => fired'[i].live
      BY <2>5, <2>7, <2>8
    <2>. QED  BY <2>3, <2>6, <2>9, <2>10, <2>11 DEF StaleInv
  <1>3. CASE CallWrite
    <2>1. PICK o \in Outcomes(fired[1].fd, desc[fired[1].fd].wproc) :
            fired' = Marked(Tail(fired), fired[1].fd, o.replaced)
      BY <1>3 DEF CallWrite
    <2>2. fired # << >>  BY <1>3 DEF CallWrite
    <2>3. \A i \in 1 .. Len(fired) - 1 : Tail(fired)[i].fd # fired[1].fd
      <3>1. \A i \in 1 .. Len(fired) - 1 : Tail(fired)[i] = fired[i + 1]
                                          /\ i + 1 \in DOMAIN fired /\ i + 1 # 1
        BY <2>2, Called
      <3>2. 1 \in DOMAIN fired  BY <2>2, Called
      <3>. QED  BY <1>0, <3>1, <3>2 DEF StaleInv
    <2>4. DOMAIN Tail(fired) = 1 .. Len(fired) - 1
      <3>1. Tail(fired) \in Seq(EntryType) /\ Len(Tail(fired)) = Len(fired) - 1
        BY <2>2, Called
      <3>. HIDE DEF EntryType
      <3>. QED  BY <3>1, LenProperties
    <2>5. /\ DOMAIN fired' = 1 .. Len(fired) - 1
          /\ \A i \in 1 .. Len(fired) - 1 : fired'[i] = Tail(fired)[i]
      BY <2>1, <2>3, <2>4 DEF Marked
    <2>. QED  BY <1>0, <2>2, <2>5, PopKeeps
  <1>4. CASE NoCall
    <2>1. fired # << >> /\ fired' = Tail(fired)  BY <1>4 DEF NoCall
    <2>2. DOMAIN Tail(fired) = 1 .. Len(fired) - 1
      <3>1. Tail(fired) \in Seq(EntryType) /\ Len(Tail(fired)) = Len(fired) - 1
        BY <2>1, Called
      <3>. HIDE DEF EntryType
      <3>. QED  BY <3>1, LenProperties
    <2>. QED  BY <1>0, <2>1, <2>2, PopKeeps
  <1>5. CASE fired = << >> /\ fired' = fired
    BY <1>5 DEF StaleInv
  <1>6. ASSUME NEW f \in Fds, Readiness(f) PROVE StaleInv'
    <2>1. PICK s \in (SUBSET {R, W}) \cup {{R, W, "err"}} :
            desc' = [desc EXCEPT ![f] = [desc[f] EXCEPT !.ready = s]]
      BY <1>6 DEF Readiness
    <2>2. \A g \in Fds : OneProc(desc[g]) => OneProc(desc'[g])
      BY <2>1 DEF OneProc, Descriptor
    <2>3. fired # << >> => fired[1].fd \in Fds  BY Called
    <2>. QED  BY <1>0, <1>6, <2>2, <2>3 DEF Readiness, StaleInv
  <1>7. CASE UNCHANGED vars  BY <1>7 DEF vars, StaleInv, OneProc
  <1>. QED  BY <1>1, <1>2, <1>3, <1>4, <1>5, <1>6, <1>7
       DEF Next, DelayedInitialConnect, DelayRequest, NextRound, Dispatched

-------------------------------------------------------------------------------
\* The table, its entries and the list of fired events keep their types.
THEOREM TypeCorrect == Spec => []TypeOK
  <1>1. IInv => TypeOK  BY DEF IInv
  <1>. QED  BY <1>1, InitSound, StepKeeps, PTL DEF Spec

\* With every backend, for any descriptors and batches of any size: the kernel
\* watches exactly what is registered, a descriptor of an event port is
\* associated or pending but never both, and no call fails that would abort.
THEOREM WatchIsExact == Spec => []WatchedIsRegistered
  <1>1. IInv => WatchedIsRegistered
    BY DEF IInv, TableInv, Sound, WatchedIsRegistered
  <1>. QED  BY <1>1, InitSound, StepKeeps, PTL DEF Spec

LEMMA InvariantsHold == Spec => [](IInv /\ ErrInv /\ StaleInv)
  <1>1. Init => ErrInv /\ StaleInv
    BY DEF Init, ErrInv, StaleInv, Unused
  <1>. QED  BY <1>1, InitSound, StepKeeps, ErrKeeps, StaleKeeps, PTL DEF Spec

\* With every backend that reports a socket at most once, for any descriptors:
\* after reconnect_socket has closed the socket of the event being dispatched,
\* neither the other bit of the event nor another event calls a handler for it,
\* also when the new socket was given the same number.
THEOREM NothingStale == Spec => []NoStaleDispatch
  <1>1. IInv /\ StaleInv => NoStaleDispatch
    BY DEF StaleInv, NoStaleDispatch, StaleCall, ReadCalled, WriteCalled, Due, OneProc
  <1>. QED  BY <1>1, InvariantsHold, PTL

\* Every poll of every backend, also one that reports nothing, reports of each
\* registered descriptor exactly the directions it is ready for; only a full
\* batch of event ports, and select with a closed number in its set, do not.
THEOREM PollIsTrue == Spec => PollTellsTruth
  <1>1. IInv /\ ErrInv /\ [Next]_vars =>
          [Polled => \A f \in Fds :
             \/ ToldAll(f)
             \/ backend = "evport" /\ Told(f) = {} /\ Len(fired') = MaxBatch
             \/ Poisoned /\ fired' = <<>>]_vars
    <2>. SUFFICES ASSUME IInv, ErrInv, [Next]_vars, Polled, NEW f \in Fds
                  PROVE  \/ ToldAll(f)
                         \/ backend = "evport" /\ Told(f) = {} /\ Len(fired') = MaxBatch
                         \/ Poisoned /\ fired' = <<>>
      OBVIOUS
    <2>1. Poll
      BY DEF Next, CallRead, CallWrite, NoCall, DelayedInitialConnect, DelayRequest,
             NextRound, Readiness, Polled, vars
    <2>. QED  BY <2>1, PollTruth
  <1>. QED  BY <1>1, InvariantsHold, PTL DEF Spec, PollTellsTruth
===============================================================================
