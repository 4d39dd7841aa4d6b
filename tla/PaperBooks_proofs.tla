----------------------------- MODULE PaperBooks_proofs ----------------------
(***************************************************************************)
(* Proofs about the paper journal, for every set of processes, keys and    *)
(* contents and every bound on its length, and about the account that the  *)
(* journal's commands build: the permanent stop only reduces, a naked leg  *)
(* stops, and every funding time is paid for what was held before it or    *)
(* its absence is on record.                                               *)
(***************************************************************************)
EXTENDS PaperJournal, PaperAccount, SequenceTheorems, TLAPS

(* What each stage of an append knows: the RESERVED lock is exclusive, the *)
(* row built under it still extends the journal when it is committed, and  *)
(* a committed row that was not yet returned stays where it was put.       *)
StageInv ==
  \A p \in Procs :
     /\ pc[p] \in {"reserved", "inserted"} => writer = {p}
     /\ pc[p] = "reserved" => request[p] \in Requests
     /\ pc[p] = "inserted" =>
          /\ request[p] \in Events
          /\ request[p].sequence = Len(events)
          /\ request[p].parent = TailDigest(events)
          /\ request[p].sha256 =
               Digest(request[p].parent, request[p].key, request[p].body)
          /\ tip[p] = TailDigest(events)
          /\ \A i \in DOMAIN events : events[i].key # request[p].key
     /\ pc[p] = "committed" =>
          /\ request[p] \in Events
          /\ request[p].sequence + 1 \in DOMAIN events
          /\ events[request[p].sequence + 1] = request[p]
          /\ request[p].parent = tip[p]

(* A digest has as many links as its event has predecessors, itself        *)
(* included: no two events of the journal share one.                       *)
DigestLength == \A i \in DOMAIN events : Len(events[i].sha256) = i

JournalInv ==
  /\ TypeOK
  /\ ChainIntact
  /\ DigestLength
  /\ StageInv
  /\ AcknowledgedIsDurable

(* The initial journal satisfies the invariant.                            *)
LEMMA JournalInit == Init => JournalInv
  BY DEF Init, JournalInv, TypeOK, ChainIntact, ChainValid, DigestLength, StageInv,
         AcknowledgedIsDurable, ProtocolDigest, Digests, Events

(* The fields of an event have their types.                                *)
LEMMA EventFields ==
  ASSUME NEW e \in Events
  PROVE  /\ e.sequence \in Nat
         /\ e.parent \in Digests
         /\ e.key \in Keys
         /\ e.body \in Bodies
         /\ e.sha256 \in Digests
  BY DEF Events

(* The digest of the tail of a well-formed journal is a digest, with as    *)
(* many links as the journal has events.                                   *)
LEMMA TailDigestType ==
  ASSUME TypeOK, DigestLength
  PROVE  /\ TailDigest(events) \in Digests
         /\ Len(TailDigest(events)) = Len(events)
<1>1. CASE events = << >>
  BY <1>1 DEF TailDigest, ProtocolDigest, Digests
<1>2. CASE events # << >>
  <2>1. Len(events) \in DOMAIN events /\ events[Len(events)] \in Events
    BY <1>2 DEF TypeOK
  <2>2. events[Len(events)].sha256 \in Digests
    BY <2>1, EventFields
  <2> QED BY <1>2, <2>1, <2>2 DEF TailDigest, DigestLength
<1> QED BY <1>1, <1>2

(* The row that AppendInsert builds is an event.                           *)
LEMMA EventType ==
  ASSUME NEW n \in Nat, NEW d \in Digests, NEW k \in Keys, NEW b \in Bodies
  PROVE  /\ Event(n, d, k, b) \in Events
         /\ Digest(d, k, b) \in Digests
         /\ Len(Digest(d, k, b)) = Len(d) + 1
  BY DEF Event, Events, Digest, Digests

-----------------------------------------------------------------------------

(* Appending a row that extends the journal keeps the chain intact.        *)
LEMMA AppendChain ==
  ASSUME TypeOK, ChainIntact, DigestLength,
         NEW e \in Events,
         e.sequence = Len(events),
         e.parent = TailDigest(events),
         e.sha256 = Digest(e.parent, e.key, e.body),
         \A i \in DOMAIN events : events[i].key # e.key,
         events' = Append(events, e)
  PROVE  /\ events' \in Seq(Events)
         /\ ChainIntact'
         /\ DigestLength'
         /\ Len(events') = Len(events) + 1
         /\ events'[Len(events) + 1] = e
         /\ \A i \in DOMAIN events : i \in DOMAIN events' /\ events'[i] = events[i]
<1> USE DEF TypeOK
<1>1. /\ events' \in Seq(Events)
      /\ Len(events') = Len(events) + 1
      /\ DOMAIN events' = 1..(Len(events) + 1)
      /\ events'[Len(events) + 1] = e
      /\ \A i \in 1..Len(events) : events'[i] = events[i]
  OBVIOUS
<1>2. DOMAIN events = 1..Len(events) /\ Len(events) \in Nat
  OBVIOUS
<1>3. ASSUME NEW i \in DOMAIN events'
      PROVE  /\ events'[i].sequence = i - 1
             /\ events'[i].parent = IF i = 1 THEN ProtocolDigest
                                             ELSE events'[i - 1].sha256
             /\ events'[i].sha256 =
                  Digest(events'[i].parent, events'[i].key, events'[i].body)
  <2>1. CASE i \in 1..Len(events)
    <3>1. i = 1 \/ i - 1 \in 1..Len(events)
      BY <2>1, <1>2
    <3> QED BY <2>1, <3>1, <1>1, <1>2 DEF ChainIntact, ChainValid
  <2>2. CASE i = Len(events) + 1
    <3>1. CASE Len(events) = 0
      BY <3>1, <2>2, <1>1, <1>2 DEF TailDigest
    <3>2. CASE Len(events) # 0
      <4>1. TailDigest(events) = events[Len(events)].sha256
        BY <3>2 DEF TailDigest
      <4>2. i # 1 /\ i - 1 = Len(events) /\ Len(events) \in 1..Len(events)
        BY <3>2, <2>2, <1>2
      <4> QED BY <4>1, <4>2, <2>2, <1>1, <1>2
    <3> QED BY <3>1, <3>2
  <2> QED BY <2>1, <2>2, <1>1, <1>2
<1>4. ASSUME NEW i \in DOMAIN events', NEW j \in DOMAIN events',
             events'[i].key = events'[j].key
      PROVE  i = j
  <2>1. i \in 1..Len(events) \/ i = Len(events) + 1
    BY <1>1, <1>2
  <2>2. j \in 1..Len(events) \/ j = Len(events) + 1
    BY <1>1, <1>2
  <2> QED BY <2>1, <2>2, <1>1, <1>2, <1>4 DEF ChainIntact
<1>5. ChainIntact'
  BY <1>3, <1>4 DEF ChainIntact, ChainValid
<1>6. DigestLength'
  <2>1. /\ Len(e.sha256) = Len(events) + 1
    <3>1. /\ e.parent \in Digests /\ e.key \in Keys /\ e.body \in Bodies
          /\ Len(e.parent) = Len(events)
      BY EventFields, TailDigestType
    <3> QED BY <3>1, EventType, <1>2
  <2> QED BY <2>1, <1>1, <1>2 DEF DigestLength
<1> QED BY <1>1, <1>2, <1>5, <1>6

(* A step that appends nothing keeps every fact about the rows alone.      *)
LEMMA SameEvents ==
  ASSUME ChainIntact, DigestLength, events' = events
  PROVE  ChainIntact' /\ DigestLength'
  BY DEF ChainIntact, ChainValid, DigestLength

(* Each step of the specification keeps the invariant.                     *)
LEMMA JournalNext == JournalInv /\ [Next]_vars => JournalInv'
<1> SUFFICES ASSUME JournalInv, [Next]_vars
             PROVE  JournalInv'
  OBVIOUS
<1>a. TypeOK /\ ChainIntact /\ DigestLength /\ StageInv /\ AcknowledgedIsDurable
  BY DEF JournalInv
<1>b. TailDigest(events) \in Digests
  BY <1>a, TailDigestType
<1>c. ASSUME NEW i \in DOMAIN events
      PROVE  events[i] \in Events
  BY <1>a DEF TypeOK
<1>1. CASE UNCHANGED vars
  BY <1>1, <1>a DEF vars, JournalInv, TypeOK, ChainIntact, ChainValid, DigestLength,
                  StageInv, AcknowledgedIsDurable
<1>2. ASSUME NEW p \in Procs, OpenBegin(p)
      PROVE  JournalInv'
  <2>1. TypeOK'
    BY <1>2, <1>a, <1>b, <1>c DEF TypeOK, OpenBegin
  <2>2. ChainIntact' /\ DigestLength'
    BY <1>2, <1>a, SameEvents DEF OpenBegin
  <2>3. StageInv'
    BY <1>2, <1>a DEF TypeOK, StageInv, OpenBegin
  <2>4. AcknowledgedIsDurable'
    BY <1>2, <1>a DEF AcknowledgedIsDurable, OpenBegin
  <2> QED BY <2>1, <2>2, <2>3, <2>4 DEF JournalInv
<1>3. ASSUME NEW p \in Procs, OpenEnd(p)
      PROVE  JournalInv'
  <2>1. TypeOK'
    BY <1>3, <1>a, <1>b, <1>c DEF TypeOK, OpenEnd, KeysOf, Events
  <2>2. ChainIntact' /\ DigestLength'
    BY <1>3, <1>a, SameEvents DEF OpenEnd
  <2>3. StageInv'
    BY <1>3, <1>a DEF TypeOK, StageInv, OpenEnd
  <2>4. AcknowledgedIsDurable'
    BY <1>3, <1>a DEF AcknowledgedIsDurable, OpenEnd
  <2> QED BY <2>1, <2>2, <2>3, <2>4 DEF JournalInv
<1>4. ASSUME NEW p \in Procs, AppendBusy(p)
      PROVE  JournalInv'
  <2>1. TypeOK'
    BY <1>4, <1>a, <1>b, <1>c DEF TypeOK, AppendBusy
  <2>2. ChainIntact' /\ DigestLength'
    BY <1>4, <1>a, SameEvents DEF AppendBusy
  <2>3. StageInv'
    BY <1>4, <1>a DEF TypeOK, StageInv, AppendBusy
  <2>4. AcknowledgedIsDurable'
    BY <1>4, <1>a DEF AcknowledgedIsDurable, AppendBusy
  <2> QED BY <2>1, <2>2, <2>3, <2>4 DEF JournalInv
<1>5. ASSUME NEW p \in Procs, AppendStale(p)
      PROVE  JournalInv'
  <2>1. TypeOK'
    BY <1>5, <1>a, <1>b, <1>c DEF TypeOK, AppendStale
  <2>2. ChainIntact' /\ DigestLength'
    BY <1>5, <1>a, SameEvents DEF AppendStale
  <2>3. StageInv'
    BY <1>5, <1>a DEF TypeOK, StageInv, AppendStale
  <2>4. AcknowledgedIsDurable'
    BY <1>5, <1>a DEF AcknowledgedIsDurable, AppendStale
  <2> QED BY <2>1, <2>2, <2>3, <2>4 DEF JournalInv
<1>6. ASSUME NEW p \in Procs, Interrupt(p)
      PROVE  JournalInv'
  <2>1. TypeOK'
    BY <1>6, <1>a, <1>b, <1>c DEF TypeOK, Interrupt
  <2>2. ChainIntact' /\ DigestLength'
    BY <1>6, <1>a, SameEvents DEF Interrupt
  <2>3. StageInv'
    BY <1>6, <1>a DEF TypeOK, StageInv, Interrupt
  <2>4. AcknowledgedIsDurable'
    BY <1>6, <1>a DEF AcknowledgedIsDurable, Interrupt
  <2> QED BY <2>1, <2>2, <2>3, <2>4 DEF JournalInv
<1>7. ASSUME NEW p \in Procs, Crash(p)
      PROVE  JournalInv'
  <2>1. TypeOK'
    BY <1>7, <1>a, <1>b, <1>c DEF TypeOK, Crash, ProtocolDigest, Digests
  <2>2. ChainIntact' /\ DigestLength'
    BY <1>7, <1>a, SameEvents DEF Crash
  <2>3. StageInv'
    BY <1>7, <1>a DEF TypeOK, StageInv, Crash
  <2>4. AcknowledgedIsDurable'
    BY <1>7, <1>a DEF AcknowledgedIsDurable, Crash
  <2> QED BY <2>1, <2>2, <2>3, <2>4 DEF JournalInv
<1>8. ASSUME NEW p \in Procs, NEW key \in Keys, NEW body \in Bodies,
             AppendKnown(p, key, body)
      PROVE  JournalInv'
  <2>1. PICK i \in Existing(events, key) :
          IF events[i].body = body
          THEN /\ returned' = returned \union {events[i]}
               /\ UNCHANGED pc
          ELSE /\ pc' = [pc EXCEPT ![p] = "failed"]
               /\ UNCHANGED returned
    BY <1>8 DEF AppendKnown
  <2>2. i \in DOMAIN events /\ events[i] \in Events /\ events[i].sequence = i - 1
    BY <2>1, <1>a, <1>c DEF Existing, ChainIntact, ChainValid
  <2>3. TypeOK'
    BY <2>1, <2>2, <1>8, <1>a DEF TypeOK, AppendKnown
  <2>4. ChainIntact' /\ DigestLength'
    BY <1>8, <1>a, SameEvents DEF AppendKnown
  <2>5. StageInv'
    BY <2>1, <1>8, <1>a DEF TypeOK, StageInv, AppendKnown
  <2>6. AcknowledgedIsDurable'
    <3>1. i \in Nat /\ events[i].sequence + 1 = i
      BY <2>2, <1>a DEF TypeOK
    <3> QED BY <3>1, <2>1, <2>2, <1>8, <1>a DEF AcknowledgedIsDurable, AppendKnown
  <2> QED BY <2>3, <2>4, <2>5, <2>6 DEF JournalInv
<1>9. ASSUME NEW p \in Procs, NEW key \in Keys, NEW body \in Bodies,
             AppendBegin(p, key, body)
      PROVE  JournalInv'
  <2>0. [key |-> key, body |-> body] \in Requests
    BY DEF Requests
  <2>1. TypeOK'
    BY <2>0, <1>9, <1>a DEF TypeOK, AppendBegin
  <2>2. ChainIntact' /\ DigestLength'
    BY <1>9, <1>a, SameEvents DEF AppendBegin
  <2>3. StageInv'
    BY <2>0, <1>9, <1>a DEF TypeOK, StageInv, AppendBegin
  <2>4. AcknowledgedIsDurable'
    BY <1>9, <1>a DEF AcknowledgedIsDurable, AppendBegin
  <2> QED BY <2>1, <2>2, <2>3, <2>4 DEF JournalInv
<1>10. ASSUME NEW p \in Procs, AppendExisting(p)
       PROVE  JournalInv'
  <2>1. PICK i \in Existing(events, request[p].key) :
          IF events[i].parent = tip[p] /\ events[i].body = request[p].body
          THEN /\ returned' = returned \union {events[i]}
               /\ pc' = [pc EXCEPT ![p] = "idle"]
               /\ tip' = [tip EXCEPT ![p] = events[i].sha256]
               /\ known' = [known EXCEPT ![p] = @ \union {events[i].key}]
          ELSE /\ pc' = [pc EXCEPT ![p] = "failed"]
               /\ UNCHANGED <<tip, known, returned>>
    BY <1>10 DEF AppendExisting
  <2>2. i \in DOMAIN events /\ events[i] \in Events /\ events[i].sequence = i - 1
    BY <2>1, <1>a, <1>c DEF Existing, ChainIntact, ChainValid
  <2>3. events[i].sha256 \in Digests /\ events[i].key \in Keys
    BY <2>2, EventFields
  <2>4. /\ writer' = writer \ {p}
        /\ request' = [request EXCEPT ![p] = NoRequest]
        /\ events' = events /\ readers' = readers
    BY <1>10 DEF AppendExisting
  <2>5. TypeOK'
    <3>1. CASE events[i].parent = tip[p] /\ events[i].body = request[p].body
      <4>1. known' \in [Procs -> SUBSET Keys]
        BY <3>1, <2>1, <2>3, <1>a DEF TypeOK
      <4> QED BY <4>1, <3>1, <2>1, <2>2, <2>3, <2>4, <1>a DEF TypeOK
    <3>2. CASE ~(events[i].parent = tip[p] /\ events[i].body = request[p].body)
      BY <3>2, <2>1, <2>4, <1>a DEF TypeOK
    <3> QED BY <3>1, <3>2
  <2>6. ChainIntact' /\ DigestLength'
    BY <2>4, <1>a, SameEvents
  <2>7. StageInv'
    BY <2>1, <2>4, <1>10, <1>a DEF TypeOK, StageInv, AppendExisting
  <2>8. AcknowledgedIsDurable'
    <3>1. i \in Nat /\ events[i].sequence + 1 = i
      BY <2>2, <1>a DEF TypeOK
    <3> QED BY <3>1, <2>1, <2>2, <2>4, <1>a DEF AcknowledgedIsDurable
  <2> QED BY <2>5, <2>6, <2>7, <2>8 DEF JournalInv
<1>11. ASSUME NEW p \in Procs, AppendInsert(p)
       PROVE  JournalInv'
  <2> DEFINE e == Event(Len(events), TailDigest(events),
                        request[p].key, request[p].body)
  <2>1. request[p] \in Requests /\ pc[p] = "reserved"
    BY <1>11, <1>a DEF StageInv, AppendInsert
  <2>2. request[p].key \in Keys /\ request[p].body \in Bodies
    BY <2>1 DEF Requests
  <2>3. Len(events) \in Nat
    BY <1>a DEF TypeOK
  <2>4. e \in Events
    BY <2>2, <2>3, <1>b, EventType
  <2>5. /\ e.sequence = Len(events)
        /\ e.parent = TailDigest(events)
        /\ e.key = request[p].key
        /\ e.sha256 = Digest(e.parent, e.key, e.body)
    BY DEF Event
  <2>6. \A i \in DOMAIN events : events[i].key # e.key
    BY <1>11, <2>5 DEF AppendInsert, Existing
  <2>7. /\ request' = [request EXCEPT ![p] = e]
        /\ pc' = [pc EXCEPT ![p] = "inserted"]
        /\ tip[p] = TailDigest(events)
        /\ UNCHANGED <<events, writer, readers, tip, known, returned>>
    BY <1>11 DEF AppendInsert
  <2> HIDE DEF e
  <2>8. TypeOK'
    BY <2>4, <2>7, <1>a DEF TypeOK
  <2>9. ChainIntact' /\ DigestLength'
    BY <2>7, <1>a, SameEvents
  <2>10. StageInv'
    BY <2>1, <2>4, <2>5, <2>6, <2>7, <1>a DEF TypeOK, StageInv
  <2>11. AcknowledgedIsDurable'
    BY <2>7, <1>a DEF AcknowledgedIsDurable
  <2> QED BY <2>8, <2>9, <2>10, <2>11 DEF JournalInv
<1>12. ASSUME NEW p \in Procs, AppendCommit(p)
       PROVE  JournalInv'
  <2>1. /\ pc[p] = "inserted"
        /\ events' = Append(events, request[p])
        /\ writer' = writer \ {p}
        /\ pc' = [pc EXCEPT ![p] = "committed"]
        /\ UNCHANGED <<readers, request, tip, known, returned>>
    BY <1>12 DEF AppendCommit
  <2>2. /\ request[p] \in Events
        /\ request[p].sequence = Len(events)
        /\ request[p].parent = TailDigest(events)
        /\ request[p].sha256 =
             Digest(request[p].parent, request[p].key, request[p].body)
        /\ tip[p] = TailDigest(events)
        /\ \A i \in DOMAIN events : events[i].key # request[p].key
        /\ writer = {p}
    BY <2>1, <1>a DEF StageInv
  <2>3. /\ events' \in Seq(Events)
        /\ ChainIntact'
        /\ DigestLength'
        /\ Len(events') = Len(events) + 1
        /\ events'[Len(events) + 1] = request[p]
        /\ \A i \in DOMAIN events : i \in DOMAIN events' /\ events'[i] = events[i]
    BY <2>1, <2>2, <1>a, AppendChain
  <2>4. TypeOK'
    BY <2>1, <2>3, <1>a DEF TypeOK
  <2>5. ASSUME NEW q \in Procs, q # p
        PROVE  pc'[q] = pc[q] /\ pc[q] \notin {"reserved", "inserted"}
    BY <2>1, <2>2, <2>5, <1>a DEF StageInv, TypeOK
  <2>6. request[p].sequence + 1 \in DOMAIN events'
    BY <2>2, <2>3, <1>a DEF TypeOK
  <2>7. StageInv'
    BY <2>1, <2>2, <2>3, <2>5, <2>6, <1>a DEF StageInv, TypeOK
  <2>8. AcknowledgedIsDurable'
    BY <2>1, <2>3, <1>a DEF AcknowledgedIsDurable
  <2> QED BY <2>3, <2>4, <2>7, <2>8 DEF JournalInv
<1>13. ASSUME NEW p \in Procs, AppendReturn(p)
       PROVE  JournalInv'
  <2>1. /\ pc[p] = "committed"
        /\ returned' = returned \union {request[p]}
        /\ tip' = [tip EXCEPT ![p] = request[p].sha256]
        /\ known' = [known EXCEPT ![p] = @ \union {request[p].key}]
        /\ pc' = [pc EXCEPT ![p] = "idle"]
        /\ request' = [request EXCEPT ![p] = NoRequest]
        /\ UNCHANGED <<events, writer, readers>>
    BY <1>13 DEF AppendReturn
  <2>2. /\ request[p] \in Events
        /\ request[p].sequence + 1 \in DOMAIN events
        /\ events[request[p].sequence + 1] = request[p]
    BY <2>1, <1>a DEF StageInv
  <2>3. request[p].sha256 \in Digests /\ request[p].key \in Keys
    BY <2>2, EventFields
  <2>4. TypeOK'
    BY <2>1, <2>2, <2>3, <1>a DEF TypeOK
  <2>5. ChainIntact' /\ DigestLength'
    BY <2>1, <1>a, SameEvents
  <2>6. StageInv'
    BY <2>1, <1>a DEF StageInv, TypeOK
  <2>7. AcknowledgedIsDurable'
    BY <2>1, <2>2, <1>a DEF AcknowledgedIsDurable
  <2> QED BY <2>4, <2>5, <2>6, <2>7 DEF JournalInv
<1> QED
  BY <1>1, <1>2, <1>3, <1>4, <1>5, <1>6, <1>7, <1>8, <1>9, <1>10, <1>11, <1>12,
     <1>13 DEF Next

(* The journal invariant holds in every reachable state: for any number of *)
(* processes, keys and contents, interrupted or killed anywhere.           *)
THEOREM JournalInvariant == Spec => []JournalInv
<1>1. Init => JournalInv
  BY JournalInit
<1>2. JournalInv /\ [Next]_vars => JournalInv'
  BY JournalNext
<1> QED BY <1>1, <1>2, PTL DEF Spec

(* The type invariant of the journal (store.py, engine.py).                *)
THEOREM TypeCorrect == Spec => []TypeOK
<1>1. JournalInv => TypeOK
  BY DEF JournalInv
<1> QED BY <1>1, JournalInvariant, PTL

(* Every process that reopens the journal finds a chain that verifies and  *)
(* in which each idempotency key occurs once.                              *)
THEOREM ChainAlwaysIntact == Spec => []ChainIntact
<1>1. JournalInv => ChainIntact
  BY DEF JournalInv
<1> QED BY <1>1, JournalInvariant, PTL

(* What append returned to a caller stays in the journal, at its place.    *)
THEOREM AcknowledgedAlwaysDurable == Spec => []AcknowledgedIsDurable
<1>1. JournalInv => AcknowledgedIsDurable
  BY DEF JournalInv
<1> QED BY <1>1, JournalInvariant, PTL

(* No step updates, deletes or reorders a committed row.                   *)
THEOREM JournalAppendOnly == Spec => AppendOnly
<1>1. ASSUME JournalInv, [Next]_vars
      PROVE  [ /\ Len(events') >= Len(events)
               /\ SubSeq(events', 1, Len(events)) = events ]_vars
  <2>1. CASE events' = events
    BY <2>1, <1>1 DEF JournalInv, TypeOK
  <2>2. CASE events' # events
    <3>1. PICK p \in Procs : AppendCommit(p)
      BY <2>2, <1>1 DEF Next, vars, OpenBegin, OpenEnd, AppendKnown, AppendBegin,
         AppendBusy, AppendExisting, AppendStale, AppendInsert, AppendReturn,
         Interrupt, Crash
    <3>2. events' = Append(events, request[p]) /\ request[p] \in Events
      BY <3>1, <1>1 DEF AppendCommit, JournalInv, StageInv
    <3> QED BY <3>2, <1>1 DEF JournalInv, TypeOK
  <2> QED BY <2>1, <2>2
<1> QED BY <1>1, JournalInvariant, PTL DEF Spec, AppendOnly

-----------------------------------------------------------------------------

(* The digest an engine holds after n replayed events, and the keys it     *)
(* then knows.                                                             *)
PrefixDigest(n) == IF n = 0 THEN ProtocolDigest ELSE events[n].sha256
PrefixKeys(n) == {events[i].key : i \in 1..n}

ViewAt(p, n) == tip[p] = PrefixDigest(n) /\ known[p] = PrefixKeys(n)

(* A digest tells how long the prefix is that it ends: an engine whose tip  *)
(* is the parent of an event has replayed exactly the events before it.     *)
LEMMA DigestTellsPrefix ==
  ASSUME TypeOK, ChainIntact, DigestLength
  PROVE  /\ \A n \in 0..Len(events) : Len(PrefixDigest(n)) = n
         /\ \A i \in 1..Len(events) : events[i].parent = PrefixDigest(i - 1)
         /\ TailDigest(events) = PrefixDigest(Len(events))
<1>1. Len(events) \in Nat /\ DOMAIN events = 1..Len(events)
  BY DEF TypeOK
<1>2. ASSUME NEW n \in 0..Len(events) PROVE Len(PrefixDigest(n)) = n
  BY <1>1 DEF PrefixDigest, DigestLength, ProtocolDigest
<1>3. ASSUME NEW i \in 1..Len(events) PROVE events[i].parent = PrefixDigest(i - 1)
  BY <1>1 DEF PrefixDigest, ChainIntact, ChainValid
<1>4. TailDigest(events) = PrefixDigest(Len(events))
  <2>1. events = << >> <=> Len(events) = 0
    BY DEF TypeOK
  <2> QED BY <2>1 DEF TailDigest, PrefixDigest
<1> QED BY <1>2, <1>3, <1>4

(* What every engine caches is the view of a prefix of the journal.         *)
ViewInv == \A p \in Procs : \E n \in 0..Len(events) : ViewAt(p, n)

(* An engine that replays one more event has the view of one more.          *)
LEMMA ViewGrows ==
  ASSUME TypeOK, ChainIntact, DigestLength, ViewInv, NEW p \in Procs,
         NEW i \in 1..Len(events), events[i].parent = tip[p]
  PROVE  /\ events[i].sha256 = PrefixDigest(i)
         /\ known[p] \union {events[i].key} = PrefixKeys(i)
<1>1. PICK n \in 0..Len(events) : ViewAt(p, n)
  BY DEF ViewInv
<1>2. Len(events) \in Nat
  BY DEF TypeOK
<1>3. n = i - 1
  <2>1. i - 1 \in 0..Len(events)
    BY <1>2
  <2> QED BY <1>1, <2>1, DigestTellsPrefix DEF ViewAt
<1>4. 1..i = 1..n \union {i}
  BY <1>2, <1>3
<1> QED BY <1>1, <1>3, <1>4, <1>2 DEF ViewAt, PrefixDigest, PrefixKeys

(* A step that leaves the rows alone leaves every view of them alone.       *)
LEMMA ViewKept ==
  ASSUME ViewInv, events' = events,
         \A q \in Procs : \/ tip'[q] = tip[q] /\ known'[q] = known[q]
                          \/ \E n \in 0..Len(events) :
                               tip'[q] = PrefixDigest(n) /\ known'[q] = PrefixKeys(n)
  PROVE  ViewInv'
  BY DEF ViewInv, ViewAt, PrefixDigest, PrefixKeys

LEMMA ViewNext == JournalInv /\ ViewInv /\ [Next]_vars => ViewInv'
<1> SUFFICES ASSUME JournalInv, ViewInv, [Next]_vars PROVE ViewInv'
  OBVIOUS
<1>a. TypeOK /\ ChainIntact /\ DigestLength /\ StageInv
  BY DEF JournalInv
<1>b. Len(events) \in Nat /\ DOMAIN events = 1..Len(events)
  BY <1>a DEF TypeOK
<1>1. CASE UNCHANGED <<events, tip, known>>
  BY <1>1, ViewKept
<1>2. ASSUME NEW p \in Procs, OpenEnd(p) PROVE ViewInv'
  <2>1. KeysOf(events) = PrefixKeys(Len(events))
    BY <1>b DEF KeysOf, PrefixKeys
  <2>2. TailDigest(events) = PrefixDigest(Len(events))
    BY <1>a, DigestTellsPrefix
  <2>3. /\ events' = events
        /\ tip' = [tip EXCEPT ![p] = PrefixDigest(Len(events))]
        /\ known' = [known EXCEPT ![p] = PrefixKeys(Len(events))]
    BY <1>2, <2>1, <2>2 DEF OpenEnd
  <2>4. Len(events) \in 0..Len(events)
    BY <1>b
  <2> QED BY <2>3, <2>4, <1>a, ViewKept DEF TypeOK
<1>3. ASSUME NEW p \in Procs, NEW i \in 1..Len(events), events[i].parent = tip[p],
             events' = events,
             tip' = [tip EXCEPT ![p] = events[i].sha256],
             known' = [known EXCEPT ![p] = @ \union {events[i].key}]
      PROVE  ViewInv'
  <2>1. /\ tip' = [tip EXCEPT ![p] = PrefixDigest(i)]
        /\ known' = [known EXCEPT ![p] = PrefixKeys(i)]
    BY <1>3, <1>a, ViewGrows DEF TypeOK
  <2>2. i \in 0..Len(events)
    BY <1>b
  <2> QED BY <1>3, <2>1, <2>2, <1>a, ViewKept DEF TypeOK
<1>4. ASSUME NEW p \in Procs, AppendExisting(p) PROVE ViewInv'
  <2>1. PICK i \in 1..Len(events) :
          IF events[i].parent = tip[p] /\ events[i].body = request[p].body
          THEN /\ tip' = [tip EXCEPT ![p] = events[i].sha256]
               /\ known' = [known EXCEPT ![p] = @ \union {events[i].key}]
          ELSE UNCHANGED <<tip, known>>
    BY <1>4, <1>b DEF AppendExisting, Existing
  <2>2. events' = events
    BY <1>4 DEF AppendExisting
  <2> QED BY <2>1, <2>2, <1>1, <1>3
<1>5. ASSUME NEW p \in Procs, AppendReturn(p) PROVE ViewInv'
  <2> DEFINE i == request[p].sequence + 1
  <2>1. i \in 1..Len(events) /\ events[i] = request[p] /\ request[p].parent = tip[p]
    BY <1>5, <1>a, <1>b DEF AppendReturn, StageInv
  <2>2. /\ events' = events
        /\ tip' = [tip EXCEPT ![p] = events[i].sha256]
        /\ known' = [known EXCEPT ![p] = @ \union {events[i].key}]
    BY <1>5, <2>1 DEF AppendReturn
  <2> HIDE DEF i
  <2> QED BY <2>1, <2>2, <1>3
<1>6. ASSUME NEW p \in Procs, AppendCommit(p) PROVE ViewInv'
  <2>1. events' = Append(events, request[p]) /\ UNCHANGED <<tip, known>>
    BY <1>6 DEF AppendCommit
  <2>2. /\ Len(events') = Len(events) + 1
        /\ \A i \in 1..Len(events) : events'[i] = events[i]
    BY <2>1, <1>a DEF TypeOK
  <2>3. ASSUME NEW q \in Procs PROVE \E n \in 0..Len(events') : ViewAt(q, n)'
    <3>1. PICK n \in 0..Len(events) : ViewAt(q, n)
      BY DEF ViewInv
    <3>2. n \in 0..Len(events') /\ 1..n \subseteq 1..Len(events) /\ (n # 0 => n \in 1..Len(events))
      BY <2>2, <1>b
    <3>3. PrefixDigest(n)' = PrefixDigest(n)
      BY <2>2, <3>2 DEF PrefixDigest, ProtocolDigest
    <3>4. PrefixKeys(n)' = PrefixKeys(n)
      BY <2>2, <3>2 DEF PrefixKeys
    <3> QED BY <2>1, <3>1, <3>2, <3>3, <3>4 DEF ViewAt
  <2> QED BY <2>3 DEF ViewInv
<1>7. ASSUME NEW p \in Procs, Crash(p) PROVE ViewInv'
  <2>1. /\ events' = events
        /\ tip' = [tip EXCEPT ![p] = ProtocolDigest] /\ known' = [known EXCEPT ![p] = {}]
    BY <1>7 DEF Crash
  <2>2. ProtocolDigest = PrefixDigest(0) /\ {} = PrefixKeys(0)
    BY DEF PrefixDigest, PrefixKeys
  <2>3. 0 \in 0..Len(events)
    BY <1>b
  <2> QED BY <2>1, <2>2, <2>3, <1>a, ViewKept DEF TypeOK
<1>8. \/ UNCHANGED <<events, tip, known>>
      \/ \E p \in Procs : \/ OpenEnd(p) \/ AppendExisting(p) \/ AppendReturn(p)
                          \/ AppendCommit(p) \/ Crash(p)
  BY DEF Next, vars, OpenBegin, AppendKnown, AppendBegin, AppendBusy, AppendStale,
     AppendInsert, Interrupt
<1> QED BY <1>1, <1>2, <1>4, <1>5, <1>6, <1>7, <1>8

(* The replayed view of an engine is always that of a prefix of the        *)
(* journal: _tip and _known_events never come from two moments.            *)
THEOREM ViewAlwaysPrefix == Spec => []ViewIsPrefix
<1>1. Init => ViewInv
  BY DEF Init, ViewInv, ViewAt, PrefixDigest, PrefixKeys
<1>2. ViewInv => ViewIsPrefix
  BY DEF ViewInv, ViewAt, PrefixDigest, PrefixKeys, ViewIsPrefix
<1> QED BY <1>1, <1>2, ViewNext, JournalInvariant, PTL DEF Spec

(* Whoever commits an event has replayed the whole journal before it: the  *)
(* expected parent that the engine passes to append and the transaction's  *)
(* lock leave no room for an event of another process in between.          *)
THEOREM AlwaysCommittedFromFullPrefix == Spec => CommittedFromFullPrefix
<1>1. JournalInv /\ ViewInv /\ [Next]_vars =>
        [ events' # events =>
            \E p \in Procs : /\ tip[p] = TailDigest(events)
                             /\ known[p] = KeysOf(events) ]_vars
  <2> SUFFICES ASSUME JournalInv, ViewInv, Next, events' # events
               PROVE  \E p \in Procs : tip[p] = TailDigest(events) /\ known[p] = KeysOf(events)
    OBVIOUS
  <2>1. PICK p \in Procs : AppendCommit(p)
    BY DEF Next, OpenBegin, OpenEnd, AppendKnown, AppendBegin, AppendBusy, AppendExisting,
       AppendStale, AppendInsert, AppendReturn, Interrupt, Crash
  <2>2. tip[p] = TailDigest(events)
    BY <2>1 DEF AppendCommit, JournalInv, StageInv
  <2>3. PICK n \in 0..Len(events) : ViewAt(p, n)
    BY DEF ViewInv
  <2>4. Len(events) \in Nat /\ DOMAIN events = 1..Len(events)
    BY DEF JournalInv, TypeOK
  <2>5. n = Len(events)
    <3>1. Len(events) \in 0..Len(events)
      BY <2>4
    <3> QED BY <2>2, <2>3, <3>1, DigestTellsPrefix DEF ViewAt, JournalInv
  <2>6. known[p] = KeysOf(events)
    BY <2>3, <2>4, <2>5 DEF ViewAt, PrefixKeys, KeysOf
  <2> QED BY <2>2, <2>6
<1>2. Init => ViewInv
  BY DEF Init, ViewInv, ViewAt, PrefixDigest, PrefixKeys
<1> QED BY <1>1, <1>2, ViewNext, JournalInvariant, PTL DEF Spec, CommittedFromFullPrefix
-----------------------------------------------------------------------------
-----------------------------------------------------------------------------
(* What the steps of a command do to the account, field by field. *)

Fields == {"lastAt", "lots", "insolvent", "stop", "failures", "order", "settlements", "expected",
           "holdings", "watermark", "paid", "observed", "filled"}

(* The fields that neither a stop nor a failure changes. *)
KeepsAllButVerdict(a, b) ==
  /\ DOMAIN b = Fields
  /\ b.lastAt = a.lastAt /\ b.lots = a.lots /\ b.order = a.order
  /\ b.settlements = a.settlements /\ b.expected = a.expected /\ b.holdings = a.holdings
  /\ b.paid = a.paid /\ b.observed = a.observed /\ b.filled = a.filled

(* Stop keeps the first reason and everything else. *)
LEMMA StopEffect ==
  ASSUME NEW a, DOMAIN a = Fields, NEW reason
  PROVE  /\ KeepsAllButVerdict(a, Stop(a, reason))
         /\ Stop(a, reason).insolvent = a.insolvent /\ Stop(a, reason).failures = a.failures
         /\ Stop(a, reason).watermark = a.watermark
         /\ Stop(a, reason).stop = IF a.stop = NoStop THEN reason ELSE a.stop
  BY DEF Stop, Fields, KeepsAllButVerdict

(* Fail stops and records what was found, if anything was. *)
LEMMA FailEffect ==
  ASSUME NEW a, DOMAIN a = Fields, NEW reason, NEW found
  PROVE  /\ KeepsAllButVerdict(a, Fail(a, reason, found))
         /\ Fail(a, reason, found).insolvent = a.insolvent
         /\ Fail(a, reason, found).watermark = a.watermark
         /\ Fail(a, reason, found).failures = a.failures \cup found
         /\ Fail(a, reason, found).stop =
              IF found # {} /\ a.stop = NoStop THEN reason ELSE a.stop
<1>1. CASE found = {} BY <1>1 DEF Fail, KeepsAllButVerdict
<1>2. CASE found # {}
  <2> DEFINE b == Stop(a, reason)
  <2>1. Fail(a, reason, found) = [b EXCEPT !.failures = @ \cup found] BY <1>2 DEF Fail
  <2>2. DOMAIN b = Fields /\ KeepsAllButVerdict(a, b) BY StopEffect DEF KeepsAllButVerdict
  <2>3. /\ b.insolvent = a.insolvent /\ b.watermark = a.watermark /\ b.failures = a.failures
        /\ b.stop = IF a.stop = NoStop THEN reason ELSE a.stop
    BY StopEffect
  <2> HIDE DEF b
  <2> QED BY <1>2, <2>1, <2>2, <2>3 DEF Fields, KeepsAllButVerdict
<1> QED BY <1>1, <1>2

(* _funding changes the ledger of payments and the verdict only. *)
LEMMA FundingEffect ==
  ASSUME NEW a, DOMAIN a = Fields, NEW at, NEW rows
  PROVE  LET b == Funding(a, at, rows)
             new == {r \in rows : a.settlements[r.f] = NotSettled} IN
         /\ DOMAIN b = Fields
         /\ b.lastAt = a.lastAt /\ b.lots = a.lots /\ b.order = a.order
         /\ b.holdings = a.holdings /\ b.observed = a.observed /\ b.filled = a.filled
         /\ b.insolvent = a.insolvent
         /\ b.expected = ExpectedAfter(a, at, rows)
         /\ a.failures \subseteq b.failures
         /\ b.stop = a.stop \/ (a.stop = NoStop /\ b.stop = "funding")
         /\ b.settlements = [f \in FundingTimes |->
              IF \E r \in new : r.f = f THEN (CHOOSE r \in new : r.f = f).value
              ELSE a.settlements[f]]
         /\ b.paid = [f \in FundingTimes |->
              IF \E r \in new : r.f = f THEN HeldBefore(a, f) ELSE a.paid[f]]
<1> DEFINE new == {r \in rows : a.settlements[r.f] = NotSettled}
           pays == {r \in new : HeldBefore(a, r.f) # 0}
           revised == {r \in rows \ new : a.settlements[r.f] # r.value}
           late == {r \in new : r.f >= StartAt /\ at - r.f > MaximumGap}
           expected == ExpectedAfter(a, at, rows)
           found == {"funding_revision" : r \in revised}
             \cup {"funding_out_of_order" : r \in {s \in pays : s.f <= a.watermark}}
             \cup {"late_funding" : r \in late}
             \cup {"missing_funding" : f \in {g \in expected : at - g > MaximumGap}}
           failed == Fail(a, "funding", found)
           settlements == [f \in FundingTimes |->
              IF \E r \in new : r.f = f THEN (CHOOSE r \in new : r.f = f).value
              ELSE failed.settlements[f]]
           paid == [f \in FundingTimes |->
              IF \E r \in new : r.f = f THEN HeldBefore(a, f) ELSE failed.paid[f]]
           watermark == Max({r.f : r \in pays} \cup {failed.watermark})
<1>1. Funding(a, at, rows) = [failed EXCEPT !.settlements = settlements, !.paid = paid,
                                !.expected = expected, !.watermark = watermark]
  BY DEF Funding
<1>2. /\ KeepsAllButVerdict(a, failed) /\ failed.insolvent = a.insolvent
      /\ a.failures \subseteq failed.failures
      /\ failed.stop = a.stop \/ (a.stop = NoStop /\ failed.stop = "funding")
  BY FailEffect
<1>3. failed.settlements = a.settlements /\ failed.paid = a.paid BY <1>2 DEF KeepsAllButVerdict
<1>4. /\ settlements = [f \in FundingTimes |->
            IF \E r \in new : r.f = f THEN (CHOOSE r \in new : r.f = f).value
            ELSE a.settlements[f]]
      /\ paid = [f \in FundingTimes |->
            IF \E r \in new : r.f = f THEN HeldBefore(a, f) ELSE a.paid[f]]
  BY <1>3
<1> DEFINE b == Funding(a, at, rows)
<1>5. /\ DOMAIN b = Fields
      /\ b.lastAt = a.lastAt /\ b.lots = a.lots /\ b.order = a.order
      /\ b.holdings = a.holdings /\ b.observed = a.observed /\ b.filled = a.filled
      /\ b.insolvent = a.insolvent
      /\ b.expected = expected /\ b.settlements = settlements /\ b.paid = paid
      /\ b.failures = failed.failures /\ b.stop = failed.stop
  <2> HIDE DEF failed, settlements, paid, expected, watermark, b
  <2>1. b = [failed EXCEPT !.settlements = settlements, !.paid = paid,
                           !.expected = expected, !.watermark = watermark]
    BY <1>1 DEF b
  <2> QED BY <1>2, <2>1 DEF Fields, KeepsAllButVerdict
<1> HIDE DEF failed, settlements, paid, expected, watermark, b
<1> QED BY <1>2, <1>4, <1>5 DEF b, expected

(* What an observation at time at makes of the account. *)
Observed(a, b, at, rows) ==
  LET new == {r \in rows : a.settlements[r.f] = NotSettled} IN
  /\ DOMAIN b = Fields
  /\ b.lastAt = at /\ b.lots = a.lots /\ b.order = a.order /\ b.holdings = a.holdings
  /\ b.observed = a.observed \cup {at}
  /\ a.failures \subseteq b.failures
  /\ at - a.lastAt > MaximumGap => b.failures # {}
  /\ a.stop # NoStop => b.stop = a.stop
  /\ b.expected = ExpectedAfter(a, at, rows)
  /\ b.settlements = [f \in FundingTimes |->
        IF \E r \in new : r.f = f THEN (CHOOSE r \in new : r.f = f).value ELSE a.settlements[f]]
  /\ b.paid = [f \in FundingTimes |->
        IF \E r \in new : r.f = f THEN HeldBefore(a, f) ELSE a.paid[f]]

(* _observe. *)
LEMMA ObserveEffect ==
  ASSUME NEW a, DOMAIN a = Fields, NEW at, NEW rows, NEW risk
  PROVE  Observed(a, Observe(a, at, rows, risk), at, rows)
<1> DEFINE gap == IF at - a.lastAt > MaximumGap THEN {"observation_gap"} ELSE {}
           gapped == Fail(a, "data_gap", gap)
           risked == Fail(gapped, "risk", risk)
           marked == [risked EXCEPT !.insolvent = @ \/ "insolvent" \in risk]
           closed == IF at >= CloseAt THEN Stop(marked, "terminal_close") ELSE marked
           funded == Funding(closed, at, rows)
           b == Observe(a, at, rows, risk)
<1>1. b = [funded EXCEPT !.lastAt = at, !.observed = @ \cup {at}] BY DEF Observe
<1>2. /\ KeepsAllButVerdict(a, gapped) /\ gapped.failures = a.failures \cup gap
      /\ a.stop # NoStop => gapped.stop = a.stop
  BY FailEffect
<1>3. /\ KeepsAllButVerdict(gapped, risked) /\ risked.failures = gapped.failures \cup risk
      /\ gapped.stop # NoStop => risked.stop = gapped.stop
  <2> HIDE DEF gapped, risked
  <2> QED BY <1>2, FailEffect DEF KeepsAllButVerdict, risked
<1>4. /\ KeepsAllButVerdict(risked, marked) /\ marked.failures = risked.failures
      /\ marked.stop = risked.stop
  <2>1. DOMAIN risked = Fields BY <1>3 DEF KeepsAllButVerdict
  <2>2. marked = [risked EXCEPT !.insolvent = @ \/ "insolvent" \in risk] OBVIOUS
  <2> HIDE DEF risked, marked
  <2> QED BY <2>1, <2>2 DEF KeepsAllButVerdict, Fields
<1>5. /\ KeepsAllButVerdict(marked, closed) /\ closed.failures = marked.failures
      /\ marked.stop # NoStop => closed.stop = marked.stop
  <2>1. DOMAIN marked = Fields BY <1>4 DEF KeepsAllButVerdict
  <2>2. closed = IF at >= CloseAt THEN Stop(marked, "terminal_close") ELSE marked OBVIOUS
  <2> HIDE DEF marked, closed
  <2> QED BY <2>1, <2>2, StopEffect DEF KeepsAllButVerdict
<1> HIDE DEF gapped, risked, marked, closed
<1>6. KeepsAllButVerdict(a, closed)
  BY <1>2, <1>3, <1>4, <1>5 DEF KeepsAllButVerdict
<1>7. a.stop # NoStop => closed.stop = a.stop BY <1>2, <1>3, <1>4, <1>5
<1>8. a.failures \subseteq closed.failures /\ gap \subseteq closed.failures
  BY <1>2, <1>3, <1>4, <1>5
<1>9. /\ \A f : HeldBefore(closed, f) = HeldBefore(a, f)
      /\ ExpectedAfter(closed, at, rows) = ExpectedAfter(a, at, rows)
  BY <1>6 DEF KeepsAllButVerdict, HeldBefore, ExpectedAfter
<1> DEFINE new == {r \in rows : a.settlements[r.f] = NotSettled}
<1>10. /\ DOMAIN funded = Fields
       /\ funded.lots = a.lots /\ funded.order = a.order /\ funded.holdings = a.holdings
       /\ funded.observed = a.observed
       /\ a.failures \subseteq funded.failures /\ gap \subseteq funded.failures
       /\ a.stop # NoStop => funded.stop = a.stop
       /\ funded.expected = ExpectedAfter(a, at, rows)
       /\ funded.settlements = [f \in FundingTimes |->
             IF \E r \in new : r.f = f THEN (CHOOSE r \in new : r.f = f).value
             ELSE a.settlements[f]]
       /\ funded.paid = [f \in FundingTimes |->
             IF \E r \in new : r.f = f THEN HeldBefore(a, f) ELSE a.paid[f]]
  <2>1. DOMAIN closed = Fields /\ closed.settlements = a.settlements /\ closed.paid = a.paid
    BY <1>6 DEF KeepsAllButVerdict
  <2>2. new = {r \in rows : closed.settlements[r.f] = NotSettled} BY <2>1
  <2>3. /\ DOMAIN funded = Fields
        /\ funded.lots = closed.lots /\ funded.order = closed.order
        /\ funded.holdings = closed.holdings /\ funded.observed = closed.observed
        /\ funded.expected = ExpectedAfter(closed, at, rows)
        /\ closed.failures \subseteq funded.failures
        /\ funded.stop = closed.stop \/ (closed.stop = NoStop /\ funded.stop = "funding")
        /\ funded.settlements = [f \in FundingTimes |->
              IF \E r \in new : r.f = f THEN (CHOOSE r \in new : r.f = f).value
              ELSE closed.settlements[f]]
        /\ funded.paid = [f \in FundingTimes |->
              IF \E r \in new : r.f = f THEN HeldBefore(closed, f) ELSE closed.paid[f]]
    BY <2>1, <2>2, FundingEffect
  <2> HIDE DEF funded, new, gap
  <2> QED BY <1>6, <1>7, <1>8, <1>9, <2>1, <2>3 DEF KeepsAllButVerdict
<1>11. at - a.lastAt > MaximumGap => funded.failures # {} BY <1>10
<1> HIDE DEF funded, b
<1>12. /\ DOMAIN b = Fields /\ b.lastAt = at /\ b.observed = funded.observed \cup {at}
       /\ b.lots = funded.lots /\ b.order = funded.order /\ b.holdings = funded.holdings
       /\ b.failures = funded.failures /\ b.stop = funded.stop
       /\ b.expected = funded.expected /\ b.settlements = funded.settlements
       /\ b.paid = funded.paid
  BY <1>1, <1>10 DEF Fields
<1>13. Observed(a, b, at, rows) BY <1>10, <1>11, <1>12 DEF Observed
<1> QED BY <1>13 DEF b

(* decide: an observation and the order that takes the book to its target. *)
LEMMA DecideEffect ==
  ASSUME NEW a, DOMAIN a = Fields, a.lots \in [spot : Int, perp : Int],
         NEW at, NEW rows, NEW risk
  PROVE  LET seen == Observe(a, at, rows, risk)
             b == Decide(a, at, rows, risk) IN
         /\ Observed(a, seen, at, rows)
         /\ DOMAIN b = Fields
         /\ b.lastAt = seen.lastAt /\ b.lots = seen.lots /\ b.holdings = seen.holdings
         /\ b.failures = seen.failures /\ b.stop = seen.stop /\ b.expected = seen.expected
         /\ b.settlements = seen.settlements /\ b.paid = seen.paid
         /\ b.order # NoOrder => b.order.trade \in [spot : Int, perp : Int]
<1> DEFINE seen == Observe(a, at, rows, risk)
           target == IF seen.stop # NoStop THEN Flat ELSE [spot |-> LotTarget, perp |-> -LotTarget]
           trade == [spot |-> target.spot - seen.lots.spot, perp |-> target.perp - seen.lots.perp]
           order == IF trade # Flat /\ ~seen.insolvent THEN [at |-> at, trade |-> trade] ELSE NoOrder
           b == Decide(a, at, rows, risk)
<1>1. Observed(a, seen, at, rows) BY ObserveEffect
<1>2. b = [seen EXCEPT !.order = order] BY DEF Decide
<1>3. trade \in [spot : Int, perp : Int]
  <2>1. target \in [spot : Int, perp : Int] BY AccountAssumption DEF Flat
  <2>2. seen.lots \in [spot : Int, perp : Int] BY <1>1 DEF Observed
  <2> HIDE DEF target, seen
  <2> QED BY <2>1, <2>2
<1>4. order # NoOrder => order.trade \in [spot : Int, perp : Int]
  <2> HIDE DEF trade
  <2> QED BY <1>3
<1> HIDE DEF seen, order, b
<1>5. /\ DOMAIN b = Fields
      /\ b.lastAt = seen.lastAt /\ b.lots = seen.lots /\ b.holdings = seen.holdings
      /\ b.failures = seen.failures /\ b.stop = seen.stop /\ b.expected = seen.expected
      /\ b.settlements = seen.settlements /\ b.paid = seen.paid /\ b.order = order
  BY <1>1, <1>2 DEF Observed, Fields
<1> QED BY <1>1, <1>4, <1>5 DEF seen, b

(* execute: an observation, then nothing or the fill, the holding it leaves and the look at  *)
(* the hedge.                                                                                *)
LEMMA ExecuteEffect ==
  ASSUME NEW a, DOMAIN a = Fields, NEW at, NEW rows, NEW risk, NEW fill, NEW fillRisk
  PROVE  LET seen == Observe(a, at, rows, risk)
             b == Execute(a, at, rows, risk, fill, fillRisk)
             now == [spot |-> seen.lots.spot + fill.spot, perp |-> seen.lots.perp + fill.perp] IN
         /\ Observed(a, seen, at, rows)
         /\ DOMAIN b = Fields /\ b.order = NoOrder
         /\ b.lastAt = seen.lastAt /\ b.expected = seen.expected
         /\ b.settlements = seen.settlements /\ b.paid = seen.paid
         /\ seen.failures \subseteq b.failures
         /\ seen.stop # NoStop => b.stop = seen.stop
         /\ Cancelled(seen) =>
              b.lots = seen.lots /\ b.holdings = seen.holdings /\ b.stop = seen.stop
         /\ ~Cancelled(seen) =>
              /\ b.lots = now
              /\ b.holdings = Append(seen.holdings, [at |-> at, perp |-> now.perp])
              /\ seen.stop = NoStop => b.stop \in {NoStop, "fill_risk", "unmatched_hedge"}
              /\ now.spot + now.perp # 0 => "unmatched_hedge" \in b.failures /\ b.stop # NoStop
<1> DEFINE seen == Observe(a, at, rows, risk)
           b == Execute(a, at, rows, risk, fill, fillRisk)
           now == [spot |-> seen.lots.spot + fill.spot, perp |-> seen.lots.perp + fill.perp]
           holding == [at |-> at, perp |-> now.perp]
           legs == {leg \in {"spot", "perp"} : fill[leg] # 0}
           risky == Fail(seen, "fill_risk", fillRisk)
           traded == [risky EXCEPT !.lots = now, !.holdings = Append(@, holding),
                                   !.filled = @ \cup legs]
           hedged == Fail(traded, "unmatched_hedge", HedgeFailure(now))
           after == IF Cancelled(seen) THEN seen ELSE hedged
<1>1. Observed(a, seen, at, rows) BY ObserveEffect
<1>2. b = [after EXCEPT !.order = NoOrder] BY DEF Execute
<1>3. /\ KeepsAllButVerdict(seen, risky) /\ risky.failures = seen.failures \cup fillRisk
      /\ risky.stop = IF fillRisk # {} /\ seen.stop = NoStop THEN "fill_risk" ELSE seen.stop
  <2>1. DOMAIN seen = Fields BY <1>1 DEF Observed
  <2> HIDE DEF seen
  <2> QED BY <2>1, FailEffect
<1>4. /\ DOMAIN traded = Fields
      /\ traded.lots = now /\ traded.holdings = Append(seen.holdings, holding)
      /\ traded.lastAt = seen.lastAt /\ traded.expected = seen.expected
      /\ traded.settlements = seen.settlements /\ traded.paid = seen.paid
      /\ traded.failures = risky.failures /\ traded.stop = risky.stop
  <2>1. traded = [risky EXCEPT !.lots = now, !.holdings = Append(@, holding),
                               !.filled = @ \cup legs]
    OBVIOUS
  <2> HIDE DEF seen, now, holding, legs, risky, traded
  <2> QED BY <1>3, <2>1 DEF KeepsAllButVerdict, Fields
<1>5. /\ KeepsAllButVerdict(traded, hedged)
      /\ hedged.failures = traded.failures \cup HedgeFailure(now)
      /\ hedged.stop = IF HedgeFailure(now) # {} /\ traded.stop = NoStop
                      THEN "unmatched_hedge" ELSE traded.stop
  <2> HIDE DEF traded, now
  <2> QED BY <1>4, FailEffect
<1>6. now.spot + now.perp # 0 => HedgeFailure(now) = {"unmatched_hedge"}
  BY DEF HedgeFailure
<1> HIDE DEF seen, now, holding, risky, traded, hedged, b
<1>7. /\ DOMAIN after = Fields /\ after.lastAt = seen.lastAt /\ after.expected = seen.expected
      /\ after.settlements = seen.settlements /\ after.paid = seen.paid
      /\ seen.failures \subseteq after.failures
      /\ seen.stop # NoStop => after.stop = seen.stop
  BY <1>1, <1>3, <1>4, <1>5 DEF KeepsAllButVerdict, Observed
<1>8. ~Cancelled(seen) =>
        /\ after.lots = now /\ after.holdings = Append(seen.holdings, holding)
        /\ seen.stop = NoStop => after.stop \in {NoStop, "fill_risk", "unmatched_hedge"}
        /\ now.spot + now.perp # 0 => "unmatched_hedge" \in after.failures /\ after.stop # NoStop
  BY <1>3, <1>4, <1>5, <1>6 DEF KeepsAllButVerdict, NoStop
<1>9. Cancelled(seen) => after = seen OBVIOUS
<1> HIDE DEF after
<1>10. /\ DOMAIN b = Fields /\ b.order = NoOrder
       /\ b.lastAt = after.lastAt /\ b.expected = after.expected
       /\ b.settlements = after.settlements /\ b.paid = after.paid
       /\ b.failures = after.failures /\ b.stop = after.stop
       /\ b.lots = after.lots /\ b.holdings = after.holdings
  BY <1>2, <1>7 DEF Fields
<1> QED BY <1>1, <1>7, <1>8, <1>9, <1>10 DEF seen, b, now, holding

(* gap: the hole is a failure and the decision is gone. *)
LEMMA GapEffect ==
  ASSUME NEW a, DOMAIN a = Fields, NEW at
  PROVE  LET b == Gap(a, at) IN
         /\ DOMAIN b = Fields /\ b.order = NoOrder /\ b.lastAt = at /\ b.failures # {}
         /\ b.lots = a.lots /\ b.holdings = a.holdings /\ b.settlements = a.settlements
         /\ b.paid = a.paid /\ a.failures \subseteq b.failures
         /\ a.stop # NoStop => b.stop = a.stop
<1> DEFINE failed == Fail(a, "data_gap", {"gap"})
           b == Gap(a, at)
<1>1. b = [failed EXCEPT !.order = NoOrder, !.lastAt = at] BY DEF Gap
<1>2. /\ KeepsAllButVerdict(a, failed) /\ failed.failures = a.failures \cup {"gap"}
      /\ a.stop # NoStop => failed.stop = a.stop
  BY FailEffect
<1> HIDE DEF failed, b
<1> QED BY <1>1, <1>2 DEF KeepsAllButVerdict, Fields, b

-----------------------------------------------------------------------------
(* The invariant. *)

Typed(a) ==
  /\ DOMAIN a = Fields
  /\ a.lastAt \in Int
  /\ a.lots \in [spot : Int, perp : Int]
  /\ a.holdings \in Seq([at : Int, perp : Int])
  /\ a.order # NoOrder => a.order.trade \in [spot : Int, perp : Int]

(* A naked leg is on record and has stopped the account. *)
HedgeKept(a) ==
  a.lots.spot + a.lots.perp # 0 => "unmatched_hedge" \in a.failures /\ a.stop # NoStop

(* The executions before f. *)
Before(a, f) == {i \in DOMAIN a.holdings : a.holdings[i].at < f}

(* Unless nothing was executed before f there is a last such execution. *)
HasLast(a) ==
  \A f \in FundingTimes :
    Before(a, f) # {} => \E m \in Before(a, f) : \A i \in Before(a, f) : m >= i

(* A payment is settled, past and paid for what was held, or none of it. *)
Settled(a) ==
  \A f \in FundingTimes :
    \/ a.settlements[f] = NotSettled /\ a.paid[f] = NotPaid
    \/ a.settlements[f] # NotSettled /\ f <= a.lastAt /\ a.paid[f] = HeldBefore(a, f)

(* The next payment after the last observation is expected. *)
NextKnown(a) ==
  \A f \in FundingTimes :
    f > a.lastAt /\ (\A g \in FundingTimes : g > a.lastAt => f <= g) => f \in a.expected

(* While nothing has failed no payment that is owed was forgotten, and once there was an     *)
(* execution the next one is expected.                                                       *)
Announced(a) ==
  a.failures = {} =>
    /\ \A f \in FundingTimes :
         f <= a.lastAt /\ HeldBefore(a, f) # 0 /\ a.settlements[f] = NotSettled => f \in a.expected
    /\ a.holdings = <<>> \/ NextKnown(a)

FundingKept(a) == HasLast(a) /\ Settled(a) /\ Announced(a)

AccountInv == Typed(account) /\ HedgeKept(account) /\ FundingKept(account)

-----------------------------------------------------------------------------
(* The ledger of payments. *)

(* What a snapshot shows are settlements that are due. *)
LEMMA RowsAreDue ==
  ASSUME NEW at \in Int, NEW rows \in SnapshotRows(at), NEW r \in rows
  PROVE  r.f \in FundingTimes /\ r.f <= at /\ r.value # NotSettled
<1>1. PICK shown \in SUBSET {f \in FundingTimes : f <= at} :
        \E v \in [shown -> FundingRates] : rows = {[f |-> f, value |-> v[f]] : f \in shown}
  BY DEF SnapshotRows
<1>2. PICK v \in [shown -> FundingRates] : rows = {[f |-> f, value |-> v[f]] : f \in shown}
  BY <1>1
<1>3. PICK f \in shown : r = [f |-> f, value |-> v[f]] BY <1>2
<1> QED BY <1>3, FundingAssumption

(* What was held before f is read from the executions alone. *)
LEMMA HeldReadsHoldings ==
  ASSUME NEW a, NEW b, b.holdings = a.holdings, NEW f
  PROVE  HeldBefore(b, f) = HeldBefore(a, f) /\ Before(b, f) = Before(a, f)
  BY DEF HeldBefore, Before

(* An observation keeps the ledger, and the next payment is expected after it: two payments  *)
(* that become due between two observations are further apart than the gap limit allows.     *)
LEMMA ObservedKeepsFunding ==
  ASSUME NEW a, NEW b, NEW at \in Int, NEW rows \in SnapshotRows(at),
         Typed(a), FundingKept(a), at > a.lastAt, Observed(a, b, at, rows)
  PROVE  FundingKept(b) /\ NextKnown(b)
<1>1. \A f \in FundingTimes : HeldBefore(b, f) = HeldBefore(a, f) /\ Before(b, f) = Before(a, f)
  BY HeldReadsHoldings DEF Observed
<1>2. HasLast(b) BY <1>1 DEF FundingKept, HasLast
<1>3. \A f \in FundingTimes :
        IF \E r \in rows : r.f = f /\ a.settlements[f] = NotSettled
        THEN f <= at /\ b.settlements[f] # NotSettled /\ b.paid[f] = HeldBefore(a, f)
        ELSE b.settlements[f] = a.settlements[f] /\ b.paid[f] = a.paid[f]
  <2> SUFFICES ASSUME NEW f \in FundingTimes
               PROVE  IF \E r \in rows : r.f = f /\ a.settlements[f] = NotSettled
                      THEN f <= at /\ b.settlements[f] # NotSettled /\ b.paid[f] = HeldBefore(a, f)
                      ELSE b.settlements[f] = a.settlements[f] /\ b.paid[f] = a.paid[f]
    OBVIOUS
  <2> DEFINE new == {r \in rows : a.settlements[r.f] = NotSettled}
  <2>1. /\ b.settlements[f] = IF \E r \in new : r.f = f
                              THEN (CHOOSE r \in new : r.f = f).value ELSE a.settlements[f]
        /\ b.paid[f] = IF \E r \in new : r.f = f THEN HeldBefore(a, f) ELSE a.paid[f]
    BY DEF Observed
  <2>2. CASE \E r \in new : r.f = f
    <3>1. (CHOOSE r \in new : r.f = f) \in rows BY <2>2
    <3>2. (CHOOSE r \in new : r.f = f).value # NotSettled BY <3>1, RowsAreDue
    <3>3. f <= at BY <2>2, RowsAreDue
    <3>4. \E r \in rows : r.f = f /\ a.settlements[f] = NotSettled BY <2>2
    <3> QED BY <2>1, <2>2, <3>2, <3>3, <3>4
  <2>3. CASE ~\E r \in new : r.f = f BY <2>1, <2>3
  <2> QED BY <2>2, <2>3
<1>4. Settled(b)
  <2> SUFFICES ASSUME NEW f \in FundingTimes
               PROVE \/ b.settlements[f] = NotSettled /\ b.paid[f] = NotPaid
                     \/ /\ b.settlements[f] # NotSettled /\ f <= b.lastAt
                        /\ b.paid[f] = HeldBefore(b, f)
    BY DEF Settled
  <2>1. f \in Int BY AccountAssumption
  <2>2. b.lastAt = at /\ a.lastAt < at /\ a.lastAt \in Int BY DEF Observed, Typed
  <2>3. \/ a.settlements[f] = NotSettled /\ a.paid[f] = NotPaid
        \/ a.settlements[f] # NotSettled /\ f <= a.lastAt /\ a.paid[f] = HeldBefore(a, f)
    BY DEF FundingKept, Settled
  <2> QED BY <1>1, <1>3, <2>1, <2>2, <2>3
<1>5. \A f \in FundingTimes :
        f > at /\ (\A g \in FundingTimes : g > at => f <= g) => f \in b.expected
  <2> SUFFICES ASSUME NEW f \in FundingTimes, f > at, \A g \in FundingTimes : g > at => f <= g
               PROVE  f \in b.expected
    OBVIOUS
  <2> DEFINE later == {g \in FundingTimes : g > at}
  <2>1. f \in later /\ \A g \in later : f <= g OBVIOUS
  <2>2. \A g \in later : g \in Nat
    <3>1. FundingTimes \subseteq Nat BY AccountAssumption
    <3> QED BY <3>1
  <2>3. Min(later) \in later /\ \A g \in later : Min(later) <= g BY <2>1 DEF Min
  <2>4. Min(later) = f BY <2>1, <2>2, <2>3
  <2> QED BY <2>1, <2>4 DEF Observed, ExpectedAfter
<1>6. NextKnown(b) BY <1>5 DEF NextKnown, Observed
<1>7. Announced(b)
  <2> SUFFICES ASSUME b.failures = {}, NEW f \in FundingTimes,
                      f <= b.lastAt, HeldBefore(b, f) # 0, b.settlements[f] = NotSettled
               PROVE  f \in b.expected
    BY <1>6 DEF Announced
  <2>1. a.failures = {} /\ ~(at - a.lastAt > MaximumGap) BY DEF Observed
  <2>2. a.settlements[f] = NotSettled /\ ~\E r \in rows : r.f = f BY <1>3
  <2>3. HeldBefore(a, f) # 0 BY <1>1
  <2>4. f \in a.expected
    <3>1. CASE f <= a.lastAt BY <2>1, <2>2, <2>3, <3>1 DEF FundingKept, Announced
    <3>2. CASE f > a.lastAt
      <4>1. a.holdings # <<>> BY <2>3 DEF HeldBefore
      <4>2. NextKnown(a) BY <2>1, <4>1 DEF FundingKept, Announced
      <4>3. ASSUME NEW g \in FundingTimes, g > a.lastAt, ~(f <= g) PROVE FALSE
        <5>1. f \in Int /\ g \in Int /\ a.lastAt \in Int /\ MaximumGap \in Int
          BY AccountAssumption DEF Typed
        <5>2. f - g >= MaximumGap BY <4>3, <5>1, FundingAssumption
        <5>3. f <= at BY DEF Observed
        <5> QED BY <2>1, <4>3, <5>1, <5>2, <5>3
      <4> QED BY <3>2, <4>2, <4>3 DEF NextKnown
    <3>3. f \in Int /\ a.lastAt \in Int BY AccountAssumption DEF Typed
    <3> QED BY <3>1, <3>2, <3>3
  <2>5. f <= at BY DEF Observed
  <2> QED BY <2>2, <2>4, <2>5 DEF Observed, ExpectedAfter
<1> QED BY <1>2, <1>4, <1>6, <1>7 DEF FundingKept

(* An execution at the time of the observation changes nothing that was held before any      *)
(* payment due by then.                                                                      *)
LEMMA AppendedKeepsFunding ==
  ASSUME NEW b, NEW c, NEW q \in Int, b.lastAt \in Int,
         b.holdings \in Seq([at : Int, perp : Int]), FundingKept(b), NextKnown(b),
         c.lastAt = b.lastAt, c.expected = b.expected, c.settlements = b.settlements,
         c.paid = b.paid, b.failures \subseteq c.failures,
         c.holdings = Append(b.holdings, [at |-> b.lastAt, perp |-> q])
  PROVE  FundingKept(c)
<1> DEFINE n == Len(b.holdings)
<1>1. /\ n \in Nat /\ DOMAIN b.holdings = 1..n /\ DOMAIN c.holdings = 1..(n + 1)
      /\ \A i \in 1..n : c.holdings[i] = b.holdings[i] /\ b.holdings[i].at \in Int
      /\ c.holdings[n + 1].at = b.lastAt
  <2> DEFINE h == b.holdings
             e == [at |-> b.lastAt, perp |-> q]
  <2>1. h \in Seq([at : Int, perp : Int]) /\ e \in [at : Int, perp : Int] OBVIOUS
  <2>2. e.at = b.lastAt OBVIOUS
  <2> HIDE DEF h, e
  <2>3. Len(h) \in Nat /\ DOMAIN h = 1..Len(h) BY <2>1, LenProperties
  <2>4. \A i \in 1..Len(h) : h[i] \in [at : Int, perp : Int] BY <2>1, ElementOfSeq
  <2>5. /\ DOMAIN Append(h, e) = 1..(Len(h) + 1) /\ Append(h, e)[Len(h) + 1] = e
        /\ \A i \in 1..Len(h) : Append(h, e)[i] = h[i]
    BY <2>1, <2>3
  <2> QED BY <2>2, <2>3, <2>4, <2>5 DEF h, e
<1> HIDE DEF n
<1>2. ASSUME NEW f \in FundingTimes, f <= b.lastAt
      PROVE  Before(c, f) = Before(b, f) /\ HeldBefore(c, f) = HeldBefore(b, f)
  <2>1. f \in Int BY AccountAssumption
  <2>2. Before(c, f) = Before(b, f) BY <1>1, <1>2, <2>1 DEF Before
  <2>3. CASE Before(b, f) = {} BY <2>2, <2>3 DEF HeldBefore, Before
  <2>4. CASE Before(b, f) # {}
    <3>1. Max(Before(b, f)) \in Before(b, f) BY <2>4 DEF FundingKept, HasLast, Max
    <3>2. Max(Before(b, f)) \in 1..n BY <1>1, <3>1 DEF Before
    <3>3. HeldBefore(b, f) = b.holdings[Max(Before(b, f))].perp BY <2>4 DEF HeldBefore, Before
    <3>4. HeldBefore(c, f) = c.holdings[Max(Before(c, f))].perp
      BY <2>2, <2>4 DEF HeldBefore, Before
    <3> QED BY <1>1, <2>2, <3>2, <3>3, <3>4
  <2> QED BY <2>2, <2>3, <2>4
<1>3. HasLast(c)
  <2> SUFFICES ASSUME NEW f \in FundingTimes, Before(c, f) # {}
               PROVE  \E m \in Before(c, f) : \A i \in Before(c, f) : m >= i
    BY DEF HasLast
  <2>1. f \in Int BY AccountAssumption
  <2>2. CASE f <= b.lastAt BY <1>2, <2>2 DEF FundingKept, HasLast
  <2>3. CASE f > b.lastAt
    <3>1. n + 1 \in Before(c, f) BY <1>1, <2>3 DEF Before
    <3>2. \A i \in Before(c, f) : n + 1 >= i BY <1>1 DEF Before
    <3> QED BY <3>1, <3>2
  <2> QED BY <2>1, <2>2, <2>3
<1>4. Settled(c)
  <2> SUFFICES ASSUME NEW f \in FundingTimes
               PROVE \/ c.settlements[f] = NotSettled /\ c.paid[f] = NotPaid
                     \/ /\ c.settlements[f] # NotSettled /\ f <= c.lastAt
                        /\ c.paid[f] = HeldBefore(c, f)
    BY DEF Settled
  <2> QED BY <1>2 DEF FundingKept, Settled
<1>5. Announced(c)
  <2>1. NextKnown(c) BY DEF NextKnown
  <2> SUFFICES ASSUME c.failures = {}, NEW f \in FundingTimes,
                      f <= c.lastAt, HeldBefore(c, f) # 0, c.settlements[f] = NotSettled
               PROVE  f \in c.expected
    BY <2>1 DEF Announced
  <2> QED BY <1>2 DEF FundingKept, Announced
<1> QED BY <1>3, <1>4, <1>5 DEF FundingKept

(* A reported hole only moves the time. *)
LEMMA GapKeepsFunding ==
  ASSUME NEW a, NEW b, NEW at \in Int, Typed(a), FundingKept(a), at > a.lastAt,
         b.lastAt = at, b.failures # {}, b.holdings = a.holdings,
         b.settlements = a.settlements, b.paid = a.paid
  PROVE  FundingKept(b)
<1>1. \A f \in FundingTimes : HeldBefore(b, f) = HeldBefore(a, f) /\ Before(b, f) = Before(a, f)
  BY HeldReadsHoldings
<1>2. HasLast(b) BY <1>1 DEF FundingKept, HasLast
<1>3. Settled(b)
  <2> SUFFICES ASSUME NEW f \in FundingTimes
               PROVE \/ b.settlements[f] = NotSettled /\ b.paid[f] = NotPaid
                     \/ /\ b.settlements[f] # NotSettled /\ f <= b.lastAt
                        /\ b.paid[f] = HeldBefore(b, f)
    BY DEF Settled
  <2>1. f \in Int /\ a.lastAt \in Int BY AccountAssumption DEF Typed
  <2> QED BY <1>1, <2>1 DEF FundingKept, Settled
<1>4. Announced(b) BY DEF Announced
<1> QED BY <1>2, <1>3, <1>4 DEF FundingKept

(* The ledger reads these fields only. *)
LEMMA FundingReads ==
  ASSUME NEW a, NEW b, FundingKept(a), b.lastAt = a.lastAt, b.expected = a.expected,
         b.settlements = a.settlements, b.paid = a.paid, b.holdings = a.holdings,
         a.failures \subseteq b.failures
  PROVE  FundingKept(b)
<1>1. \A f \in FundingTimes : HeldBefore(b, f) = HeldBefore(a, f) /\ Before(b, f) = Before(a, f)
  BY HeldReadsHoldings
<1>2. HasLast(b) BY <1>1 DEF FundingKept, HasLast
<1>3. Settled(b) BY <1>1 DEF FundingKept, Settled
<1>4. Announced(b) BY <1>1 DEF FundingKept, Announced, NextKnown
<1> QED BY <1>2, <1>3, <1>4 DEF FundingKept

-----------------------------------------------------------------------------
(* The commands. *)

(* A part of a trade that does not enlarge a leg does not enlarge it either. *)
LEMMA PartialFill ==
  ASSUME NEW held \in Int, NEW n \in Int, NEW k \in FillsOf(n),
         Magnitude(held + n) <= Magnitude(held)
  PROVE  k \in Int /\ Magnitude(held + k) <= Magnitude(held)
  BY DEF FillsOf, Magnitude

(* decide keeps the invariant, moves no lot and keeps a stop. *)
LEMMA DecideKeeps ==
  ASSUME NEW a, Typed(a), HedgeKept(a), FundingKept(a), NEW at \in Int, at > a.lastAt,
         NEW rows \in SnapshotRows(at), NEW risk
  PROVE  LET b == Decide(a, at, rows, risk) IN
         /\ Typed(b) /\ HedgeKept(b) /\ FundingKept(b)
         /\ b.lots = a.lots /\ (a.stop # NoStop => b.stop = a.stop)
<1> DEFINE seen == Observe(a, at, rows, risk)
           b == Decide(a, at, rows, risk)
<1>1. /\ Observed(a, seen, at, rows)
      /\ DOMAIN b = Fields
      /\ b.lastAt = seen.lastAt /\ b.lots = seen.lots /\ b.holdings = seen.holdings
      /\ b.failures = seen.failures /\ b.stop = seen.stop /\ b.expected = seen.expected
      /\ b.settlements = seen.settlements /\ b.paid = seen.paid
      /\ b.order # NoOrder => b.order.trade \in [spot : Int, perp : Int]
  BY DecideEffect DEF Typed
<1> HIDE DEF seen, b
<1>2. FundingKept(seen) BY <1>1, ObservedKeepsFunding
<1>3. FundingKept(b) BY <1>1, <1>2, FundingReads
<1>4. Typed(b) BY <1>1 DEF Typed, Observed
<1>5. HedgeKept(b) BY <1>1 DEF HedgeKept, Observed
<1> QED BY <1>1, <1>3, <1>4, <1>5 DEF b, Observed

(* execute keeps the invariant, and reduces unless it is what stops the account. *)
LEMMA ExecuteKeeps ==
  ASSUME NEW a, Typed(a), HedgeKept(a), FundingKept(a), a.order # NoOrder,
         NEW at \in Int, at > a.lastAt, NEW rows \in SnapshotRows(at), NEW risk,
         NEW fill \in Fills(a), NEW fillRisk
  PROVE  LET b == Execute(a, at, rows, risk, fill, fillRisk) IN
         /\ Typed(b) /\ HedgeKept(b) /\ FundingKept(b)
         /\ a.stop # NoStop => b.stop = a.stop
         /\ a.stop # NoStop \/ b.stop \notin {NoStop, "fill_risk", "unmatched_hedge"} =>
              \A leg \in {"spot", "perp"} : Magnitude(b.lots[leg]) <= Magnitude(a.lots[leg])
<1> DEFINE seen == Observe(a, at, rows, risk)
           b == Execute(a, at, rows, risk, fill, fillRisk)
           now == [spot |-> seen.lots.spot + fill.spot, perp |-> seen.lots.perp + fill.perp]
<1>1. /\ Observed(a, seen, at, rows)
      /\ DOMAIN b = Fields /\ b.order = NoOrder
      /\ b.lastAt = seen.lastAt /\ b.expected = seen.expected
      /\ b.settlements = seen.settlements /\ b.paid = seen.paid
      /\ seen.failures \subseteq b.failures
      /\ seen.stop # NoStop => b.stop = seen.stop
      /\ Cancelled(seen) =>
           b.lots = seen.lots /\ b.holdings = seen.holdings /\ b.stop = seen.stop
      /\ ~Cancelled(seen) =>
           /\ b.lots = now
           /\ b.holdings = Append(seen.holdings, [at |-> at, perp |-> now.perp])
           /\ seen.stop = NoStop => b.stop \in {NoStop, "fill_risk", "unmatched_hedge"}
           /\ now.spot + now.perp # 0 => "unmatched_hedge" \in b.failures /\ b.stop # NoStop
  <2>1. DOMAIN a = Fields BY DEF Typed
  <2> QED BY ONLY <2>1, ExecuteEffect
<1>2. /\ seen.lots = a.lots /\ seen.holdings = a.holdings /\ seen.order = a.order
      /\ seen.lastAt = at /\ a.failures \subseteq seen.failures
      /\ a.stop # NoStop => seen.stop = a.stop
  BY <1>1 DEF Observed
<1> DEFINE s0 == a.lots.spot
           p0 == a.lots.perp
           ns == a.order.trade.spot
           np == a.order.trade.perp
<1>3. s0 \in Int /\ p0 \in Int /\ ns \in Int /\ np \in Int /\ DOMAIN a.lots = {"spot", "perp"}
  BY DEF Typed
<1>4. fill.spot \in FillsOf(ns) /\ fill.perp \in FillsOf(np) BY DEF Fills
<1>5. fill.spot \in Int /\ fill.perp \in Int BY <1>3, <1>4 DEF FillsOf
<1>6. now \in [spot : Int, perp : Int] /\ now.spot = s0 + fill.spot /\ now.perp = p0 + fill.perp
  <2>1. now = [spot |-> s0 + fill.spot, perp |-> p0 + fill.perp] BY <1>2
  <2>2. s0 + fill.spot \in Int /\ p0 + fill.perp \in Int BY <1>3, <1>5
  <2> HIDE DEF now, s0, p0
  <2> QED BY <2>1, <2>2
<1>7. ASSUME ~Cancelled(seen), seen.stop # NoStop
      PROVE  Magnitude(now.spot) <= Magnitude(s0) /\ Magnitude(now.perp) <= Magnitude(p0)
  <2>1. ~Increasing(seen) BY <1>7 DEF Cancelled
  <2>2. /\ ~(Magnitude(s0 + ns) > Magnitude(s0))
        /\ ~(Magnitude(p0 + np) > Magnitude(p0))
    BY <1>2, <2>1 DEF Increasing
  <2>3. Magnitude(s0 + ns) <= Magnitude(s0) /\ Magnitude(p0 + np) <= Magnitude(p0)
    BY <1>3, <2>2 DEF Magnitude
  <2> QED BY <1>3, <1>4, <1>6, <2>3, PartialFill
<1> HIDE DEF seen, b, now
<1>8. FundingKept(seen) /\ NextKnown(seen) BY <1>1, ObservedKeepsFunding
<1>9. FundingKept(b)
  <2>1. CASE Cancelled(seen) BY <1>1, <1>8, <2>1, FundingReads
  <2>2. CASE ~Cancelled(seen)
    <3>1. b.holdings = Append(seen.holdings, [at |-> seen.lastAt, perp |-> now.perp])
      BY <1>1, <1>2, <2>2
    <3>2. seen.holdings \in Seq([at : Int, perp : Int]) /\ now.perp \in Int /\ seen.lastAt \in Int
      BY <1>2, <1>6 DEF Typed
    <3> QED BY <1>1, <1>8, <3>1, <3>2, AppendedKeepsFunding
  <2> QED BY <2>1, <2>2
<1>10. Typed(b)
  <2>1. CASE Cancelled(seen) BY <1>1, <1>2, <2>1 DEF Typed
  <2>2. CASE ~Cancelled(seen)
    <3>1. [at |-> at, perp |-> now.perp] \in [at : Int, perp : Int] BY <1>6
    <3>2. a.holdings \in Seq([at : Int, perp : Int]) BY DEF Typed
    <3>3. Append(a.holdings, [at |-> at, perp |-> now.perp]) \in Seq([at : Int, perp : Int])
      BY <3>1, <3>2, AppendProperties
    <3>4. b.holdings \in Seq([at : Int, perp : Int]) BY <1>1, <1>2, <2>2, <3>3
    <3> QED BY <1>1, <1>2, <1>6, <2>2, <3>4 DEF Typed
  <2> QED BY <2>1, <2>2
<1>11. HedgeKept(b)
  <2>1. CASE Cancelled(seen)
    <3>1. b.lots = a.lots /\ a.failures \subseteq b.failures /\ (a.stop # NoStop => b.stop # NoStop)
      BY <1>1, <1>2, <2>1
    <3> QED BY <3>1 DEF HedgeKept
  <2>2. CASE ~Cancelled(seen) BY <1>1, <2>2 DEF HedgeKept
  <2> QED BY <2>1, <2>2
<1>12. a.stop # NoStop => b.stop = a.stop BY <1>1, <1>2
<1>13. ASSUME a.stop # NoStop \/ b.stop \notin {NoStop, "fill_risk", "unmatched_hedge"},
              NEW leg \in {"spot", "perp"}
       PROVE  Magnitude(b.lots[leg]) <= Magnitude(a.lots[leg])
  <2>1. CASE Cancelled(seen)
    <3>1. b.lots = a.lots BY <1>1, <1>2, <2>1
    <3>2. a.lots[leg] \in Int BY <1>3
    <3> QED BY <3>1, <3>2 DEF Magnitude
  <2>2. CASE ~Cancelled(seen)
    <3>1. seen.stop # NoStop BY <1>1, <1>2, <1>13, <2>2
    <3>2. b.lots = now BY <1>1, <2>2
    <3> QED BY <1>7, <2>2, <3>1, <3>2
  <2> QED BY <2>1, <2>2
<1> QED BY <1>9, <1>10, <1>11, <1>12, <1>13 DEF b

(* gap keeps the invariant, moves no lot and keeps a stop. *)
LEMMA GapKeeps ==
  ASSUME NEW a, Typed(a), HedgeKept(a), FundingKept(a), NEW at \in Int, at > a.lastAt
  PROVE  LET b == Gap(a, at) IN
         /\ Typed(b) /\ HedgeKept(b) /\ FundingKept(b)
         /\ b.lots = a.lots /\ (a.stop # NoStop => b.stop = a.stop)
<1> DEFINE b == Gap(a, at)
<1>1. /\ DOMAIN b = Fields /\ b.order = NoOrder /\ b.lastAt = at /\ b.failures # {}
      /\ b.lots = a.lots /\ b.holdings = a.holdings /\ b.settlements = a.settlements
      /\ b.paid = a.paid /\ a.failures \subseteq b.failures
      /\ a.stop # NoStop => b.stop = a.stop
  BY GapEffect DEF Typed
<1> HIDE DEF b
<1>2. FundingKept(b) BY <1>1, GapKeepsFunding
<1>3. Typed(b) BY <1>1 DEF Typed
<1>4. HedgeKept(b) BY <1>1 DEF HedgeKept
<1> QED BY <1>1, <1>2, <1>3, <1>4 DEF b

(* What one command may do to the lots and the stop. *)
StopStep(a, b) ==
  /\ a.stop # NoStop => b.stop = a.stop
  /\ a.stop # NoStop \/ b.stop \notin {NoStop, "fill_risk", "unmatched_hedge"} =>
       \A leg \in {"spot", "perp"} : Magnitude(b.lots[leg]) <= Magnitude(a.lots[leg])

(* Every command keeps the invariant and is such a step. *)
LEMMA CommandKeeps ==
  ASSUME AccountInv, [AccountNext]_accountVars
  PROVE  AccountInv' /\ StopStep(account, account')
<1> USE DEF AccountInv
<1>1. \A leg \in {"spot", "perp"} : Magnitude(account.lots[leg]) <= Magnitude(account.lots[leg])
  BY DEF Typed, Magnitude
<1>2. \A at \in CommandTimes : at \in Int /\ at > account.lastAt BY DEF CommandTimes
<1>3. CASE DecideCommand
  <2>1. PICK at \in CommandTimes, risk \in RiskFindings :
          \E rows \in SnapshotRows(at) : account' = Decide(account, at, rows, risk)
    BY <1>3 DEF DecideCommand, Adopt
  <2>2. PICK rows \in SnapshotRows(at) : account' = Decide(account, at, rows, risk) BY <2>1
  <2>3. /\ Typed(account') /\ HedgeKept(account') /\ FundingKept(account')
        /\ account'.lots = account.lots /\ (account.stop # NoStop => account'.stop = account.stop)
    BY <1>2, <2>2, DecideKeeps
  <2> QED BY <1>1, <2>3 DEF StopStep
<1>4. CASE ExecuteCommand
  <2>1. PICK at \in CommandTimes, risk \in RiskFindings, fill \in Fills(account),
             fillRisk \in {{}, {"drawdown"}} :
          \E rows \in SnapshotRows(at) :
            account' = Execute(account, at, rows, risk, fill, fillRisk)
    BY <1>4 DEF ExecuteCommand, Adopt
  <2>2. PICK rows \in SnapshotRows(at) :
          account' = Execute(account, at, rows, risk, fill, fillRisk)
    BY <2>1
  <2>3. account.order # NoOrder BY <1>4 DEF ExecuteCommand
  <2> QED BY <1>2, <2>2, <2>3, ExecuteKeeps DEF StopStep
<1>5. CASE GapCommand
  <2>1. PICK at \in CommandTimes : account' = Gap(account, at) BY <1>5 DEF GapCommand, Adopt
  <2>2. /\ Typed(account') /\ HedgeKept(account') /\ FundingKept(account')
        /\ account'.lots = account.lots /\ (account.stop # NoStop => account'.stop = account.stop)
    BY <1>2, <2>1, GapKeeps
  <2> QED BY <1>1, <2>2 DEF StopStep
<1>6. CASE UNCHANGED accountVars
  <2>1. account' = account BY <1>6 DEF accountVars
  <2> QED BY <1>1, <2>1 DEF StopStep
<1> QED BY <1>3, <1>4, <1>5, <1>6 DEF AccountNext

(* A new account satisfies the invariant. *)
LEMMA NewAccountKept == AccountInit => AccountInv
<1> SUFFICES ASSUME AccountInit PROVE AccountInv OBVIOUS
<1>1. /\ DOMAIN account = Fields /\ account.lastAt = StartAt /\ account.lots = Flat
      /\ account.holdings = <<>> /\ account.order = NoOrder
      /\ account.settlements = [f \in FundingTimes |-> NotSettled]
      /\ account.paid = [f \in FundingTimes |-> NotPaid]
  BY DEF AccountInit, NewAccount, Fields
<1>2. Typed(account) BY <1>1, AccountAssumption, EmptySeq DEF Typed, Flat
<1>3. HedgeKept(account) BY <1>1 DEF HedgeKept, Flat
<1>4. \A f \in FundingTimes : Before(account, f) = {} /\ HeldBefore(account, f) = 0
  BY <1>1 DEF Before, HeldBefore
<1>5. FundingKept(account)
  BY <1>1, <1>4 DEF FundingKept, HasLast, Settled, Announced
<1> QED BY <1>2, <1>3, <1>5 DEF AccountInv

-----------------------------------------------------------------------------
(* Every reachable account satisfies the invariant. *)
THEOREM AccountInvariant == AccountSpec => []AccountInv
<1>1. AccountInv /\ [AccountNext]_accountVars => AccountInv' BY CommandKeeps
<1> QED BY <1>1, NewAccountKept, PTL DEF AccountSpec

(* _funding (account.py) pays every settlement for what was held before it, whenever it is    *)
(* published; a payment that is owed is settled, reported or on record as a failure; and an   *)
(* account whose screen passes (assessment.py) was paid everything it was owed.               *)
THEOREM FundingAlwaysSettled == AccountSpec => []FundingIsSettled
<1>1. ASSUME AccountInv PROVE FundingIsSettled
  <2> USE <1>1 DEF AccountInv, FundingKept
  <2>1. PaidForWhatWasHeld
    <3> SUFFICES ASSUME NEW f \in FundingTimes, account.paid[f] # NotPaid
                 PROVE  account.paid[f] = HeldBefore(account, f)
      BY DEF PaidForWhatWasHeld, HeldBefore
    <3> QED BY DEF Settled
  <2>2. NoFundingMissedInSilence
    BY DEF NoFundingMissedInSilence, UnsettledFunding, Announced
  <2>3. PassedScreenIsComplete
    <3> SUFFICES ASSUME ScreenPasses(account), NEW f \in FundingTimes, f <= account.lastAt,
                        HeldBefore(account, f) # 0
                 PROVE  account.paid[f] = HeldBefore(account, f)
      BY DEF PassedScreenIsComplete
    <3>1. account.failures = {} /\ UnsettledFunding(account) = {} BY DEF ScreenPasses
    <3>2. account.settlements[f] # NotSettled
      BY <2>2, <3>1 DEF NoFundingMissedInSilence
    <3> QED BY <3>2 DEF Settled
  <2> QED BY <2>1, <2>2, <2>3 DEF FundingIsSettled
<1> QED BY <1>1, AccountInvariant, PTL

(* execute and decide (account.py): a naked leg is on record and has stopped the account, the *)
(* stop is permanent, and from then on no command enlarges a leg.                             *)
THEOREM StopAlwaysHolds == AccountSpec => StopHolds
<1>1. ASSUME AccountInv, [AccountNext]_accountVars
      PROVE  [UnmatchedHedgeStops' /\ StoppedOnlyReduces]_accountVars
  <2>1. AccountInv' /\ StopStep(account, account') BY <1>1, CommandKeeps
  <2>2. UnmatchedHedgeStops' BY <2>1 DEF AccountInv, HedgeKept, UnmatchedHedgeStops
  <2>3. StoppedOnlyReduces BY <2>1 DEF StopStep, StoppedOnlyReduces
  <2> QED BY <2>2, <2>3
<1> QED BY <1>1, AccountInvariant, PTL DEF AccountSpec, StopHolds
=============================================================================
