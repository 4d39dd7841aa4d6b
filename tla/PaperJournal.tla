---------------------------- MODULE PaperJournal ----------------------------
(***************************************************************************)
(* The append-only paper journal (evaluation/paper/store.py) together with *)
(* the cached view every PaperEngine keeps of it (engine.py: _tip and      *)
(* _known_events).                                                         *)
(*                                                                         *)
(* The journal is one SQLite database.  A process opens it by reading the  *)
(* whole hash chain inside one read transaction, and appends with compare- *)
(* and-append: BEGIN IMMEDIATE, look the key up, compare the tail's digest *)
(* with the parent the caller expects, INSERT, COMMIT.  A process may be   *)
(* killed, or an exception (a termination signal) may reach it, between    *)
(* any two of these steps: before COMMIT nothing of the append survives,   *)
(* after COMMIT the event is durable although no caller has been told.     *)
(***************************************************************************)
EXTENDS Naturals, Sequences, FiniteSets

CONSTANTS
  Procs,      \* processes that open the journal
  Keys,       \* idempotency keys
  Bodies,     \* (kind, payload) pairs, compared through their canonical bytes
  NoRequest,  \* what the request slot of a process holds between two calls
  MaxEvents   \* bound on the length of the journal

ASSUME MaxEventsAssumption == MaxEvents \in Nat

ASSUME NoRequestAssumption == NoRequest \notin Keys

VARIABLES
  events,     \* the committed rows, in sequence order
  writer,     \* the process holding SQLite's RESERVED lock, as a set
  readers,    \* the processes inside a read transaction
  pc,         \* closed | opening | idle | reserved | inserted | committed | failed
  request,    \* the arguments of the append a process is in
  tip,        \* the engine's _tip
  known,      \* the keys of the engine's _known_events
  returned    \* history: the records append has handed to a caller

vars == <<events, writer, readers, pc, request, tip, known, returned>>

-----------------------------------------------------------------------------

(* SHA-256 is taken to be free of collisions, so the digest of an event    *)
(* determines the event and, through its parent, the whole prefix: it is   *)
(* modelled by that prefix.  The protocol digest anchors the empty chain.  *)
ProtocolDigest == << >>

Digest(parent, key, body) == Append(parent, <<key, body>>)

(* Mutation: the sequence number is the one of the tail.                   *)
EventAtTail(seq, parent, key, body) ==
  [sequence |-> seq - 1, parent |-> parent, key |-> key, body |-> body,
   sha256 |-> Digest(parent, key, body)]

Event(seq, parent, key, body) ==
  [sequence |-> seq, parent |-> parent, key |-> key, body |-> body,
   sha256 |-> Digest(parent, key, body)]

(* The digest the next event must name as its parent.                      *)
TailDigest(log) ==
  IF log = << >> THEN ProtocolDigest ELSE log[Len(log)].sha256

KeysOf(log) == {log[i].key : i \in DOMAIN log}

(* What _chain_records accepts: contiguous numbers, each parent the digest *)
(* before it, each stored digest the digest of its row.                    *)
ChainValid(log) ==
  \A i \in DOMAIN log :
     /\ log[i].sequence = i - 1
     /\ log[i].parent = IF i = 1 THEN ProtocolDigest ELSE log[i - 1].sha256
     /\ log[i].sha256 = Digest(log[i].parent, log[i].key, log[i].body)

Existing(log, key) == {i \in DOMAIN log : log[i].key = key}

Digests == Seq(Keys \X Bodies)

Events ==
  [sequence : Nat, parent : Digests, key : Keys, body : Bodies, sha256 : Digests]

Requests == [key : Keys, body : Bodies]

-----------------------------------------------------------------------------

Init ==
  /\ events = << >>
  /\ writer = {}
  /\ readers = {}
  /\ pc = [p \in Procs |-> "closed"]
  /\ request = [p \in Procs |-> NoRequest]
  /\ tip = [p \in Procs |-> ProtocolDigest]
  /\ known = [p \in Procs |-> {}]
  /\ returned = {}

(* PaperEngine.__init__ starts its one read transaction.                   *)
OpenBegin(p) ==
  /\ pc[p] \in {"closed", "failed"}
  /\ pc' = [pc EXCEPT ![p] = "opening"]
  /\ readers' = readers \union {p}
  /\ UNCHANGED <<events, writer, request, tip, known, returned>>

(* The chain verified, every event was replayed and the view is adopted.   *)
OpenEnd(p) ==
  /\ pc[p] = "opening"
  /\ ChainValid(events)
  /\ pc' = [pc EXCEPT ![p] = "idle"]
  /\ readers' = readers \ {p}
  /\ tip' = [tip EXCEPT ![p] = TailDigest(events)]
  /\ known' = [known EXCEPT ![p] = KeysOf(events)]
  /\ UNCHANGED <<events, writer, request, returned>>

(* PaperEngine._append with a key this engine already knows: the committed *)
(* record is read back, or the call fails because its contents differ.     *)
AppendKnown(p, key, body) ==
  /\ pc[p] = "idle"
  /\ key \in known[p]
  /\ \E i \in Existing(events, key) :
       IF events[i].body = body
       THEN /\ returned' = returned \union {events[i]}
            /\ UNCHANGED pc
       ELSE /\ pc' = [pc EXCEPT ![p] = "failed"]
            /\ UNCHANGED returned
  /\ UNCHANGED <<events, writer, readers, request, tip, known>>

(* Mutation: BEGIN (deferred) instead of BEGIN IMMEDIATE.                  *)
AppendBeginDeferred(p, key, body) ==
  /\ pc[p] = "idle"
  /\ key \notin known[p]
  /\ writer' = writer \union {p}
  /\ pc' = [pc EXCEPT ![p] = "reserved"]
  /\ request' = [request EXCEPT ![p] = [key |-> key, body |-> body]]
  /\ UNCHANGED <<events, readers, tip, known, returned>>

(* PaperJournal.append up to BEGIN IMMEDIATE.                              *)
AppendBegin(p, key, body) ==
  /\ pc[p] = "idle"
  /\ key \notin known[p]
  /\ writer = {}
  /\ writer' = {p}
  /\ pc' = [pc EXCEPT ![p] = "reserved"]
  /\ request' = [request EXCEPT ![p] = [key |-> key, body |-> body]]
  /\ UNCHANGED <<events, readers, tip, known, returned>>

(* Mutation: a retry is recognised by its contents alone.                  *)
AppendExistingAnyParent(p) ==
  /\ pc[p] = "reserved"
  /\ \E i \in Existing(events, request[p].key) :
       /\ events[i].body = request[p].body
       /\ returned' = returned \union {events[i]}
       /\ tip' = [tip EXCEPT ![p] = events[i].sha256]
       /\ known' = [known EXCEPT ![p] = @ \union {events[i].key}]
  /\ writer' = writer \ {p}
  /\ request' = [request EXCEPT ![p] = NoRequest]
  /\ pc' = [pc EXCEPT ![p] = "idle"]
  /\ UNCHANGED <<events, readers>>

(* The key exists: an exact retry (same parent, same contents) ends with   *)
(* the original record, anything else raises.                              *)
AppendExisting(p) ==
  /\ pc[p] = "reserved"
  /\ \E i \in Existing(events, request[p].key) :
       /\ writer' = writer \ {p}
       /\ request' = [request EXCEPT ![p] = NoRequest]
       /\ IF events[i].parent = tip[p] /\ events[i].body = request[p].body
          THEN /\ returned' = returned \union {events[i]}
               /\ pc' = [pc EXCEPT ![p] = "idle"]
               /\ tip' = [tip EXCEPT ![p] = events[i].sha256]
               /\ known' = [known EXCEPT ![p] = @ \union {events[i].key}]
          ELSE /\ pc' = [pc EXCEPT ![p] = "failed"]
               /\ UNCHANGED <<tip, known, returned>>
  /\ UNCHANGED <<events, readers>>

(* "paper append parent is stale".                                         *)
AppendStale(p) ==
  /\ pc[p] = "reserved"
  /\ Existing(events, request[p].key) = {}
  /\ TailDigest(events) # tip[p]
  /\ writer' = writer \ {p}
  /\ request' = [request EXCEPT ![p] = NoRequest]
  /\ pc' = [pc EXCEPT ![p] = "failed"]
  /\ UNCHANGED <<events, readers, tip, known, returned>>

(* Mutation: the expected parent is not compared with the tail.            *)
AppendInsertAnyParent(p) ==
  /\ pc[p] = "reserved"
  /\ Existing(events, request[p].key) = {}
  /\ request' = [request EXCEPT ![p] =
                   Event(Len(events), TailDigest(events), @.key, @.body)]
  /\ pc' = [pc EXCEPT ![p] = "inserted"]
  /\ UNCHANGED <<events, writer, readers, tip, known, returned>>

(* Mutation: the record is handed to the caller before COMMIT.             *)
AppendInsertReturning(p) ==
  /\ pc[p] = "reserved"
  /\ Existing(events, request[p].key) = {}
  /\ TailDigest(events) = tip[p]
  /\ request' = [request EXCEPT ![p] =
                   Event(Len(events), TailDigest(events), @.key, @.body)]
  /\ returned' = returned \union {request'[p]}
  /\ pc' = [pc EXCEPT ![p] = "inserted"]
  /\ UNCHANGED <<events, writer, readers, tip, known>>

(* The INSERT of the row built from the tail, still inside the transaction. *)
AppendInsert(p) ==
  /\ pc[p] = "reserved"
  /\ Existing(events, request[p].key) = {}
  /\ TailDigest(events) = tip[p]
  /\ request' = [request EXCEPT ![p] =
                   Event(Len(events), TailDigest(events), @.key, @.body)]
  /\ pc' = [pc EXCEPT ![p] = "inserted"]
  /\ UNCHANGED <<events, writer, readers, tip, known, returned>>

(* Mutation: INSERT OR REPLACE at the tail's own sequence number.          *)
AppendCommitReplacing(p) ==
  /\ pc[p] = "inserted"
  /\ readers = {}
  /\ events' = IF events = << >> THEN <<request[p]>>
               ELSE [events EXCEPT ![Len(events)] = request[p]]
  /\ writer' = writer \ {p}
  /\ pc' = [pc EXCEPT ![p] = "committed"]
  /\ UNCHANGED <<readers, request, tip, known, returned>>

(* COMMIT needs the database exclusively: no reader may be inside it.      *)
AppendCommit(p) ==
  /\ pc[p] = "inserted"
  /\ readers = {}
  /\ events' = Append(events, request[p])
  /\ writer' = writer \ {p}
  /\ pc' = [pc EXCEPT ![p] = "committed"]
  /\ UNCHANGED <<readers, request, tip, known, returned>>

(* append returns and the engine adopts the proposed account.              *)
AppendReturn(p) ==
  /\ pc[p] = "committed"
  /\ returned' = returned \union {request[p]}
  /\ tip' = [tip EXCEPT ![p] = request[p].sha256]
  /\ known' = [known EXCEPT ![p] = @ \union {request[p].key}]
  /\ pc' = [pc EXCEPT ![p] = "idle"]
  /\ request' = [request EXCEPT ![p] = NoRequest]
  /\ UNCHANGED <<events, writer, readers>>

(* Another append holds the database longer than the connection's timeout. *)
AppendBusy(p) ==
  /\ pc[p] = "idle"
  /\ writer # {}
  /\ pc' = [pc EXCEPT ![p] = "failed"]
  /\ UNCHANGED <<events, writer, readers, request, tip, known, returned>>

(* An exception leaves append: the COMMIT stayed busy, or a termination    *)
(* signal arrived.  _connection rolls an open transaction *)
(* back; a committed event stays.                                          *)
Interrupt(p) ==
  /\ pc[p] \in {"reserved", "inserted", "committed"}
  /\ pc' = [pc EXCEPT ![p] = "failed"]
  /\ writer' = writer \ {p}
  /\ request' = [request EXCEPT ![p] = NoRequest]
  /\ UNCHANGED <<events, readers, tip, known, returned>>

(* The process dies; SQLite drops its locks and its uncommitted row, and   *)
(* nothing of the engine's view survives.                                  *)
Crash(p) ==
  /\ pc[p] # "closed"
  /\ pc' = [pc EXCEPT ![p] = "closed"]
  /\ writer' = writer \ {p}
  /\ readers' = readers \ {p}
  /\ request' = [request EXCEPT ![p] = NoRequest]
  /\ tip' = [tip EXCEPT ![p] = ProtocolDigest]
  /\ known' = [known EXCEPT ![p] = {}]
  /\ UNCHANGED <<events, returned>>

Next ==
  \E p \in Procs :
     \/ OpenBegin(p)
     \/ OpenEnd(p)
     \/ \E key \in Keys, body \in Bodies : AppendKnown(p, key, body)
     \/ \E key \in Keys, body \in Bodies :
          Len(events) < MaxEvents /\ AppendBegin(p, key, body)
     \/ AppendBusy(p)
     \/ AppendExisting(p)
     \/ AppendStale(p)
     \/ AppendInsert(p)
     \/ AppendCommit(p)
     \/ AppendReturn(p)
     \/ Interrupt(p)
     \/ Crash(p)

Spec == Init /\ [][Next]_vars

-----------------------------------------------------------------------------

(* The state stays well formed.                                            *)
TypeOK ==
  /\ events \in Seq(Events)
  /\ writer \subseteq Procs
  /\ readers \subseteq Procs
  /\ pc \in [Procs -> {"closed", "opening", "idle", "reserved", "inserted",
                       "committed", "failed"}]
  /\ request \in [Procs -> {NoRequest} \union Requests \union Events]
  /\ tip \in [Procs -> Digests]
  /\ known \in [Procs -> SUBSET Keys]
  /\ returned \subseteq Events

(* Whatever the processes do and wherever they die, a process that reopens *)
(* the journal finds a contiguous chain that verifies (_chain_records      *)
(* never raises) in which every idempotency key occurs once.               *)
ChainIntact ==
  /\ ChainValid(events)
  /\ \A i, j \in DOMAIN events : events[i].key = events[j].key => i = j

(* A record that append has returned is in the journal, at its sequence,   *)
(* for ever: a crash cannot take back what a caller has acted on, and two  *)
(* callers of one key cannot have been given different records.            *)
AcknowledgedIsDurable ==
  \A r \in returned :
     r.sequence + 1 \in DOMAIN events /\ events[r.sequence + 1] = r

(* The view an engine caches is a prefix of the journal, never a mixture:  *)
(* its _tip is the digest of that prefix and its _known_events are exactly *)
(* the keys of it, also after a retry answered by another process's append. *)
ViewIsPrefix ==
  \A p \in Procs :
     \E n \in 0..Len(events) :
        /\ tip[p] = IF n = 0 THEN ProtocolDigest ELSE events[n].sha256
        /\ known[p] = {events[i].key : i \in 1..n}

(* Committed rows are never updated, deleted or reordered.                 *)
AppendOnly ==
  [][ /\ Len(events') >= Len(events)
      /\ SubSeq(events', 1, Len(events)) = events ]_vars

(* Every event is committed by an engine whose replayed account already    *)
(* covers the whole journal before it, so replaying the journal in order   *)
(* reproduces each committed result ("paper replay result differs" never). *)
CommittedFromFullPrefix ==
  [][ events' # events =>
        \E p \in Procs : /\ tip[p] = TailDigest(events)
                         /\ known[p] = KeysOf(events) ]_vars
=============================================================================
