---------------------------- MODULE MarketStore ----------------------------
(***************************************************************************)
(* The reusable market-data store: ingestion runs of several client        *)
(* processes over one PostgreSQL database, its triggers, and an export     *)
(* that reads the same tables statement by statement.                      *)
(*                                                                         *)
(* One symbol of one market is modelled.  A kline key <<"klines", t>> is   *)
(* the bar that opens at t and closes before t + 1; <<"funding", t>> is    *)
(* the funding event at exactly t.  An archive is one Vision file: its     *)
(* kind and its half-open period.  What Vision publishes under a URL is a  *)
(* version: every row of the file has that value and the file's SHA-256 is *)
(* that version, so a republished file differs in both.                    *)
(***************************************************************************)
EXTENDS Integers, Sequences, FiniteSets

CONSTANTS
  Clients,       \* processes that run `ingest`, each on a connection of its own
  Archives,      \* records [kind, from, to]
  IngestRequests, \* ingest commands: [plan, warm, refetch], a plan is a sequence of archives
  Versions,      \* the contents a URL may answer with
  ExportRequests, \* export commands: [end, warm]
  WarmupStart,   \* market_fs1_warmup_start()
  SealedFrom,    \* market_sealed_from()
  MaxRuns        \* bound: rows of ingestion_runs

ASSUME MarketAssumption ==
  /\ WarmupStart \in Nat /\ SealedFrom \in Nat /\ WarmupStart < SealedFrom
  /\ MaxRuns \in Nat
  /\ \A a \in Archives : a.from \in Nat /\ a.to \in Nat /\ a.from < a.to

VARIABLES
  schema,     \* how many of the two shipped migrations are applied
  runs,       \* the table ingestion_runs
  sources,    \* the table sources, by archive (the URL)
  rows,       \* the tables klines and funding_rates, by natural key
  conflicts,  \* the table ingestion_conflicts: pairs <<run, archive>>
  lock,       \* owner of the advisory lock _INGEST_LOCK
  connected,  \* the clients whose database session is alive
  client,     \* the local state of every `ingest` process
  export      \* the local state of one `export` process

marketVars == <<schema, runs, sources, rows, conflicts, lock, connected, client, export>>

NoOne == "none"
RowKeys == {<<a.kind, t>> : a \in Archives, t \in 0..SealedFrom}
RowsOf(a) == {<<a.kind, t>> : t \in a.from..(a.to - 1)}

NoSource == [status |-> "absent"]
NoRow == [value |-> NoOne]
IdleClient == [pc |-> "idle"]
IdleExport == [pc |-> "idle"]

MarketInit ==
  /\ schema = 0
  /\ runs = <<>>
  /\ sources = [a \in Archives |-> NoSource]
  /\ rows = [k \in RowKeys |-> NoRow]
  /\ conflicts = {}
  /\ lock = NoOne
  /\ connected = {}
  /\ client = [c \in Clients |-> IdleClient]
  /\ export = IdleExport

----------------------------------------------------------------------------
(* Embargo policy and the database's own triggers *)

(* EmbargoPolicy.start: the first instant a command must not touch. *)
PolicyStart(warm) == IF warm THEN SealedFrom ELSE WarmupStart

(* market_fs1_warmup_authorized(): the session's run is running, recent and authorized. *)
WarmupAuthorized(c) ==
  LET r == client[c].run IN
  /\ runs[r].status = "running"
  /\ runs[r].by = c
  /\ ~runs[r].aged
  /\ runs[r].warm

(* market_require_storable(): raised for a row or a source whose last instant is closed. *)
Storable(c, last) ==
  /\ last < SealedFrom
  /\ last >= WarmupStart => WarmupAuthorized(c)

(* sources_guard(): only a 404 record may be replaced. *)
SourceWritable(c, a) ==
  /\ sources[a].status # "ingested"
  /\ Storable(c, a.to - 1)

----------------------------------------------------------------------------
(* Schema *)

(* Mutation: migrations are applied again when nothing is pending. *)
ApplyMigrationAgain ==
  /\ schema' = IF schema < 3 THEN schema + 1 ELSE schema
  /\ UNCHANGED <<runs, sources, rows, conflicts, lock, connected, client, export>>

(* migrate(): one pending migration, in a transaction of its own, under _MIGRATION_LOCK. *)
ApplyMigration ==
  /\ schema < 2
  /\ schema' = schema + 1
  /\ UNCHANGED <<runs, sources, rows, conflicts, lock, connected, client, export>>

----------------------------------------------------------------------------
(* One `ingest` command *)

Go(c, pc) == client' = [client EXCEPT ![c] = [@ EXCEPT !.pc = pc]]
DropArchive(c) ==
  client' = [client EXCEPT ![c] = [@ EXCEPT !.pc = "next", !.todo = Tail(@), !.known = NoSource]]

(* cli.run "ingest": the plan is admitted by the policy before a run exists. *)
StartIngest(c, req) ==
  /\ client[c].pc = "idle" /\ c \notin connected
  /\ schema = 2
  /\ Len(runs) < MaxRuns
  /\ \A i \in DOMAIN req.plan : req.plan[i].to <= PolicyStart(req.warm)
  /\ connected' = connected \cup {c}
  /\ client' = [client EXCEPT ![c] = [pc |-> "lock", warm |-> req.warm, refetch |-> req.refetch,
       plan |-> req.plan, todo |-> req.plan, run |-> 0, known |-> NoSource, got |-> NoOne,
       ingested |-> 0, inserted |-> 0, added |-> 0]]
  /\ UNCHANGED <<schema, runs, sources, rows, conflicts, lock, export>>

(* Mutation: begin_run proceeds although another run holds the store lock. *)
TakeLockAnyway(c) ==
  /\ client[c].pc = "lock" /\ c \in connected
  /\ lock' = c /\ Go(c, "abandon") /\ UNCHANGED connected
  /\ UNCHANGED <<schema, runs, sources, rows, conflicts, export>>

(* begin_run, first statement: pg_try_advisory_lock; a refused command ends and disconnects. *)
TryLock(c) ==
  /\ client[c].pc = "lock" /\ c \in connected
  /\ \/ lock = NoOne /\ lock' = c /\ Go(c, "abandon") /\ UNCHANGED connected
     \/ /\ lock # NoOne
        /\ client' = [client EXCEPT ![c] = IdleClient]
        /\ connected' = connected \ {c}
        /\ UNCHANGED lock
  /\ UNCHANGED <<schema, runs, sources, rows, conflicts, export>>

(* begin_run, second statement: every run still 'running' is closed as abandoned. *)
AbandonRunning(c) ==
  /\ client[c].pc = "abandon" /\ c \in connected
  /\ runs' = [r \in DOMAIN runs |->
       IF runs[r].status = "running" THEN [runs[r] EXCEPT !.status = "abandoned"] ELSE runs[r]]
  /\ Go(c, "insert")
  /\ UNCHANGED <<schema, sources, rows, conflicts, lock, connected, export>>

(* begin_run, third statement: the run's row; the session variable names it. *)
InsertRun(c) ==
  /\ client[c].pc = "insert" /\ c \in connected
  /\ Len(runs) < MaxRuns
  /\ runs' = Append(runs, [status |-> "running", warm |-> client[c].warm, by |-> c,
       aged |-> FALSE, plan |-> client[c].plan, ingested |-> 0, inserted |-> 0])
  /\ client' = [client EXCEPT ![c] = [@ EXCEPT !.pc = "next", !.run = Len(runs')]]
  /\ UNCHANGED <<schema, sources, rows, conflicts, lock, connected, export>>

(* _ingest_archive up to the fetch: the source record is read, and may skip the archive. *)
ReadSource(c) ==
  /\ client[c].pc = "next" /\ c \in connected /\ client[c].todo # <<>>
  /\ LET known == sources[Head(client[c].todo)] IN
     IF known.status = "ingested" /\ ~client[c].refetch
     THEN DropArchive(c)
     ELSE client' = [client EXCEPT ![c] = [@ EXCEPT !.pc = "fetch", !.known = known]]
  /\ UNCHANGED <<schema, runs, sources, rows, conflicts, lock, connected, export>>

(* VisionFetcher.fetch answers 404: an error for an archive that was ingested before. *)
FetchMissing(c) ==
  /\ client[c].pc = "fetch"
  /\ Go(c, IF client[c].known.status = "ingested" THEN "fail" ELSE "missing")
  /\ UNCHANGED <<schema, runs, sources, rows, conflicts, lock, connected, export>>

(* An HTTP error, a checksum mismatch or a row the parser does not accept. *)
FetchRefused(c) ==
  /\ client[c].pc = "fetch"
  /\ Go(c, "fail")
  /\ UNCHANGED <<schema, runs, sources, rows, conflicts, lock, connected, export>>

(* A verified archive, judged against the record read before the fetch: new, the same as     *)
(* stored, or republished with another SHA-256.                                              *)
FetchVerified(c, v) ==
  LET known == client[c].known IN
  /\ client[c].pc = "fetch"
  /\ IF known.status # "ingested"
     THEN client' = [client EXCEPT ![c] = [@ EXCEPT !.pc = "write", !.known = NoSource, !.got = v]]
     ELSE IF known.sha = v THEN DropArchive(c) ELSE Go(c, "conflict")
  /\ UNCHANGED <<schema, runs, sources, rows, conflicts, lock, connected, export>>

(* A 404 is recorded in a transaction; a trigger may refuse it. *)
WriteMissing(c) ==
  /\ client[c].pc = "missing" /\ c \in connected
  /\ LET a == Head(client[c].todo) IN
     IF SourceWritable(c, a)
     THEN /\ sources' = [sources EXCEPT ![a] = [status |-> "missing", run |-> client[c].run]]
          /\ DropArchive(c)
     ELSE Go(c, "fail") /\ UNCHANGED sources
  /\ UNCHANGED <<schema, runs, rows, conflicts, lock, connected, export>>

(* diff_rows: the stored keys of the archive whose value differs from the file's. *)
Conflicting(a, v) == {k \in RowsOf(a) : rows[k] # NoRow /\ rows[k].value # v}
Unseen(a) == {k \in RowsOf(a) : rows[k] = NoRow}

(* Mutation: differing rows are left as they are and the archive is recorded as ingested. *)
WriteArchiveKeepingOld(c) ==
  /\ client[c].pc = "write" /\ c \in connected
  /\ LET a == Head(client[c].todo)
         v == client[c].got
         new == Unseen(a) IN
     /\ SourceWritable(c, a) /\ \A k \in new : Storable(c, k[2])
     /\ sources' = [sources EXCEPT ![a] = [status |-> "ingested", sha |-> v, run |-> client[c].run]]
     /\ rows' = [k \in RowKeys |-> IF k \in new THEN [value |-> v, source |-> a, run |-> client[c].run]
                                ELSE rows[k]]
     /\ client' = [client EXCEPT ![c] = [@ EXCEPT !.pc = "count", !.got = NoOne, !.added = Cardinality(new)]]
  /\ UNCHANGED <<schema, runs, conflicts, lock, connected, export>>

(* The archive's transaction: the source row, the comparison, the unseen rows - or nothing. *)
WriteArchive(c) ==
  /\ client[c].pc = "write" /\ c \in connected
  /\ LET a == Head(client[c].todo)
         v == client[c].got
         new == Unseen(a) IN
     IF ~SourceWritable(c, a) THEN Go(c, "fail") /\ UNCHANGED <<sources, rows>>
     ELSE IF Conflicting(a, v) # {} THEN Go(c, "conflict") /\ UNCHANGED <<sources, rows>>
     ELSE IF \E k \in new : ~Storable(c, k[2]) THEN Go(c, "fail") /\ UNCHANGED <<sources, rows>>
     ELSE /\ sources' = [sources EXCEPT ![a] =
               [status |-> "ingested", sha |-> v, run |-> client[c].run]]
          /\ rows' = [k \in RowKeys |->
               IF k \in new THEN [value |-> v, source |-> a, run |-> client[c].run] ELSE rows[k]]
          /\ client' = [client EXCEPT ![c] =
               [@ EXCEPT !.pc = "count", !.got = NoOne, !.added = Cardinality(new)]]
  /\ UNCHANGED <<schema, runs, conflicts, lock, connected, export>>

(* Mutation: every row of the file is counted, the identical ones too. *)
CountAllRows(c) ==
  /\ client[c].pc = "count"
  /\ client' = [client EXCEPT ![c] = [@ EXCEPT !.pc = "next", !.todo = Tail(@),
       !.added = 0, !.ingested = @ + 1, !.inserted = @ + Cardinality(RowsOf(Head(client[c].todo)))]]
  /\ UNCHANGED <<schema, runs, sources, rows, conflicts, lock, connected, export>>

(* The counters, after the commit and outside the transaction. *)
CountArchive(c) ==
  /\ client[c].pc = "count"
  /\ client' = [client EXCEPT ![c] = [@ EXCEPT !.pc = "next", !.todo = Tail(@),
       !.added = 0, !.ingested = @ + 1, !.inserted = @ + client[c].added]]
  /\ UNCHANGED <<schema, runs, sources, rows, conflicts, lock, connected, export>>

(* record_conflicts, after the rollback; the run then fails. *)
RecordConflicts(c) ==
  /\ client[c].pc = "conflict" /\ c \in connected
  /\ conflicts' = conflicts \cup {<<client[c].run, Head(client[c].todo)>>}
  /\ Go(c, "fail")
  /\ UNCHANGED <<schema, runs, sources, rows, lock, connected, export>>

(* A KeyboardInterrupt in the loop, also between the commit and its counters.  (Elsewhere in *)
(* an archive it has the effect of a failed fetch.)                                           *)
InterruptIngest(c) ==
  /\ client[c].pc \in {"next", "count"}
  /\ Go(c, "fail")
  /\ UNCHANGED <<schema, runs, sources, rows, conflicts, lock, connected, export>>

(* finish_run, then the connection closes; ingestion_runs_guard refuses a finished run. *)
FinishRun(c) ==
  /\ c \in connected
  /\ \/ client[c].pc = "fail"
     \/ client[c].pc = "next" /\ client[c].todo = <<>>
  /\ LET r == client[c].run IN
     runs' = IF runs[r].status # "running" THEN runs
             ELSE [runs EXCEPT ![r] = [@ EXCEPT
                     !.status = IF client[c].pc = "fail" THEN "failed" ELSE "succeeded",
                     !.ingested = client[c].ingested, !.inserted = client[c].inserted]]
  /\ lock' = IF lock = c THEN NoOne ELSE lock
  /\ connected' = connected \ {c}
  /\ client' = [client EXCEPT ![c] = IdleClient]
  /\ UNCHANGED <<schema, sources, rows, conflicts, export>>

(* The connection breaks: the server ends the session and frees its advisory lock. *)
LoseSession(c) ==
  /\ c \in connected
  /\ connected' = connected \ {c}
  /\ lock' = IF lock = c THEN NoOne ELSE lock
  /\ UNCHANGED <<schema, runs, sources, rows, conflicts, client, export>>

(* The first statement on the broken connection raises, and so does finish_run. *)
ConnectionError(c) ==
  /\ client[c].pc # "idle" /\ c \notin connected
  /\ client[c].pc \notin {"fetch", "count"}
  /\ client' = [client EXCEPT ![c] = IdleClient]
  /\ UNCHANGED <<schema, runs, sources, rows, conflicts, lock, connected, export>>

(* The process is killed; the server notices later (LoseSession). *)
KillClient(c) ==
  /\ client[c].pc # "idle"
  /\ client' = [client EXCEPT ![c] = IdleClient]
  /\ UNCHANGED <<schema, runs, sources, rows, conflicts, lock, connected, export>>

----------------------------------------------------------------------------
(* One `export` command: autocommit statements, no snapshot across them *)

StoredBefore(kind, end) == {k \in RowKeys : k[1] = kind /\ k[2] < end /\ rows[k] # NoRow}
StoredUpTo(kind, end) == {k \in RowKeys : k[1] = kind /\ k[2] <= end /\ rows[k] # NoRow}

(* export_market_dataset: the range checks of the policy and of the store, then read_klines, *)
(* half-open; no bar at all refuses the export.                                              *)
ReadKlines(req) ==
  /\ export.pc = "idle" /\ schema = 2
  /\ req.end <= PolicyStart(req.warm) /\ req.end <= SealedFrom
  /\ StoredBefore("klines", req.end) # {}
  /\ export' = [pc |-> "funding", end |-> req.end, warm |-> req.warm,
                klines |-> StoredBefore("klines", req.end)]
  /\ UNCHANGED <<schema, runs, sources, rows, conflicts, lock, connected, client>>

(* read_funding: the end is inclusive. *)
ReadFunding ==
  /\ export.pc = "funding"
  /\ export' = [pc |-> "provenance", end |-> export.end, warm |-> export.warm,
                klines |-> export.klines, funding |-> StoredUpTo("funding", export.end)]
  /\ UNCHANGED <<schema, runs, sources, rows, conflicts, lock, connected, client>>

(* Mutation: only the runs that succeeded are named. *)
WarmupProvenanceSucceeded(end) ==
  {r \in {sources[rows[k].source].run : k \in {j \in StoredBefore("klines", end) \cup
    StoredUpTo("funding", end) : j[2] >= WarmupStart}} : runs[r].status = "succeeded"}

(* warmup_provenance: the runs of the sources of every stored warm-up row in the range. *)
WarmupProvenance(end) ==
  {sources[rows[k].source].run : k \in
     {j \in StoredBefore("klines", end) \cup StoredUpTo("funding", end) : j[2] >= WarmupStart}}

(* The provenance is asked for only when the last bar read opens in the warm-up span. *)
ReadProvenance ==
  /\ export.pc = "provenance"
  /\ LET touches == \E k \in export.klines : k[2] >= WarmupStart IN
     export' = [pc |-> "done", end |-> export.end, warm |-> export.warm,
                klines |-> export.klines, funding |-> export.funding,
                named |-> IF touches THEN WarmupProvenance(export.end) ELSE {}]
  /\ UNCHANGED <<schema, runs, sources, rows, conflicts, lock, connected, client>>

(* publish_export: the receipt is written and the command ends. *)
PublishExport ==
  /\ export.pc = "done"
  /\ export' = IdleExport
  /\ UNCHANGED <<schema, runs, sources, rows, conflicts, lock, connected, client>>

(* market_fs1_warmup_max_run_age() passes while a run is still marked running. *)
RunAges(r) ==
  /\ runs[r].status = "running" /\ runs[r].warm /\ ~runs[r].aged
  /\ runs' = [runs EXCEPT ![r] = [@ EXCEPT !.aged = TRUE]]
  /\ UNCHANGED <<schema, sources, rows, conflicts, lock, connected, client, export>>

MarketNext ==
  \/ ApplyMigration
  \/ \E c \in Clients :
       \/ \E req \in IngestRequests : StartIngest(c, req)
       \/ TryLock(c) \/ AbandonRunning(c) \/ InsertRun(c)
       \/ ReadSource(c) \/ FetchMissing(c) \/ FetchRefused(c)
       \/ (\E v \in Versions : FetchVerified(c, v)) \/ WriteMissing(c) \/ WriteArchive(c)
       \/ CountArchive(c) \/ RecordConflicts(c) \/ InterruptIngest(c) \/ FinishRun(c)
       \/ LoseSession(c) \/ ConnectionError(c) \/ KillClient(c)
  \/ \E req \in ExportRequests : ReadKlines(req)
  \/ ReadFunding \/ ReadProvenance \/ PublishExport
  \/ \E r \in DOMAIN runs : RunAges(r)

MarketSpec == MarketInit /\ [][MarketNext]_marketVars

----------------------------------------------------------------------------
(* Properties *)

ClientPcs == {"idle", "lock", "abandon", "insert", "next", "fetch", "missing", "write",
              "count", "conflict", "fail"}

(* Types of the tables and of the processes' program counters. *)
MarketTypeOK ==
  /\ schema \in 0..2
  /\ \A r \in DOMAIN runs :
       runs[r].status \in {"running", "succeeded", "failed", "abandoned"}
  /\ \A a \in Archives : sources[a].status \in {"absent", "missing", "ingested"}
  /\ lock \in Clients \cup {NoOne}
  /\ connected \subseteq Clients
  /\ \A c \in Clients : client[c].pc \in ClientPcs
  /\ export.pc \in {"idle", "funding", "provenance", "done"}

(* begin_run's premise "the advisory lock is free, so any run still 'running' belongs to a   *)
(* dead process": whatever is written to sources or to the row tables is written by the      *)
(* session that holds the lock, for a run that no other command has closed as abandoned.     *)
OnlyLiveRunsWrite ==
  (sources' # sources \/ rows' # rows) =>
    \E c \in Clients : lock = c /\ c \in connected /\ client[c].run > 0
                       /\ runs[client[c].run].status = "running"

(* "nothing is ever overwritten": after any mix of runs, failures and republished files, an  *)
(* ingested archive still describes every row of its period, whichever archive stored it,    *)
(* and every stored row has an ingested source written by the run that inserted the row.     *)
StoreMatchesSources ==
  /\ \A a \in Archives : sources[a].status = "ingested" =>
       \A k \in RowsOf(a) : rows[k] # NoRow /\ rows[k].value = sources[a].sha
  /\ \A k \in RowKeys : rows[k] # NoRow =>
       LET s == sources[rows[k].source] IN s.status = "ingested" /\ s.run = rows[k].run

(* A run recorded as succeeded has dealt with every planned archive, and its counters equal  *)
(* what the tables attribute to it.                                                          *)
SucceededRunsAccount ==
  \A r \in DOMAIN runs : runs[r].status = "succeeded" =>
    /\ \A i \in DOMAIN runs[r].plan : sources[runs[r].plan[i]].status # "absent"
    /\ runs[r].ingested =
         Cardinality({a \in Archives : sources[a].status = "ingested" /\ sources[a].run = r})
    /\ runs[r].inserted = Cardinality({k \in RowKeys : rows[k] # NoRow /\ rows[k].run = r})

(* export_evidence: "such a Dataset can never share an identity or receipt with an ordinary  *)
(* one" - every warm-up bar of a finished export was stored by a run its provenance names,   *)
(* and that run carried the authorization, although the statements see different states.     *)
WarmupExportIsNamed ==
  export.pc = "done" =>
    \A k \in export.klines : k[2] >= WarmupStart =>
      rows[k].run \in export.named /\ runs[rows[k].run].warm
=============================================================================
