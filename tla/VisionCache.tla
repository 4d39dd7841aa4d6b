----------------------------- MODULE VisionCache -----------------------------
(***************************************************************************)
(* BinancePublicTransport and its raw cache of Vision archives              *)
(* (integrations/binance/transport.py, cache.py), with the frozen           *)
(* exchangeInfo of metadata.py: two more files published the same way.      *)
(*                                                                          *)
(* The cache holds a .bin and a .json for every URL; each is written under  *)
(* a temporary name that every process shares and renamed, the .bin first.  *)
(* URLs share no file, so one URL stands for all. A process keeps writing   *)
(* the file it opened wherever that file has been renamed to: "fd" is the   *)
(* name the open file has now. The size and SHA-256 in the .json identify   *)
(* the archive; they are modelled by the archive itself.                    *)
(***************************************************************************)
EXTENDS Integers, FiniteSets, Sequences, TLC

CONSTANTS
  Fetchers,       \* processes that share one cache root
  Payloads,       \* the contents Vision has served for the URL, one after another
  MaxAttempts,    \* BinancePublicTransport(max_attempts=...)
  MaxRequests,    \* bound on the calls made
  MaxDeaths,      \* bound on the processes killed inside a call
  MaxRepublished  \* bound on the times Vision replaces the archive

ASSUME VisionAssumption ==
  /\ MaxAttempts \in Nat \ {0}
  /\ {MaxRequests, MaxDeaths, MaxRepublished} \subseteq Nat

VARIABLES
  disk,       \* what each of the cache's files holds
  fetcher,    \* what each process is doing, and what its last call returned
  archive,    \* what Vision serves now
  served,     \* what Vision has answered with so far
  visionUsed  \* calls, deaths and replacements so far

visionVars == <<disk, fetcher, archive, served, visionUsed>>

CacheFiles == {"bin", "json", "bin.tmp", "json.tmp", "raw", "manifest"}
Contents == Payloads \union {"absent", "empty", "mixed"}
Calls == {"load", "offline", "sync", "freeze", "frozen"}
Successes == Payloads \union {"complete"}

AtRest == [at |-> "idle", call |-> "load", phase |-> "request", fd |-> "closed", tries |-> 0,
           got |-> "absent", result |-> "failed", alone |-> FALSE]

VisionInit ==
  /\ disk = [f \in CacheFiles |-> "absent"]
  /\ fetcher = [p \in Fetchers |-> AtRest]
  /\ archive \in Payloads
  /\ served = {}
  /\ visionUsed = [calls |-> 0, deaths |-> 0, republished |-> 0]

Step(p, change) == fetcher' = [fetcher EXCEPT ![p] = change @@ @]
GoTo(p, where) == Step(p, [at |-> where])
Ended(r) == [at |-> "idle", result |-> r, fd |-> "closed", got |-> "absent", tries |-> 0]
Raise(p) == Step(p, Ended("failed"))

-----------------------------------------------------------------------------
(* Entry points.                                                             *)

BeginCall(p, call) ==
  /\ fetcher[p].at = "idle" /\ visionUsed.calls < MaxRequests
  /\ visionUsed' = [visionUsed EXCEPT !.calls = @ + 1]
  /\ fetcher' = [q \in Fetchers |->
       IF q # p THEN [fetcher[q] EXCEPT !.alone = FALSE]
       ELSE [AtRest EXCEPT
              !.at = CASE call \in {"load", "offline"} -> "lookup"
                       [] call = "sync" -> "inspect"
                       [] OTHER -> "frozen",
              !.call = call,
              !.phase = IF call = "sync" THEN "before" ELSE "request",
              !.alone = \A o \in Fetchers \ {p} : fetcher[o].at = "idle"]]
  /\ UNCHANGED <<disk, archive, served>>

-----------------------------------------------------------------------------
(* validate_cached_vision_payload, and what its three callers do next.       *)

(* Its exception: inspect_* files the URL under invalid (sync fetches it again, *)
(* or fails after doing so); _request_bytes lets it through.                  *)
CacheRefused(p) ==
  IF fetcher[p].phase = "before" THEN GoTo(p, "exists") ELSE Raise(p)

CacheAccepted(p, bytes) ==
  IF fetcher[p].phase = "before" THEN Step(p, [at |-> "inspect", phase |-> "after"])
  ELSE IF fetcher[p].phase = "after" THEN Step(p, Ended("complete"))
  ELSE IF fetcher[p].call = "sync" THEN Step(p, [at |-> "confirm", got |-> bytes])
  ELSE Step(p, Ended(bytes))

ReadSidecar(p) ==
  /\ fetcher[p].at = "evidence"
  /\ IF disk["json"] \in Payloads
       THEN Step(p, [at |-> "payload", got |-> disk["json"]])
       ELSE CacheRefused(p)
  /\ UNCHANGED <<disk, archive, served, visionUsed>>

(* Mutation: the digest in the sidecar is not compared with the bytes read. *)
AgreesLeniently(p) == disk["bin"] # "absent"
Agrees(p) == disk["bin"] = fetcher[p].got

ReadPayload(p) ==
  /\ fetcher[p].at = "payload"
  /\ IF Agrees(p) THEN CacheAccepted(p, disk["bin"]) ELSE CacheRefused(p)
  /\ UNCHANGED <<disk, archive, served, visionUsed>>

-----------------------------------------------------------------------------
(* _request_bytes: the cache decides before the network is asked.            *)

LookUp(p) ==
  /\ fetcher[p].at = "lookup"
  /\ IF disk["bin"] # "absent" THEN GoTo(p, "evidence")
     ELSE IF fetcher[p].call = "offline" THEN Raise(p)
     ELSE GoTo(p, "network")
  /\ UNCHANGED <<disk, archive, served, visionUsed>>

Answered(p) ==
  /\ fetcher[p].at \in {"network", "fallback"}
  /\ served' = served \union {archive}
  /\ Step(p, [at |-> IF fetcher[p].call = "freeze" THEN "raw" ELSE "open bin.tmp",
              got |-> archive])
  /\ UNCHANGED <<disk, archive, visionUsed>>

(* 404 and the other statuses below 500 that are not 418, 429 or 451 end the loop, and  *)
(* exchangeInfo turns to its second host (the USD-M market is modelled).                *)
RequestFailed(p) ==
  IF fetcher[p].call = "freeze" /\ fetcher[p].at = "network"
  THEN Step(p, [at |-> "fallback", tries |-> 0]) ELSE Raise(p)

AnswerRefused(p) ==
  /\ fetcher[p].at \in {"network", "fallback"}
  /\ RequestFailed(p)
  /\ UNCHANGED <<disk, archive, served, visionUsed>>

(* A body that is empty, too long, incomplete or, for exchangeInfo, no JSON object. The *)
(* first three are BinanceTransportError, so they too make exchangeInfo turn.           *)
AnswerUnusable(p) ==
  /\ fetcher[p].at \in {"network", "fallback"}
  /\ Raise(p)
  /\ UNCHANGED <<disk, archive, served, visionUsed>>

(* 5xx, 418, 429, 451, a timeout or a URLError: asked again, at most MaxAttempts times. *)
AnswerRetried(p) ==
  /\ fetcher[p].at \in {"network", "fallback"}
  /\ IF fetcher[p].tries + 1 < MaxAttempts
       THEN Step(p, [tries |-> fetcher[p].tries + 1])
       ELSE RequestFailed(p)
  /\ UNCHANGED <<disk, archive, served, visionUsed>>

-----------------------------------------------------------------------------
(* _write_vision_cache: two shared temporary files, then two renames.        *)

(* Mutation: the temporary file is opened for appending and keeps an earlier writer's bytes. *)
OpenAppending(p, tmp) ==
  /\ fetcher[p].at = "open " \o tmp
  /\ disk' = [disk EXCEPT ![tmp] = IF @ = "absent" THEN "empty" ELSE @]
  /\ Step(p, [at |-> "write " \o tmp, fd |-> tmp])
  /\ UNCHANGED <<archive, served, visionUsed>>

OpenTemporary(p, tmp) ==
  /\ fetcher[p].at = "open " \o tmp
  /\ disk' = [disk EXCEPT ![tmp] = "empty"]
  /\ Step(p, [at |-> "write " \o tmp, fd |-> tmp])
  /\ UNCHANGED <<archive, served, visionUsed>>

(* Two writers of one open file: the later one replaces the bytes it covers. *)
Overlaid(old, new) == IF old \in {"empty", new} THEN {new} ELSE {new, "mixed"}

WriteTemporary(p, tmp) ==
  /\ fetcher[p].at = "write " \o tmp
  /\ LET name == fetcher[p].fd IN
       IF name = "gone" THEN disk' = disk
       ELSE \E c \in Overlaid(disk[name], fetcher[p].got) : disk' = [disk EXCEPT ![name] = c]
  /\ Step(p, [at |-> IF tmp = "bin.tmp" THEN "open json.tmp" ELSE "rename bin", fd |-> "closed"])
  /\ UNCHANGED <<archive, served, visionUsed>>

(* Where an open file is after from has been renamed to onto, or onto unlinked. *)
Moved(fd, from, onto) ==
  CASE fd = from -> onto
    [] fd = onto -> "gone"
    [] OTHER -> fd

(* The last rename ends _request_bytes: load returns the bytes it fetched; sync checks. *)
AfterRename(p, name) ==
  IF name = "bin" THEN [at |-> "rename json"]
  ELSE IF fetcher[p].call = "sync" THEN [at |-> "confirm"]
  ELSE Ended(fetcher[p].got)

Publish(p, name) ==
  LET tmp == IF name = "bin" THEN "bin.tmp" ELSE "json.tmp" IN
  /\ fetcher[p].at = "rename " \o name
  /\ IF disk[tmp] = "absent"
       THEN Raise(p) /\ disk' = disk   \* FileNotFoundError: another process renamed it
       ELSE /\ disk' = [disk EXCEPT ![name] = disk[tmp], ![tmp] = "absent"]
            /\ fetcher' = [q \in Fetchers |->
                 IF q = p THEN AfterRename(p, name) @@ fetcher[p]
                 ELSE [fetcher[q] EXCEPT !.fd = Moved(@, tmp, name)]]
  /\ UNCHANGED <<archive, served, visionUsed>>

-----------------------------------------------------------------------------
(* sync_binance_vision_urls (and inspect_binance_vision_urls around it).     *)

Inspect(p) ==
  /\ fetcher[p].at = "inspect"
  /\ IF disk["bin"] \in {"absent", "empty"} THEN CacheRefused(p) ELSE GoTo(p, "evidence")
  /\ UNCHANGED <<disk, archive, served, visionUsed>>

LookForOld(p) ==
  /\ fetcher[p].at = "exists"
  /\ GoTo(p, IF disk["bin"] = "absent" THEN "unlink json" ELSE "unlink bin")
  /\ UNCHANGED <<disk, archive, served, visionUsed>>

(* path.unlink() raises when the file is gone, unlink(missing_ok=True) does not. *)
Unlink(p, name) ==
  /\ fetcher[p].at = "unlink " \o name
  /\ IF name = "bin" /\ disk["bin"] = "absent"
       THEN Raise(p) /\ disk' = disk
       ELSE /\ disk' = [disk EXCEPT ![name] = "absent"]
            /\ fetcher' = [q \in Fetchers |->
                 IF q = p
                 THEN [fetcher[p] EXCEPT !.at = IF name = "bin" THEN "unlink json" ELSE "lookup",
                                         !.phase = IF name = "bin" THEN @ ELSE "request"]
                 ELSE [fetcher[q] EXCEPT !.fd = IF @ = name THEN "gone" ELSE @]]
  /\ UNCHANGED <<archive, served, visionUsed>>

ConfirmPublished(p) ==
  /\ fetcher[p].at = "confirm"
  /\ IF disk["bin"] \in {"absent", "empty"} THEN Raise(p)
     ELSE Step(p, [at |-> "inspect", phase |-> "after", got |-> "absent", tries |-> 0])
  /\ UNCHANGED <<disk, archive, served, visionUsed>>

-----------------------------------------------------------------------------
(* FrozenBinanceExchangeInfoTransport: _load, the delegate, _freeze, _load.  *)

LoadFrozenRaw(p) ==
  /\ fetcher[p].at \in {"frozen", "reload"}
  /\ Step(p, [at |-> "manifest of " \o fetcher[p].at, got |-> disk["raw"]])
  /\ UNCHANGED <<disk, archive, served, visionUsed>>

(* One file without the other is an error, and so is a manifest of other bytes: neither is  *)
(* fetched again. Nothing there is fetched once, by a transport that has a delegate.         *)
LoadFrozenManifest(p) ==
  LET raw == fetcher[p].got
      manifest == disk["manifest"]
      mayFetch == fetcher[p].at = "manifest of frozen" /\ fetcher[p].call = "freeze" IN
  /\ fetcher[p].at \in {"manifest of frozen", "manifest of reload"}
  /\ IF raw = manifest /\ raw # "absent" THEN Step(p, Ended(raw))
     ELSE IF raw = manifest /\ mayFetch THEN GoTo(p, "network")
     ELSE Raise(p)
  /\ UNCHANGED <<disk, archive, served, visionUsed>>

(* _freeze writes under names that hold the process id and renames: each file appears whole. *)
Freeze(p, name) ==
  /\ fetcher[p].at = name
  /\ disk' = [disk EXCEPT ![name] = fetcher[p].got]
  /\ GoTo(p, IF name = "raw" THEN "manifest" ELSE "reload")
  /\ UNCHANGED <<archive, served, visionUsed>>

-----------------------------------------------------------------------------
(* External: the process is killed; Vision replaces the archive.             *)

KillFetcher(p) ==
  /\ fetcher[p].at # "idle" /\ visionUsed.deaths < MaxDeaths
  /\ visionUsed' = [visionUsed EXCEPT !.deaths = @ + 1]
  /\ fetcher' = [fetcher EXCEPT ![p] = AtRest]
  /\ UNCHANGED <<disk, archive, served>>

ReplaceArchive ==
  /\ visionUsed.republished < MaxRepublished
  /\ visionUsed' = [visionUsed EXCEPT !.republished = @ + 1]
  /\ archive' \in Payloads \ {archive}
  /\ UNCHANGED <<disk, fetcher, served>>

VisionNext ==
  \/ \E p \in Fetchers :
       \/ \E call \in Calls : BeginCall(p, call)
       \/ LookUp(p) \/ ReadSidecar(p) \/ ReadPayload(p)
       \/ Answered(p) \/ AnswerRefused(p) \/ AnswerUnusable(p) \/ AnswerRetried(p)
       \/ \E tmp \in {"bin.tmp", "json.tmp"} : OpenTemporary(p, tmp) \/ WriteTemporary(p, tmp)
       \/ \E name \in {"bin", "json"} : Publish(p, name) \/ Unlink(p, name)
       \/ Inspect(p) \/ LookForOld(p) \/ ConfirmPublished(p)
       \/ LoadFrozenRaw(p) \/ LoadFrozenManifest(p)
       \/ \E name \in {"raw", "manifest"} : Freeze(p, name)
       \/ KillFetcher(p)
  \/ ReplaceArchive

VisionSpec == VisionInit /\ [][VisionNext]_visionVars

-----------------------------------------------------------------------------
(* "Load one Vision archive only when its sidecar proves exact content" (cache.py): whatever *)
(* two processes that share temporary names, a killed writer and a replaced archive leave    *)
(* on disk, the bytes a call returns are one whole answer of Vision, never a mixture.        *)
BytesWereServed ==
  \A p \in Fetchers : fetcher[p].result \in served \union {"failed", "complete"}

(* A call that had the cache to itself repairs or keeps it: when it returned the bytes or    *)
(* reported completeness, the two files are one pair, although calls killed or interleaved   *)
(* before it may have left temporary files, a .bin without its .json or two that disagree.   *)
QuietCallLeavesAPair ==
  \A p \in Fetchers :
    LET me == fetcher[p] IN
    (me.at = "idle" /\ me.alone /\ me.result \in Successes) =>
       IF me.call \in {"freeze", "frozen"} THEN disk["raw"] = me.result /\ disk["manifest"] = me.result
       ELSE /\ disk["bin"] = disk["json"] /\ disk["bin"] \in served
            /\ me.result \in {"complete", disk["bin"]}

VisionTypeOK ==
  /\ disk \in [CacheFiles -> Contents]
  /\ archive \in Payloads /\ served \subseteq Payloads
  /\ \A p \in Fetchers : fetcher[p].result \in Successes \union {"failed"}
=============================================================================
