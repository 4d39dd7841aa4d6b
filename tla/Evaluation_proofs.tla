----------------------------- MODULE Evaluation_proofs ----------------------
(***************************************************************************)
(* The gates to the two evaluations outside a Study, for any number of     *)
(* processes and roots, and the decision loop every evaluation replays.    *)
(* Final evaluation: what is sealed binds the frozen winner of its Study,  *)
(* a root is a write-once cell, and only the creator of a claim seals.     *)
(* Forward study: what is scored is what was acquired and sealed once.     *)
(* Replay: what the loop remembers is what it executed, whatever was asked *)
(* and filled.                                                             *)
(***************************************************************************)
EXTENDS FinalAuthorization, ForwardStudy, StrategyReplay, StudyLedger_proofs

(* An authorization somebody has built binds the Study as it is now.        *)
Bound(auth) == auth = AuthorizationFromStudy(auth.by) /\ WinnerSnapshot

(* A process between its gate and its return holds an authorization of its  *)
(* own that binds the Study; from the claim to the release the claim of the *)
(* root is its own; after the rename the root holds that authorization.     *)
ActiveOK(a) ==
  LET me == authorizer[a] IN
  /\ me \in [pc : {"staged", "claimed", "renamed", "published"},
             root : OutputRoots, auth : {AuthorizationFromStudy(a)}]
  /\ WinnerSnapshot
  /\ me.pc \in {"claimed", "renamed"} => claim[me.root] = a
  /\ me.pc \in {"renamed", "published"} => sealed[me.root] = me.auth

AuthorizersOK ==
  /\ DOMAIN authorizer = Authorizers
  /\ \A a \in Authorizers : authorizer[a].pc # "idle" => ActiveOK(a)

RootsOK ==
  /\ claim \in [OutputRoots -> Authorizers \union {Unclaimed}]
  /\ DOMAIN sealed = OutputRoots
  /\ sealed = [r \in OutputRoots |-> sealed[r]]
  /\ \A r \in OutputRoots : sealed[r] # Unsealed => Bound(sealed[r])

FinalInv == LedgerInv /\ AuthorizersOK /\ RootsOK

-----------------------------------------------------------------------------
(* An authorization is not the mark of an empty root.                       *)
LEMMA AuthorizationIsSealed == \A a : AuthorizationFromStudy(a) # Unsealed
<1> SUFFICES ASSUME NEW a, AuthorizationFromStudy(a) = Unsealed PROVE FALSE
  OBVIOUS
<1>1. "winner" \in DOMAIN AuthorizationFromStudy(a)
  BY DEF AuthorizationFromStudy
<1>2. "winner" \notin DOMAIN Unsealed
  BY DEF Unsealed
<1> QED
  BY <1>1, <1>2

(* Nothing happens in a Study that is frozen.                               *)
LEMMA FrozenStops == Next => freeze = NotFrozen
BY DEF Next, CreateStudy, RunBaseline, DefineExperiment, RunExperiment,
   VerifyExperiment, CompareExperiment, DecideExperiment, RecordExperimentFailure,
   FreezeStudy, MayCreate, MayRunBaseline, MayDefine, MayRun, MayVerify,
   MayCompare, MayDecide, MayFail, MayFreeze, Mutable

(* What the gate has seen is a frozen Study.                                *)
LEMMA SnapshotIsFrozen == WinnerSnapshot => freeze # NotFrozen
BY DEF WinnerSnapshot, NotFrozen

(* The gate and what is bound depend on the Study alone.                    *)
LEMMA SnapshotStable ==
  UNCHANGED vars =>
    /\ WinnerSnapshot' <=> WinnerSnapshot
    /\ \A a : AuthorizationFromStudy(a)' = AuthorizationFromStudy(a)
    /\ \A auth : Bound(auth)' <=> Bound(auth)
BY DEF vars, WinnerSnapshot, Reconstructs, Lineage, LineageBefore, Accepted, Defined,
   Intact, FreezeIntact, Verdict, ExpectedDecision, Holding, Terminal, Decided,
   EligibleArms, Winner, HoldingComplete, HoldingOutcome, AuthorizationFromStudy, Bound

(* The initial state satisfies the invariant.                               *)
LEMMA InitFinal == FinalInit => FinalInv
<1> SUFFICES ASSUME FinalInit PROVE FinalInv
  OBVIOUS
<1>1. LedgerInv
  BY InitLedger DEF FinalInit
<1>2. AuthorizersOK
  BY DEF FinalInit, AuthorizersOK, IdleAuthorizer
<1>3. RootsOK
  BY DEF FinalInit, RootsOK
<1> QED
  BY <1>1, <1>2, <1>3 DEF FinalInv

(* A step of the Study keeps the invariant: if somebody is past the gate,   *)
(* or something is sealed, there is none.                                   *)
LEMMA StudyStepKeeps == FinalInv /\ Next /\ UNCHANGED finalVars => FinalInv'
<1> SUFFICES ASSUME FinalInv, Next, UNCHANGED finalVars PROVE FinalInv'
  OBVIOUS
<1>1. LedgerInv'
  BY TypeStep, IntactStep, FreezeStep, RosterStep DEF FinalInv, LedgerInv
<1>2. ~WinnerSnapshot
  BY FrozenStops, SnapshotIsFrozen
<1>3. \A a \in Authorizers : authorizer[a].pc = "idle"
  BY <1>2 DEF FinalInv, AuthorizersOK, ActiveOK
<1>4. \A r \in OutputRoots : sealed[r] = Unsealed
  BY <1>2 DEF FinalInv, RootsOK, Bound
<1>5. AuthorizersOK' /\ RootsOK'
  BY <1>3, <1>4 DEF finalVars, FinalInv, AuthorizersOK, RootsOK
<1> QED
  BY <1>1, <1>5 DEF FinalInv

-----------------------------------------------------------------------------
(* A step of one authorizer keeps what is known of the others when it       *)
(* changes no sealed root and no claim of theirs.                           *)
LEMMA OthersKeep ==
  ASSUME FinalInv, UNCHANGED vars, NEW a \in Authorizers,
         DOMAIN authorizer' = Authorizers,
         \A b \in Authorizers : b # a => authorizer'[b] = authorizer[b],
         \A r \in OutputRoots : sealed[r] # Unsealed => sealed'[r] = sealed[r],
         \A r \in OutputRoots, b \in Authorizers :
           b # a /\ claim[r] = b => claim'[r] = b,
         authorizer'[a].pc # "idle" => ActiveOK(a)'
  PROVE  AuthorizersOK'
<1> SUFFICES ASSUME NEW b \in Authorizers, b # a, authorizer[b].pc # "idle"
             PROVE  ActiveOK(b)'
  BY DEF AuthorizersOK
<1>1. ActiveOK(b)
  BY DEF FinalInv, AuthorizersOK
<1>2. authorizer[b].auth # Unsealed
  BY <1>1, AuthorizationIsSealed DEF ActiveOK
<1>3. WinnerSnapshot' /\ AuthorizationFromStudy(b)' = AuthorizationFromStudy(b)
  BY <1>1, SnapshotStable DEF ActiveOK
<1> QED
  BY <1>1, <1>2, <1>3 DEF ActiveOK

(* A step that changes neither roots nor claims keeps what is known of      *)
(* the roots.                                                               *)
LEMMA RootsKeep ==
  ASSUME FinalInv, UNCHANGED vars, UNCHANGED <<sealed, claim>> PROVE RootsOK'
BY SnapshotStable DEF FinalInv, RootsOK

(* Every step of an authorizer keeps the invariant.                         *)
LEMMA AuthorizerStepKeeps ==
  ASSUME FinalInv, UNCHANGED vars, NEW a \in Authorizers, AuthorizerStep(a)
  PROVE  FinalInv'
<1> USE AuthorizerAssumption
<1>0. LedgerInv' /\ AuthorizersOK /\ RootsOK
  <2>1. LedgerInv'
    BY DEF FinalInv, vars, LedgerInv, TypeOK, Rooted, AllIntact, FreezeIntact, RosterFirst,
       ArmsShareBaseline, Intact, Defined, Holding, LineageBefore, Accepted, Verdict,
       ExpectedDecision, Terminal, Decided, EligibleArms, Winner, HoldingComplete,
       HoldingOutcome
  <2> QED
    BY <2>1 DEF FinalInv
<1>1. ASSUME authorizer' = [authorizer EXCEPT ![a] = IdleAuthorizer],
             UNCHANGED <<sealed, claim>>
      PROVE  FinalInv'
  <2>1. authorizer'[a].pc = "idle"
    BY <1>0, <1>1 DEF AuthorizersOK, IdleAuthorizer
  <2>2. AuthorizersOK'
    BY <1>0, <1>1, <2>1, OthersKeep DEF AuthorizersOK
  <2> QED
    BY <1>0, <1>1, <2>2, RootsKeep DEF FinalInv
<1>2. ASSUME NEW r \in OutputRoots, StageAuthorization(a, r) PROVE FinalInv'
  <2>1. /\ authorizer' = [authorizer EXCEPT ![a] =
             [pc |-> "staged", root |-> r, auth |-> AuthorizationFromStudy(a)]]
        /\ UNCHANGED <<sealed, claim>> /\ WinnerSnapshot
    BY <1>2 DEF StageAuthorization
  <2>2. authorizer'[a] = [pc |-> "staged", root |-> r, auth |-> AuthorizationFromStudy(a)]
    BY <1>0, <2>1 DEF AuthorizersOK
  <2>3. ActiveOK(a)'
    BY <2>1, <2>2, SnapshotStable DEF ActiveOK
  <2>4. AuthorizersOK'
    BY <1>0, <2>1, <2>3, OthersKeep DEF AuthorizersOK
  <2> QED
    BY <1>0, <2>1, <2>4, RootsKeep DEF FinalInv
<1> DEFINE place == authorizer[a].root
<1>3. CASE ClaimPublication(a)
  <2>1. ActiveOK(a) /\ authorizer[a].pc = "staged" /\ place \in OutputRoots
    BY <1>0, <1>3 DEF ClaimPublication, AuthorizersOK, ActiveOK
  <2>2. CASE authorizer' = [authorizer EXCEPT ![a] = IdleAuthorizer] /\ UNCHANGED claim
    BY <1>1, <1>3, <2>2 DEF ClaimPublication
  <2>3. CASE claim[place] = Unclaimed /\ claim' = [claim EXCEPT ![place] = a]
    <3>1. UNCHANGED sealed
      BY <1>3 DEF ClaimPublication
    <3>2. /\ claim' \in [OutputRoots -> Authorizers \union {Unclaimed}]
          /\ claim'[place] = a
          /\ \A r \in OutputRoots, b \in Authorizers : claim[r] = b => claim'[r] = b
      BY <1>0, <2>1, <2>3 DEF RootsOK
    <3>3. RootsOK'
      BY <1>0, <3>1, <3>2, SnapshotStable DEF RootsOK
    <3>4. CASE authorizer' = [authorizer EXCEPT ![a] = IdleAuthorizer]
      <4>1. authorizer'[a].pc = "idle"
        BY <1>0, <3>4 DEF AuthorizersOK, IdleAuthorizer
      <4>2. AuthorizersOK'
        BY <1>0, <3>1, <3>2, <3>4, <4>1, OthersKeep DEF AuthorizersOK
      <4> QED
        BY <1>0, <3>3, <4>2 DEF FinalInv
    <3>5. CASE authorizer' = [authorizer EXCEPT ![a] = [@ EXCEPT !.pc = "claimed"]]
      <4>1. authorizer'[a] = [authorizer[a] EXCEPT !.pc = "claimed"]
        BY <1>0, <3>5 DEF AuthorizersOK
      <4>2. ActiveOK(a)'
        BY <2>1, <3>2, <4>1, SnapshotStable DEF ActiveOK
      <4>3. AuthorizersOK'
        BY <1>0, <3>1, <3>2, <3>5, <4>2, OthersKeep DEF AuthorizersOK
      <4> QED
        BY <1>0, <3>3, <4>3 DEF FinalInv
    <3> QED
      BY <1>3, <2>3, <3>4, <3>5 DEF ClaimPublication
  <2> QED
    BY <1>3, <2>2, <2>3 DEF ClaimPublication
<1>4. CASE RenameStaging(a)
  <2>1. ActiveOK(a) /\ authorizer[a].pc = "claimed" /\ place \in OutputRoots
    BY <1>0, <1>4 DEF RenameStaging, AuthorizersOK, ActiveOK
  <2>2. CASE authorizer' = [authorizer EXCEPT ![a] = IdleAuthorizer] /\ UNCHANGED sealed
    BY <1>1, <1>4, <2>2 DEF RenameStaging
  <2>3. CASE /\ sealed[place] = Unsealed
             /\ sealed' = [sealed EXCEPT ![place] = authorizer[a].auth]
             /\ authorizer' = [authorizer EXCEPT ![a] = [@ EXCEPT !.pc = "renamed"]]
    <3>1. UNCHANGED claim
      BY <1>4 DEF RenameStaging
    <3>2. /\ authorizer'[a] = [authorizer[a] EXCEPT !.pc = "renamed"]
          /\ sealed'[place] = authorizer[a].auth
          /\ DOMAIN sealed' = OutputRoots
          /\ \A r \in OutputRoots : r # place => sealed'[r] = sealed[r]
      BY <1>0, <2>1, <2>3 DEF AuthorizersOK, RootsOK
    <3>3. ActiveOK(a)'
      BY <2>1, <3>1, <3>2, SnapshotStable DEF ActiveOK
    <3>4. AuthorizersOK'
      BY <1>0, <2>3, <3>1, <3>2, <3>3, OthersKeep DEF AuthorizersOK
    <3>5. Bound(authorizer[a].auth)
      BY <2>1 DEF ActiveOK, Bound, AuthorizationFromStudy
    <3>6. sealed' = [r \in OutputRoots |-> sealed'[r]]
      BY <1>0, <2>3 DEF RootsOK
    <3>7. RootsOK'
      BY <1>0, <3>1, <3>2, <3>5, <3>6, SnapshotStable DEF RootsOK
    <3> QED
      BY <1>0, <3>4, <3>7 DEF FinalInv
  <2> QED
    BY <1>4, <2>2, <2>3 DEF RenameStaging
<1>5. CASE ReleaseClaim(a)
  <2>1. ActiveOK(a) /\ authorizer[a].pc = "renamed" /\ place \in OutputRoots
    BY <1>0, <1>5 DEF ReleaseClaim, AuthorizersOK, ActiveOK
  <2>2. /\ UNCHANGED sealed
        /\ authorizer'[a] = [authorizer[a] EXCEPT !.pc = "published"]
        /\ \A b \in Authorizers : b # a => authorizer'[b] = authorizer[b]
        /\ DOMAIN authorizer' = Authorizers
    BY <1>0, <1>5 DEF ReleaseClaim, AuthorizersOK
  <2>3. /\ claim' \in [OutputRoots -> Authorizers \union {Unclaimed}]
        /\ \A r \in OutputRoots, b \in Authorizers :
             b # a /\ claim[r] = b => claim'[r] = b
    BY <1>0, <1>5, <2>1 DEF ReleaseClaim, RootsOK, ActiveOK
  <2>4. ActiveOK(a)'
    BY <2>1, <2>2, SnapshotStable DEF ActiveOK
  <2>5. AuthorizersOK'
    BY <2>2, <2>3, <2>4, OthersKeep
  <2>6. RootsOK'
    BY <1>0, <2>2, <2>3, SnapshotStable DEF RootsOK
  <2> QED
    BY <1>0, <2>5, <2>6 DEF FinalInv
<1>6. CASE InspectAuthorization(a) \/ KillAuthorizer(a)
  BY <1>1, <1>6 DEF InspectAuthorization, KillAuthorizer
<1> QED
  BY <1>2, <1>3, <1>4, <1>5, <1>6 DEF AuthorizerStep

-----------------------------------------------------------------------------
(* The invariant holds of the gate composed with its Study.                 *)
THEOREM FinalInvariant == FinalSpec => []FinalInv
<1>1. FinalInit => FinalInv
  BY InitFinal
<1>2. FinalInv /\ [FinalNext]_<<vars, finalVars>> => FinalInv'
  <2> SUFFICES ASSUME FinalInv, [FinalNext]_<<vars, finalVars>> PROVE FinalInv'
    OBVIOUS
  <2>1. CASE Next /\ UNCHANGED finalVars
    BY <2>1, StudyStepKeeps
  <2>2. CASE (\E a \in Authorizers : AuthorizerStep(a)) /\ UNCHANGED vars
    BY <2>2, AuthorizerStepKeeps
  <2>3. CASE UNCHANGED <<vars, finalVars>>
    <3>1. LedgerInv'
      BY <2>3 DEF FinalInv, vars, LedgerInv, TypeOK, Rooted, AllIntact, FreezeIntact,
         RosterFirst, ArmsShareBaseline, Intact, Defined, Holding, LineageBefore, Accepted,
         Verdict, ExpectedDecision, Terminal, Decided, EligibleArms, Winner,
         HoldingComplete, HoldingOutcome
    <3>2. UNCHANGED vars /\ UNCHANGED <<sealed, claim, authorizer>>
      BY <2>3 DEF finalVars
    <3>3. RootsOK'
      BY <3>2, RootsKeep
    <3>4. AuthorizersOK'
      BY <3>2, SnapshotStable DEF FinalInv, AuthorizersOK, ActiveOK
    <3> QED
      BY <3>1, <3>3, <3>4 DEF FinalInv
  <2> QED
    BY <2>1, <2>2, <2>3 DEF FinalNext
<1> QED
  BY <1>1, <1>2, PTL DEF FinalSpec

(* Whatever is sealed binds the frozen winner of a Study that still         *)
(* rebuilds: the Study cannot move away between the two readings of         *)
(* authorize_final_evaluation, nor afterwards.                              *)
THEOREM SealedAlwaysBindsWinner == FinalSpec => []SealedBindsWinner
<1>1. FinalInv => SealedBindsWinner
  BY DEF FinalInv, RootsOK, Bound, SealedBindsWinner, WinnerSnapshot, AuthorizationFromStudy
<1> QED
  BY <1>1, FinalInvariant, PTL

(* Staging, claim, rename and re-binding implement a write-once cell for    *)
(* each output root.                                                        *)
THEOREM RootsAreWriteOnce == FinalSpec => SealedOnce
<1>1. FinalInit => Once!OnceInit
  BY DEF FinalInit, Once!OnceInit
<1>2. FinalInv /\ [FinalNext]_<<vars, finalVars>> => [Once!OnceNext]_(Once!onceVars)
  <2> SUFFICES ASSUME FinalInv, FinalNext, ~UNCHANGED <<sealed, granted>>
               PROVE  Once!OnceNext
    BY DEF finalVars, Once!onceVars
  <2>1. PICK a \in Authorizers : AuthorizerStep(a) /\ UNCHANGED vars
    BY DEF FinalNext, finalVars
  <2> DEFINE place == authorizer[a].root
  <2>2. authorizer[a].pc # "idle" => ActiveOK(a) /\ place \in OutputRoots
    BY DEF FinalInv, AuthorizersOK, ActiveOK
  <2>3. CASE RenameStaging(a)
    <3>1. /\ sealed[place] = Unsealed /\ place \in OutputRoots
          /\ sealed' = [sealed EXCEPT ![place] = authorizer[a].auth]
          /\ UNCHANGED granted
      BY <2>2, <2>3 DEF RenameStaging
    <3>2. sealed'[place] = authorizer[a].auth /\ authorizer[a].auth # Unsealed
      BY <2>2, <2>3, <3>1, AuthorizationIsSealed DEF FinalInv, RootsOK, ActiveOK,
                                                     RenameStaging
    <3> QED
      BY <3>1, <3>2 DEF Once!OnceNext, Once!Put
  <2>4. CASE InspectAuthorization(a)
    <3>1. /\ place \in OutputRoots /\ UNCHANGED sealed
          /\ granted' = granted \union {<<place, sealed[place]>>}
      BY <2>2, <2>4 DEF InspectAuthorization
    <3>2. sealed[place] # Unsealed
      BY <2>2, <2>4, AuthorizationIsSealed DEF InspectAuthorization, ActiveOK
    <3> QED
      BY <3>1, <3>2 DEF Once!OnceNext, Once!Read
  <2> QED
    BY <2>1, <2>3, <2>4 DEF AuthorizerStep, StageAuthorization, ClaimPublication,
       ReleaseClaim, KillAuthorizer
<1> QED
  BY <1>1, <1>2, FinalInvariant, PTL DEF FinalSpec, SealedOnce, Once!OnceSpec

(* What a write-once cell promises its readers: each has seen what the cell *)
(* holds ever after, so authorize_final_evaluation never returns an         *)
(* authorization that the root does not hold.                               *)
THEOREM ReadersAlwaysAgree == SealedOnce => []Once!ReadersAgree
<1> DEFINE CellInv ==
             /\ DOMAIN sealed = OutputRoots
             /\ \A s \in granted : s[1] \in OutputRoots
             /\ Once!ReadersAgree
<1>1. Once!OnceInit => CellInv
  BY DEF Once!OnceInit, Once!ReadersAgree
<1>2. CellInv /\ [Once!OnceNext]_(Once!onceVars) => CellInv'
  <2> SUFFICES ASSUME CellInv, [Once!OnceNext]_(Once!onceVars) PROVE CellInv'
    OBVIOUS
  <2>1. ASSUME NEW r \in OutputRoots, Once!Put(r) PROVE CellInv'
    <3>1. \A s \in granted : s[1] # r
      BY <2>1 DEF Once!Put, Once!ReadersAgree
    <3>2. \A c \in OutputRoots : c # r => sealed'[c] = sealed[c]
      BY <2>1 DEF Once!Put
    <3>3. DOMAIN sealed' = OutputRoots /\ UNCHANGED granted
      BY <2>1 DEF Once!Put
    <3> QED
      BY <3>1, <3>2, <3>3 DEF Once!ReadersAgree
  <2>2. ASSUME NEW r \in OutputRoots, Once!Read(r) PROVE CellInv'
    BY <2>2 DEF Once!Read, Once!ReadersAgree
  <2>3. CASE UNCHANGED Once!onceVars
    BY <2>3 DEF Once!onceVars, Once!ReadersAgree
  <2> QED
    BY <2>1, <2>2, <2>3 DEF Once!OnceNext
<1>3. CellInv => Once!ReadersAgree
  OBVIOUS
<1> QED
  BY <1>1, <1>2, <1>3, PTL DEF SealedOnce, Once!OnceSpec

(* Only the process whose claim the root carries seals it.                  *)
THEOREM OnlyClaimantSeals == FinalSpec => ClaimantSeals
<1> DEFINE Claimed == \A r \in OutputRoots : sealed'[r] # sealed[r] => claim[r] = sealed'[r].by
<1>1. FinalInv /\ [FinalNext]_<<vars, finalVars>> => [Claimed]_<<vars, finalVars>>
  <2> SUFFICES ASSUME FinalInv, FinalNext, NEW r \in OutputRoots, sealed'[r] # sealed[r]
               PROVE  claim[r] = sealed'[r].by
    BY DEF Claimed
  <2>1. PICK a \in Authorizers : AuthorizerStep(a)
    BY DEF FinalNext, finalVars
  <2>2. RenameStaging(a)
    BY <2>1 DEF AuthorizerStep, StageAuthorization, ClaimPublication, ReleaseClaim,
       InspectAuthorization, KillAuthorizer
  <2>3. ActiveOK(a) /\ authorizer[a].pc = "claimed"
    BY <2>2 DEF RenameStaging, FinalInv, AuthorizersOK
  <2>4. r = authorizer[a].root /\ sealed'[r] = authorizer[a].auth
    BY <2>2 DEF RenameStaging, FinalInv, RootsOK
  <2> QED
    BY <2>3, <2>4 DEF ActiveOK, AuthorizationFromStudy
<1>2. ClaimantSeals <=> [][Claimed]_<<vars, finalVars>>
  BY DEF ClaimantSeals
<1> QED
  BY <1>1, <1>2, FinalInvariant, PTL DEF FinalSpec
-----------------------------------------------------------------------------
(* The acquisition and the scoring of a forward period (ForwardStudy).                       *)

(* The inductive invariant of the forward study. Of the acquisitions one at most is past the   *)
(* mkdir, so what it verified in the cache is what it builds; a manifest that exists names a    *)
(* complete Dataset with the development rows; a seal record names such a manifest, fetched     *)
(* after settlement; and a scorer's permit is the seal record, its claim its own.               *)
Published == {"full", "revised", "gappy"}
ActivePcs ==
  {"copy", "archives", "checksums", "verify", "rules", "build", "receipt", "manifest"}
Acquires(a) == acquirer[a].pc \in ActivePcs
Complete(d) == d.rows["dev"] = DevContent /\ d.rows["new"] \in {"full", "revised"}

AcquirerShape(x) ==
  \/ x = Idle
  \/ DOMAIN x = {"pc", "code"} /\ x.pc \in {"mkdir", "copy"}
  \/ /\ DOMAIN x = {"pc", "code", "fetched"} /\ x.fetched \in Int
     /\ x.pc \in {"archives", "checksums", "verify", "rules", "build"}
  \/ /\ DOMAIN x = {"pc", "code", "fetched", "loaded"} /\ x.fetched \in Int
     /\ x.pc \in {"receipt", "manifest"} /\ Complete(x.loaded)

AcquirerSound(x, r) ==
  /\ AcquirerShape(x)
  /\ x.pc \in ActivePcs => r.made
  /\ x.pc \in {"checksums", "verify", "rules", "build"} => r.cache["new"] \in Published
  /\ x.pc \in {"rules", "build"} => r.cache["dev"] = DevContent

RootFields == {"made", "cache", "checksum", "rules", "dataset", "receipt", "manifest"}

RootSound(r) ==
  /\ r.made \in BOOLEAN
  /\ r.made =>
       /\ DOMAIN r = RootFields /\ DOMAIN r.cache = Planned
       /\ r.manifest # NoFile => Complete(r.manifest.dataset) /\ r.manifest.fetched \in Int

AcquisitionSound ==
  /\ acquirer = [a \in Acquirers |-> acquirer[a]]
  /\ RootSound(root)
  /\ \A a \in Acquirers : AcquirerSound(acquirer[a], root)
  /\ \A a, b \in Acquirers : Acquires(a) /\ Acquires(b) => a = b

SealNoteSound ==
  sealNote # NoFile =>
    /\ Complete(sealNote.manifest.dataset)
    /\ sealNote.manifest.fetched \in Int /\ sealNote.manifest.fetched >= SettledAt

ScorerSound(x) ==
  \/ x = Idle
  \/ /\ DOMAIN x = {"pc", "permit"} /\ x.pc \in {"claim", "load", "score"}
     /\ sealNote # NoFile
     /\ x.permit.code = sealNote.code /\ x.permit.manifest = sealNote.manifest

ScoringSound ==
  /\ scorer = [s \in Scorers |-> scorer[s]]
  /\ \A s \in Scorers : ScorerSound(scorer[s])
  /\ \A s \in Scorers : scorer[s].pc \in {"load", "score"} =>
       output.state = "claimed" /\ output.by = s
  /\ output.state = "result" => sealNote # NoFile
  /\ ResultRestsOnSeal

WorldSound == wall \in [now : Int, events : Int] /\ vision \in Published

ForwardInv == WorldSound /\ AcquisitionSound /\ SealNoteSound /\ ScoringSound

(* The initial state satisfies the invariant. *)
LEMMA ForwardInitially == ForwardInit => ForwardInv
<1> SUFFICES ASSUME ForwardInit PROVE ForwardInv OBVIOUS
<1>1. WorldSound BY DEF ForwardInit, WorldSound, Published
<1>2. AcquisitionSound
  BY DEF ForwardInit, AcquisitionSound, RootSound, AcquirerSound, AcquirerShape, Acquires,
        ActivePcs, Idle, NoRoot
<1>3. SealNoteSound BY DEF ForwardInit, SealNoteSound
<1>4. ScoringSound
  BY DEF ForwardInit, ScoringSound, ScorerSound, ResultRestsOnSeal, NoOutput, Idle
<1> QED BY <1>1, <1>2, <1>3, <1>4 DEF ForwardInv

(* What the two halves leave alone. *)
LEMMA AcquisitionApart ==
  ASSUME AcquisitionSound, UNCHANGED <<acquirer, root>> PROVE AcquisitionSound'
  BY DEF AcquisitionSound, Acquires

(* Scoring stays sound while scorers, seal record and output stay. *)
LEMMA ScoringApart ==
  ASSUME SealNoteSound, ScoringSound, UNCHANGED <<sealNote, scorer, output>>
  PROVE  SealNoteSound' /\ ScoringSound'
  BY DEF SealNoteSound, ScoringSound, ScorerSound, ResultRestsOnSeal

(* One acquisition moves: the others are not past the mkdir when it is, or the root stays. *)
LEMMA AcquirerMoves ==
  ASSUME AcquisitionSound, NEW a \in Acquirers, NEW x,
         acquirer' = [acquirer EXCEPT ![a] = x],
         RootSound(root'), AcquirerSound(x, root'),
         x.pc \in ActivePcs => Acquires(a) \/ \A b \in Acquirers : ~Acquires(b),
         root' = root \/ Acquires(a) \/ \A b \in Acquirers : ~Acquires(b)
  PROVE  AcquisitionSound'
<1>1. /\ acquirer'[a] = x /\ \A b \in Acquirers : b # a => acquirer'[b] = acquirer[b]
      /\ acquirer' = [b \in Acquirers |-> acquirer'[b]]
  BY DEF AcquisitionSound
<1>2. ASSUME NEW b \in Acquirers, b # a PROVE AcquirerSound(acquirer[b], root')
  <2>1. CASE root' = root BY <2>1 DEF AcquisitionSound
  <2>2. CASE Acquires(a) \/ \A c \in Acquirers : ~Acquires(c)
    <3>1. ~Acquires(b) BY <1>2, <2>2 DEF AcquisitionSound
    <3> QED BY <3>1 DEF AcquisitionSound, AcquirerSound, Acquires, ActivePcs
  <2> QED BY <2>1, <2>2
<1>3. \A b, c \in Acquirers : Acquires(b)' /\ Acquires(c)' => b = c
  BY <1>1 DEF AcquisitionSound, Acquires
<1> QED BY <1>1, <1>2, <1>3 DEF AcquisitionSound

(* The steps of an acquisition. *)
LEMMA AcquisitionSteps ==
  ASSUME ForwardInv, NEW a \in Acquirers, AcquireStep(a)
  PROVE  AcquisitionSound'
<1> DEFINE x == acquirer[a]
<1>0. /\ AcquirerSound(x, root) /\ RootSound(root) /\ wall.now \in Int /\ vision \in Published
      /\ \A b \in Acquirers : ~Acquires(b) \/ root.made
      /\ AcquisitionSound
  BY DEF ForwardInv, WorldSound, AcquisitionSound, AcquirerSound, Acquires
<1>r. ASSUME acquirer' = [acquirer EXCEPT ![a] = Idle], root' = root PROVE AcquisitionSound'
  <2>1. AcquirerSound(Idle, root') /\ RootSound(root') /\ Idle.pc \notin ActivePcs
    BY <1>0, <1>r DEF AcquirerSound, AcquirerShape, Idle, ActivePcs
  <2> QED BY <1>0, <1>r, <2>1, AcquirerMoves
<1>1. CASE AcquirePreflight(a)
  <2> DEFINE y == [pc |-> "mkdir", code |-> repo.head]
  <2>1. acquirer' = [acquirer EXCEPT ![a] = y] /\ root' = root BY <1>1 DEF AcquirePreflight
  <2>2. AcquirerSound(y, root') /\ RootSound(root') /\ y.pc \notin ActivePcs
    BY <1>0, <2>1 DEF AcquirerSound, AcquirerShape, ActivePcs
  <2> QED BY <1>0, <2>1, <2>2, AcquirerMoves
<1>2. CASE AcquireRoot(a)
  <2>1. CASE root.made BY <1>2, <2>1, <1>r DEF AcquireRoot, Refuse
  <2>2. CASE ~root.made
    <3> DEFINE y == [x EXCEPT !.pc = "copy"]
    <3>1. acquirer' = [acquirer EXCEPT ![a] = y] /\ root' = NewRoot
      BY <1>2, <2>2 DEF AcquireRoot
    <3>2. x.pc = "mkdir" BY <1>2 DEF AcquireRoot
    <3>3. AcquirerSound(y, root')
      BY <1>0, <3>1, <3>2 DEF AcquirerSound, AcquirerShape, ActivePcs, NewRoot, Idle
    <3>4. RootSound(root') BY <3>1 DEF RootSound, NewRoot, RootFields
    <3>5. \A b \in Acquirers : ~Acquires(b) BY <1>0, <2>2
    <3> HIDE DEF y
    <3> QED BY <1>0, <3>1, <3>3, <3>4, <3>5, AcquirerMoves
  <2> QED BY <2>1, <2>2
<1>a. ASSUME NEW y, NEW r, acquirer' = [acquirer EXCEPT ![a] = y], root' = r,
             AcquirerSound(y, r), RootSound(r), Acquires(a)
      PROVE  AcquisitionSound'
  BY <1>0, <1>a, AcquirerMoves
<1>b. ASSUME x.pc \in ActivePcs
      PROVE  /\ Acquires(a) /\ root.made
             /\ DOMAIN root = RootFields /\ DOMAIN root.cache = Planned
  BY <1>0, <1>b DEF Acquires, RootSound, AcquirerSound
<1>3. CASE CopyDevelopmentArchives(a)
  <2> DEFINE y == [pc |-> "archives", code |-> x.code, fetched |-> wall.now]
             r == [root EXCEPT !.cache = [@ EXCEPT !["dev"] = devFiles.archive]]
  <2>1. x.pc = "copy" /\ acquirer' = [acquirer EXCEPT ![a] = y] /\ root' = r
    BY <1>3 DEF CopyDevelopmentArchives
  <2>2. Acquires(a) /\ root.made /\ DOMAIN root = RootFields /\ DOMAIN root.cache = Planned
    BY <2>1, <1>b DEF ActivePcs
  <2>3. r.made /\ DOMAIN r = RootFields /\ DOMAIN r.cache = Planned /\ r.manifest = root.manifest
    BY <2>2 DEF RootFields
  <2>4. RootSound(r) BY <1>0, <2>2, <2>3 DEF RootSound
  <2>5. AcquirerSound(y, r) BY <1>0, <2>3 DEF AcquirerSound, AcquirerShape
  <2> HIDE DEF y, r
  <2> QED BY <1>a, <2>1, <2>2, <2>4, <2>5
<1>4. CASE FetchArchive(a)
  <2> DEFINE y == [x EXCEPT !.pc = "checksums"]
             r == [root EXCEPT !.cache = [@ EXCEPT !["new"] = vision]]
  <2>1. x.pc = "archives" /\ acquirer' = [acquirer EXCEPT ![a] = y] /\ root' = r
    BY <1>4 DEF FetchArchive, Advance
  <2>2. Acquires(a) /\ root.made /\ DOMAIN root = RootFields /\ DOMAIN root.cache = Planned
    BY <2>1, <1>b DEF ActivePcs
  <2>3. /\ r.made /\ DOMAIN r = RootFields /\ DOMAIN r.cache = Planned
        /\ r.manifest = root.manifest /\ r.cache["new"] = vision
    BY <2>2 DEF RootFields, Planned
  <2>4. RootSound(r) BY <1>0, <2>2, <2>3 DEF RootSound
  <2>5. AcquirerSound(y, r) BY <1>0, <2>1, <2>3 DEF AcquirerSound, AcquirerShape, Idle
  <2> HIDE DEF y, r
  <2> QED BY <1>a, <2>1, <2>2, <2>4, <2>5
<1>5. CASE FetchChecksum(a)
  <2> DEFINE y == [x EXCEPT !.pc = "verify"]
             r == [root EXCEPT !.checksum = vision]
  <2>1. x.pc = "checksums" /\ acquirer' = [acquirer EXCEPT ![a] = y] /\ root' = r
    BY <1>5 DEF FetchChecksum, Advance
  <2>2. Acquires(a) /\ root.made /\ DOMAIN root = RootFields /\ DOMAIN root.cache = Planned
    BY <2>1, <1>b DEF ActivePcs
  <2>3. /\ r.made /\ DOMAIN r = RootFields /\ r.manifest = root.manifest
        /\ r.cache = root.cache
    BY <2>2 DEF RootFields
  <2>4. RootSound(r) BY <1>0, <2>2, <2>3 DEF RootSound
  <2>5. AcquirerSound(y, r) BY <1>0, <2>1, <2>3 DEF AcquirerSound, AcquirerShape, Idle
  <2> HIDE DEF y, r
  <2> QED BY <1>a, <2>1, <2>2, <2>4, <2>5
<1>6. CASE VerifyCache(a)
  <2>1. CASE CacheProblems \cup ChecksumProblems \cup RosterProblems # {}
    BY <1>6, <2>1, <1>r DEF VerifyCache, Refuse
  <2>2. CASE CacheProblems \cup ChecksumProblems \cup RosterProblems = {}
    <3> DEFINE y == [x EXCEPT !.pc = "rules"]
    <3>1. x.pc = "verify" /\ acquirer' = [acquirer EXCEPT ![a] = y] /\ root' = root
      BY <1>6, <2>2 DEF VerifyCache, Advance
    <3>2. Acquires(a) BY <3>1, <1>b DEF ActivePcs
    <3>3. root.cache["dev"] = DevContent BY <2>2 DEF RosterProblems, Reused
    <3>4. AcquirerSound(y, root)
      BY <1>0, <3>1, <3>3 DEF AcquirerSound, AcquirerShape, Idle, ActivePcs
    <3> HIDE DEF y
    <3> QED BY <1>0, <1>a, <3>1, <3>2, <3>4
  <2> QED BY <2>1, <2>2
<1>7. CASE FreezeRules(a)
  <2> DEFINE y == [x EXCEPT !.pc = "build"]
             r == [root EXCEPT !.rules = "rules"]
  <2>1. x.pc = "rules" /\ acquirer' = [acquirer EXCEPT ![a] = y] /\ root' = r
    BY <1>7 DEF FreezeRules, Advance
  <2>2. Acquires(a) /\ root.made /\ DOMAIN root = RootFields /\ DOMAIN root.cache = Planned
    BY <2>1, <1>b DEF ActivePcs
  <2>3. /\ r.made /\ DOMAIN r = RootFields /\ r.manifest = root.manifest
        /\ r.cache = root.cache
    BY <2>2 DEF RootFields
  <2>4. RootSound(r) BY <1>0, <2>2, <2>3 DEF RootSound
  <2>5. AcquirerSound(y, r) BY <1>0, <2>1, <2>3 DEF AcquirerSound, AcquirerShape, Idle
  <2> HIDE DEF y, r
  <2> QED BY <1>a, <2>1, <2>2, <2>4, <2>5
<1>8. CASE BuildAndPublish(a)
  <2>1. CASE DatasetGapProblems(BuildDataset) # {} \/ ~DevSpanEquality(BuildDataset)
    BY <1>8, <2>1, <1>r DEF BuildAndPublish, Refuse
  <2>2. CASE ~(DatasetGapProblems(BuildDataset) # {} \/ ~DevSpanEquality(BuildDataset))
    <3> DEFINE d == BuildDataset
               y == [pc |-> "receipt", code |-> x.code, fetched |-> x.fetched, loaded |-> d]
               r == [root EXCEPT !.dataset = d]
    <3>1. x.pc = "build" /\ acquirer' = [acquirer EXCEPT ![a] = y] /\ root' = r
      BY <1>8, <2>2 DEF BuildAndPublish
    <3>2. Acquires(a) /\ root.made /\ DOMAIN root = RootFields /\ DOMAIN root.cache = Planned
      BY <3>1, <1>b DEF ActivePcs
    <3>3. r.made /\ DOMAIN r = RootFields /\ r.manifest = root.manifest /\ r.cache = root.cache
      BY <3>2 DEF RootFields
    <3>4. RootSound(r) BY <1>0, <3>2, <3>3 DEF RootSound
    <3>5. Complete(d)
      BY <1>0, <2>2, <3>1 DEF Complete, DatasetGapProblems, DevSpanEquality, BuildDataset,
            AcquirerSound, Published
    <3>6. x.fetched \in Int BY <1>0, <3>1 DEF AcquirerSound, AcquirerShape, Idle
    <3> HIDE DEF d
    <3>7. AcquirerSound(y, r) BY <3>3, <3>5, <3>6 DEF AcquirerSound, AcquirerShape
    <3> HIDE DEF y, r
    <3> QED BY <1>a, <3>1, <3>2, <3>4, <3>7
  <2> QED BY <2>1, <2>2
<1>9. CASE WriteReceipt(a)
  <2> DEFINE y == [x EXCEPT !.pc = "manifest"]
             w == [dataset |-> x.loaded, fetched |-> x.fetched, builder |-> CodeIdentity]
             r == [root EXCEPT !.receipt = w]
  <2>1. x.pc = "receipt" /\ acquirer' = [acquirer EXCEPT ![a] = y] /\ root' = r
    BY <1>9 DEF WriteReceipt, Advance
  <2>2. Acquires(a) /\ root.made /\ DOMAIN root = RootFields /\ DOMAIN root.cache = Planned
    BY <2>1, <1>b DEF ActivePcs
  <2> HIDE DEF w
  <2>3. /\ r.made /\ DOMAIN r = RootFields /\ r.manifest = root.manifest
        /\ r.cache = root.cache
    BY <2>2 DEF RootFields
  <2>4. RootSound(r) BY <1>0, <2>2, <2>3 DEF RootSound
  <2>5. AcquirerSound(y, r) BY <1>0, <2>1, <2>3 DEF AcquirerSound, AcquirerShape, Idle
  <2> HIDE DEF y, r
  <2> QED BY <1>a, <2>1, <2>2, <2>4, <2>5
<1>10. CASE WriteManifest(a)
  <2> DEFINE m == ManifestOf(x.loaded, x.fetched)
             r == [root EXCEPT !.manifest = m]
  <2>1. x.pc = "manifest" /\ acquirer' = [acquirer EXCEPT ![a] = Idle] /\ root' = r
    BY <1>10 DEF WriteManifest
  <2>2. Acquires(a) /\ root.made /\ DOMAIN root = RootFields /\ DOMAIN root.cache = Planned
    BY <2>1, <1>b DEF ActivePcs
  <2>3. Complete(x.loaded) /\ x.fetched \in Int
    BY <1>0, <2>1 DEF AcquirerSound, AcquirerShape, Idle
  <2>4. m.dataset = x.loaded /\ m.fetched = x.fetched BY DEF ManifestOf
  <2> HIDE DEF m
  <2>5. r.made /\ DOMAIN r = RootFields /\ r.cache = root.cache /\ r.manifest = m
    BY <2>2 DEF RootFields
  <2>6. RootSound(r) BY <2>2, <2>3, <2>4, <2>5 DEF RootSound
  <2>7. AcquirerSound(Idle, r) BY DEF AcquirerSound, AcquirerShape, Idle, ActivePcs
  <2> HIDE DEF r
  <2> QED BY <1>a, <2>1, <2>2, <2>6, <2>7
<1> QED
  BY <1>1, <1>2, <1>3, <1>4, <1>5, <1>6, <1>7, <1>8, <1>9, <1>10 DEF AcquireStep

(* classify_candidate: no defective arm passes, and no invalid result claims an edge. *)
LEMMA ScoresAreSound ==
  ASSUME NEW score \in Scores
  PROVE  /\ score.label.label # "FORWARD_INVALID" \/ ~score.label.edge
         /\ score.label.label = "FORWARD_PASS" => score.sound
<1>1. PICK arm \in Arms, run \in ArmRuns, figures \in EvidenceSet :
        LET runs == [x \in Arms |-> IF x = arm THEN run ELSE [defect |-> "none", in |-> "base"]]
        IN  score = [label |-> ClassifyCandidate(CandidateEvidence("fs1_a", runs, figures)),
                     sound |-> run.defect = "none" \/ (arm = "cash" /\ run.defect \in NotForCash)]
  BY DEF Scores
<1> DEFINE runs == [x \in Arms |-> IF x = arm THEN run ELSE [defect |-> "none", in |-> "base"]]
           e == CandidateEvidence("fs1_a", runs, figures)
           sound == run.defect = "none" \/ (arm = "cash" /\ run.defect \in NotForCash)
<1>2. score.label = ClassifyCandidate(e) /\ (score.sound <=> sound) BY <1>1
<1>3. ClassifyCandidate(e).label = "FORWARD_INVALID" => ~ClassifyCandidate(e).edge
  <2> HIDE DEF e
  <2> QED BY DEF ClassifyCandidate
<1>4. ASSUME ~sound PROVE e.reasons # {} \/ ~e.controls
  <2>1. ArmInvalidReasons(arm, runs[arm]) # {}
    BY <1>4 DEF ArmInvalidReasons, NotForCash, Arms
  <2>2. e.reasons = ArmInvalidReasons("fs1_a", runs["fs1_a"])
    BY DEF CandidateEvidence, Arms, Candidates
  <2>3. e.controls = \A c \in Controls : ArmInvalidReasons(c, runs[c]) = {}
    BY DEF CandidateEvidence, Arms
  <2>4. arm = "fs1_a" \/ arm \in Controls BY DEF Arms, Candidates
  <2> HIDE DEF e, runs
  <2> QED BY <2>1, <2>2, <2>3, <2>4
<1>5. e.reasons # {} \/ ~e.controls => ClassifyCandidate(e).label = "FORWARD_INVALID"
  <2> HIDE DEF e
  <2> QED BY DEF ClassifyCandidate
<1> HIDE DEF e, runs, sound
<1> QED BY <1>2, <1>3, <1>4, <1>5

(* One scorer moves under an unchanged seal record. *)
LEMMA ScorerMoves ==
  ASSUME ScoringSound, NEW s \in Scorers, NEW x, scorer' = [scorer EXCEPT ![s] = x],
         sealNote' = sealNote, ScorerSound(x),
         \A t \in Scorers : scorer'[t].pc \in {"load", "score"} =>
           output'.state = "claimed" /\ output'.by = t,
         output'.state = "result" => sealNote # NoFile, ResultRestsOnSeal'
  PROVE  ScoringSound'
<1>1. /\ scorer'[s] = x /\ \A t \in Scorers : t # s => scorer'[t] = scorer[t]
      /\ scorer' = [t \in Scorers |-> scorer'[t]]
  BY DEF ScoringSound
<1>2. (\A t \in Scorers : ScorerSound(scorer[t]))' BY <1>1 DEF ScoringSound, ScorerSound
<1> QED BY <1>1, <1>2 DEF ScoringSound

(* The steps of a scorer. *)
LEMMA ScoringSteps ==
  ASSUME ForwardInv, NEW s \in Scorers, ScoreStep(s)
  PROVE  SealNoteSound' /\ ScoringSound'
<1> DEFINE x == scorer[s]
<1>0. /\ ScoringSound /\ SealNoteSound /\ ScorerSound(x) /\ ResultRestsOnSeal
      /\ scorer = [t \in Scorers |-> scorer[t]]
      /\ \A t \in Scorers : scorer[t].pc \in {"load", "score"} =>
           output.state = "claimed" /\ output.by = t
      /\ output.state = "result" => sealNote # NoFile
  BY DEF ForwardInv, ScoringSound
<1>1. sealNote' = sealNote
  BY DEF ScoreStep, Authorize, Claim, LoadDataset, WriteResult, ScoreRaises, ScoreFails
<1>2. SealNoteSound' BY <1>0, <1>1 DEF SealNoteSound
<1>i. ScorerSound(Idle) /\ Idle.pc = "idle" BY DEF ScorerSound, Idle
<1>e. ASSUME x.pc \in {"load", "score"}, NEW t \in Scorers, t # s
      PROVE  scorer[t].pc \notin {"load", "score"}
  BY <1>0, <1>e
<1>3. CASE Authorize(s)
  <2> DEFINE y == [pc |-> "claim", permit |-> [code |-> repo.head, manifest |-> root.manifest]]
  <2>1. /\ scorer' = [scorer EXCEPT ![s] = y] /\ output' = output /\ sealNote # NoFile
        /\ AuthorizeProblems = {}
    BY <1>3 DEF Authorize
  <2>2. repo.head = sealNote.code /\ root.manifest = sealNote.manifest
    BY <2>1 DEF AuthorizeProblems
  <2>3. ScorerSound(y) BY <2>1, <2>2 DEF ScorerSound
  <2>4. \A t \in Scorers : scorer'[t].pc \in {"load", "score"} =>
          output'.state = "claimed" /\ output'.by = t
    BY <1>0, <2>1
  <2>5. ResultRestsOnSeal' BY <1>0, <1>1, <2>1 DEF ResultRestsOnSeal
  <2> HIDE DEF y
  <2> QED BY <1>0, <1>1, <1>2, <2>1, <2>3, <2>4, <2>5, ScorerMoves
<1>4. CASE Claim(s)
  <2>1. CASE output.state # "absent"
    <3>1. scorer' = [scorer EXCEPT ![s] = Idle] /\ output' = output BY <1>4, <2>1 DEF Claim
    <3>2. \A t \in Scorers : scorer'[t].pc \in {"load", "score"} =>
            output'.state = "claimed" /\ output'.by = t
      BY <1>0, <1>i, <3>1
    <3>3. ResultRestsOnSeal' BY <1>0, <1>1, <3>1 DEF ResultRestsOnSeal
    <3> QED BY <1>0, <1>1, <1>2, <1>i, <3>1, <3>2, <3>3, ScorerMoves
  <2>2. CASE output.state = "absent"
    <3> DEFINE y == [x EXCEPT !.pc = "load"]
    <3>1. /\ scorer' = [scorer EXCEPT ![s] = y] /\ x.pc = "claim"
          /\ output' = [state |-> "claimed", by |-> s]
      BY <1>4, <2>2 DEF Claim
    <3>2. ScorerSound(y) BY <1>0, <3>1 DEF ScorerSound, Idle
    <3>3. output'.state = "claimed" /\ output'.by = s BY <3>1
    <3>4. \A t \in Scorers : t # s => scorer'[t].pc \notin {"load", "score"}
      BY <1>0, <2>2, <3>1
    <3>5. ResultRestsOnSeal' BY <3>3 DEF ResultRestsOnSeal
    <3> HIDE DEF y
    <3> QED BY <1>0, <1>1, <1>2, <3>1, <3>2, <3>3, <3>4, <3>5, ScorerMoves
  <2> QED BY <2>1, <2>2
<1>f. ASSUME ScoreFails(s), x.pc \in {"load", "score"} PROVE SealNoteSound' /\ ScoringSound'
  <2>1. scorer' = [scorer EXCEPT ![s] = Idle] /\ output' = NoOutput BY <1>f DEF ScoreFails
  <2>2. \A t \in Scorers : scorer'[t].pc \notin {"load", "score"}
    BY <1>0, <1>i, <1>e, <1>f, <2>1
  <2>3. output'.state = "absent" BY <2>1 DEF NoOutput
  <2>4. ResultRestsOnSeal' BY <2>3 DEF ResultRestsOnSeal
  <2> QED BY <1>0, <1>1, <1>2, <1>i, <2>1, <2>2, <2>3, <2>4, ScorerMoves
<1>5. CASE LoadDataset(s)
  <2>1. x.pc = "load" BY <1>5 DEF LoadDataset
  <2>2. CASE ScoreFails(s) BY <1>f, <2>1, <2>2
  <2>3. CASE /\ scorer' = [scorer EXCEPT ![s] = [@ EXCEPT !.pc = "score"]]
             /\ output' = output
    <3> DEFINE y == [x EXCEPT !.pc = "score"]
    <3>1. scorer' = [scorer EXCEPT ![s] = y] BY <2>3
    <3>2. ScorerSound(y) BY <1>0, <2>1 DEF ScorerSound, Idle
    <3>3. \A t \in Scorers : scorer'[t].pc \in {"load", "score"} =>
            output'.state = "claimed" /\ output'.by = t
      BY <1>0, <2>1, <2>3
    <3>4. ResultRestsOnSeal' BY <1>0, <1>1, <2>3 DEF ResultRestsOnSeal
    <3> HIDE DEF y
    <3> QED BY <1>0, <1>1, <1>2, <2>3, <3>1, <3>2, <3>3, <3>4, ScorerMoves
  <2> QED BY <1>5, <2>2, <2>3 DEF LoadDataset
<1>6. CASE WriteResult(s)
  <2>1. /\ x.pc = "score" /\ scorer' = [scorer EXCEPT ![s] = Idle]
    BY <1>6 DEF WriteResult
  <2>2. PICK score \in Scores :
          output' = [state |-> "result", by |-> s, result |-> score.label,
                     sound |-> score.sound, code |-> x.permit.code,
                     dataset |-> x.permit.manifest.dataset,
                     fetched |-> x.permit.manifest.fetched]
    BY <1>6 DEF WriteResult
  <2>3. /\ sealNote # NoFile /\ x.permit.code = sealNote.code
        /\ x.permit.manifest = sealNote.manifest
    BY <1>0, <2>1 DEF ScorerSound, Idle
  <2>4. \A t \in Scorers : scorer'[t].pc \notin {"load", "score"}
    BY <1>0, <1>i, <1>e, <2>1
  <2>5. /\ Complete(sealNote.manifest.dataset) /\ sealNote.manifest.fetched >= SettledAt
    BY <1>0, <2>3 DEF SealNoteSound
  <2>6. ResultRestsOnSeal'
    BY <1>1, <2>2, <2>3, <2>5, ScoresAreSound DEF ResultRestsOnSeal, Complete
  <2> QED BY <1>0, <1>1, <1>2, <1>i, <2>1, <2>3, <2>4, <2>6, ScorerMoves
<1>7. CASE ScoreRaises(s) BY <1>7, <1>f DEF ScoreRaises
<1> QED BY <1>3, <1>4, <1>5, <1>6, <1>7 DEF ScoreStep
(* What may happen around the processes. *)
LEMMA EnvironmentSteps ==
  ASSUME ForwardInv, Environment
  PROVE  WorldSound' /\ AcquisitionSound' /\ SealNoteSound' /\ ScoringSound'
<1>0. WorldSound /\ AcquisitionSound /\ SealNoteSound /\ ScoringSound BY DEF ForwardInv
<1>1. ASSUME Disturbed PROVE wall' \in [now : Int, events : Int]
  BY <1>0, <1>1 DEF Disturbed, WorldSound
<1>2. CASE Tick \/ ClockStepsBack \/ EditRepository \/ EditDevFiles \/ Republish
  <2>1. UNCHANGED <<acquirer, root>> /\ UNCHANGED <<sealNote, scorer, output>>
    BY <1>2 DEF Tick, ClockStepsBack, EditRepository, EditDevFiles, Republish
  <2>2. wall' \in [now : Int, events : Int]
    BY <1>0, <1>1, <1>2 DEF Tick, ClockStepsBack, EditRepository, EditDevFiles, Republish, WorldSound
  <2>3. vision' \in Published
    BY <1>0, <1>2 DEF Tick, ClockStepsBack, EditRepository, EditDevFiles, Republish, WorldSound,
          Published
  <2> QED BY <1>0, <2>1, <2>2, <2>3, AcquisitionApart, ScoringApart DEF WorldSound
<1>3. CASE EditDataset
  <2> DEFINE d == [rows |-> [u \in Planned |-> "edited"], rules |-> "rules"]
  <2>1. /\ UNCHANGED <<sealNote, scorer, output>> /\ UNCHANGED <<vision, acquirer>> /\ Disturbed
        /\ root.made /\ root' = [root EXCEPT !.dataset = d]
    BY <1>3 DEF EditDataset
  <2> HIDE DEF d
  <2>2. DOMAIN root = RootFields BY <1>0, <2>1 DEF AcquisitionSound, RootSound
  <2>3. /\ root'.made /\ DOMAIN root' = RootFields /\ root'.manifest = root.manifest
        /\ root'.cache = root.cache
    BY <2>1, <2>2 DEF RootFields
  <2>4. RootSound(root') BY <1>0, <2>1, <2>3 DEF RootSound, AcquisitionSound
  <2>5. \A a \in Acquirers : AcquirerSound(acquirer[a], root')
    BY <1>0, <2>3 DEF AcquisitionSound, AcquirerSound
  <2>6. AcquisitionSound' BY <1>0, <2>1, <2>4, <2>5 DEF AcquisitionSound, Acquires
  <2> QED BY <1>0, <1>1, <2>1, <2>6, ScoringApart DEF WorldSound
<1>4. CASE Kill
  <2>1. Disturbed /\ UNCHANGED <<vision, root, sealNote>> BY <1>4 DEF Kill
  <2>2. WorldSound' BY <1>0, <1>1, <2>1 DEF WorldSound
  <2>3. CASE \E a \in Acquirers : /\ acquirer[a].pc # "idle"
                                  /\ acquirer' = [acquirer EXCEPT ![a] = Idle]
                                  /\ UNCHANGED <<scorer, output>>
    <3>1. PICK a \in Acquirers : acquirer' = [acquirer EXCEPT ![a] = Idle] BY <2>3
    <3>2. AcquirerSound(Idle, root') /\ RootSound(root') /\ Idle.pc \notin ActivePcs
      BY <1>0, <2>1 DEF AcquirerSound, AcquirerShape, Idle, ActivePcs, AcquisitionSound
    <3>3. AcquisitionSound' BY <1>0, <2>1, <3>1, <3>2, AcquirerMoves
    <3> QED BY <1>0, <2>1, <2>2, <2>3, <3>3, ScoringApart
  <2>4. CASE \E s \in Scorers :
               /\ scorer[s].pc # "idle"
               /\ scorer' = [scorer EXCEPT ![s] = Idle] /\ UNCHANGED acquirer
               /\ output' \in {output} \cup (IF scorer[s].pc = "score"
                                            THEN {[state |-> "torn", by |-> s]} ELSE {})
    <3>1. PICK s \in Scorers :
            /\ scorer' = [scorer EXCEPT ![s] = Idle] /\ UNCHANGED acquirer
            /\ output' \in {output} \cup (IF scorer[s].pc = "score"
                                         THEN {[state |-> "torn", by |-> s]} ELSE {})
      BY <2>4
    <3>2. ScorerSound(Idle) /\ Idle.pc = "idle" BY DEF ScorerSound, Idle
    <3>3. \A t \in Scorers : t # s => scorer'[t] = scorer[t]
      BY <1>0, <3>1 DEF ScoringSound
    <3>4. scorer'[s] = Idle BY <1>0, <3>1 DEF ScoringSound
    <3>5. CASE output' = output
      <4>1. \A t \in Scorers : scorer'[t].pc \in {"load", "score"} =>
              output'.state = "claimed" /\ output'.by = t
        BY <1>0, <3>2, <3>3, <3>4, <3>5 DEF ScoringSound
      <4>2. ResultRestsOnSeal' BY <1>0, <2>1, <3>5 DEF ResultRestsOnSeal, ScoringSound
      <4>3. ScoringSound'
        BY <1>0, <2>1, <3>1, <3>2, <3>5, <4>1, <4>2, ScorerMoves DEF ScoringSound
      <4>4. SealNoteSound' BY <1>0, <2>1 DEF SealNoteSound
      <4> QED BY <1>0, <2>1, <2>2, <3>1, <4>3, <4>4, AcquisitionApart
    <3>6. CASE scorer[s].pc = "score" /\ output' = [state |-> "torn", by |-> s]
      <4>1. output'.state = "torn" BY <3>6
      <4>2. \A t \in Scorers : scorer'[t].pc \notin {"load", "score"}
        BY <1>0, <3>2, <3>3, <3>4, <3>6 DEF ScoringSound
      <4>3. ResultRestsOnSeal' BY <4>1 DEF ResultRestsOnSeal
      <4>4. ScoringSound'
        BY <1>0, <2>1, <3>1, <3>2, <4>1, <4>2, <4>3, ScorerMoves DEF ScoringSound
      <4>5. SealNoteSound' BY <1>0, <2>1 DEF SealNoteSound
      <4> QED BY <1>0, <2>1, <2>2, <3>1, <4>4, <4>5, AcquisitionApart
    <3> QED BY <3>1, <3>5, <3>6
  <2> QED BY <1>4, <2>3, <2>4 DEF Kill
<1>5. CASE RemovePartialRoot
  <2>1. /\ root' = NoRoot /\ UNCHANGED <<wall, vision, acquirer>>
        /\ UNCHANGED <<sealNote, scorer, output>>
        /\ \A a \in Acquirers : ~Acquires(a)
    BY <1>5 DEF RemovePartialRoot, Acquires, ActivePcs
  <2>2. RootSound(root') BY <2>1 DEF RootSound, NoRoot
  <2>3. \A a \in Acquirers : AcquirerSound(acquirer[a], root')
    BY <1>0, <2>1 DEF AcquisitionSound, AcquirerSound, Acquires, ActivePcs
  <2>4. AcquisitionSound' BY <1>0, <2>1, <2>2, <2>3 DEF AcquisitionSound, Acquires
  <2> QED BY <1>0, <2>1, <2>4, ScoringApart DEF WorldSound
<1>6. CASE RemoveEmptyClaim
  <2>1. /\ output.state = "claimed" /\ scorer[output.by].pc = "idle" /\ output' = NoOutput
        /\ UNCHANGED <<wall, vision, acquirer, root>> /\ UNCHANGED <<sealNote, scorer>>
    BY <1>6 DEF RemoveEmptyClaim
  <2>2. \A t \in Scorers : scorer[t].pc \notin {"load", "score"}
    BY <1>0, <2>1 DEF ScoringSound
  <2>3. output'.state = "absent" BY <2>1 DEF NoOutput
  <2>4. ScoringSound' /\ SealNoteSound'
    BY <1>0, <2>1, <2>2, <2>3 DEF ScoringSound, ScorerSound, SealNoteSound, ResultRestsOnSeal
  <2> QED BY <1>0, <2>1, <2>4, AcquisitionApart DEF WorldSound
<1> QED BY <1>2, <1>3, <1>4, <1>5, <1>6 DEF Environment

(* Every step of the forward study keeps the invariant. *)
LEMMA ForwardStep == ForwardInv /\ [ForwardNext]_forwardVars => ForwardInv'
<1> SUFFICES ASSUME ForwardInv, [ForwardNext]_forwardVars PROVE ForwardInv'
  OBVIOUS
<1>0. WorldSound /\ AcquisitionSound /\ SealNoteSound /\ ScoringSound BY DEF ForwardInv
<1>1. CASE UNCHANGED forwardVars
  BY <1>0, <1>1, AcquisitionApart, ScoringApart DEF forwardVars, WorldSound, ForwardInv
<1>2. ASSUME NEW a \in Acquirers, AcquireStep(a) PROVE ForwardInv'
  <2>1. UNCHANGED <<wall, vision, sealNote, scorer, output>>
    BY <1>2 DEF AcquireStep, AcquirePreflight, AcquireRoot, CopyDevelopmentArchives, FetchArchive,
          FetchChecksum, VerifyCache, FreezeRules, BuildAndPublish, WriteReceipt, WriteManifest,
          Refuse
  <2>2. AcquisitionSound' BY <1>2, AcquisitionSteps
  <2> QED BY <1>0, <2>1, <2>2, ScoringApart DEF WorldSound, ForwardInv
<1>3. CASE PostSealRecord
  <2>1. /\ sealNote = NoFile /\ SealRecordProblems = {}
        /\ sealNote' = [code |-> "sealed", manifest |-> root.manifest]
        /\ UNCHANGED <<wall, vision, acquirer, root, scorer, output>>
    BY <1>3 DEF PostSealRecord
  <2>2. root.made /\ root.manifest # NoFile /\ ~(root.manifest.fetched < SettledAt)
    BY <2>1 DEF SealRecordProblems, ParseManifest
  <2>3. Complete(root.manifest.dataset) /\ root.manifest.fetched \in Int
    BY <1>0, <2>2 DEF AcquisitionSound, RootSound
  <2>4. SettledAt \in Int BY ForwardAssumption
  <2>5. SealNoteSound' BY <2>1, <2>2, <2>3, <2>4 DEF SealNoteSound
  <2>6. \A s \in Scorers : scorer[s] = Idle BY <1>0, <2>1 DEF ScoringSound, ScorerSound
  <2>7. ScoringSound'
    BY <1>0, <2>1, <2>6 DEF ScoringSound, ScorerSound, ResultRestsOnSeal, Idle
  <2> QED BY <1>0, <2>1, <2>5, <2>7, AcquisitionApart DEF WorldSound, ForwardInv
<1>4. ASSUME NEW s \in Scorers, ScoreStep(s) PROVE ForwardInv'
  <2>1. UNCHANGED <<wall, vision, acquirer, root>>
    BY <1>4 DEF ScoreStep, Authorize, Claim, LoadDataset, WriteResult, ScoreRaises, ScoreFails
  <2>2. SealNoteSound' /\ ScoringSound' BY <1>4, ScoringSteps
  <2> QED BY <1>0, <2>1, <2>2, AcquisitionApart DEF WorldSound, ForwardInv
<1>5. CASE Environment BY <1>5, EnvironmentSteps DEF ForwardInv
<1> QED BY <1>1, <1>2, <1>3, <1>4, <1>5 DEF ForwardNext

(* A result is never touched again, and a claim goes only with its own scorer. *)
LEMMA ForwardStepScoresOnce ==
  ASSUME ForwardInv, [ForwardNext]_forwardVars PROVE ScoredOnce
<1>0. /\ scorer = [s \in Scorers |-> scorer[s]]
      /\ \A s \in Scorers : scorer[s].pc \in {"load", "score"} =>
           output.state = "claimed" /\ output.by = s
  BY DEF ForwardInv, ScoringSound
<1>1. CASE output' = output BY <1>1 DEF ScoredOnce
<1>o. ASSUME NEW s \in Scorers, scorer[s].pc \in {"load", "score"},
             scorer' = [scorer EXCEPT ![s] = Idle]
      PROVE  ScoredOnce
  <2>1. output.state = "claimed" /\ output.by = s BY <1>0, <1>o
  <2>2. scorer'[s] = Idle BY <1>0, <1>o
  <2>3. scorer[s] # scorer'[s] BY <1>o, <2>2 DEF Idle
  <2> QED BY <2>1, <2>3 DEF ScoredOnce
<1>2. ASSUME NEW s \in Scorers, ScoreStep(s), output' # output PROVE ScoredOnce
  <2>1. CASE Claim(s)
    <3>1. output.state = "absent" BY <1>2, <2>1 DEF Claim
    <3> QED BY <3>1 DEF ScoredOnce
  <2>2. CASE LoadDataset(s) \/ WriteResult(s) \/ ScoreRaises(s)
    <3>1. scorer[s].pc \in {"load", "score"} /\ scorer' = [scorer EXCEPT ![s] = Idle]
      BY <1>2, <2>2 DEF LoadDataset, WriteResult, ScoreRaises, ScoreFails
    <3> QED BY <3>1, <1>o
  <2> QED BY <1>2, <2>1, <2>2 DEF ScoreStep, Authorize
<1>3. CASE Environment /\ output' # output
  <2>1. CASE Kill
    <3>1. PICK s \in Scorers : /\ scorer[s].pc = "score"
                              /\ scorer' = [scorer EXCEPT ![s] = Idle]
      BY <1>3, <2>1 DEF Kill
    <3> QED BY <3>1, <1>o
  <2>2. CASE RemoveEmptyClaim BY <2>2 DEF RemoveEmptyClaim, ScoredOnce
  <2> QED
    BY <1>3, <2>1, <2>2 DEF Environment, Tick, ClockStepsBack, EditRepository, EditDevFiles,
          Republish, EditDataset, RemovePartialRoot
<1>4. CASE \/ \E a \in Acquirers : AcquireStep(a)
           \/ PostSealRecord \/ UNCHANGED forwardVars
  BY <1>4, <1>1 DEF AcquireStep, AcquirePreflight, AcquireRoot, CopyDevelopmentArchives,
        FetchArchive, FetchChecksum, VerifyCache, FreezeRules, BuildAndPublish, WriteReceipt,
        WriteManifest, Refuse, PostSealRecord, forwardVars
<1> QED BY <1>1, <1>2, <1>3, <1>4 DEF ForwardNext

(* The invariant of the forward study: at most one acquisition is past its   *)
(* exclusive mkdir, a manifest names a verified and complete Dataset, and    *)
(* whoever scores holds the posted seal record and its own claim.            *)
THEOREM ForwardStudyInvariant == ForwardSpec => []ForwardInv
<1>1. ForwardInit => ForwardInv BY ForwardInitially
<1>2. ForwardInv /\ [ForwardNext]_forwardVars => ForwardInv' BY ForwardStep
<1> QED BY <1>1, <1>2, PTL DEF ForwardSpec

(* A forward result rests on what was sealed, and it is scored once: for any *)
(* number of acquisitions and evaluators, whatever the repository, the       *)
(* development files, the public archive and the clock do between a check    *)
(* and the use of what it checked (acquire_root, require_scoring_permit,     *)
(* run_forward_study).                                                       *)
THEOREM ForwardAlwaysSealed == ForwardSpec => ForwardIsSealed
<1>1. ForwardInv /\ ForwardInv' /\ [ForwardNext]_forwardVars
        => [ResultRestsOnSeal' /\ ScoredOnce]_forwardVars
  <2> SUFFICES ASSUME ForwardInv, ForwardInv', [ForwardNext]_forwardVars
               PROVE  ResultRestsOnSeal' /\ ScoredOnce
    OBVIOUS
  <2>1. ResultRestsOnSeal' BY DEF ForwardInv, ScoringSound
  <2> QED BY <2>1, ForwardStepScoresOnce
<1>2. ForwardSpec => []ForwardInv BY ForwardStudyInvariant
<1> QED BY <1>1, <1>2, PTL DEF ForwardSpec, ForwardIsSealed

-----------------------------------------------------------------------------
(* The decision loop of a replay. *)

BookKeys == {"lots", "cash", "cost", "fund", "peak", "dead"}
PolicyKeys == {"intent", "desired", "age", "locked", "exact"}

BookTyped(b) ==
  /\ DOMAIN b = BookKeys
  /\ b.lots \in Int /\ b.cash \in Int /\ b.cost \in Int /\ b.fund \in Int /\ b.dead \in BOOLEAN

LoopTyped ==
  /\ DOMAIN replay = {"mode", "bar", "running"} /\ replay.bar \in Int /\ opened \in Int
  /\ DOMAIN policy = PolicyKeys
  /\ policy.intent \in Int /\ policy.desired \in Int /\ policy.age \in Int /\ policy.locked \in BOOLEAN
  /\ entry.lots \in Int
  /\ capped \in BOOLEAN

(* A running loop has a solvent book, and the last interval ends with the book as it is. *)
BookKept ==
  /\ BookTyped(position) /\ position.cost >= 0
  /\ replay.running => Worth(position) > 0
  /\ interval.after = position

(* Without a lock and a lasting cut the remembered size is that of the intent, whatever the *)
(* last bar was; a bar on which the strategy decided leaves no lock. *)
SizeFollows ==
  /\ replay.mode # "scripted" /\ ~capped /\ ~policy.locked => policy.desired = TargetLots(policy.intent)
  /\ lastStep.kind = "decided" => ~policy.locked

ReplayInv == LoopTyped /\ BookKept /\ SizeFollows /\ AgeCountsHolding /\ EntryIsKnown

(* The initial state. *)
LEMMA ReplayInitially == ReplayInit => ReplayInv
<1> SUFFICES ASSUME ReplayInit PROVE ReplayInv OBVIOUS
<1>1. StartCash \in Nat \ {0} /\ Lots \in Nat BY ReplayAssumption
<1>2. position = [lots |-> 0, cash |-> StartCash, cost |-> 0, fund |-> 0, peak |-> StartCash, dead |-> FALSE]
  BY DEF ReplayInit
<1>3. BookTyped(position) /\ position.cost = 0 /\ position.lots = 0 /\ Worth(position) > 0
  BY <1>1, <1>2 DEF BookTyped, BookKeys, Worth
<1>4. policy = [intent |-> 0, desired |-> 0, age |-> 0, locked |-> FALSE, exact |-> FALSE]
  BY DEF ReplayInit
<1>5. LoopTyped
  <2>1. DOMAIN replay = {"mode", "bar", "running"} /\ replay.bar = 0 BY DEF ReplayInit
  <2>2. entry.lots = 0 /\ opened = 0 /\ capped = FALSE BY DEF ReplayInit
  <2>3. /\ DOMAIN policy = PolicyKeys /\ policy.intent = 0 /\ policy.desired = 0 /\ policy.age = 0
        /\ policy.locked = FALSE
    BY <1>4 DEF PolicyKeys
  <2>4. capped \in BOOLEAN /\ policy.locked \in BOOLEAN BY <2>2, <2>3
  <2> QED BY <2>1, <2>2, <2>3, <2>4 DEF LoopTyped
<1>6. SizeFollows BY <1>1, <1>4 DEF ReplayInit, SizeFollows, TargetLots
<1>7. AgeCountsHolding BY <1>3, <1>4 DEF AgeCountsHolding
<1>8. EntryIsKnown BY <1>3 DEF ReplayInit, EntryIsKnown
<1> QED BY <1>3, <1>5, <1>6, <1>7, <1>8 DEF ReplayInit, ReplayInv, BookKept

(* What the execution of an interval does to the book. *)
LEMMA ExecutedBook ==
  ASSUME NEW b, BookTyped(b), NEW lots \in Int, NEW rate \in Funding
  PROVE  LET after == Executed(b, lots, rate)
             got == rate * Mag(b.lots)
             paid == IF lots = b.lots THEN 0 ELSE 1
         IN  /\ BookTyped(after) /\ got \in Int /\ (b.lots = 0 => got = 0)
             /\ after.lots = lots /\ after.cost = b.cost + paid /\ after.fund = b.fund + got
             /\ after.cash = b.cash - (lots - b.lots) - paid + got
             /\ after.dead <=> Worth(after) <= 0
<1> DEFINE got == rate * Mag(b.lots)
           paid == IF lots = b.lots THEN 0 ELSE 1
           next == [b EXCEPT !.lots = lots, !.cash = b.cash - (lots - b.lots) - paid + got,
                             !.cost = b.cost + paid, !.fund = b.fund + got]
           after == [next EXCEPT !.peak = IF Worth(next) > b.peak THEN Worth(next) ELSE b.peak,
                                 !.dead = Worth(next) <= 0]
<1>1. rate \in Int /\ Mag(b.lots) \in Int /\ (b.lots = 0 => Mag(b.lots) = 0)
  BY ReplayAssumption DEF Mag, BookTyped
<1>2. got \in Int /\ (b.lots = 0 => got = 0) BY <1>1
<1>3. paid \in Int OBVIOUS
<1> HIDE DEF got, paid
<1>4. /\ DOMAIN next = BookKeys /\ next.lots = lots /\ next.cost = b.cost + paid /\ next.fund = b.fund + got
      /\ next.cash = b.cash - (lots - b.lots) - paid + got
  BY DEF BookTyped, BookKeys
<1>5. Executed(b, lots, rate) = after BY DEF Executed, got, paid
<1> HIDE DEF next
<1>6. /\ DOMAIN after = BookKeys /\ after.lots = next.lots /\ after.cost = next.cost /\ after.fund = next.fund
      /\ after.cash = next.cash /\ after.dead = (Worth(next) <= 0)
  BY <1>4 DEF BookKeys
<1> HIDE DEF after
<1>7. Worth(after) = Worth(next) BY <1>6 DEF Worth
<1>8. BookTyped(after) BY <1>2, <1>3, <1>4, <1>6 DEF BookTyped
<1> QED BY <1>2, <1>4, <1>5, <1>6, <1>7, <1>8 DEF got, paid

(* A bar of whatever kind: the age is counted on, the rest of the policy is its own affair. *)
Aged(lots) == policy'.age = NextPositionAgeBars(policy.age, position.lots, lots)

(* Whatever its kind, a bar keeps the book, the age and the entry, and captures an interval the *)
(* loader accepts.                                                                              *)
LEMMA BarKeeps ==
  ASSUME ReplayInv, replay.running, NEW goal, NEW lots \in Int, NEW rate \in Funding,
         ExecuteAndRecord(goal, lots, rate), Aged(lots)
  PROVE  /\ BookKept' /\ AgeCountsHolding' /\ EntryIsKnown' /\ CapturedIntervalsChain
         /\ position'.lots = lots /\ replay'.mode = replay.mode /\ replay'.bar = replay.bar + 1
         /\ DOMAIN replay' = {"mode", "bar", "running"} /\ entry'.lots \in Int /\ opened' \in Int
<1> DEFINE after == Executed(position, lots, rate)
<1>1. /\ position' = after /\ interval' = Captured(position, after)
      /\ entry' = IF after.dead THEN [lots |-> lots, since |-> NoEntry] ELSE Ingest(entry, lots - position.lots)
      /\ opened' = IF Sgn(lots) = Sgn(position.lots) THEN opened ELSE replay.bar
      /\ replay' = [replay EXCEPT !.bar = @ + 1, !.running = ~after.dead]
  BY DEF ExecuteAndRecord
<1>2. BookTyped(position) /\ Worth(position) > 0 /\ position.cost >= 0 /\ interval.after = position
  BY DEF ReplayInv, BookKept
<1> DEFINE got == rate * Mag(position.lots)
           paid == IF lots = position.lots THEN 0 ELSE 1
<1>3. /\ BookTyped(after) /\ got \in Int /\ (position.lots = 0 => got = 0)
      /\ after.lots = lots /\ after.cost = position.cost + paid /\ after.fund = position.fund + got
      /\ after.cash = position.cash - (lots - position.lots) - paid + got
      /\ after.dead <=> Worth(after) <= 0
  BY <1>2, ExecutedBook
<1>4. paid \in {0, 1} /\ (lots = position.lots => paid = 0) OBVIOUS
<1> HIDE DEF after, got, paid
<1>5. /\ DOMAIN replay' = {"mode", "bar", "running"} /\ replay'.mode = replay.mode
      /\ replay'.bar = replay.bar + 1 /\ replay'.running = ~after.dead
  BY <1>1 DEF ReplayInv, LoopTyped
<1>6. /\ replay.bar \in Int /\ opened \in Int /\ policy.age \in Int /\ entry.lots = position.lots
      /\ position.lots \in Int /\ position.cost \in Int /\ position.cash \in Int /\ position.fund \in Int
      /\ entry.since = IF position.lots = 0 THEN NoEntry ELSE opened
      /\ policy.age = IF position.lots = 0 THEN 0 ELSE replay.bar - opened
  BY <1>2 DEF ReplayInv, LoopTyped, BookTyped, EntryIsKnown, AgeCountsHolding
<1>7. /\ interval'.bar = replay.bar /\ interval'.before = position /\ interval'.after = after
      /\ interval'.paid = after.cost - position.cost /\ interval'.got = after.fund - position.fund
  BY <1>1 DEF Captured
<1>8. after.cost \in Int /\ after.cash \in Int /\ after.fund \in Int /\ after.lots \in Int /\ after.dead \in BOOLEAN
  BY <1>3 DEF BookTyped
<1>9. Worth(after) \in Int BY <1>8 DEF Worth
<1>10. BookKept'
  <2>1. after.cost >= 0 BY <1>2, <1>3, <1>4, <1>6
  <2>2. ~after.dead => Worth(after) > 0 BY <1>3, <1>8, <1>9
  <2>3. (replay.running => Worth(position) > 0)' BY <1>1, <1>5, <2>2 DEF Worth
  <2> QED BY <1>1, <1>3, <1>7, <2>1, <2>3 DEF BookKept, BookTyped
<1>11. opened' \in Int BY <1>1, <1>6
<1>12. policy'.age = IF lots = 0 THEN 0 ELSE replay'.bar - opened'
  BY <1>1, <1>5, <1>6 DEF Aged, NextPositionAgeBars, Sgn
<1>13. AgeCountsHolding' BY <1>1, <1>3, <1>12 DEF AgeCountsHolding
<1>14. ~after.dead => /\ entry'.lots = lots
                      /\ entry'.since = IF lots = 0 THEN NoEntry ELSE opened'
  BY <1>1, <1>6 DEF Ingest, Sgn
<1>15. EntryIsKnown' BY <1>1, <1>3, <1>5, <1>14 DEF EntryIsKnown
<1>16. entry'.lots \in Int
  <2>1. after.dead => entry'.lots = lots BY <1>1
  <2> QED BY <1>8, <1>14, <2>1
<1>17. CapturedIntervalsChain
  <2> SUFFICES ASSUME ~after.dead
               PROVE  IntervalValid(interval') /\ ContinuesFrom(interval', interval.after)
    BY <1>1, <1>7 DEF CapturedIntervalsChain
  <2>1. IntervalValid(interval')
    <3>1. Worth(after) > 0 BY <1>3, <1>8, <1>9
    <3>2. interval'.paid >= 0 BY <1>3, <1>4, <1>6, <1>7
    <3>3. position.lots = 0 => interval'.got = 0 BY <1>3, <1>6, <1>7
    <3> QED BY <1>2, <1>7, <3>1, <3>2, <3>3 DEF IntervalValid
  <2>2. after.cost - position.cost = interval'.paid /\ after.fund - position.fund = interval'.got
    BY <1>7
  <2>3. position.lots = 0 /\ after.lots = 0 => interval'.paid = 0 /\ after.cash - position.cash = 0
    BY <1>3, <1>4, <1>6, <1>7
  <2> QED BY <1>2, <1>7, <2>1, <2>2, <2>3 DEF ContinuesFrom
<1> QED BY <1>1, <1>3, <1>5, <1>10, <1>11, <1>13, <1>15, <1>16, <1>17

(* What a goal makes of the risk rules: an integer, of the sign of the goal when it is a limit. *)
LEMMA RiskGivesLots ==
  ASSUME NEW goal \in Int, NEW cut \in RiskOutcomes(goal), position.lots \in Int
  PROVE  /\ cut.lots \in Int
         /\ cut.rule = "none" => cut.lots = goal
         /\ goal = position.lots => cut.lots = goal \/ cut.lots = Sgn(goal)
<1>1. CASE cut = [rule |-> "none", lots |-> goal] BY <1>1
<1>2. CASE goal # position.lots /\ cut = [rule |-> "turnover", lots |-> position.lots + Sgn(goal - position.lots)]
  BY <1>2 DEF Sgn
<1>3. CASE cut = [rule |-> "limit", lots |-> Sgn(goal)] BY <1>3 DEF Sgn
<1> QED BY <1>1, <1>2, <1>3 DEF RiskOutcomes

(* A step of the loop: the invariant and what the step may never do. *)
StepFaithful == ReplayInv' /\ UnlockedFollowsBudget' /\ HoldIsKept /\ CapturedIntervalsChain

(* A bar the strategy decides. *)
LEMMA AgentKeeps ==
  ASSUME ReplayInv, NEW asked \in Intents, NEW protective \in BOOLEAN, NEW cut, NEW lots \in AllLots,
         NEW rate \in Funding, AgentBar(asked, protective, cut, lots, rate)
  PROVE  StepFaithful
<1> DEFINE suppressed == Suppressed(asked, protective)
           decided == Remembered(asked, suppressed)
           rebound == cut.rule = "limit"
<1>1. /\ replay.running /\ cut \in RiskOutcomes(decided.desired) /\ ExecuteAndRecord(cut.lots, lots, rate)
      /\ policy' = [decided EXCEPT
           !.desired = IF rebound THEN cut.lots ELSE @,
           !.age = NextPositionAgeBars(@, position.lots, lots),
           !.exact = FALSE,
           !.locked = suppressed /\ lots # 0]
      /\ capped' = (rebound \/ (capped /\ decided.intent = policy.intent))
      /\ lastStep' = [kind |-> IF suppressed THEN "held" ELSE "decided", asked |-> asked,
                      risk |-> cut.rule, from |-> position.lots, age |-> policy.age]
  BY DEF AgentBar
<1>2. /\ position.lots \in Int /\ policy.intent \in Int /\ policy.desired \in Int /\ policy.age \in Int
      /\ DOMAIN policy = PolicyKeys /\ policy.locked \in BOOLEAN /\ capped \in BOOLEAN
  BY DEF ReplayInv, LoopTyped, BookKept, BookTyped
<1>3. lots \in Int /\ asked \in Int /\ Lots \in Int BY ReplayAssumption DEF AllLots, Intents
<1>4. suppressed \in BOOLEAN /\ (suppressed => position.lots # 0) BY DEF Suppressed
<1>5. TargetLots(asked) \in Int BY <1>3 DEF TargetLots
<1>6. /\ DOMAIN decided = PolicyKeys /\ decided.age = policy.age
      /\ suppressed => decided.intent = Sgn(position.lots) /\ decided.desired = position.lots
      /\ ~suppressed /\ (asked # policy.intent \/ policy.locked) =>
           decided.intent = asked /\ decided.desired = TargetLots(asked)
      /\ ~suppressed /\ asked = policy.intent /\ ~policy.locked => decided = policy
  BY <1>2 DEF Remembered, PolicyKeys
<1>7. decided.intent \in Int /\ decided.desired \in Int
  BY <1>2, <1>3, <1>4, <1>5, <1>6 DEF Sgn
<1> HIDE DEF decided
<1>8. /\ DOMAIN policy' = PolicyKeys /\ policy'.intent = decided.intent
      /\ policy'.desired = IF rebound THEN cut.lots ELSE decided.desired
      /\ policy'.age = NextPositionAgeBars(policy.age, position.lots, lots)
      /\ policy'.locked = (suppressed /\ lots # 0)
  BY <1>1, <1>6 DEF PolicyKeys
<1>9. /\ cut.lots \in Int /\ (cut.rule = "none" => cut.lots = decided.desired)
      /\ decided.desired = position.lots => cut.lots = decided.desired \/ cut.lots = Sgn(decided.desired)
  BY <1>1, <1>2, <1>7, RiskGivesLots
<1>10. Aged(lots) BY <1>8 DEF Aged
<1>11. /\ BookKept' /\ AgeCountsHolding' /\ EntryIsKnown' /\ CapturedIntervalsChain
       /\ position'.lots = lots /\ replay'.mode = replay.mode /\ replay'.bar = replay.bar + 1
       /\ DOMAIN replay' = {"mode", "bar", "running"} /\ entry'.lots \in Int /\ opened' \in Int
  BY <1>1, <1>3, <1>10, BarKeeps
<1>12. lots \in Path(position.lots, cut.lots) BY <1>1 DEF ExecuteAndRecord
<1>13. suppressed => lots # 0
  BY <1>2, <1>3, <1>4, <1>6, <1>9, <1>12 DEF Path, Sgn
<1>14. policy'.age \in Int BY <1>2, <1>8 DEF NextPositionAgeBars
<1>15. LoopTyped'
  BY <1>1, <1>2, <1>4, <1>7, <1>8, <1>9, <1>11, <1>14, replay.bar \in Int DEF LoopTyped, ReplayInv
<1>16. lastStep'.kind = "decided" <=> ~suppressed BY <1>1
<1>17. SizeFollows'
  <2>1. ASSUME replay.mode # "scripted", ~capped', ~policy'.locked
        PROVE  policy'.desired = TargetLots(policy'.intent)
    <3>1. ~suppressed BY <1>8, <1>13, <2>1
    <3>2. ~rebound /\ policy'.desired = decided.desired BY <1>1, <1>8, <2>1
    <3>3. CASE asked # policy.intent \/ policy.locked BY <1>6, <1>8, <3>1, <3>2, <3>3
    <3>4. CASE asked = policy.intent /\ ~policy.locked
      <4>1. decided = policy BY <1>6, <3>1, <3>4
      <4>2. ~capped BY <1>1, <2>1, <4>1
      <4>3. policy.desired = TargetLots(policy.intent) BY <2>1, <3>4, <4>2 DEF ReplayInv, SizeFollows
      <4> QED BY <1>8, <3>2, <4>1, <4>3
    <3> QED BY <1>2, <3>3, <3>4
  <2>2. lastStep'.kind = "decided" => ~policy'.locked BY <1>8, <1>16
  <2>3. (replay.mode # "scripted" /\ ~capped /\ ~policy.locked => policy.desired = TargetLots(policy.intent))'
    BY <1>11, <2>1 DEF TargetLots
  <2> QED BY <2>2, <2>3 DEF SizeFollows
<1>18. HoldIsKept
  <2> SUFFICES ASSUME lastStep'.risk = "none", position.lots # 0, replay.bar - opened < HoldBars,
                      lastStep'.asked # 0
               PROVE  lots = position.lots
    BY <1>11 DEF HoldIsKept
  <2>1. asked # 0 /\ cut.rule = "none" BY <1>1
  <2>2. policy.age = replay.bar - opened BY DEF ReplayInv, AgeCountsHolding
  <2>3. suppressed BY <2>1, <2>2 DEF Suppressed
  <2>4. cut.lots = position.lots BY <1>6, <1>9, <2>1, <2>3
  <2> QED BY <1>2, <1>3, <1>12, <2>4 DEF Path
<1>19. ReplayInv' BY <1>11, <1>15, <1>17 DEF ReplayInv
<1>20. UnlockedFollowsBudget' BY <1>17 DEF SizeFollows, UnlockedFollowsBudget
<1> QED BY <1>11, <1>18, <1>19, <1>20 DEF StepFaithful

(* A scripted bar without an action, or that holds the exact quantity. *)
LEMMA ScriptKeeps ==
  ASSUME ReplayInv, NEW ask, NEW cut, NEW lots \in AllLots, NEW rate \in Funding,
         ScriptedBar(ask, cut, lots, rate)
  PROVE  StepFaithful
<1> DEFINE exact == ask = KeepAsk \/ policy.exact
           intent == IF ask = KeepAsk THEN Sgn(position.lots) ELSE policy.intent
           goal == IF exact THEN position.lots ELSE policy.desired
           effective == exact /\ cut.lots = goal
<1>1. /\ replay.mode = "scripted" /\ replay.running /\ cut \in RiskOutcomes(goal)
      /\ ExecuteAndRecord(cut.lots, lots, rate)
      /\ policy' = [policy EXCEPT
           !.intent = intent,
           !.exact = effective,
           !.desired = IF cut.rule = "limit" \/ (exact /\ ~effective) THEN cut.lots ELSE goal,
           !.age = NextPositionAgeBars(@, position.lots, lots),
           !.locked = FALSE]
      /\ capped' = capped /\ lastStep'.kind = "scripted"
  BY DEF ScriptedBar
<1>2. /\ position.lots \in Int /\ policy.intent \in Int /\ policy.desired \in Int /\ policy.age \in Int
      /\ DOMAIN policy = PolicyKeys /\ capped \in BOOLEAN /\ replay.bar \in Int
  BY DEF ReplayInv, LoopTyped, BookKept, BookTyped
<1>3. lots \in Int BY ReplayAssumption DEF AllLots
<1>4. goal \in Int /\ intent \in Int BY <1>2 DEF Sgn
<1>5. cut.lots \in Int BY <1>1, <1>2, <1>4, RiskGivesLots
<1>6. /\ DOMAIN policy' = PolicyKeys /\ policy'.intent = intent /\ policy'.locked = FALSE
      /\ policy'.desired \in {cut.lots, goal}
      /\ policy'.age = NextPositionAgeBars(policy.age, position.lots, lots)
  BY <1>1, <1>2 DEF PolicyKeys
<1> HIDE DEF goal, intent, exact
<1>7. Aged(lots) BY <1>6 DEF Aged
<1>8. /\ BookKept' /\ AgeCountsHolding' /\ EntryIsKnown' /\ CapturedIntervalsChain
      /\ replay'.mode = replay.mode /\ replay'.bar = replay.bar + 1
      /\ DOMAIN replay' = {"mode", "bar", "running"} /\ entry'.lots \in Int /\ opened' \in Int
  BY <1>1, <1>3, <1>7, BarKeeps
<1>9. policy'.age \in Int BY <1>2, <1>6 DEF NextPositionAgeBars
<1>10. LoopTyped' BY <1>1, <1>2, <1>4, <1>5, <1>6, <1>8, <1>9 DEF LoopTyped
<1>11. SizeFollows' /\ UnlockedFollowsBudget' BY <1>1, <1>8 DEF SizeFollows, UnlockedFollowsBudget
<1>12. HoldIsKept BY <1>1 DEF HoldIsKept
<1> QED BY <1>8, <1>10, <1>11, <1>12 DEF StepFaithful, ReplayInv

(* A bar of the terminal settlement. *)
LEMMA SettleKeeps ==
  ASSUME ReplayInv, NEW cut, NEW lots \in AllLots, NEW rate \in Funding, SettleBar(cut, lots, rate)
  PROVE  StepFaithful
<1>1. /\ replay.running /\ ExecuteAndRecord(cut.lots, lots, rate)
      /\ policy' = [policy EXCEPT !.age = NextPositionAgeBars(@, position.lots, lots),
                                  !.desired = IF replay.mode = "single" THEN 0 ELSE @,
                                  !.intent = IF replay.mode = "single" THEN 0 ELSE @]
      /\ capped' = capped /\ lastStep'.kind = "settle"
  BY DEF SettleBar
<1>2. /\ position.lots \in Int /\ policy.intent \in Int /\ policy.desired \in Int /\ policy.age \in Int
      /\ DOMAIN policy = PolicyKeys /\ capped \in BOOLEAN /\ replay.bar \in Int /\ policy.locked \in BOOLEAN
  BY DEF ReplayInv, LoopTyped, BookKept, BookTyped
<1>3. lots \in Int /\ Lots \in Int BY ReplayAssumption DEF AllLots
<1>4. /\ DOMAIN policy' = PolicyKeys /\ policy'.locked = policy.locked
      /\ policy'.desired = IF replay.mode = "single" THEN 0 ELSE policy.desired
      /\ policy'.intent = IF replay.mode = "single" THEN 0 ELSE policy.intent
      /\ policy'.age = NextPositionAgeBars(policy.age, position.lots, lots)
  BY <1>1, <1>2 DEF PolicyKeys
<1>5. Aged(lots) BY <1>4 DEF Aged
<1>6. /\ BookKept' /\ AgeCountsHolding' /\ EntryIsKnown' /\ CapturedIntervalsChain
      /\ replay'.mode = replay.mode /\ replay'.bar = replay.bar + 1
      /\ DOMAIN replay' = {"mode", "bar", "running"} /\ entry'.lots \in Int /\ opened' \in Int
  BY <1>1, <1>3, <1>5, BarKeeps
<1>7. policy'.age \in Int BY <1>2, <1>4 DEF NextPositionAgeBars
<1>8. LoopTyped' BY <1>1, <1>2, <1>4, <1>6, <1>7 DEF LoopTyped
<1>9. TargetLots(0) = 0 BY <1>3 DEF TargetLots
<1>10. ASSUME replay.mode # "scripted", ~capped, ~policy.locked
       PROVE  policy'.desired = TargetLots(policy'.intent)
  BY <1>4, <1>9, <1>10 DEF ReplayInv, SizeFollows
<1>11. (replay.mode # "scripted" /\ ~capped /\ ~policy.locked => policy.desired = TargetLots(policy.intent))'
  BY <1>1, <1>4, <1>6, <1>10 DEF TargetLots
<1>12. SizeFollows' /\ UnlockedFollowsBudget' BY <1>1, <1>11 DEF SizeFollows, UnlockedFollowsBudget
<1>13. HoldIsKept BY <1>1 DEF HoldIsKept
<1> QED BY <1>6, <1>8, <1>12, <1>13 DEF StepFaithful, ReplayInv

(* The end of the loop. *)
LEMMA FinishKeeps == ASSUME ReplayInv, FinishReplay PROVE StepFaithful
<1>1. /\ replay' = [replay EXCEPT !.running = FALSE]
      /\ UNCHANGED <<position, policy, entry, interval, opened, capped, lastStep>>
  BY DEF FinishReplay
<1>2. /\ DOMAIN replay' = {"mode", "bar", "running"} /\ replay'.mode = replay.mode
      /\ replay'.bar = replay.bar /\ replay'.running = FALSE
  BY <1>1 DEF ReplayInv, LoopTyped
<1>3. LoopTyped' BY <1>1, <1>2 DEF ReplayInv, LoopTyped
<1>4. BookKept' BY <1>1, <1>2 DEF ReplayInv, BookKept, BookTyped
<1>5. SizeFollows' /\ UnlockedFollowsBudget'
  BY <1>1, <1>2 DEF ReplayInv, SizeFollows, UnlockedFollowsBudget, TargetLots
<1>6. AgeCountsHolding' /\ EntryIsKnown' BY <1>1, <1>2 DEF ReplayInv, AgeCountsHolding, EntryIsKnown
<1>7. HoldIsKept /\ CapturedIntervalsChain BY <1>1, <1>2 DEF HoldIsKept, CapturedIntervalsChain
<1> QED BY <1>3, <1>4, <1>5, <1>6, <1>7 DEF StepFaithful, ReplayInv

(* Every step of the loop is faithful. *)
LEMMA LoopStep == ReplayInv /\ ReplayNext => StepFaithful
<1> SUFFICES ASSUME ReplayInv, ReplayNext PROVE StepFaithful OBVIOUS
<1>1. CASE \E asked \in Intents, protective \in BOOLEAN, lots \in AllLots, rate \in Funding :
             \E cut \in RiskOutcomes(Remembered(asked, Suppressed(asked, protective)).desired) :
               AgentBar(asked, protective, cut, lots, rate)
  BY <1>1, AgentKeeps
<1>2. CASE \E ask \in {NoAsk, KeepAsk}, lots \in AllLots, rate \in Funding :
             \E goal \in {position.lots, policy.desired} : \E cut \in RiskOutcomes(goal) :
               ScriptedBar(ask, cut, lots, rate)
  BY <1>2, ScriptKeeps
<1>3. CASE \E lots \in AllLots, rate \in Funding : \E cut \in RiskOutcomes(0) : SettleBar(cut, lots, rate)
  BY <1>3, SettleKeeps
<1>4. CASE FinishReplay BY <1>4, FinishKeeps
<1> QED BY <1>1, <1>2, <1>3, <1>4 DEF ReplayNext

(* The inductive invariant of the loop. *)
THEOREM ReplayInvariant == ReplaySpec => []ReplayInv
<1>1. ReplayInv /\ [ReplayNext]_replayVars => ReplayInv'
  <2>1. ReplayInv /\ ReplayNext => ReplayInv' BY LoopStep DEF StepFaithful
  <2>2. ReplayInv /\ UNCHANGED replayVars => ReplayInv'
    BY DEF replayVars, ReplayInv, LoopTyped, BookKept, BookTyped, Worth, SizeFollows, TargetLots,
           AgeCountsHolding, EntryIsKnown
  <2> QED BY <2>1, <2>2
<1> QED BY <1>1, ReplayInitially, PTL DEF ReplaySpec

(* For every mode, window, hold, budget and funding: the age, the entry and the unlocked size *)
(* the loop remembers are those of what was executed, a hold is broken only by a protective    *)
(* exit or the risk rules, and each interval captured is one the strict loader accepts after   *)
(* the one before it (replay.py, runs/ridge_comparison_artifact.py _validate_ledger).          *)
THEOREM MemoryAlwaysMatches == ReplaySpec => MemoryMatchesExecution
<1>1. ReplayInv /\ [ReplayNext]_replayVars =>
        [ /\ (AgeCountsHolding /\ UnlockedFollowsBudget /\ EntryIsKnown)'
          /\ HoldIsKept
          /\ CapturedIntervalsChain ]_replayVars
  BY LoopStep DEF StepFaithful, ReplayInv
<1> QED BY <1>1, ReplayInvariant, PTL DEF ReplaySpec, MemoryMatchesExecution
=============================================================================
