------------------------- MODULE FinalAuthorization -------------------------
(* The gate to the final evaluation (evaluation/final_test), composed with   *)
(* the Study it reads: an authorizer rebuilds the frozen Study, stages one   *)
(* authorization beside its output root, claims the root with an exclusive   *)
(* file, renames, and re-binds what it published to the Study.  A step may   *)
(* raise and a process may be killed anywhere.                               *)
EXTENDS StudyLedger

CONSTANTS
  Authorizers,   \* processes that call authorize_final_evaluation
  OutputRoots    \* the roots they are given

VARIABLES
  sealed,      \* the authorization in each output root, or Unsealed
  claim,       \* the creator of each root's .claim file, or Unclaimed
  authorizer,  \* local state of each process
  granted      \* history: what authorize_final_evaluation returned

finalVars == <<sealed, claim, authorizer, granted>>

Unsealed == [by |-> "none"]
Unclaimed == "unclaimed"
ASSUME AuthorizerAssumption == Unclaimed \notin Authorizers
IdleAuthorizer == [pc |-> "idle"]

FinalInit ==
  /\ Init
  /\ sealed = [r \in OutputRoots |-> Unsealed]
  /\ claim = [r \in OutputRoots |-> Unclaimed]
  /\ authorizer = [a \in Authorizers |-> IdleAuthorizer]
  /\ granted = {}

-----------------------------------------------------------------------------
(* Mutation: any frozen Study is enough. *)
WinnerSnapshotAnyFreeze == Reconstructs /\ freeze # NotFrozen

(* _winner_snapshot: inspect_study, then a frozen WINNER whose evidence is in the lineage.   *)
WinnerSnapshot ==
  /\ Reconstructs
  /\ freeze.outcome = "WINNER"
  /\ freeze.selected # None
  /\ freeze.selected \in Lineage

(* FinalEvaluationAuthorization: what it binds of the Study. *)
AuthorizationFromStudy(a) == [by |-> a, winner |-> freeze.selected, decided |-> freeze.decided]

(* _validate_study_binding *)
BindsStudy(auth) ==
  WinnerSnapshot /\ auth.winner = freeze.selected /\ auth.decided = freeze.decided

(* authorize_final_evaluation up to the staged artifact: the gate, _checked_new_root, and    *)
(* the authorization written and flushed under a name of its own.                            *)
StageAuthorization(a, r) ==
  /\ authorizer[a].pc = "idle"
  /\ WinnerSnapshot
  /\ sealed[r] = Unsealed
  /\ authorizer' = [authorizer EXCEPT ![a] =
       [pc |-> "staged", root |-> r, auth |-> AuthorizationFromStudy(a)]]
  /\ UNCHANGED <<sealed, claim, granted>>

(* Mutation: the claim is opened without O_EXCL. *)
ClaimPublicationShared(a) ==
  /\ authorizer[a].pc = "staged"
  /\ claim' = [claim EXCEPT ![authorizer[a].root] = a]
  /\ authorizer' = [authorizer EXCEPT ![a] = [@ EXCEPT !.pc = "claimed"]]
  /\ UNCHANGED <<sealed, granted>>

(* _claim_publication: O_CREAT | O_EXCL; an existing claim refuses, and staging is removed.  *)
(* The write or the flush of a new claim may raise: the file stays.                          *)
ClaimPublication(a) ==
  LET r == authorizer[a].root IN
  /\ authorizer[a].pc = "staged"
  /\ \/ /\ claim[r] = Unclaimed
        /\ claim' = [claim EXCEPT ![r] = a]
        /\ authorizer' = [authorizer EXCEPT ![a] = [@ EXCEPT !.pc = "claimed"]]
     \/ /\ claim[r] = Unclaimed
        /\ claim' = [claim EXCEPT ![r] = a]
        /\ authorizer' = [authorizer EXCEPT ![a] = IdleAuthorizer]
     \/ /\ claim[r] # Unclaimed
        /\ authorizer' = [authorizer EXCEPT ![a] = IdleAuthorizer]
        /\ UNCHANGED claim
  /\ UNCHANGED <<sealed, granted>>

(* Mutation: an existing root is replaced. *)
RenameStagingReplacing(a) ==
  /\ authorizer[a].pc = "claimed"
  /\ sealed' = [sealed EXCEPT ![authorizer[a].root] = authorizer[a].auth]
  /\ authorizer' = [authorizer EXCEPT ![a] = [@ EXCEPT !.pc = "renamed"]]
  /\ UNCHANGED <<claim, granted>>

(* The target is looked at again and the staging directory renamed to it; a refusal or a     *)
(* failing rename removes staging and keeps the claim.                                       *)
RenameStaging(a) ==
  LET r == authorizer[a].root IN
  /\ authorizer[a].pc = "claimed"
  /\ \/ /\ sealed[r] = Unsealed
        /\ sealed' = [sealed EXCEPT ![r] = authorizer[a].auth]
        /\ authorizer' = [authorizer EXCEPT ![a] = [@ EXCEPT !.pc = "renamed"]]
     \/ /\ authorizer' = [authorizer EXCEPT ![a] = IdleAuthorizer]
        /\ UNCHANGED sealed
  /\ UNCHANGED <<claim, granted>>

(* The claim of a published root is removed; an OSError is swallowed. *)
ReleaseClaim(a) ==
  /\ authorizer[a].pc = "renamed"
  /\ \/ claim' = [claim EXCEPT ![authorizer[a].root] = Unclaimed]
     \/ UNCHANGED claim
  /\ authorizer' = [authorizer EXCEPT ![a] = [@ EXCEPT !.pc = "published"]]
  /\ UNCHANGED <<sealed, granted>>

(* inspect_final_evaluation_authorization on the published root; equal to what was issued.   *)
InspectAuthorization(a) ==
  LET r == authorizer[a].root IN
  /\ authorizer[a].pc = "published"
  /\ granted' = IF BindsStudy(sealed[r]) /\ sealed[r] = authorizer[a].auth
                THEN granted \union {<<r, authorizer[a].auth>>} ELSE granted
  /\ authorizer' = [authorizer EXCEPT ![a] = IdleAuthorizer]
  /\ UNCHANGED <<sealed, claim>>

(* The process is killed; a staging directory it leaves has a name nothing reads. *)
KillAuthorizer(a) ==
  /\ authorizer[a].pc # "idle"
  /\ authorizer' = [authorizer EXCEPT ![a] = IdleAuthorizer]
  /\ UNCHANGED <<sealed, claim, granted>>

AuthorizerStep(a) ==
  \/ \E r \in OutputRoots : StageAuthorization(a, r)
  \/ ClaimPublication(a) \/ RenameStaging(a) \/ ReleaseClaim(a)
  \/ InspectAuthorization(a) \/ KillAuthorizer(a)

FinalNext ==
  \/ Next /\ UNCHANGED finalVars
  \/ (\E a \in Authorizers : AuthorizerStep(a)) /\ UNCHANGED vars

FinalSpec == FinalInit /\ [][FinalNext]_<<vars, finalVars>>

-----------------------------------------------------------------------------
(* An authorization that exists binds the frozen WINNER of its Study, and the Study still    *)
(* rebuilds: nothing that happens in the Study after the gate (authorize_final_evaluation    *)
(* reads it twice, without its lock) can separate the two.                                   *)
SealedBindsWinner ==
  \A r \in OutputRoots : sealed[r] # Unsealed =>
    /\ freeze.outcome = "WINNER" /\ Reconstructs
    /\ sealed[r].winner = freeze.selected /\ sealed[r].winner \in Lineage
    /\ sealed[r].decided = freeze.decided

(* The detailed protocol of staging, claim, rename and re-binding implements a write-once    *)
(* cell per output root: a root never changes once it is sealed, and what                    *)
(* authorize_final_evaluation returned is what the root holds.                               *)
Once == INSTANCE WriteOnce WITH
  Cells <- OutputRoots, Empty <- Unsealed, cell <- sealed, seen <- granted
SealedOnce == Once!OnceSpec

(* A root is sealed only by the process that created the root's claim, so a claim left by a  *)
(* process that died or failed between claim and rename closes the root for good.            *)
ClaimantSeals ==
  [][\A r \in OutputRoots : sealed'[r] # sealed[r] => claim[r] = sealed'[r].by]_<<vars, finalVars>>
=============================================================================
