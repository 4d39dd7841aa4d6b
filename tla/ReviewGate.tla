------------------------------ MODULE ReviewGate ------------------------------
(***************************************************************************)
(* The trusted semantic review of one execution pull request               *)
(* (tools/ppo_4h_gemini_review.py and the workflow that runs it).          *)
(*                                                                         *)
(* A comment starts a workflow run.  Its request job validates the comment *)
(* against the repository (RequestJob), builds the result-blind packet and *)
(* uploads it; trusted verification jobs follow; the review job validates  *)
(* everything again (Revalidate), proves from the artifacts and the jobs   *)
(* of earlier attempts that no verdict can exist yet (CheckLineage), asks  *)
(* the provider once (CallProvider), writes its five files, and an upload  *)
(* step publishes whatever files there are.  The repository changes        *)
(* between any two steps; a run may be re-run, wholly or from its failed   *)
(* jobs; the runner may be lost, the job cancelled, the upload refused,    *)
(* the artifacts may expire.  Only whole runs are concurrent: the attempts *)
(* of one run follow each other.                                           *)
(*                                                                         *)
(* A digest is the value it digests.  The calls a handler makes to the API *)
(* before it takes its next step are read in one state, except that the    *)
(* revalidation, the lineage inventory and the provider call are separate. *)
(***************************************************************************)
EXTENDS Integers, Sequences, FiniteSets, SequencesExt

CONSTANTS
    ReviewRuns,     \* the number of request comments, hence of workflow runs
    ReviewRequests, \* comment -> [user, tag, sha], canonical bodies
    ReviewShas,     \* commits
    ReviewDocs,     \* commit -> the lines of the document the packet quotes
    MaxReruns,      \* attempts of one run
    MaxHubChanges,  \* changes of the repository
    NoReview        \* what an edited body parses to, and an absent value

VARIABLES
    hub,            \* the repository: head, draft, tags, writers, main, comments
    review,         \* run -> where its current attempt is and what it carries
    packets,        \* uploaded packet artifacts
    verdicts,       \* uploaded result artifacts
    reviewSteps,    \* <<run, attempt>> -> what the job inventory says of it
    providerCalls   \* every request that reached the provider, in order

reviewVars == <<hub, review, packets, verdicts, reviewSteps, providerCalls>>

ReviewIds == 1..ReviewRuns
ReviewTags == {ReviewRequests[i].tag : i \in ReviewIds}
ReviewUsers == {ReviewRequests[i].user : i \in ReviewIds}

(***************************************************************************)
(* The repository as the API shows it (external).  A tag is an annotated   *)
(* object with a version and a target; lightweight tags have version 0.    *)
(***************************************************************************)
InitialHub ==
    [head     |-> ReviewRequests[1].sha,
     draft    |-> TRUE,
     tags     |-> [t \in ReviewTags |-> [object |-> 1, target |-> ReviewRequests[1].sha]],
     writers  |-> ReviewUsers,
     contains |-> ReviewShas,
     comments |-> [i \in ReviewIds |-> NoReview],
     changes  |-> 0]

-------------------------------------------------------------------------------
(* What the code reads of it. *)

\* A body that is not canonical parses to nothing and conflicts with nothing.
ParseRequestBody(body) == body

RequireReviewTag(tag) == tag \in ReviewTags

ReviewIdentity(sha) == sha

ValidateRequestCommentSnapshot(request, comment) ==
    /\ ParseRequestBody(comment) # NoReview
    /\ comment.user = request.user
    /\ comment.tag = request.tag
    /\ comment.sha = request.sha

RequesterWritePermission(user) == user \in hub.writers

RequireExecutionPull(sha) == hub.draft /\ hub.head = sha

RequireCurrentMainContained(sha) == sha \in hub.contains

ResolveReviewTag(tag, sha) ==
    /\ RequireReviewTag(tag)
    /\ hub.tags[tag].object # 0
    /\ hub.tags[tag].target = sha

CommentConflictsRequest(request, comment) ==
    /\ ParseRequestBody(comment) # NoReview
    /\ comment.tag = request.tag \/ comment.sha = request.sha

RequireNoPriorAuthorizedRequest(i) ==
    \A j \in ReviewIds :
        j < i /\ CommentConflictsRequest(ReviewRequests[i], hub.comments[j])
            => ~RequesterWritePermission(hub.comments[j].user)

(***************************************************************************)
(* The section of a markdown document under a heading: headings inside a   *)
(* fence do not count, the heading must occur once, and the section ends   *)
(* before the next heading of its level or above.  A line is [kind, level, *)
(* title]: a fence's level is its length and its title its character.      *)
(***************************************************************************)
InFence(lines) ==
    LET Step(open, line) ==
            IF line.kind # "fence" THEN open
            ELSE IF open = <<>> THEN <<line>>
            ELSE IF line.title = open[1].title /\ line.level >= open[1].level THEN <<>>
            ELSE open
    IN  FoldLeft(Step, <<>>, lines) # <<>>

Headings(lines) ==
    {k \in DOMAIN lines : lines[k].kind = "heading" /\ ~InFence(SubSeq(lines, 1, k - 1))}

MarkdownSection(lines, heading) ==
    LET starts == {k \in Headings(lines) : lines[k] = heading}
        start  == CHOOSE k \in starts : TRUE
        ends   == {k \in Headings(lines) : k > start /\ lines[k].level <= heading.level}
        last   == IF ends = {} THEN Len(lines)
                  ELSE (CHOOSE k \in ends : \A e \in ends : k <= e) - 1
    IN  IF Cardinality(starts) # 1 THEN NoReview ELSE SubSeq(lines, start, last)

PacketHeading == [kind |-> "heading", level |-> 2, title |-> "protocol"]

BuildResultBlindPacket(request, object) ==
    LET section == MarkdownSection(ReviewDocs[request.sha], PacketHeading)
    IN  IF section = NoReview THEN NoReview
        ELSE [sha |-> request.sha, tag |-> request.tag, object |-> object, section |-> section]

LoadReviewPacket(packet, outputs) ==
    /\ packet = outputs.packet
    /\ packet.sha = outputs.sha
    /\ packet.tag = outputs.tag
    /\ packet.object = outputs.object

-------------------------------------------------------------------------------
(* The lineage: what earlier attempts left behind.                          *)

\* A re-run of the failed jobs alone, and any failed set-up, skips the provider.
NoSteps == [review |-> FALSE, provider |-> "absent", upload |-> "absent"]

ProviderExecuted(steps) == steps.review /\ steps.provider = "completed"

AttemptRetryable(steps) == ProviderExecuted(steps) => steps.upload = "success"

\* Mutation: the packets of other runs of the same identity are passed over.
RequireReviewIdentityRetryable_OwnRunOnly(identity, i, attempt) ==
    /\ ~\E v \in verdicts : v.run = i
    /\ \A p \in packets :
          p.identity = identity /\ p.run = i =>
              /\ ~p.expired
              /\ p.attempt # attempt =>
                    p.attempt < attempt /\ AttemptRetryable(reviewSteps[p.run, p.attempt])

RequireReviewIdentityRetryable(identity, i, attempt) ==
    /\ ~\E v \in verdicts : v.run = i
    /\ \A p \in packets :
          p.identity = identity =>
              /\ ~p.expired
              /\ <<p.run, p.attempt>> # <<i, attempt>> =>
                    /\ p.run = i
                    /\ p.attempt < attempt
                    /\ AttemptRetryable(reviewSteps[p.run, p.attempt])

-------------------------------------------------------------------------------
(* The provider's answer and what is kept of it.                            *)

Verdicts == {"clear", "blocked", "clear_with_failed_gate"}

\* Anything but one complete, well-shaped, cleanly stopped candidate is refused.
ProviderAnswers == Verdicts \union {"malformed", "transport"}

ParseGeminiResponse(answer) == answer \in Verdicts

\* The workflow reads the disposition alone: a clear disposition beside a
\* failed gate is propagated as a pass.
Propagates(answer) == answer \in {"clear", "clear_with_failed_gate"}

BuildAttestation(i, answer) ==
    [run |-> i, attempt |-> review[i].attempt, comment |-> i,
     sha |-> review[i].outputs.sha, tag |-> review[i].outputs.tag,
     object |-> review[i].outputs.object, packet |-> review[i].outputs.packet,
     answer |-> answer]

\* The order in which run() writes its files.
OutputFiles == <<"packet", "request", "response", "attestation", "disposition">>

-------------------------------------------------------------------------------
FreshAttempt == [phase |-> "waiting", attempt |-> 0, outputs |-> NoReview, files |-> 0,
         attestation |-> NoReview]

ReviewInit ==
    /\ hub = InitialHub
    /\ review = [i \in ReviewIds |-> FreshAttempt]
    /\ packets = {}
    /\ verdicts = {}
    /\ reviewSteps = [k \in ReviewIds \X (1..MaxReruns) |-> NoSteps]
    /\ providerCalls = <<>>

Key(i) == <<i, review[i].attempt>>

Goto(i, phase) == review' = [review EXCEPT ![i].phase = phase]

\* A comment is created; its event starts a run whose id orders like the comment's.
CommentCreated(i) ==
    /\ hub.comments[i] = NoReview /\ review[i].attempt = 0
    /\ \A j \in ReviewIds : j < i => review[j].attempt > 0
    /\ hub' = [hub EXCEPT !.comments[i] = ReviewRequests[i]]
    /\ review' = [review EXCEPT ![i] = [FreshAttempt EXCEPT !.phase = "request", !.attempt = 1]]
    /\ UNCHANGED <<packets, verdicts, reviewSteps, providerCalls>>

RequestIsValid(i) ==
    LET request == ReviewRequests[i]
    IN  /\ ValidateRequestCommentSnapshot(request, hub.comments[i])
        /\ RequesterWritePermission(request.user)
        /\ RequireExecutionPull(request.sha)
        /\ RequireCurrentMainContained(request.sha)
        /\ ResolveReviewTag(request.tag, request.sha)
        /\ RequireNoPriorAuthorizedRequest(i)

\* The request job: validation, packet, upload of the packet.  Every refusal,
\* a failed API call included, ends the run before anything is uploaded.
RequestJob(i) ==
    LET request == ReviewRequests[i]
        object  == hub.tags[request.tag].object
        packet  == BuildResultBlindPacket(request, object)
    IN  /\ review[i].phase = "request"
        /\ \/ /\ RequestIsValid(i)
              /\ packet # NoReview
              /\ packets' = packets \union
                    {[run |-> i, attempt |-> review[i].attempt,
                      identity |-> ReviewIdentity(request.sha), expired |-> FALSE]}
              /\ review' = [review EXCEPT ![i] = [@ EXCEPT !.phase = "verify",
                    !.outputs = [sha |-> request.sha, tag |-> request.tag,
                                 object |-> object, packet |-> packet]]]
           \/ /\ Goto(i, "ended")
              /\ UNCHANGED packets
        /\ UNCHANGED <<hub, verdicts, reviewSteps, providerCalls>>

\* The trusted verification jobs: the review job needs all of them.
VerificationJobs(i) ==
    /\ review[i].phase = "verify"
    /\ \E green \in BOOLEAN :
          IF green
          THEN /\ Goto(i, "revalidate")
               /\ reviewSteps' = [reviewSteps EXCEPT ![Key(i)] =
                     [@ EXCEPT !.review = TRUE, !.provider = "in_progress"]]
          ELSE Goto(i, "ended") /\ UNCHANGED reviewSteps
    /\ UNCHANGED <<hub, packets, verdicts, providerCalls>>

StillValid(i) ==
    LET o == review[i].outputs
    IN  /\ ResolveReviewTag(o.tag, o.sha)
        /\ hub.tags[o.tag].object = o.object
        /\ RequireCurrentMainContained(o.sha)
        /\ RequireExecutionPull(o.sha)
        /\ RequesterWritePermission(ReviewRequests[i].user)
        /\ ValidateRequestCommentSnapshot(ReviewRequests[i], hub.comments[i])
        /\ RequireNoPriorAuthorizedRequest(i)

\* The step that runs the reviewer ends; the upload step runs whatever it did.
Revalidate(i) ==
    /\ review[i].phase = "revalidate"
    /\ \/ StillValid(i) /\ Goto(i, "lineage")
       \/ Goto(i, "step_end")
    /\ UNCHANGED <<hub, packets, verdicts, reviewSteps, providerCalls>>

CheckLineage(i) ==
    /\ review[i].phase = "lineage"
    /\ IF /\ RequireReviewIdentityRetryable(ReviewIdentity(review[i].outputs.sha), i,
                                            review[i].attempt)
          /\ LoadReviewPacket(review[i].outputs.packet, review[i].outputs)
       THEN Goto(i, "provider")
       ELSE Goto(i, "step_end")
    /\ UNCHANGED <<hub, packets, verdicts, reviewSteps, providerCalls>>

CallProvider(i) ==
    /\ review[i].phase = "provider"
    /\ \E answer \in ProviderAnswers :
          /\ providerCalls' = Append(providerCalls,
                [run |-> i, attempt |-> review[i].attempt,
                 identity |-> ReviewIdentity(review[i].outputs.sha), answer |-> answer])
          /\ review' = [review EXCEPT ![i] =
                IF ParseGeminiResponse(answer)
                THEN [@ EXCEPT !.phase = "writing", !.attestation = BuildAttestation(i, answer)]
                ELSE [@ EXCEPT !.phase = "step_end"]]
    /\ UNCHANGED <<hub, packets, verdicts, reviewSteps>>

WriteOutputFile(i) ==
    /\ review[i].phase = "writing"
    /\ review' = [review EXCEPT ![i] = [@ EXCEPT !.files = review[i].files + 1,
          !.phase = IF review[i].files + 1 = Len(OutputFiles) THEN "step_end" ELSE "writing"]]
    /\ UNCHANGED <<hub, packets, verdicts, reviewSteps, providerCalls>>

\* A cancelled job, or one over its time, ends the step where it is.
CancelStep(i) ==
    /\ review[i].phase \in {"revalidate", "lineage", "provider", "writing"}
    /\ Goto(i, "step_end")
    /\ UNCHANGED <<hub, packets, verdicts, reviewSteps, providerCalls>>

ProviderStepEnds(i) ==
    /\ review[i].phase = "step_end"
    /\ Goto(i, "upload")
    /\ reviewSteps' = [reviewSteps EXCEPT ![Key(i)] = [@ EXCEPT !.provider = "completed"]]
    /\ UNCHANGED <<hub, packets, verdicts, providerCalls>>

\* The upload step always runs; without files it warns, succeeds and uploads
\* nothing, and it uploads the files there are.
UploadEvidence(i) ==
    /\ review[i].phase = "upload"
    /\ \E outcome \in {"success", "failure"} :
          /\ reviewSteps' = [reviewSteps EXCEPT ![Key(i)] = [@ EXCEPT !.upload = outcome]]
          /\ verdicts' = IF outcome = "failure" \/ review[i].files = 0 THEN verdicts
                ELSE verdicts \union
                     {[run |-> i, attempt |-> review[i].attempt, expired |-> FALSE,
                       files |-> review[i].files,
                       passes |-> /\ review[i].files = Len(OutputFiles)
                                  /\ Propagates(review[i].attestation.answer),
                       attestation |-> IF review[i].files >= 4 THEN review[i].attestation
                                       ELSE NoReview]}
    /\ Goto(i, "ended")
    /\ UNCHANGED <<hub, packets, providerCalls>>

\* The runner is lost: nothing more of the attempt is reported.
RunnerLost(i) ==
    /\ review[i].phase \notin {"waiting", "ended"}
    /\ Goto(i, "ended")
    /\ UNCHANGED <<hub, packets, verdicts, reviewSteps, providerCalls>>

\* All jobs are run again: the event, hence the comment id, is the same.
RerunAll(i) ==
    /\ review[i].phase = "ended" /\ review[i].attempt < MaxReruns
    /\ review' = [review EXCEPT ![i] =
          [FreshAttempt EXCEPT !.phase = "request", !.attempt = review[i].attempt + 1]]
    /\ UNCHANGED <<hub, packets, verdicts, reviewSteps, providerCalls>>

\* The failed jobs are run again with the outputs of the request job.  The
\* packet of the new attempt does not exist: the download fails, the provider
\* step is skipped, and the upload step finds nothing to upload.
RerunFailed(i) ==
    /\ review[i].phase = "ended" /\ review[i].attempt < MaxReruns
    /\ review[i].outputs # NoReview
    /\ review' = [review EXCEPT ![i] =
          [@ EXCEPT !.attempt = review[i].attempt + 1, !.files = 0, !.attestation = NoReview]]
    /\ reviewSteps' = [reviewSteps EXCEPT ![<<i, review[i].attempt + 1>>] =
          [review |-> TRUE, provider |-> "skipped", upload |-> "success"]]
    /\ UNCHANGED <<hub, packets, verdicts, providerCalls>>

-------------------------------------------------------------------------------
(* The repository changes under the runs (external).                        *)
Change(new) ==
    /\ hub.changes < MaxHubChanges
    /\ hub' = [new EXCEPT !.changes = hub.changes + 1]
    /\ UNCHANGED <<review, packets, verdicts, reviewSteps, providerCalls>>

HubChange ==
    \/ \E i \in ReviewIds : hub.comments[i] # NoReview /\ Change([hub EXCEPT !.comments[i] = NoReview])
    \/ \E u \in hub.writers : Change([hub EXCEPT !.writers = @ \ {u}])
    \/ \E t \in ReviewTags, s \in ReviewShas :
          Change([hub EXCEPT !.tags[t] = [object |-> @.object + 1, target |-> s]])
    \/ \E s \in ReviewShas \ {hub.head} : Change([hub EXCEPT !.head = s])
    \/ hub.draft /\ Change([hub EXCEPT !.draft = FALSE])
    \/ \E s \in hub.contains : Change([hub EXCEPT !.contains = @ \ {s}])

\* Retention ends for an artifact.
ArtifactExpires ==
    /\ \/ \E p \in packets : ~p.expired /\ packets' = (packets \ {p}) \union {[p EXCEPT !.expired = TRUE]}
                             /\ UNCHANGED verdicts
       \/ \E v \in verdicts : ~v.expired /\ verdicts' = (verdicts \ {v}) \union {[v EXCEPT !.expired = TRUE]}
                              /\ UNCHANGED packets
    /\ hub.changes < MaxHubChanges
    /\ hub' = [hub EXCEPT !.changes = @ + 1]
    /\ UNCHANGED <<review, reviewSteps, providerCalls>>

ReviewNext ==
    \/ \E i \in ReviewIds :
          \/ CommentCreated(i) \/ RequestJob(i) \/ VerificationJobs(i) \/ Revalidate(i)
          \/ CheckLineage(i) \/ CallProvider(i) \/ WriteOutputFile(i) \/ CancelStep(i)
          \/ ProviderStepEnds(i) \/ UploadEvidence(i) \/ RunnerLost(i)
          \/ RerunAll(i) \/ RerunFailed(i)
    \/ HubChange
    \/ ArtifactExpires

ReviewSpec == ReviewInit /\ [][ReviewNext]_reviewVars

-------------------------------------------------------------------------------
(* One verdict per reviewed commit: whatever is cancelled, lost, re-run or   *)
(* requested again, at most one attestation of a commit is ever published,   *)
(* the published one answers the last request the provider got for that      *)
(* commit, so that a verdict that is out is never asked for again, and the   *)
(* packet it attests is that of the commit and tag object it names           *)
(* (require_review_identity_retryable, run()).                               *)
OneVerdictPerCommit ==
    LET attested == {v \in verdicts : v.attestation # NoReview}
        calls(s) == {k \in DOMAIN providerCalls : providerCalls[k].identity = ReviewIdentity(s)}
    IN  \A v \in attested :
          /\ \A w \in attested : w.attestation.sha = v.attestation.sha =>
                <<w.run, w.attempt>> = <<v.run, v.attempt>>
          /\ \E k \in calls(v.attestation.sha) :
                /\ <<providerCalls[k].run, providerCalls[k].attempt>> = <<v.run, v.attempt>>
                /\ \A c \in calls(v.attestation.sha) : c <= k
          /\ v.attestation.packet.sha = v.attestation.sha
          /\ v.attestation.packet.object = v.attestation.object
===============================================================================
