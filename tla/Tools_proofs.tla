----------------------------- MODULE Tools_proofs -----------------------------
(*****************************************************************************)
(* Proofs about the tools of the repository, for any number of requests,     *)
(* processes, samples and coordinators: a commit has at most one published   *)
(* verdict of the trusted review, the family of a contained child stays in   *)
(* its Job Object and a sample of it is exact, the coordination registry     *)
(* never changes who writes a task, its scheduler's selection keeps apart    *)
(* what clashes, and what the restartable stages of the                      *)
(* checkpoint study merge is of one fit and of one review.                   *)
(*****************************************************************************)
EXTENDS ReviewGate, ProcessContainment, CoordinationRegistry, CheckpointPipeline,
        FiniteSetTheorems, SequenceTheorems, WellFoundedInduction, TLAPS

-----------------------------------------------------------------------------
(* The trusted semantic review. *)

(* The inductive invariant of the review. An attempt that carries outputs has uploaded its      *)
(* packet; a run at the provider is the only one that ever asked about its commit and has no    *)
(* verdict yet; the answer it carries is the last one given for that commit.                    *)
RunFields == {"phase", "attempt", "outputs", "files", "attestation"}
BeforeAnswer == {"waiting", "request", "verify", "revalidate", "lineage", "provider"}
Answered == {"writing", "step_end", "upload"}
Carrying == {"verify", "revalidate", "lineage", "provider"} \union Answered
CallRecords == [run : ReviewIds, attempt : Nat, identity : {ReviewRequests[i].sha : i \in ReviewIds},
                answer : ProviderAnswers]

PacketOf(ps, i, s) == \E p \in ps : p.run = i /\ p.identity = s
NoVerdictOf(i) == \A v \in verdicts : v.run # i

LastCall(calls, s, i, n) ==
  \E k \in DOMAIN calls :
    /\ calls[k].identity = s /\ calls[k].run = i /\ calls[k].attempt = n
    /\ \A c \in DOMAIN calls : calls[c].identity = s => c <= k

Attests(calls, a, i, n) ==
  a.packet.sha = a.sha /\ a.packet.object = a.object /\ LastCall(calls, a.sha, i, n)

RunSound(i) ==
  LET r == review[i] IN
  /\ DOMAIN r = RunFields /\ r.attempt \in Nat
  /\ r.phase \in BeforeAnswer => r.attestation = NoReview /\ r.files = 0
  /\ r.phase \in Carrying =>
       /\ r.outputs.sha = ReviewRequests[i].sha /\ PacketOf(packets, i, r.outputs.sha)
       /\ r.outputs.packet.sha = r.outputs.sha /\ r.outputs.packet.object = r.outputs.object
  /\ r.phase \in {"provider", "writing"} \/ (r.phase \in {"step_end", "upload"} /\ r.files # 0) =>
       NoVerdictOf(i)
  /\ r.phase \in Answered /\ r.attestation # NoReview => Attests(providerCalls, r.attestation, i, r.attempt)
  /\ r.phase = "provider" =>
       \A k \in DOMAIN providerCalls :
         providerCalls[k].identity = r.outputs.sha => providerCalls[k].run = i

CallsSound ==
  /\ providerCalls \in Seq(CallRecords)
  /\ \A k \in DOMAIN providerCalls : PacketOf(packets, providerCalls[k].run, providerCalls[k].identity)
  /\ \A k, m \in DOMAIN providerCalls :
       providerCalls[k].identity = providerCalls[m].identity =>
         providerCalls[k].run = providerCalls[m].run

ProvidersApart ==
  \A i, j \in ReviewIds :
    /\ review[i].phase = "provider" /\ review[j].phase = "provider"
    /\ review[i].outputs.sha = review[j].outputs.sha
    => i = j

VerdictsSound ==
  /\ \A v, w \in verdicts : v.run = w.run => v.attempt = w.attempt
  /\ \A v \in verdicts : v.attestation # NoReview => Attests(providerCalls, v.attestation, v.run, v.attempt)

PacketFields == {"run", "attempt", "identity", "expired"}
VerdictFields == {"run", "attempt", "expired", "files", "passes", "attestation"}

ArtifactsShaped ==
  /\ \A p \in packets : DOMAIN p = PacketFields
  /\ \A v \in verdicts : DOMAIN v = VerdictFields

ReviewInv ==
  /\ ArtifactsShaped
  /\ review = [i \in ReviewIds |-> review[i]]
  /\ \A i \in ReviewIds : RunSound(i)
  /\ CallsSound /\ ProvidersApart /\ VerdictsSound

(* The initial state satisfies the invariant. *)
LEMMA ReviewInitially == ReviewInit => ReviewInv
  BY DEF ReviewInit, ReviewInv, RunSound, CallsSound, ProvidersApart, VerdictsSound, FreshAttempt,
        ArtifactsShaped, RunFields, BeforeAnswer, Answered, Carrying

(* A packet expires or joins the others, and none is taken away. *)
PacketsKept ==
  \A p \in packets : \E q \in packets' : q.run = p.run /\ q.identity = p.identity

(* Packets are added and expire, but the lineage keeps whose they were. *)
LEMMA KeptPackets ==
  ASSUME PacketsKept, NEW i, NEW s, PacketOf(packets, i, s) PROVE PacketOf(packets', i, s)
  BY DEF PacketsKept, PacketOf

(* A run that did not move is as sound as it was. *)
LEMMA RunStays ==
  ASSUME NEW i, RunSound(i), review'[i] = review[i], PacketsKept, providerCalls' = providerCalls,
         NoVerdictOf(i) => NoVerdictOf(i)'
  PROVE  RunSound(i)'
<1>1. \A s : PacketOf(packets, i, s) => PacketOf(packets', i, s) BY KeptPackets
<1>2. \A s, n : LastCall(providerCalls', s, i, n) <=> LastCall(providerCalls, s, i, n) BY DEF LastCall
<1>3. Attests(providerCalls, review[i].attestation, i, review[i].attempt)
        => Attests(providerCalls', review[i].attestation, i, review[i].attempt)
  BY <1>2 DEF Attests
<1> QED BY <1>1, <1>3 DEF RunSound

(* So are the calls and the verdicts, when nobody calls or uploads. *)
LEMMA CallsStay ==
  ASSUME CallsSound, PacketsKept, providerCalls' = providerCalls PROVE CallsSound'
<1>1. \A i, s : PacketOf(packets, i, s) => PacketOf(packets', i, s) BY KeptPackets
<1> QED BY <1>1 DEF CallsSound

(* Published verdicts stay what they were. *)
LEMMA VerdictsStay ==
  ASSUME VerdictsSound, UNCHANGED <<verdicts, providerCalls>> PROVE VerdictsSound'
  BY DEF VerdictsSound, Attests, LastCall

(* One run moves, and neither calls the provider nor uploads a verdict. *)
LEMMA OneRunMoves ==
  ASSUME ReviewInv, NEW i \in ReviewIds, NEW r, review' = [review EXCEPT ![i] = r],
         UNCHANGED <<verdicts, providerCalls>>, PacketsKept, RunSound(i)',
         \A q \in packets' : DOMAIN q = PacketFields,
         r.phase # "provider"
  PROVE  ReviewInv'
<1>1. /\ review'[i] = r /\ \A j \in ReviewIds : j # i => review'[j] = review[j]
      /\ review' = [j \in ReviewIds |-> review'[j]]
  BY DEF ReviewInv
<1>2. ASSUME NEW j \in ReviewIds PROVE RunSound(j)'
  <2>1. CASE j = i BY <2>1
  <2>2. CASE j # i BY <1>1, <2>2, RunStays DEF ReviewInv, NoVerdictOf
  <2> QED BY <2>1, <2>2
<1>3. ProvidersApart' BY <1>1 DEF ReviewInv, ProvidersApart
<1>4. CallsSound' /\ VerdictsSound' BY CallsStay, VerdictsStay DEF ReviewInv
<1>5. ArtifactsShaped' BY DEF ReviewInv, ArtifactsShaped
<1> QED BY <1>1, <1>2, <1>3, <1>4, <1>5 DEF ReviewInv

(* A step that leaves the packets alone keeps them. *)
LEMMA SamePackets ==
  ReviewInv /\ packets' = packets => PacketsKept /\ \A q \in packets' : DOMAIN q = PacketFields
  BY DEF PacketsKept, ReviewInv, ArtifactsShaped

(* The steps that leave calls, verdicts and packets alone. *)
LEMMA QuietSteps ==
  ASSUME ReviewInv, NEW i \in ReviewIds,
         \/ CommentCreated(i) \/ VerificationJobs(i) \/ Revalidate(i) \/ WriteOutputFile(i)
         \/ CancelStep(i) \/ ProviderStepEnds(i) \/ RunnerLost(i) \/ RerunAll(i) \/ RerunFailed(i)
  PROVE  ReviewInv'
<1> DEFINE r == review[i]
<1>0. RunSound(i) /\ review = [j \in ReviewIds |-> review[j]] /\ DOMAIN r = RunFields
      /\ r.attempt \in Nat
  BY DEF ReviewInv, RunSound
<1>1. UNCHANGED <<packets, verdicts, providerCalls>>
  BY DEF CommentCreated, VerificationJobs, Revalidate, WriteOutputFile, CancelStep,
        ProviderStepEnds, RunnerLost, RerunAll, RerunFailed
<1>2. PacketsKept /\ \A q \in packets' : DOMAIN q = PacketFields BY <1>1, SamePackets
<1>3. \A s : PacketOf(packets, i, s) => PacketOf(packets', i, s) BY <1>1 DEF PacketOf
<1>4. NoVerdictOf(i) => NoVerdictOf(i)' BY <1>1 DEF NoVerdictOf
<1>5. \A a, n : Attests(providerCalls, a, i, n) => Attests(providerCalls', a, i, n) BY <1>1 DEF Attests, LastCall
<1>a. ASSUME NEW x, review' = [review EXCEPT ![i] = x], DOMAIN x = RunFields, x.attempt \in Nat,
             \/ x.phase = "ended"
             \/ x.phase = "request" /\ x.attestation = NoReview /\ x.files = 0
      PROVE  ReviewInv'
  <2>1. review'[i] = x BY <1>0, <1>a
  <2>2. RunSound(i)' BY <1>a, <2>1 DEF RunSound, BeforeAnswer, Carrying, Answered
  <2> QED BY <1>1, <1>2, <1>a, <2>2, OneRunMoves
<1>b. ASSUME NEW x, review' = [review EXCEPT ![i] = x], DOMAIN x = RunFields,
             x.attempt = r.attempt, x.outputs = r.outputs, x.attestation = r.attestation,
             r.phase \in Carrying, x.phase \in Carrying \ {"provider"},
             \/ x.files = r.files
             \/ r.phase = "writing" /\ x.phase \in {"writing", "step_end"},
             x.phase \in BeforeAnswer => r.phase \in BeforeAnswer,
             x.phase \in Answered =>
               \/ r.phase \in Answered /\ (x.phase = "writing" => r.phase = "writing")
               \/ x.phase = "step_end" /\ r.phase \in BeforeAnswer
      PROVE  ReviewInv'
  <2>1. review'[i] = x BY <1>0, <1>b
  <2>2. x.phase \in BeforeAnswer => x.attestation = NoReview /\ x.files = 0
    BY <1>0, <1>b DEF RunSound, BeforeAnswer
  <2>3. x.phase \in {"provider", "writing"} \/ (x.phase \in {"step_end", "upload"} /\ x.files # 0)
          => NoVerdictOf(i)'
    BY <1>0, <1>4, <1>b DEF RunSound, BeforeAnswer, Carrying, Answered
  <2>4. x.phase \in Answered /\ x.attestation # NoReview => Attests(providerCalls', x.attestation, i, x.attempt)
    BY <1>0, <1>5, <1>b DEF RunSound, BeforeAnswer
  <2>5. /\ x.outputs.sha = ReviewRequests[i].sha /\ PacketOf(packets', i, x.outputs.sha)
        /\ x.outputs.packet.sha = x.outputs.sha /\ x.outputs.packet.object = x.outputs.object
    BY <1>0, <1>3, <1>b DEF RunSound
  <2>6. RunSound(i)'
    BY <1>0, <1>b, <2>1, <2>2, <2>3, <2>4, <2>5 DEF RunSound
  <2>7. x.phase # "provider" BY <1>b
  <2>8. review' = [review EXCEPT ![i] = x] BY <1>b
  <2> HIDE <1>b
  <2> QED BY <1>1, <1>2, <2>6, <2>7, <2>8, OneRunMoves
<1>6. CASE CommentCreated(i)
  <2> DEFINE x == [FreshAttempt EXCEPT !.phase = "request", !.attempt = 1]
  <2>1. review' = [review EXCEPT ![i] = x] BY <1>6 DEF CommentCreated
  <2>2. DOMAIN x = RunFields /\ x.attempt \in Nat /\ x.phase = "request"
        /\ x.attestation = NoReview /\ x.files = 0
    BY DEF FreshAttempt, RunFields
  <2> HIDE DEF x
  <2> QED BY <1>a, <2>1, <2>2
<1>7. CASE RerunAll(i)
  <2> DEFINE n == r.attempt + 1
             x == [FreshAttempt EXCEPT !.phase = "request", !.attempt = n]
  <2>1. review' = [review EXCEPT ![i] = x] BY <1>7 DEF RerunAll
  <2>2. n \in Nat BY <1>0
  <2> HIDE DEF n
  <2>3. DOMAIN x = RunFields /\ x.attempt \in Nat /\ x.phase = "request"
        /\ x.attestation = NoReview /\ x.files = 0
    BY <2>2 DEF FreshAttempt, RunFields
  <2> HIDE DEF x
  <2> QED BY <1>a, <2>1, <2>3
<1>8. CASE RerunFailed(i)
  <2> DEFINE n == r.attempt + 1
             x == [r EXCEPT !.attempt = n, !.files = 0, !.attestation = NoReview]
  <2>1. review' = [review EXCEPT ![i] = x] /\ r.phase = "ended" BY <1>8 DEF RerunFailed
  <2>2. n \in Nat BY <1>0
  <2> HIDE DEF n
  <2>3. DOMAIN x = RunFields /\ x.attempt \in Nat /\ x.phase = "ended"
    BY <1>0, <2>1, <2>2 DEF RunFields
  <2> HIDE DEF x
  <2> QED BY <1>a, <2>1, <2>3
<1>c. ASSUME NEW stop, Goto(i, stop)
      PROVE  \E x : /\ review' = [review EXCEPT ![i] = x] /\ DOMAIN x = RunFields
                    /\ x.phase = stop /\ x.attempt = r.attempt /\ x.outputs = r.outputs
                    /\ x.files = r.files /\ x.attestation = r.attestation
  <2> DEFINE x == [r EXCEPT !.phase = stop]
  <2>1. review' = [review EXCEPT ![i] = x] BY <1>c DEF Goto
  <2>2. /\ DOMAIN x = RunFields /\ x.phase = stop /\ x.attempt = r.attempt
        /\ x.outputs = r.outputs /\ x.files = r.files /\ x.attestation = r.attestation
    BY <1>0 DEF RunFields
  <2> HIDE DEF x
  <2> QED BY <2>1, <2>2
<1>9. CASE Goto(i, "ended")
  <2>1. PICK x : /\ review' = [review EXCEPT ![i] = x] /\ DOMAIN x = RunFields
                 /\ x.phase = "ended" /\ x.attempt = r.attempt
    BY <1>c, <1>9
  <2> QED BY <1>0, <1>a, <2>1
<1>10. CASE VerificationJobs(i) /\ ~Goto(i, "ended")
  <2>1. r.phase = "verify" /\ Goto(i, "revalidate") BY <1>10 DEF VerificationJobs
  <2>2. PICK x : /\ review' = [review EXCEPT ![i] = x] /\ DOMAIN x = RunFields
                 /\ x.phase = "revalidate" /\ x.attempt = r.attempt /\ x.outputs = r.outputs
                 /\ x.files = r.files /\ x.attestation = r.attestation
    BY <1>c, <2>1
  <2> QED BY <1>b, <2>1, <2>2 DEF BeforeAnswer, Answered, Carrying
<1>11. CASE Revalidate(i) /\ Goto(i, "lineage")
  <2>1. r.phase = "revalidate" BY <1>11 DEF Revalidate
  <2>2. PICK x : /\ review' = [review EXCEPT ![i] = x] /\ DOMAIN x = RunFields
                 /\ x.phase = "lineage" /\ x.attempt = r.attempt /\ x.outputs = r.outputs
                 /\ x.files = r.files /\ x.attestation = r.attestation
    BY <1>c, <1>11
  <2> QED BY <1>b, <2>1, <2>2 DEF BeforeAnswer, Answered, Carrying
<1>12. CASE (Revalidate(i) \/ CancelStep(i)) /\ Goto(i, "step_end")
  <2>1. r.phase \in {"revalidate", "lineage", "provider", "writing"}
    BY <1>12 DEF Revalidate, CancelStep
  <2>2. PICK x : /\ review' = [review EXCEPT ![i] = x] /\ DOMAIN x = RunFields
                 /\ x.phase = "step_end" /\ x.attempt = r.attempt /\ x.outputs = r.outputs
                 /\ x.files = r.files /\ x.attestation = r.attestation
    BY <1>c, <1>12
  <2> QED BY <1>b, <2>1, <2>2 DEF BeforeAnswer, Answered, Carrying
<1>13. CASE ProviderStepEnds(i)
  <2>1. r.phase = "step_end" /\ Goto(i, "upload") BY <1>13 DEF ProviderStepEnds
  <2>2. PICK x : /\ review' = [review EXCEPT ![i] = x] /\ DOMAIN x = RunFields
                 /\ x.phase = "upload" /\ x.attempt = r.attempt /\ x.outputs = r.outputs
                 /\ x.files = r.files /\ x.attestation = r.attestation
    BY <1>c, <2>1
  <2> QED BY <1>b, <2>1, <2>2 DEF BeforeAnswer, Answered, Carrying
<1>14. CASE WriteOutputFile(i)
  <2> DEFINE n == r.files + 1
             stop == IF n = Len(OutputFiles) THEN "step_end" ELSE "writing"
             x == [r EXCEPT !.files = n, !.phase = stop]
  <2>1. review' = [review EXCEPT ![i] = x] /\ r.phase = "writing" BY <1>14 DEF WriteOutputFile
  <2>2. stop \in {"writing", "step_end"} BY <2>1
  <2> HIDE DEF n, stop
  <2>3. /\ DOMAIN x = RunFields /\ x.phase = stop /\ x.attempt = r.attempt
        /\ x.outputs = r.outputs /\ x.attestation = r.attestation
    BY <1>0 DEF RunFields
  <2> HIDE DEF x
  <2> QED BY <1>b, <2>1, <2>2, <2>3 DEF BeforeAnswer, Answered, Carrying
<1> QED
  BY <1>6, <1>7, <1>8, <1>9, <1>10, <1>11, <1>12, <1>13, <1>14
  DEF VerificationJobs, Revalidate, CancelStep, RunnerLost

(* The packet of an attempt is uploaded before the attempt carries outputs. *)
LEMMA RequestJobStep ==
  ASSUME ReviewInv, NEW i \in ReviewIds, RequestJob(i) PROVE ReviewInv'
<1> DEFINE r == review[i]
           s == ReviewRequests[i].sha
           object == hub.tags[ReviewRequests[i].tag].object
           packet == BuildResultBlindPacket(ReviewRequests[i], object)
           outputs == [sha |-> s, tag |-> ReviewRequests[i].tag, object |-> object,
                       packet |-> packet]
           x == [r EXCEPT !.phase = "verify", !.outputs = outputs]
           y == [r EXCEPT !.phase = "ended"]
<1>0. /\ RunSound(i) /\ review = [j \in ReviewIds |-> review[j]] /\ DOMAIN r = RunFields
      /\ r.attempt \in Nat /\ r.phase = "request" /\ r.attestation = NoReview /\ r.files = 0
  BY DEF ReviewInv, RunSound, RequestJob, BeforeAnswer
<1>1. UNCHANGED <<verdicts, providerCalls>> BY DEF RequestJob
<1>2. CASE review' = [review EXCEPT ![i] = y] /\ packets' = packets
  <2>1. y.phase = "ended" /\ y.attempt \in Nat /\ DOMAIN y = RunFields
    BY <1>0 DEF RunFields
  <2> HIDE DEF y
  <2>2. review'[i] = y BY <1>0, <1>2
  <2>3. RunSound(i)' BY <2>1, <2>2 DEF RunSound, BeforeAnswer, Carrying, Answered
  <2> QED BY <1>1, <1>2, <2>1, <2>3, OneRunMoves, SamePackets
<1>3. CASE /\ packet # NoReview
           /\ packets' = packets \union
                {[run |-> i, attempt |-> r.attempt, identity |-> ReviewIdentity(s),
                  expired |-> FALSE]}
           /\ review' = [review EXCEPT ![i] = x]
  <2>1. packet.sha = s /\ packet.object = object
    BY <1>3 DEF BuildResultBlindPacket
  <2>2. PacketsKept BY <1>3 DEF PacketsKept
  <2> DEFINE own == [run |-> i, attempt |-> r.attempt, identity |-> ReviewIdentity(s),
                     expired |-> FALSE]
  <2>a. own.run = i /\ own.identity = s /\ DOMAIN own = PacketFields
    BY DEF ReviewIdentity, PacketFields
  <2> HIDE DEF own
  <2>b. packets' = packets \union {own} BY <1>3 DEF own
  <2>3. PacketOf(packets', i, s) BY <2>a, <2>b DEF PacketOf
  <2>c. \A q \in packets' : DOMAIN q = PacketFields
    BY <2>a, <2>b DEF ReviewInv, ArtifactsShaped
  <2>4. outputs.sha = s /\ outputs.packet = packet /\ outputs.object = object OBVIOUS
  <2> HIDE DEF outputs, packet, object
  <2>5. /\ x.phase = "verify" /\ x.attempt = r.attempt /\ DOMAIN x = RunFields
        /\ x.attestation = NoReview /\ x.files = 0 /\ x.outputs = outputs
    BY <1>0 DEF RunFields
  <2> HIDE DEF x
  <2>6. review'[i] = x BY <1>0, <1>3
  <2>7. RunSound(i)'
    BY <1>0, <2>1, <2>3, <2>4, <2>5, <2>6 DEF RunSound, BeforeAnswer, Carrying, Answered
  <2> QED BY <1>1, <1>3, <2>2, <2>5, <2>7, <2>c, OneRunMoves
<1> QED BY <1>2, <1>3 DEF RequestJob, Goto

(* Past the lineage a run is alone with its commit. *)
LEMMA CheckLineageStep ==
  ASSUME ReviewInv, NEW i \in ReviewIds, CheckLineage(i) PROVE ReviewInv'
<1> DEFINE r == review[i]
           x == [r EXCEPT !.phase = "provider"]
           y == [r EXCEPT !.phase = "step_end"]
<1>0. /\ RunSound(i) /\ review = [j \in ReviewIds |-> review[j]] /\ DOMAIN r = RunFields
      /\ r.attempt \in Nat /\ r.phase = "lineage" /\ r.attestation = NoReview /\ r.files = 0
      /\ r.outputs.sha = ReviewRequests[i].sha /\ PacketOf(packets, i, r.outputs.sha)
      /\ r.outputs.packet.sha = r.outputs.sha /\ r.outputs.packet.object = r.outputs.object
  BY DEF ReviewInv, RunSound, CheckLineage, BeforeAnswer, Carrying
<1>1. UNCHANGED <<packets, verdicts, providerCalls>> BY DEF CheckLineage
<1>2. PacketsKept /\ \A q \in packets' : DOMAIN q = PacketFields BY <1>1, SamePackets
<1>3. PacketOf(packets', i, r.outputs.sha) BY <1>0, <1>1 DEF PacketOf
<1>4. CASE review' = [review EXCEPT ![i] = y]
  <2>1. /\ y.phase = "step_end" /\ y.attempt = r.attempt /\ DOMAIN y = RunFields
        /\ y.attestation = NoReview /\ y.files = 0 /\ y.outputs = r.outputs
    BY <1>0 DEF RunFields
  <2> HIDE DEF y
  <2>2. review'[i] = y BY <1>0, <1>4
  <2>3. RunSound(i)' BY <1>0, <1>3, <2>1, <2>2 DEF RunSound, BeforeAnswer, Carrying, Answered
  <2> QED BY <1>1, <1>2, <1>4, <2>1, <2>3, OneRunMoves
<1>5. CASE /\ RequireReviewIdentityRetryable(ReviewIdentity(r.outputs.sha), i, r.attempt)
           /\ review' = [review EXCEPT ![i] = x]
  <2>1. /\ x.phase = "provider" /\ x.attempt = r.attempt /\ DOMAIN x = RunFields
        /\ x.attestation = NoReview /\ x.files = 0 /\ x.outputs = r.outputs
    BY <1>0 DEF RunFields
  <2> HIDE DEF x
  <2>2. review'[i] = x /\ \A j \in ReviewIds : j # i => review'[j] = review[j]
    BY <1>0, <1>5
  <2>3. NoVerdictOf(i)' BY <1>1, <1>5 DEF RequireReviewIdentityRetryable, NoVerdictOf
  <2>4. \A j : PacketOf(packets, j, r.outputs.sha) => j = i
    BY <1>5 DEF RequireReviewIdentityRetryable, ReviewIdentity, PacketOf
  <2>5. \A k \in DOMAIN providerCalls' :
          providerCalls'[k].identity = r.outputs.sha => providerCalls'[k].run = i
    BY <1>1, <2>4 DEF ReviewInv, CallsSound
  <2>6. RunSound(i)'
    BY <1>0, <1>3, <2>1, <2>2, <2>3, <2>5 DEF RunSound, BeforeAnswer, Carrying, Answered
  <2>7. ASSUME NEW j \in ReviewIds, j # i PROVE RunSound(j)'
    BY <1>1, <1>2, <2>2, <2>7, RunStays DEF ReviewInv, NoVerdictOf
  <2>8. ASSUME NEW j \in ReviewIds, review[j].phase = "provider",
               review[j].outputs.sha = r.outputs.sha
        PROVE  j = i
    BY <2>4, <2>8 DEF ReviewInv, RunSound, Carrying
  <2>9. ProvidersApart'
    BY <2>1, <2>2, <2>8 DEF ReviewInv, ProvidersApart
  <2>10. CallsSound' /\ VerdictsSound' BY <1>1, <1>2, CallsStay, VerdictsStay DEF ReviewInv
  <2>11. ArtifactsShaped' BY <1>1 DEF ReviewInv, ArtifactsShaped
  <2> QED BY <1>0, <1>5, <2>6, <2>7, <2>9, <2>10, <2>11 DEF ReviewInv
<1> QED BY <1>4, <1>5 DEF CheckLineage, Goto

(* The call of a run that is alone with its commit is the last one for it. *)
LEMMA CallProviderStep ==
  ASSUME ReviewInv, NEW i \in ReviewIds, CallProvider(i) PROVE ReviewInv'
<1> DEFINE r == review[i]
           s == r.outputs.sha
<1>0. /\ RunSound(i) /\ review = [j \in ReviewIds |-> review[j]] /\ DOMAIN r = RunFields
      /\ r.attempt \in Nat /\ r.phase = "provider" /\ r.attestation = NoReview /\ r.files = 0
      /\ s = ReviewRequests[i].sha /\ PacketOf(packets, i, s)
      /\ r.outputs.packet.sha = s /\ r.outputs.packet.object = r.outputs.object
      /\ NoVerdictOf(i)
      /\ \A k \in DOMAIN providerCalls :
           providerCalls[k].identity = s => providerCalls[k].run = i
  BY DEF ReviewInv, RunSound, CallProvider, BeforeAnswer, Carrying
<1>1. UNCHANGED <<packets, verdicts>> BY DEF CallProvider
<1>2. PICK answer \in ProviderAnswers :
        /\ providerCalls' = Append(providerCalls,
              [run |-> i, attempt |-> r.attempt, identity |-> ReviewIdentity(s),
               answer |-> answer])
        /\ review' = [review EXCEPT ![i] =
              IF ParseGeminiResponse(answer)
              THEN [@ EXCEPT !.phase = "writing", !.attestation = BuildAttestation(i, answer)]
              ELSE [@ EXCEPT !.phase = "step_end"]]
  BY DEF CallProvider
<1> DEFINE call == [run |-> i, attempt |-> r.attempt, identity |-> s, answer |-> answer]
           n == Len(providerCalls)
<1>3. call \in CallRecords BY <1>0 DEF CallRecords
<1>c. call.run = i /\ call.attempt = r.attempt /\ call.identity = s OBVIOUS
<1> HIDE DEF call
<1>4. providerCalls' = Append(providerCalls, call) BY <1>2 DEF call, ReviewIdentity
<1>5. /\ providerCalls \in Seq(CallRecords) /\ n \in Nat /\ DOMAIN providerCalls = 1..n
  BY LenProperties DEF ReviewInv, CallsSound
<1>6. /\ providerCalls' \in Seq(CallRecords) /\ DOMAIN providerCalls' = 1..(n + 1)
      /\ \A k \in 1..n : providerCalls'[k] = providerCalls[k]
      /\ providerCalls'[n + 1] = call
  BY <1>3, <1>4, <1>5, AppendProperties
<1>7. \A k \in DOMAIN providerCalls' : k \in 1..n \/ k = n + 1 BY <1>5, <1>6
<1>8. \A j, q : PacketOf(packets', j, q) <=> PacketOf(packets, j, q) BY <1>1 DEF PacketOf
<1>9. CallsSound'
  <2>1. \A k \in DOMAIN providerCalls' :
          PacketOf(packets', providerCalls'[k].run, providerCalls'[k].identity)
    BY <1>0, <1>5, <1>6, <1>7, <1>8, <1>c DEF ReviewInv, CallsSound
  <2>2. \A k, m \in DOMAIN providerCalls' :
          providerCalls'[k].identity = providerCalls'[m].identity =>
            providerCalls'[k].run = providerCalls'[m].run
    BY <1>0, <1>5, <1>6, <1>7, <1>c DEF ReviewInv, CallsSound
  <2> QED BY <1>6, <2>1, <2>2 DEF CallsSound
<1>10. ASSUME NEW q, NEW j, NEW a, j # i, LastCall(providerCalls, q, j, a) PROVE LastCall(providerCalls', q, j, a)
  <2>1. PICK k \in DOMAIN providerCalls :
          /\ providerCalls[k].identity = q /\ providerCalls[k].run = j
          /\ providerCalls[k].attempt = a
          /\ \A c \in DOMAIN providerCalls : providerCalls[c].identity = q => c <= k
    BY <1>10 DEF LastCall
  <2>2. q # s BY <1>0, <1>10, <2>1
  <2>3. k \in DOMAIN providerCalls' /\ providerCalls'[k] = providerCalls[k]
    BY <1>5, <1>6
  <2>4. \A c \in DOMAIN providerCalls' : providerCalls'[c].identity = q => c <= k
    BY <1>5, <1>6, <1>7, <1>c, <2>1, <2>2
  <2> QED BY <2>1, <2>3, <2>4 DEF LastCall
<1>11. LastCall(providerCalls', s, i, r.attempt)
  <2>1. n + 1 \in DOMAIN providerCalls' BY <1>5, <1>6
  <2>2. \A c \in DOMAIN providerCalls' : c <= n + 1 BY <1>5, <1>6
  <2> QED BY <1>6, <1>c, <2>1, <2>2 DEF LastCall
<1>12. VerdictsSound'
  <2>1. \A v \in verdicts : v.run # i BY <1>0 DEF NoVerdictOf
  <2>2. \A v \in verdicts : v.attestation # NoReview =>
          Attests(providerCalls', v.attestation, v.run, v.attempt)
    BY <1>10, <2>1 DEF ReviewInv, VerdictsSound, Attests
  <2> QED BY <1>1, <2>2 DEF ReviewInv, VerdictsSound
<1>13. \A j \in ReviewIds : j # i => review'[j] = review[j] BY <1>0, <1>2
<1>14. ASSUME NEW j \in ReviewIds, j # i PROVE RunSound(j)'
  <2>1. RunSound(j) /\ review'[j] = review[j] BY <1>13, <1>14 DEF ReviewInv
  <2>2. \A q, a : LastCall(providerCalls, q, j, a) => LastCall(providerCalls', q, j, a) BY <1>10, <1>14
  <2>3. NoVerdictOf(j) => NoVerdictOf(j)' BY <1>1 DEF NoVerdictOf
  <2>4. Attests(providerCalls, review[j].attestation, j, review[j].attempt)
          => Attests(providerCalls', review[j].attestation, j, review[j].attempt)
    BY <2>2 DEF Attests
  <2>5. review[j].phase = "provider" => review[j].outputs.sha # s
    BY <1>0, <1>14 DEF ReviewInv, ProvidersApart
  <2>6. review[j].phase = "provider" =>
          \A k \in DOMAIN providerCalls' :
            providerCalls'[k].identity = review[j].outputs.sha => providerCalls'[k].run = j
    BY <1>5, <1>6, <1>7, <1>c, <2>1, <2>5 DEF RunSound
  <2> QED BY <1>8, <2>1, <2>3, <2>4, <2>6 DEF RunSound
<1>15. RunSound(i)' /\ review'[i].phase # "provider"
  <2>1. NoVerdictOf(i)' /\ PacketOf(packets', i, s) BY <1>0, <1>1, <1>8 DEF NoVerdictOf
  <2>2. CASE ParseGeminiResponse(answer)
    <3> DEFINE a == BuildAttestation(i, answer)
               x == [r EXCEPT !.phase = "writing", !.attestation = a]
    <3>1. review'[i] = x BY <1>0, <1>2, <2>2
    <3>2. a.sha = s /\ a.packet = r.outputs.packet /\ a.object = r.outputs.object
      BY DEF BuildAttestation
    <3> HIDE DEF a
    <3>3. /\ x.phase = "writing" /\ x.attempt = r.attempt /\ DOMAIN x = RunFields
          /\ x.attestation = a /\ x.outputs = r.outputs
      BY <1>0 DEF RunFields
    <3> HIDE DEF x
    <3>4. Attests(providerCalls', x.attestation, i, x.attempt) BY <1>0, <1>11, <3>2, <3>3 DEF Attests
    <3> QED BY <1>0, <2>1, <3>1, <3>3, <3>4 DEF RunSound, BeforeAnswer, Carrying, Answered
  <2>3. CASE ~ParseGeminiResponse(answer)
    <3> DEFINE x == [r EXCEPT !.phase = "step_end"]
    <3>1. review'[i] = x BY <1>0, <1>2, <2>3
    <3>2. /\ x.phase = "step_end" /\ x.attempt = r.attempt /\ DOMAIN x = RunFields
          /\ x.attestation = NoReview /\ x.outputs = r.outputs /\ x.files = 0
      BY <1>0 DEF RunFields
    <3> HIDE DEF x
    <3> QED BY <1>0, <2>1, <3>1, <3>2 DEF RunSound, BeforeAnswer, Carrying, Answered
  <2> QED BY <2>2, <2>3
<1>16. ProvidersApart' BY <1>13, <1>15 DEF ReviewInv, ProvidersApart
<1>17. review' = [j \in ReviewIds |-> review'[j]] BY <1>0, <1>2
<1>18. ArtifactsShaped' BY <1>1 DEF ReviewInv, ArtifactsShaped
<1> QED BY <1>9, <1>12, <1>14, <1>15, <1>16, <1>17, <1>18 DEF ReviewInv

(* A run uploads at most once, and what it uploads it was told last. *)
LEMMA UploadEvidenceStep ==
  ASSUME ReviewInv, NEW i \in ReviewIds, UploadEvidence(i) PROVE ReviewInv'
<1> DEFINE r == review[i]
           x == [r EXCEPT !.phase = "ended"]
<1>0. /\ RunSound(i) /\ review = [j \in ReviewIds |-> review[j]] /\ DOMAIN r = RunFields
      /\ r.attempt \in Nat /\ r.phase = "upload"
      /\ r.files # 0 => NoVerdictOf(i)
      /\ r.attestation # NoReview => Attests(providerCalls, r.attestation, i, r.attempt)
  BY DEF ReviewInv, RunSound, UploadEvidence, Answered
<1>1. UNCHANGED <<packets, providerCalls>> /\ review' = [review EXCEPT ![i] = x]
  BY DEF UploadEvidence, Goto
<1>2. x.phase = "ended" /\ x.attempt \in Nat /\ DOMAIN x = RunFields
  BY <1>0 DEF RunFields
<1> HIDE DEF x
<1>3. /\ review'[i] = x /\ \A j \in ReviewIds : j # i => review'[j] = review[j]
      /\ review' = [j \in ReviewIds |-> review'[j]]
  BY <1>0, <1>1
<1>4. RunSound(i)' BY <1>2, <1>3 DEF RunSound, BeforeAnswer, Carrying, Answered
<1>5. \/ verdicts' = verdicts
      \/ /\ r.files # 0
         /\ \E v : /\ verdicts' = verdicts \union {v} /\ v.run = i /\ v.attempt = r.attempt
                   /\ v.attestation \in {r.attestation, NoReview}
                   /\ DOMAIN v = VerdictFields
  <2>1. PICK outcome \in {"success", "failure"} :
          verdicts' = IF outcome = "failure" \/ review[i].files = 0 THEN verdicts
                ELSE verdicts \union
                     {[run |-> i, attempt |-> review[i].attempt, expired |-> FALSE,
                       files |-> review[i].files,
                       passes |-> /\ review[i].files = Len(OutputFiles)
                                  /\ Propagates(review[i].attestation.answer),
                       attestation |-> IF review[i].files >= 4 THEN review[i].attestation
                                       ELSE NoReview]}
    BY DEF UploadEvidence
  <2> DEFINE passes == /\ review[i].files = Len(OutputFiles)
                       /\ Propagates(review[i].attestation.answer)
             attestation == IF review[i].files >= 4 THEN review[i].attestation ELSE NoReview
             v == [run |-> i, attempt |-> review[i].attempt, expired |-> FALSE,
                   files |-> review[i].files, passes |-> passes, attestation |-> attestation]
  <2>2. verdicts' = verdicts \/ (r.files # 0 /\ verdicts' = verdicts \union {v}) BY <2>1
  <2>3. attestation \in {r.attestation, NoReview} OBVIOUS
  <2> HIDE DEF passes, attestation
  <2>4. /\ v.run = i /\ v.attempt = r.attempt /\ v.attestation \in {r.attestation, NoReview}
        /\ DOMAIN v = VerdictFields
    BY <2>3 DEF VerdictFields
  <2> HIDE DEF v
  <2> QED BY <2>2, <2>4
<1>6. \A q, j, a : LastCall(providerCalls', q, j, a) <=> LastCall(providerCalls, q, j, a) BY <1>1 DEF LastCall
<1>7. VerdictsSound'
  <2>1. CASE verdicts' = verdicts BY <1>6, <2>1 DEF ReviewInv, VerdictsSound, Attests
  <2>2. CASE verdicts' # verdicts
    <3>1. PICK v : /\ verdicts' = verdicts \union {v} /\ v.run = i /\ v.attempt = r.attempt
                   /\ v.attestation \in {r.attestation, NoReview}
      BY <1>5, <2>2
    <3>2. \A w \in verdicts : w.run # i BY <1>0, <1>5, <2>2 DEF NoVerdictOf
    <3>3. \A w, u \in verdicts' : w.run = u.run => w.attempt = u.attempt
      BY <3>1, <3>2 DEF ReviewInv, VerdictsSound
    <3>4. \A w \in verdicts' : w.attestation # NoReview =>
            Attests(providerCalls, w.attestation, w.run, w.attempt)
      BY <1>0, <3>1 DEF ReviewInv, VerdictsSound
    <3> QED BY <1>6, <3>3, <3>4 DEF VerdictsSound, Attests
  <2> QED BY <2>1, <2>2
<1>8. ASSUME NEW j \in ReviewIds, j # i PROVE RunSound(j)'
  <2>1. NoVerdictOf(j) => NoVerdictOf(j)' BY <1>5, <1>8 DEF NoVerdictOf
  <2>2. PacketsKept BY <1>1, SamePackets
  <2> QED BY <1>1, <1>3, <1>8, <2>1, <2>2, RunStays DEF ReviewInv
<1>9. PacketsKept BY <1>1, SamePackets
<1>10. CallsSound' BY <1>1, <1>9, CallsStay DEF ReviewInv
<1>11. ProvidersApart' BY <1>2, <1>3 DEF ReviewInv, ProvidersApart
<1>12. ArtifactsShaped' BY <1>1, <1>5 DEF ReviewInv, ArtifactsShaped
<1> QED BY <1>3, <1>4, <1>7, <1>8, <1>10, <1>11, <1>12 DEF ReviewInv

(* An expired artifact keeps its place in the lineage. *)
LEMMA WorldSteps ==
  ASSUME ReviewInv, HubChange \/ ArtifactExpires PROVE ReviewInv'
<1>1. UNCHANGED <<review, providerCalls>> BY DEF HubChange, Change, ArtifactExpires
<1>0. ArtifactsShaped BY DEF ReviewInv
<1>2. /\ PacketsKept /\ ArtifactsShaped'
      /\ \A w \in verdicts' : \E v \in verdicts :
           w.run = v.run /\ w.attempt = v.attempt /\ w.attestation = v.attestation
  <2>1. CASE HubChange BY <1>0, <2>1 DEF HubChange, Change, PacketsKept, ArtifactsShaped
  <2>2. ASSUME NEW p \in packets,
               packets' = (packets \ {p}) \union {[p EXCEPT !.expired = TRUE]},
               UNCHANGED verdicts
        PROVE  /\ PacketsKept /\ ArtifactsShaped'
               /\ \A w \in verdicts' : \E v \in verdicts :
                    w.run = v.run /\ w.attempt = v.attempt /\ w.attestation = v.attestation
    <3> DEFINE q == [p EXCEPT !.expired = TRUE]
    <3>1. DOMAIN q = PacketFields /\ q.run = p.run /\ q.identity = p.identity
      BY <1>0 DEF ArtifactsShaped, PacketFields
    <3>2. packets' = (packets \ {p}) \union {q} BY <2>2
    <3> HIDE DEF q
    <3> QED BY <1>0, <2>2, <3>1, <3>2 DEF PacketsKept, ArtifactsShaped
  <2>3. ASSUME NEW v \in verdicts,
               verdicts' = (verdicts \ {v}) \union {[v EXCEPT !.expired = TRUE]},
               UNCHANGED packets
        PROVE  /\ PacketsKept /\ ArtifactsShaped'
               /\ \A w \in verdicts' : \E u \in verdicts :
                    w.run = u.run /\ w.attempt = u.attempt /\ w.attestation = u.attestation
    <3> DEFINE q == [v EXCEPT !.expired = TRUE]
    <3>1. /\ DOMAIN q = VerdictFields /\ q.run = v.run /\ q.attempt = v.attempt
          /\ q.attestation = v.attestation
      BY <1>0 DEF ArtifactsShaped, VerdictFields
    <3>2. verdicts' = (verdicts \ {v}) \union {q} BY <2>3
    <3> HIDE DEF q
    <3> QED BY <1>0, <2>3, <3>1, <3>2 DEF PacketsKept, ArtifactsShaped
  <2> QED BY <2>1, <2>2, <2>3 DEF ArtifactExpires
<1>3. ASSUME NEW i \in ReviewIds PROVE RunSound(i)'
  <2>1. NoVerdictOf(i) => NoVerdictOf(i)' BY <1>2 DEF NoVerdictOf
  <2> QED BY <1>1, <1>2, <2>1, RunStays DEF ReviewInv
<1>4. CallsSound' BY <1>1, <1>2, CallsStay DEF ReviewInv
<1>5. \A q, j, a : LastCall(providerCalls', q, j, a) <=> LastCall(providerCalls, q, j, a) BY <1>1 DEF LastCall
<1>6. VerdictsSound' BY <1>2, <1>5 DEF ReviewInv, VerdictsSound, Attests
<1>7. ProvidersApart' BY <1>1 DEF ReviewInv, ProvidersApart
<1> QED BY <1>1, <1>2, <1>3, <1>4, <1>6, <1>7 DEF ReviewInv

(* Every step of the review keeps the invariant. *)
LEMMA ReviewStep == ReviewInv /\ [ReviewNext]_reviewVars => ReviewInv'
<1> SUFFICES ASSUME ReviewInv, [ReviewNext]_reviewVars PROVE ReviewInv'
  OBVIOUS
<1>1. CASE UNCHANGED reviewVars
  <2>1. UNCHANGED <<review, packets, verdicts, providerCalls>> BY <1>1 DEF reviewVars
  <2>2. PacketsKept BY <2>1, SamePackets
  <2>3. \A i \in ReviewIds : RunSound(i)' BY <2>1, <2>2, RunStays DEF ReviewInv, NoVerdictOf
  <2>4. CallsSound' /\ VerdictsSound' BY <2>1, <2>2, CallsStay, VerdictsStay DEF ReviewInv
  <2>5. ProvidersApart' BY <2>1 DEF ReviewInv, ProvidersApart
  <2>6. ArtifactsShaped' BY <2>1 DEF ReviewInv, ArtifactsShaped
  <2> QED BY <2>1, <2>3, <2>4, <2>5, <2>6 DEF ReviewInv
<1> QED
  BY <1>1, QuietSteps, RequestJobStep, CheckLineageStep, CallProviderStep, UploadEvidenceStep,
     WorldSteps
  DEF ReviewNext

(* Two attested verdicts of one commit answer calls about it, all of one run. *)
LEMMA ReviewInvImplies == ReviewInv => OneVerdictPerCommit
<1> SUFFICES ASSUME ReviewInv PROVE OneVerdictPerCommit OBVIOUS
<1> DEFINE attested == {v \in verdicts : v.attestation # NoReview}
<1>1. ASSUME NEW v \in attested
      PROVE  /\ \E k \in DOMAIN providerCalls :
                  /\ providerCalls[k].identity = v.attestation.sha
                  /\ providerCalls[k].run = v.run /\ providerCalls[k].attempt = v.attempt
                  /\ \A c \in DOMAIN providerCalls :
                       providerCalls[c].identity = v.attestation.sha => c <= k
             /\ v.attestation.packet.sha = v.attestation.sha
             /\ v.attestation.packet.object = v.attestation.object
  BY DEF ReviewInv, VerdictsSound, Attests, LastCall
<1>2. ASSUME NEW v \in attested, NEW w \in attested, w.attestation.sha = v.attestation.sha
      PROVE  w.run = v.run /\ w.attempt = v.attempt
  <2>1. w.run = v.run BY <1>1, <1>2 DEF ReviewInv, CallsSound
  <2> QED BY <2>1 DEF ReviewInv, VerdictsSound
<1> QED BY <1>1, <1>2 DEF OneVerdictPerCommit, ReviewIdentity

(* The invariant of the review: a packet precedes the outputs of its attempt,  *)
(* at most one run of a commit is at the provider, and a verdict answers the   *)
(* last call about its commit.                                                 *)
THEOREM ReviewInvariant == ReviewSpec => []ReviewInv
<1>1. ReviewInit => ReviewInv BY ReviewInitially
<1>2. ReviewInv /\ [ReviewNext]_reviewVars => ReviewInv' BY ReviewStep
<1> QED BY <1>1, <1>2, PTL DEF ReviewSpec

(* However often a review is requested, cancelled, lost and re-run, whole or   *)
(* its failed jobs, a commit gets at most one attested verdict, for the packet *)
(* it names, and it is never asked for again                                   *)
(* (require_review_identity_retryable).                                        *)
THEOREM AlwaysOneVerdictPerCommit == ReviewSpec => []OneVerdictPerCommit
<1>1. ReviewInv => OneVerdictPerCommit BY ReviewInvImplies
<1>2. ReviewSpec => []ReviewInv BY ReviewInvariant
<1> QED BY <1>1, <1>2, PTL

-----------------------------------------------------------------------------
(* The process containment. *)

(* Every set of natural numbers that is not empty has a least member. *)
LEMMA LeastMember ==
  ASSUME NEW S, S \subseteq Nat, S # {} PROVE \E x \in S : \A y \in S : x <= y
<1> DEFINE R == OpToRel(<, Nat)
<1>1. IsWellFoundedOn(R, Nat) BY NatLessThanWellFounded
<1>2. \A ss : ss \in R <=> ss \in Nat \X Nat /\ ss[1] < ss[2] BY DEF OpToRel
<1> HIDE DEF R
<1>3. PICK x \in S : \A y \in S : ~(<<y, x>> \in R) BY <1>1, WFMin
<1>4. ASSUME NEW y \in S PROVE x <= y
  <2>1. <<y, x>> \in Nat \X Nat OBVIOUS
  <2>2. ~(<<y, x>>[1] < <<y, x>>[2]) BY <1>2, <1>3, <2>1
  <2> QED BY <2>2
<1> QED BY <1>4

(* The first PID of those that are left. *)
LEMMA MinOfPids ==
  ASSUME NEW S, S \subseteq Pids, S # {} PROVE Min(S) \in S
<1>1. \E x \in S : \A y \in S : x <= y BY LeastMember, ContainmentAssumption
<1> QED BY <1>1 DEF Min

-----------------------------------------------------------------------------
(* The invariant. *)

KeeperFields ==
  {"child", "root", "assigned", "then", "retried", "tries", "errors", "before", "left", "handles",
   "read", "truth", "snapshots", "owned", "rows", "lent", "mode", "pc", "outcome"}

Machines ==
  [proc : [Pids -> [gen : Nat, parent : Nat,
                    state : {"none", "suspended", "alive", "dying", "zombie"}, job : BOOLEAN]],
   births : Nat, job : {"none", "open", "closed"}]

Running(m, p) == m.proc[p].state # "none"
Named(m, p) == <<p, m.proc[p].gen>>

(* With a Job Object every process of the machine is of the family, what runs is in the job, *)
(* and nothing runs once the job is closed. *)
MachineSound(m, kin) ==
  /\ m \in Machines /\ kin \subseteq Pids \X Nat
  /\ \A p \in Pids : Running(m, p) => m.proc[p].gen \in 1..m.births /\ Named(m, p) \in kin
  /\ \A p \in Pids : m.proc[p].state = "alive" => m.proc[p].job
  /\ m.job = "closed" => \A p \in Pids : m.proc[p].state # "alive"

(* From the assignment on everything is in the job; before it there is at most the child, *)
(* which has not run yet. *)
Held(m, k) ==
  IF k.assigned THEN \A p \in Pids : Running(m, p) => m.proc[p].job
  ELSE \A p \in Pids : Running(m, p) => Named(m, p) = k.child /\ m.proc[p].state # "alive"

Deserted(m) == \A p \in Pids : ~Running(m, p)

LaunchPcs == {"assign", "identify", "resume"}
SamplePcs == {"monitor", "sampled", "sQuery", "sRead", "sVerify"}
ClosePcs == {"kill", "tQuery", "tOpen", "tJob", "tWait", "reap", "drain"}

(* What each point of the keeper knows. *)
KeeperSound(m, k) ==
  /\ k.pc \in {"create", "spawn", "release", "last", "end"} \cup LaunchPcs \cup SamplePcs \cup ClosePcs
  /\ k.pc \notin {"create", "last", "end"} => m.job = "open"
  /\ k.pc \in {"create", "spawn"} => ~k.assigned /\ k.child = NoIdentity
  /\ k.pc \notin {"create", "spawn", "end"} => k.child[1] \in Pids
  /\ k.pc \in LaunchPcs => Named(m, k.child[1]) = k.child /\ m.proc[k.child[1]].state = "suspended"
  /\ k.pc \in {"assign", "kill"} => ~k.assigned
  /\ k.pc \in {"identify", "resume"} \cup SamplePcs => k.assigned
  /\ k.then = "close" => k.assigned
  /\ k.pc \in {"release", "last"} /\ k.assigned /\ ~k.errors => Deserted(m)
  /\ k.pc # "end" => k.outcome = "none" /\ Held(m, k)
  /\ k.outcome \in {"closed", "failed"} => Deserted(m)
  /\ k.assigned \in BOOLEAN /\ k.errors \in BOOLEAN

(* One identity for each of these PIDs. *)
Roster(ids, pids) ==
  /\ ids \subseteq pids \X Nat
  /\ \A p \in pids : \E x \in ids : x[1] = p
  /\ \A x, y \in ids : x[1] = y[1] => x = y

(* A generation that was seen does not come back: what is there now is not older. *)
Seen(m, ids) ==
  \A x \in ids : x[2] <= m.births /\ (Running(m, x[1]) => x[2] <= m.proc[x[1]].gen)

(* What was read is not older than the truth, and the same where it has been verified. *)
SampleSound(m, k) ==
  /\ k.pc \in {"sRead", "sVerify"} => k.before \subseteq Pids /\ k.left \subseteq k.before
  /\ k.pc = "sQuery" => k.read = {}
  /\ k.pc = "sRead" => Roster(k.read, k.before \ k.left) /\ Seen(m, k.read)
  /\ k.pc = "sVerify" =>
       /\ Roster(k.read, k.before) /\ Roster(k.truth, k.before) /\ Seen(m, k.truth)
       /\ \A x \in k.read, y \in k.truth :
            x[1] = y[1] => x[2] <= y[2] /\ (x[1] \notin k.left => x = y)
  /\ k.pc = "sampled" => k.read = k.truth

ContainmentInv ==
  /\ DOMAIN keeper = KeeperFields
  /\ keeper.owned \subseteq family \cup keeper.lent
  /\ keeper.mode = "job" =>
       /\ keeper.owned = {}
       /\ MachineSound(os, family) /\ KeeperSound(os, keeper) /\ SampleSound(os, keeper)

(* The invariant holds at the start. *)
LEMMA ContainmentInitially == ContainmentInit => ContainmentInv
<1> SUFFICES ASSUME ContainmentInit PROVE ContainmentInv OBVIOUS
<1>1. PICK mode \in Modes : keeper = [Idle EXCEPT !.mode = mode] BY DEF ContainmentInit
<1>2. /\ DOMAIN keeper = KeeperFields /\ keeper.owned = {} /\ keeper.pc = "create"
      /\ keeper.child = NoIdentity /\ keeper.assigned = FALSE /\ keeper.then = "none"
      /\ keeper.outcome = "none" /\ keeper.errors = FALSE
  BY <1>1 DEF Idle, KeeperFields
<1>3. MachineSound(os, family)
  BY ContainmentAssumption DEF ContainmentInit, MachineSound, Machines, NoProcess, Running
<1>4. KeeperSound(os, keeper) /\ SampleSound(os, keeper)
  BY <1>2 DEF ContainmentInit, KeeperSound, SampleSound, Held, Running, NoProcess, LaunchPcs,
     SamplePcs, ClosePcs
<1> QED BY <1>2, <1>3, <1>4 DEF ContainmentInv

-----------------------------------------------------------------------------
(* Steps of the machine. *)

(* No PID goes back to an earlier generation. *)
Advances(m, n) ==
  /\ n.births >= m.births
  /\ \A p \in Pids : Running(n, p) =>
       \/ Running(m, p) /\ n.proc[p].gen = m.proc[p].gen
       \/ n.proc[p].gen > m.births

(* What was seen is not newer later either. *)
LEMMA SeenStays ==
  ASSUME NEW m \in Machines, NEW n \in Machines, Advances(m, n), NEW ids, NEW pids,
         ids \subseteq pids \X Nat, pids \subseteq Pids, Seen(m, ids)
  PROVE  Seen(n, ids)
<1> SUFFICES ASSUME NEW x \in ids
             PROVE  x[2] <= n.births /\ (Running(n, x[1]) => x[2] <= n.proc[x[1]].gen)
  BY DEF Seen
<1>1. x[1] \in Pids /\ x[2] \in Nat OBVIOUS
<1>2. /\ m.births \in Nat /\ n.births \in Nat
      /\ m.proc[x[1]].gen \in Nat /\ n.proc[x[1]].gen \in Nat
  BY <1>1 DEF Machines
<1> QED BY <1>1, <1>2 DEF Seen, Advances

(* A step of the machine keeps a sample. *)
LEMMA SampleStays ==
  ASSUME NEW m \in Machines, NEW n \in Machines, Advances(m, n), NEW k, SampleSound(m, k)
  PROVE  SampleSound(n, k)
<1>1. ASSUME k.pc = "sRead" PROVE Seen(n, k.read)
  <2> DEFINE ps == k.before \ k.left
  <2>1. k.read \subseteq ps \X Nat /\ ps \subseteq Pids /\ Seen(m, k.read)
    BY <1>1 DEF SampleSound, Roster
  <2> HIDE DEF ps
  <2> QED BY <2>1, SeenStays
<1>2. ASSUME k.pc = "sVerify" PROVE Seen(n, k.truth)
  <2>1. k.truth \subseteq k.before \X Nat /\ k.before \subseteq Pids /\ Seen(m, k.truth)
    BY <1>2 DEF SampleSound, Roster
  <2> QED BY <2>1, SeenStays
<1> QED BY <1>1, <1>2 DEF SampleSound

(* A process of the family forks: the child is in the job of its parent. *)
LEMMA ForkKeeps ==
  ASSUME ContainmentInv, keeper.mode = "job", NEW p \in Pids, NEW q \in Pids, Fork(p, q)
  PROVE  MachineSound(os, family)' /\ KeeperSound(os, keeper)' /\ SampleSound(os, keeper)'
<1> USE ContainmentAssumption
<1>1. MachineSound(os, family) /\ KeeperSound(os, keeper) /\ SampleSound(os, keeper)
  BY DEF ContainmentInv
<1>2. /\ keeper.pc # "end" /\ os.proc[p].state = "alive" /\ ~Running(os, q) /\ q # keeper.child[1]
      /\ os' = Born(os, q, p, "alive", os.proc[p].job) /\ keeper' = keeper
  BY DEF Fork, FreePids, Present, Running
<1> DEFINE r == [gen |-> os.births + 1, parent |-> p, state |-> "alive", job |-> os.proc[p].job]
<1>3. os.births \in Nat /\ os.proc[p].job = TRUE BY <1>1, <1>2 DEF MachineSound, Machines
<1>4. /\ os' \in Machines /\ os'.births = os.births + 1 /\ os'.job = os.job
      /\ os'.proc = [os.proc EXCEPT ![q] = r]
  <2>1. os \in Machines BY <1>1 DEF MachineSound
  <2>2. os' = [os EXCEPT !.births = os.births + 1, !.proc = [os.proc EXCEPT ![q] = r]]
    BY <1>2, <2>1 DEF Born, Machines
  <2>3. p \in Nat /\ os.births + 1 \in Nat BY <1>3
  <2>4. r \in [gen : Nat, parent : Nat,
                state : {"none", "suspended", "alive", "dying", "zombie"}, job : BOOLEAN]
    BY <1>3, <2>3
  <2> HIDE DEF r
  <2> QED BY <2>1, <2>2, <2>3, <2>4 DEF Machines
<1>5. r.gen = os.births + 1 /\ r.state = "alive" /\ r.job BY <1>3
<1> HIDE DEF r
<1>6. os'.proc[q] = r /\ \A x \in Pids : x # q => os'.proc[x] = os.proc[x]
  BY <1>1, <1>4 DEF MachineSound, Machines
<1>7. Advances(os, os')
  BY <1>1, <1>3, <1>4, <1>5, <1>6 DEF Advances, Running, MachineSound, Machines
<1>8. Named(os, p) \in family /\ Running(os, p)
  BY <1>1, <1>2 DEF MachineSound, Running
<1>9. family' = family \cup {<<q, os.births + 1>>}
  BY <1>8 DEF Fork, IdOf, Named
<1>10. os.job # "closed" /\ os'.job # "closed" BY <1>1, <1>2, <1>4 DEF MachineSound
<1>11. MachineSound(os', family')
  <2>1. ASSUME NEW x \in Pids, Running(os', x)
        PROVE  os'.proc[x].gen \in 1..os'.births /\ Named(os', x) \in family'
    <3>1. CASE x = q BY <1>3, <1>4, <1>5, <1>6, <1>9, <3>1 DEF Named
    <3>2. CASE x # q
      <4>1. os'.proc[x] = os.proc[x] /\ Running(os, x) BY <1>6, <2>1, <3>2 DEF Running
      <4> QED BY <1>1, <1>3, <1>4, <1>9, <4>1 DEF MachineSound, Named
    <3> QED BY <3>1, <3>2
  <2>2. \A x \in Pids : os'.proc[x].state = "alive" => os'.proc[x].job
    BY <1>1, <1>5, <1>6 DEF MachineSound
  <2>3. family' \subseteq Pids \X Nat BY <1>1, <1>3, <1>9 DEF MachineSound
  <2> QED BY <1>4, <1>10, <2>1, <2>2, <2>3 DEF MachineSound
<1>12. keeper.assigned /\ Held(os, keeper) BY <1>1, <1>2, <1>8 DEF KeeperSound, Held
<1>13. Held(os', keeper) BY <1>5, <1>6, <1>12 DEF Held, Running
<1>14. ~Deserted(os) BY <1>8 DEF Deserted
<1>15. KeeperSound(os', keeper)
  <2>1. keeper.pc \in LaunchPcs =>
          /\ Named(os', keeper.child[1]) = keeper.child
          /\ os'.proc[keeper.child[1]].state = "suspended"
    BY <1>1, <1>2, <1>6 DEF KeeperSound, Named, LaunchPcs
  <2> QED BY <1>1, <1>2, <1>4, <1>13, <1>14, <2>1 DEF KeeperSound
<1>16. SampleSound(os', keeper)
  BY <1>1, <1>4, <1>7, SampleStays DEF MachineSound
<1> QED BY <1>2, <1>11, <1>15, <1>16

(* A process ends: less runs than before, and a child that was not resumed stays. *)
LEMMA EndKeeps ==
  ASSUME ContainmentInv, keeper.mode = "job", NEW p \in Pids, ProcessEnds(p)
  PROVE  MachineSound(os, family)' /\ KeeperSound(os, keeper)' /\ SampleSound(os, keeper)'
<1> USE ContainmentAssumption
<1>1. MachineSound(os, family) /\ KeeperSound(os, keeper) /\ SampleSound(os, keeper)
  BY DEF ContainmentInv
<1>2. /\ keeper.pc # "end" /\ os.proc[p].state \in {"alive", "dying"}
      /\ keeper' = keeper /\ family' = family
      /\ os' = [os EXCEPT !.proc = [q \in Pids |-> IF q = p THEN NoProcess ELSE os.proc[q]]]
  BY <1>1 DEF ProcessEnds, MachineSound, Machines
<1>3. NoProcess \in [gen : Nat, parent : Nat,
                     state : {"none", "suspended", "alive", "dying", "zombie"}, job : BOOLEAN]
      /\ NoProcess.state = "none"
  BY DEF NoProcess
<1>4. /\ os' \in Machines /\ os'.births = os.births /\ os'.job = os.job
      /\ \A x \in Pids : os'.proc[x] = IF x = p THEN NoProcess ELSE os.proc[x]
  BY <1>1, <1>2, <1>3 DEF MachineSound, Machines
<1>5. \A x \in Pids : Running(os', x) => Running(os, x) /\ os'.proc[x] = os.proc[x]
  BY <1>3, <1>4 DEF Running
<1>6. MachineSound(os', family') BY <1>1, <1>2, <1>3, <1>4, <1>5 DEF MachineSound, Named, Running
<1>7. Advances(os, os') BY <1>1, <1>4, <1>5 DEF Advances, MachineSound, Machines
<1>8. Held(os', keeper) BY <1>1, <1>2, <1>5 DEF KeeperSound, Held, Named
<1>9. Deserted(os) => Deserted(os') BY <1>5 DEF Deserted
<1>10. KeeperSound(os', keeper)
  <2>1. keeper.pc \in LaunchPcs =>
          /\ Named(os', keeper.child[1]) = keeper.child
          /\ os'.proc[keeper.child[1]].state = "suspended"
    BY <1>1, <1>2, <1>4 DEF KeeperSound, Named, LaunchPcs
  <2> QED BY <1>1, <1>2, <1>4, <1>8, <1>9, <2>1 DEF KeeperSound
<1>11. SampleSound(os', keeper)
  BY <1>1, <1>4, <1>7, SampleStays DEF MachineSound
<1> QED BY <1>2, <1>6, <1>10, <1>11

-----------------------------------------------------------------------------
(* Terminating processes. *)

(* Some of what runs is dying: nothing is new, nothing has left. *)
Weakened(m, n) ==
  /\ n \in Machines /\ n.births = m.births
  /\ \A p \in Pids :
       /\ n.proc[p].gen = m.proc[p].gen /\ n.proc[p].job = m.proc[p].job
       /\ Running(n, p) <=> Running(m, p)
       /\ n.proc[p].state \in {m.proc[p].state, "dying"}

Terminated(m, doomed, job) == [m EXCEPT !.job = job, !.proc = Dying(m.proc, doomed)]

(* Whoever is terminated does not stay alive. *)
LEMMA DyingWeakens ==
  ASSUME NEW m \in Machines, NEW doomed, NEW job \in {"none", "open", "closed"}
  PROVE  /\ Weakened(m, Terminated(m, doomed, job)) /\ Terminated(m, doomed, job).job = job
         /\ \A p \in doomed \cap Pids : Terminated(m, doomed, job).proc[p].state # "alive"
<1> DEFINE n == Terminated(m, doomed, job)
<1>7. n = [m EXCEPT !.job = job, !.proc = Dying(m.proc, doomed)] BY DEF Terminated
<1> HIDE DEF n
<1> DEFINE States == {"none", "suspended", "alive", "dying", "zombie"}
           Processes == [gen : Nat, parent : Nat, state : States, job : BOOLEAN]
<1>1. m.proc \in [Pids -> Processes] /\ m.births \in Nat /\ DOMAIN m = {"proc", "births", "job"}
  BY DEF Machines
<1>2. ASSUME NEW r \in Processes
      PROVE  LET d == [r EXCEPT !.state = "dying"]
             IN  /\ d \in Processes /\ d.state = "dying" /\ d.gen = r.gen /\ d.job = r.job
  OBVIOUS
<1> DEFINE procs == Dying(m.proc, doomed)
<1>3. procs \in [Pids -> Processes] BY <1>1, <1>2 DEF Dying
<1>4. ASSUME NEW p \in Pids
      PROVE  /\ procs[p].gen = m.proc[p].gen /\ procs[p].job = m.proc[p].job
             /\ procs[p].state # "none" <=> m.proc[p].state # "none"
             /\ procs[p].state \in {m.proc[p].state, "dying"}
             /\ p \in doomed => procs[p].state # "alive"
  BY <1>1, <1>2 DEF Dying
<1>5. n.job = job /\ n.proc = procs /\ n.births = m.births
  BY <1>1, <1>7
<1>6. n \in Machines
  <2>1. n = [proc |-> procs, births |-> m.births, job |-> job] BY <1>1, <1>7 DEF Machines
  <2> HIDE DEF procs
  <2> QED BY <1>1, <1>3, <2>1 DEF Machines
<1> HIDE DEF procs
<1> QED BY <1>4, <1>5, <1>6 DEF Weakened, Running, n

(* What termination keeps. *)
LEMMA WeakenedStays ==
  ASSUME NEW m, NEW n, NEW kin, NEW k, MachineSound(m, kin), Weakened(m, n),
         n.job = "closed" => \A p \in Pids : n.proc[p].state # "alive"
  PROVE  /\ MachineSound(n, kin) /\ Advances(m, n)
         /\ Held(m, k) => Held(n, k)
         /\ Deserted(m) => Deserted(n)
         /\ SampleSound(m, k) => SampleSound(n, k)
<1>1. m \in Machines /\ n \in Machines BY DEF MachineSound, Weakened
<1>2. MachineSound(n, kin) BY <1>1 DEF MachineSound, Weakened, Named
<1>3. Advances(m, n) BY <1>1 DEF Weakened, Advances, Machines
<1>4. Held(m, k) => Held(n, k) BY <1>1 DEF Weakened, Held, Named
<1>5. Deserted(m) => Deserted(n) BY DEF Weakened, Deserted
<1> QED BY <1>1, <1>2, <1>3, <1>4, <1>5, SampleStays

-----------------------------------------------------------------------------
(* Steps of the keeper that leave the machine alone. *)

(* The keeper goes on with what it knows of its child. *)
GoesOn(k, l) ==
  /\ DOMAIN l = KeeperFields /\ l.mode = k.mode /\ l.child = k.child /\ l.assigned = k.assigned
  /\ l.outcome = k.outcome /\ l.owned = k.owned /\ l.lent = k.lent
  /\ l.errors \in BOOLEAN /\ (l.then = "close" => l.assigned)

BusyPcs == LaunchPcs \cup SamplePcs \cup ClosePcs

(* On its way to the end of the family: the job is given up without an error only when *)
(* nothing runs any more. *)
ClosesOn(m, k, l) ==
  /\ k.pc \in BusyPcs /\ GoesOn(k, l)
  /\ l.pc \in ClosePcs \cup {"release"}
  /\ l.pc = "kill" => ~l.assigned
  /\ l.pc = "release" /\ l.assigned /\ ~l.errors => Deserted(m)

(* Such a step keeps what the keeper knows. *)
LEMMA ClosesOnSound ==
  ASSUME NEW m, NEW k, NEW l, KeeperSound(m, k), ClosesOn(m, k, l)
  PROVE  KeeperSound(m, l) /\ SampleSound(m, l)
<1>1. k.pc \notin {"create", "spawn", "release", "last", "end"}
  BY DEF ClosesOn, BusyPcs, LaunchPcs, SamplePcs, ClosePcs
<1>2. k.outcome = "none" /\ Held(m, k) /\ k.child[1] \in Pids /\ m.job = "open" /\ k.assigned \in BOOLEAN
  BY <1>1 DEF KeeperSound
<1>3. Held(m, l) BY <1>2 DEF Held, GoesOn, ClosesOn
<1>4. KeeperSound(m, l)
  BY <1>2, <1>3 DEF KeeperSound, ClosesOn, GoesOn, LaunchPcs, SamplePcs, ClosePcs
<1>5. SampleSound(m, l) BY DEF ClosesOn, ClosePcs, SampleSound
<1> QED BY <1>4, <1>5

(* A step of the keeper that leaves the machine alone. *)
LEMMA QuietKeeps ==
  ASSUME ContainmentInv, keeper.mode = "job", os' = os, family' = family, GoesOn(keeper, keeper'),
         KeeperSound(os, keeper'), SampleSound(os, keeper')
  PROVE  ContainmentInv'
<1>1. MachineSound(os', family') /\ KeeperSound(os', keeper') /\ SampleSound(os', keeper')
  BY DEF ContainmentInv
<1> QED BY <1>1 DEF ContainmentInv, GoesOn

(* The job is given up without an error only when nothing runs any more. *)
LEMMA ClosingGoesOn ==
  ASSUME ContainmentInv, keeper.mode = "job",
         \/ LaunchFails \/ TerminateQuery \/ TerminateOpen \/ TerminateCheck \/ TerminateWait
         \/ ReapChild \/ DrainJob \/ CloseStarts
         \/ KillUnassigned(FALSE) \/ TerminateJob(FALSE)
  PROVE  ClosesOn(os, keeper, keeper') /\ os' = os /\ family' = family
<1>1. KeeperSound(os, keeper) /\ DOMAIN keeper = KeeperFields
  BY DEF ContainmentInv
<1>2. keeper.errors \in BOOLEAN /\ keeper.assigned \in BOOLEAN /\ (keeper.then = "close" => keeper.assigned)
  BY <1>1 DEF KeeperSound
<1>13. ASSUME TerminationRaises, keeper.pc \in ClosePcs PROVE ClosesOn(os, keeper, keeper')
  <2> DEFINE next == AfterError
  <2>1. next \in {"release", "drain", "reap"} BY DEF AfterError
  <2>2. keeper' = [keeper EXCEPT !.pc = next, !.errors = TRUE, !.handles = {}, !.left = {}, !.before = {}]
    BY <1>1, <1>13 DEF TerminationRaises, Going, KeeperFields
  <2> HIDE DEF next
  <2>3. /\ DOMAIN keeper' = KeeperFields /\ keeper'.pc = next /\ keeper'.errors = TRUE
        /\ keeper'.mode = keeper.mode /\ keeper'.child = keeper.child /\ keeper'.assigned = keeper.assigned
        /\ keeper'.outcome = keeper.outcome /\ keeper'.owned = keeper.owned /\ keeper'.lent = keeper.lent
        /\ keeper'.then = keeper.then
    BY <1>1, <2>2 DEF KeeperFields
  <2> QED BY <1>2, <1>13, <2>1, <2>3 DEF ClosesOn, GoesOn, ClosePcs, BusyPcs
<1> USE DEF KeeperFields, GoesOn, BusyPcs, LaunchPcs, SamplePcs, ClosePcs, ClosesOn, Going, KeeperAt
<1>3. CASE LaunchFails BY <1>1, <1>2, <1>3 DEF LaunchFails
<1>4. CASE TerminateQuery
  <2>1. CASE keeper.tries = 0 BY <1>4, <1>13, <2>1 DEF TerminateQuery
  <2>2. CASE keeper.tries # 0 BY <1>1, <1>2, <1>4, <2>2 DEF TerminateQuery
  <2> QED BY <2>1, <2>2
<1>5. CASE TerminateOpen BY <1>1, <1>2, <1>5 DEF TerminateOpen, TerminateAgain
<1>6. CASE TerminateCheck BY <1>1, <1>2, <1>6 DEF TerminateCheck, TerminateAgain
<1>7. CASE TerminateWait
  <2>1. CASE TerminationRaises BY <1>7, <1>13, <2>1 DEF TerminateWait
  <2>2. CASE keeper' = [Going("reap") EXCEPT !.handles = {}]
    BY <1>1, <1>2, <1>7, <2>2 DEF TerminateWait
  <2> QED BY <1>7, <2>1, <2>2 DEF TerminateWait
<1>8. CASE ReapChild BY <1>1, <1>2, <1>8 DEF ReapChild
<1>9. CASE DrainJob
  <2>1. Drained /\ keeper.assigned => Deserted(os)
    <3>1. keeper.assigned => \A p \in Pids : Running(os, p) => os.proc[p].job
      BY <1>1, <1>9 DEF KeeperSound, DrainJob, Held
    <3> QED BY <3>1 DEF Drained, JobMembers, Present, Deserted, Running
  <2> QED BY <1>1, <1>2, <1>9, <2>1 DEF DrainJob
<1>10. CASE CloseStarts
  <2>1. keeper.assigned BY <1>1, <1>10 DEF CloseStarts, KeeperSound
  <2> QED BY <1>1, <1>2, <1>10, <2>1 DEF CloseStarts
<1>11. CASE KillUnassigned(FALSE)
  BY <1>1, <1>2, <1>11 DEF KillUnassigned
<1>12. CASE TerminateJob(FALSE) BY <1>12, <1>13 DEF TerminateJob
<1> QED BY <1>3, <1>4, <1>5, <1>6, <1>7, <1>8, <1>9, <1>10, <1>11, <1>12

-----------------------------------------------------------------------------
(* Steps of a sample. *)

LEMMA SamplingSound ==
  ASSUME NEW m, NEW k, NEW l, KeeperSound(m, k), GoesOn(k, l), k.pc \in SamplePcs, l.pc \in SamplePcs
  PROVE  KeeperSound(m, l)
<1>1. k.pc \notin {"create", "spawn", "release", "last", "end"} BY DEF SamplePcs
<1>2. k.outcome = "none" /\ Held(m, k) /\ k.child[1] \in Pids /\ m.job = "open" /\ k.assigned = TRUE
  BY <1>1 DEF KeeperSound
<1>3. Held(m, l) BY <1>2 DEF Held, GoesOn
<1> QED BY <1>2, <1>3 DEF KeeperSound, GoesOn, LaunchPcs, SamplePcs, ClosePcs

(* A member that is read: one more identity, and a new one for its PID. *)
LEMMA ReadingKeeps ==
  ASSUME NEW m \in Machines, NEW k, SampleSound(m, k), k.pc = "sRead", NEW p \in k.left, Running(m, p),
         m.proc[p].gen <= m.births
  PROVE  /\ Roster(k.read \cup {Named(m, p)}, k.before \ (k.left \ {p}))
         /\ Seen(m, k.read \cup {Named(m, p)})
<1>1. /\ k.before \subseteq Pids /\ k.left \subseteq k.before
      /\ Roster(k.read, k.before \ k.left) /\ Seen(m, k.read)
  BY DEF SampleSound
<1>2. p \in Pids /\ m.proc[p].gen \in Nat BY <1>1 DEF Machines
<1> DEFINE id == Named(m, p)
           read == k.read \cup {id}
           pids == k.before \ k.left
           more == k.before \ (k.left \ {p})
<1>3. id = <<p, m.proc[p].gen>> /\ id[1] = p /\ id[2] = m.proc[p].gen BY DEF Named
<1>4. more = pids \cup {p} /\ p \notin pids BY <1>1
<1>5. \A x \in k.read : x[1] \in pids BY <1>1 DEF Roster
<1>6. Roster(read, more)
  <2>1. read \subseteq more \X Nat BY <1>1, <1>2, <1>3, <1>4 DEF Roster
  <2>2. \A q \in more : \E x \in read : x[1] = q BY <1>1, <1>3, <1>4 DEF Roster
  <2>3. \A x, y \in read : x[1] = y[1] => x = y BY <1>1, <1>3, <1>4, <1>5 DEF Roster
  <2> HIDE DEF read, more
  <2> QED BY <2>1, <2>2, <2>3 DEF Roster
<1>7. Seen(m, read) BY <1>1, <1>2, <1>3 DEF Seen
<1> QED BY <1>6, <1>7

(* The list is the one of before the reads: what was read is not newer than the members. *)
LEMMA RereadKeeps ==
  ASSUME NEW m \in Machines, NEW k, SampleSound(m, k), k.pc = "sRead", k.left = {},
         NEW truth, truth = {Named(m, p) : p \in k.before},
         \A p \in k.before : Running(m, p) /\ m.proc[p].gen <= m.births
  PROVE  /\ Roster(k.read, k.before) /\ Roster(truth, k.before) /\ Seen(m, truth)
         /\ \A x \in k.read, y \in truth : x[1] \in k.before /\ (x[1] = y[1] => x[2] <= y[2])
<1>1. k.before \subseteq Pids /\ k.before \ k.left = k.before
      /\ Roster(k.read, k.before) /\ Seen(m, k.read)
  BY DEF SampleSound
<1>2. \A p \in k.before : m.proc[p].gen \in Nat BY <1>1 DEF Machines
<1>3. \A p \in k.before : Named(m, p) = <<p, m.proc[p].gen>>
  BY DEF Named
<1>4. \A y \in truth : \E p \in k.before : y = <<p, m.proc[p].gen>> BY <1>3
<1>5. \A p \in k.before : <<p, m.proc[p].gen>> \in truth BY <1>3
<1>6. Roster(truth, k.before)
  <2>1. truth \subseteq k.before \X Nat BY <1>2, <1>4
  <2>2. \A p \in k.before : \E y \in truth : y[1] = p BY <1>5
  <2>3. \A x, y \in truth : x[1] = y[1] => x = y BY <1>4
  <2> QED BY <2>1, <2>2, <2>3 DEF Roster
<1>7. Seen(m, truth) BY <1>2, <1>4 DEF Seen
<1>8. ASSUME NEW x \in k.read, NEW y \in truth
      PROVE  x[1] \in k.before /\ (x[1] = y[1] => x[2] <= y[2])
  <2>1. x[1] \in k.before BY <1>1 DEF Roster
  <2>2. PICK p \in k.before : y = <<p, m.proc[p].gen>> BY <1>4
  <2> QED BY <1>1, <2>1, <2>2 DEF Seen
<1> QED BY <1>1, <1>6, <1>7, <1>8

(* A member that is found with the generation that was read has been there all the time. *)
LEMMA VerifyingKeeps ==
  ASSUME NEW m \in Machines, NEW k, SampleSound(m, k), k.pc = "sVerify", NEW p \in k.left, Running(m, p),
         Named(m, p) \in k.read, NEW x \in k.read, NEW y \in k.truth, x[1] = y[1],
         x[1] \notin k.left \ {p}
  PROVE  x = y
<1>1. /\ Roster(k.read, k.before) /\ Roster(k.truth, k.before) /\ Seen(m, k.truth)
      /\ x[2] <= y[2] /\ (x[1] \notin k.left => x = y) /\ k.left \subseteq k.before /\ k.before \subseteq Pids
  BY DEF SampleSound
<1>2. CASE x[1] = p
  <2>1. Named(m, p)[1] = p /\ Named(m, p)[2] = m.proc[p].gen BY DEF Named
  <2>2. x = Named(m, p) BY <1>1, <1>2, <2>1 DEF Roster
  <2>3. y[2] <= m.proc[p].gen BY <1>1, <1>2 DEF Seen
  <2>4. x \in k.before \X Nat /\ y \in k.before \X Nat BY <1>1 DEF Roster
  <2> QED BY <1>1, <2>1, <2>2, <2>3, <2>4
<1> QED BY <1>1, <1>2

(* Every step of a sample keeps what was read and the truth apart from later generations. *)
LEMMA SamplingGoesOn ==
  ASSUME ContainmentInv, keeper.mode = "job",
         \/ SampleStarts \/ SampleQuery \/ SampleRead \/ SampleReread \/ SampleVerify \/ SampleReturns
  PROVE  /\ keeper.pc \in SamplePcs /\ keeper'.pc \in SamplePcs /\ GoesOn(keeper, keeper')
         /\ SampleSound(os, keeper') /\ os' = os /\ family' = family
<1>1. MachineSound(os, family) /\ KeeperSound(os, keeper) /\ SampleSound(os, keeper)
      /\ DOMAIN keeper = KeeperFields
  BY DEF ContainmentInv
<1>2. keeper.errors \in BOOLEAN /\ keeper.assigned \in BOOLEAN /\ (keeper.then = "close" => keeper.assigned)
  BY <1>1 DEF KeeperSound
<1>3. os \in Machines BY <1>1 DEF MachineSound
<1>4. \A p \in JobMembers : p \in Pids /\ Running(os, p) /\ os.proc[p].gen <= os.births
  BY <1>1 DEF JobMembers, Present, Running, MachineSound
<1>5. \A p \in Pids : IdOf(p) = Named(os, p) BY DEF IdOf, Named
<1> DEFINE Same == /\ DOMAIN keeper' = KeeperFields /\ keeper'.mode = keeper.mode
                   /\ keeper'.child = keeper.child /\ keeper'.assigned = keeper.assigned
                   /\ keeper'.outcome = keeper.outcome /\ keeper'.owned = keeper.owned
                   /\ keeper'.lent = keeper.lent /\ keeper'.errors = keeper.errors
                   /\ keeper'.then = keeper.then
<1>6. ASSUME Same PROVE GoesOn(keeper, keeper') BY <1>2, <1>6 DEF GoesOn
<1>7. ASSUME SampleRaises
      PROVE  Same /\ keeper'.pc = "monitor"
  BY <1>1, <1>7 DEF SampleRaises, Going, KeeperFields
<1>8. ASSUME SampleAgain
      PROVE  Same /\ keeper'.pc = "sQuery" /\ keeper'.read = {}
  BY <1>1, <1>8 DEF SampleAgain, Going, KeeperFields
<1>9. ASSUME SampleRaises \/ SampleAgain
      PROVE  keeper'.pc \in SamplePcs /\ GoesOn(keeper, keeper') /\ SampleSound(os, keeper')
  BY <1>6, <1>7, <1>8, <1>9 DEF SamplePcs, SampleSound
<1>10. CASE SampleStarts
  <2>1. Same /\ keeper'.pc = "sQuery" /\ keeper'.read = {}
    BY <1>1, <1>10 DEF SampleStarts, Going, KeeperFields
  <2> QED BY <1>6, <1>10, <2>1 DEF SampleStarts, SamplePcs, SampleSound
<1>11. CASE SampleQuery
  <2>1. keeper.pc = "sQuery" /\ keeper.read = {} /\ os' = os /\ family' = family
    BY <1>1, <1>11 DEF SampleQuery, KeeperAt, SampleSound
  <2>2. CASE SampleRaises BY <1>9, <2>1, <2>2 DEF SamplePcs
  <2>3. CASE keeper' = [Going("sRead") EXCEPT !.tries = @ - 1, !.before = JobMembers, !.left = JobMembers]
    <3>1. Same /\ keeper'.pc = "sRead" /\ keeper'.read = {} /\ keeper'.before = JobMembers
          /\ keeper'.left = JobMembers
      BY <1>1, <2>1, <2>3 DEF Going, KeeperFields
    <3>2. SampleSound(os, keeper') BY <1>4, <3>1 DEF SampleSound, Roster, Seen
    <3> QED BY <1>6, <2>1, <3>1, <3>2 DEF SamplePcs
  <2> QED BY <1>11, <2>2, <2>3 DEF SampleQuery
<1>12. CASE SampleRead
  <2> DEFINE p == Min(keeper.left)
  <2>1. keeper.pc = "sRead" /\ keeper.left # {} /\ os' = os /\ family' = family
    BY <1>12 DEF SampleRead, KeeperAt
  <2>2. p \in keeper.left /\ p \in Pids
    BY <1>1, <2>1, MinOfPids DEF SampleSound
  <2>3. \/ p \in JobMembers /\ keeper' = [keeper EXCEPT !.left = @ \ {p}, !.read = @ \cup {IdOf(p)}]
        \/ SampleAgain
    BY <1>12 DEF SampleRead
  <2> HIDE DEF p
  <2>4. CASE p \in JobMembers /\ keeper' = [keeper EXCEPT !.left = @ \ {p}, !.read = @ \cup {IdOf(p)}]
    <3>1. Same /\ keeper'.pc = "sRead" /\ keeper'.read = keeper.read \cup {Named(os, p)}
          /\ keeper'.before = keeper.before /\ keeper'.left = keeper.left \ {p}
      BY <1>1, <1>5, <2>1, <2>2, <2>4 DEF KeeperFields
    <3>2. Running(os, p) /\ os.proc[p].gen <= os.births BY <1>4, <2>4
    <3>3. /\ Roster(keeper.read \cup {Named(os, p)}, keeper.before \ (keeper.left \ {p}))
          /\ Seen(os, keeper.read \cup {Named(os, p)})
      BY <1>1, <1>3, <2>1, <2>2, <3>2, ReadingKeeps
    <3>4. SampleSound(os, keeper') BY <1>1, <2>1, <3>1, <3>3 DEF SampleSound
    <3> QED BY <1>6, <2>1, <3>1, <3>4 DEF SamplePcs
  <2> QED BY <1>9, <2>1, <2>3, <2>4 DEF SamplePcs
<1>13. CASE SampleReread
  <2>1. keeper.pc = "sRead" /\ keeper.left = {} /\ os' = os /\ family' = family
    BY <1>13 DEF SampleReread, KeeperAt
  <2>2. CASE keeper.before = JobMembers
    <3> DEFINE truth == {Named(os, p) : p \in keeper.before}
    <3>1. {IdOf(p) : p \in JobMembers} = truth BY <1>4, <1>5, <2>2
    <3>2. keeper' = [Going("sVerify") EXCEPT !.left = keeper.before, !.truth = truth]
      BY <1>13, <2>2, <3>1 DEF SampleReread
    <3> HIDE DEF truth
    <3>3. Same /\ keeper'.pc = "sVerify" /\ keeper'.read = keeper.read /\ keeper'.truth = truth
          /\ keeper'.before = keeper.before /\ keeper'.left = keeper.before
      BY <1>1, <2>1, <3>2 DEF Going, KeeperFields
    <3>4. /\ Roster(keeper.read, keeper.before) /\ Roster(truth, keeper.before) /\ Seen(os, truth)
          /\ \A x \in keeper.read, y \in truth : x[1] \in keeper.before /\ (x[1] = y[1] => x[2] <= y[2])
      <4>1. \A p \in keeper.before : Running(os, p) /\ os.proc[p].gen <= os.births BY <1>4, <2>2
      <4>2. truth = {Named(os, p) : p \in keeper.before} BY DEF truth
      <4> QED BY <1>1, <1>3, <2>1, <4>1, <4>2, RereadKeeps
    <3>5. SampleSound(os, keeper') BY <1>1, <2>1, <3>3, <3>4 DEF SampleSound
    <3> QED BY <1>6, <2>1, <3>3, <3>5 DEF SamplePcs
  <2>3. CASE keeper.before # JobMembers BY <1>9, <1>13, <2>1, <2>3 DEF SampleReread, SamplePcs
  <2> QED BY <2>2, <2>3
<1>14. CASE SampleVerify
  <2> DEFINE p == Min(keeper.left)
  <2>1. keeper.pc = "sVerify" /\ keeper.left # {} /\ os' = os /\ family' = family
    BY <1>14 DEF SampleVerify, KeeperAt
  <2>2. p \in keeper.left /\ p \in Pids
    BY <1>1, <2>1, MinOfPids DEF SampleSound
  <2>3. \/ SampleRaises \/ SampleAgain
        \/ p \in JobMembers /\ IdOf(p) \in keeper.read /\ keeper' = [keeper EXCEPT !.left = @ \ {p}]
    BY <1>14 DEF SampleVerify, SameGeneration
  <2> HIDE DEF p
  <2>4. CASE p \in JobMembers /\ IdOf(p) \in keeper.read /\ keeper' = [keeper EXCEPT !.left = @ \ {p}]
    <3>1. Same /\ keeper'.pc = "sVerify" /\ keeper'.read = keeper.read /\ keeper'.truth = keeper.truth
          /\ keeper'.before = keeper.before /\ keeper'.left = keeper.left \ {p}
      BY <1>1, <2>1, <2>2, <2>4 DEF KeeperFields
    <3>2. Running(os, p) /\ Named(os, p) \in keeper.read BY <1>4, <1>5, <2>2, <2>4
    <3>3. \A x \in keeper.read, y \in keeper.truth : x[1] = y[1] /\ x[1] \notin keeper.left \ {p} => x = y
      BY <1>1, <1>3, <2>1, <2>2, <3>2, VerifyingKeeps
    <3>4. SampleSound(os, keeper') BY <1>1, <2>1, <3>1, <3>3 DEF SampleSound
    <3> QED BY <1>6, <2>1, <3>1, <3>4 DEF SamplePcs
  <2> QED BY <1>9, <2>1, <2>3, <2>4 DEF SamplePcs
<1>15. CASE SampleReturns
  <2>1. keeper.pc = "sVerify" /\ keeper.left = {} /\ os' = os /\ family' = family
    BY <1>15 DEF SampleReturns, KeeperAt
  <2>2. keeper.read = keeper.truth
    <3>1. /\ Roster(keeper.read, keeper.before) /\ Roster(keeper.truth, keeper.before)
          /\ \A x \in keeper.read, y \in keeper.truth : x[1] = y[1] => x = y
      BY <1>1, <2>1 DEF SampleSound
    <3>2. \A x \in keeper.read : x[1] \in keeper.before BY <3>1 DEF Roster
    <3>3. \A y \in keeper.truth : y[1] \in keeper.before BY <3>1 DEF Roster
    <3>4. ASSUME NEW x \in keeper.read PROVE x \in keeper.truth BY <3>1, <3>2 DEF Roster
    <3>5. ASSUME NEW y \in keeper.truth PROVE y \in keeper.read BY <3>1, <3>3 DEF Roster
    <3> QED BY <3>4, <3>5
  <2>3. CASE keeper' = [Going("sampled") EXCEPT !.before = {}, !.tries = 0]
    <3>1. Same /\ keeper'.pc = "sampled" /\ keeper'.read = keeper.read /\ keeper'.truth = keeper.truth
      BY <1>1, <2>1, <2>3 DEF Going, KeeperFields
    <3>2. SampleSound(os, keeper') BY <2>2, <3>1 DEF SampleSound
    <3> QED BY <1>6, <2>1, <3>1, <3>2 DEF SamplePcs
  <2> QED BY <1>9, <1>15, <2>1, <2>3 DEF SampleReturns, SamplePcs
<1> QED BY <1>10, <1>11, <1>12, <1>13, <1>14, <1>15

-----------------------------------------------------------------------------
(* Steps of the keeper that end the program. *)

LEMMA EndingKeeps ==
  ASSUME keeper.mode = "job", NEW o, keeper' = Ended(o), MachineSound(os', family'),
         o \in {"closed", "failed"} => Deserted(os')
  PROVE  ContainmentInv'
<1>1. /\ DOMAIN keeper' = KeeperFields /\ keeper'.pc = "end" /\ keeper'.outcome = o /\ keeper'.mode = "job"
      /\ keeper'.assigned = FALSE /\ keeper'.errors = FALSE /\ keeper'.then = "none" /\ keeper'.owned = {}
  BY DEF Ended, Idle, KeeperFields
<1>2. KeeperSound(os', keeper') BY <1>1 DEF KeeperSound, LaunchPcs, SamplePcs, ClosePcs
<1>3. SampleSound(os', keeper') BY <1>1 DEF SampleSound
<1> QED BY <1>1, <1>2, <1>3 DEF ContainmentInv

(* The last handle of the job is closed: nobody in it stays alive, and nobody was outside. *)
LEMMA JobClosedKeeps ==
  ASSUME ContainmentInv, keeper.mode = "job"
  PROVE  /\ MachineSound(JobClosed(os), family) /\ JobClosed(os).job = "closed"
         /\ \A k : Held(os, k) => Held(JobClosed(os), k)
         /\ Deserted(os) => Deserted(JobClosed(os))
<1>1. MachineSound(os, family) /\ os \in Machines BY DEF ContainmentInv, MachineSound
<1> DEFINE doomed == {p \in Pids : os.proc[p].job}
           n == JobClosed(os)
<1>2. n = Terminated(os, doomed, "closed")
  BY <1>1 DEF JobClosed, Terminated, Machines
<1> HIDE DEF n, doomed
<1>3. /\ Weakened(os, n) /\ n.job = "closed" /\ \A p \in doomed \cap Pids : n.proc[p].state # "alive"
  BY <1>1, <1>2, DyingWeakens
<1>4. ASSUME NEW p \in Pids PROVE n.proc[p].state # "alive"
  BY <1>1, <1>3 DEF doomed, MachineSound, Weakened
<1>5. ASSUME NEW k
      PROVE  /\ MachineSound(n, family) /\ (Held(os, k) => Held(n, k))
             /\ Deserted(os) => Deserted(n)
  <2>1. n.job = "closed" => \A p \in Pids : n.proc[p].state # "alive" BY <1>4
  <2> QED BY ONLY <1>1, <1>3, <2>1, WeakenedStays
<1> QED BY <1>3, <1>5 DEF n

(* A launch that fails before there is a child, the end of a close or of a cleanup, and the *)
(* death of the program. *)
LEMMA LeavingKeeps ==
  ASSUME ContainmentInv, keeper.mode = "job",
         \/ CreateJob(FALSE) \/ SpawnFails \/ LastWait \/ KeeperDies
         \/ ReleaseJob /\ keeper' = Ended("closed")
  PROVE  ContainmentInv'
<1>1. MachineSound(os, family) /\ KeeperSound(os, keeper) /\ os \in Machines
  BY DEF ContainmentInv, MachineSound
<1>2. /\ MachineSound(JobClosed(os), family)
      /\ Deserted(os) => Deserted(JobClosed(os))
  BY JobClosedKeeps
<1>3. ~keeper.assigned /\ keeper.child = NoIdentity /\ keeper.pc # "end" => Deserted(os)
  <2> SUFFICES ASSUME ~keeper.assigned, keeper.child = NoIdentity, keeper.pc # "end", NEW p \in Pids, Running(os, p)
               PROVE  FALSE
    BY DEF Deserted
  <2>1. Named(os, p) = NoIdentity BY <1>1 DEF KeeperSound, Held
  <2> QED BY <2>1, ContainmentAssumption DEF Named, NoIdentity
<1>4. CASE CreateJob(FALSE)
  <2>1. keeper.pc = "create" /\ os' = [os EXCEPT !.job = "closed"] /\ family' = family /\ keeper' = Ended("failed")
    BY <1>4 DEF CreateJob, KeeperAt
  <2>2. Deserted(os) BY <1>1, <1>3, <2>1 DEF KeeperSound
  <2>3. os' \in Machines /\ os'.proc = os.proc /\ os'.births = os.births /\ os'.job = "closed"
    BY <1>1, <2>1 DEF Machines
  <2>4. MachineSound(os', family') /\ Deserted(os')
    BY <1>1, <2>1, <2>2, <2>3 DEF MachineSound, Deserted, Running, Named
  <2> QED BY <2>1, <2>4, EndingKeeps
<1>5. CASE SpawnFails
  <2>1. keeper.pc = "spawn" /\ os' = JobClosed(os) /\ family' = family /\ keeper' = Ended("failed")
    BY <1>5 DEF SpawnFails, KeeperAt
  <2>2. Deserted(os) BY <1>1, <1>3, <2>1 DEF KeeperSound
  <2> QED BY <1>2, <2>1, <2>2, EndingKeeps
<1>6. CASE LastWait
  <2> DEFINE confirmed == keeper.then = "cleanup" /\ ~Exists(keeper.child) /\ ~keeper.errors
             o == IF confirmed THEN "failed" ELSE "unconfirmed"
  <2>1. keeper.pc = "last" /\ os' = os /\ family' = family /\ keeper' = Ended(o)
    BY <1>6 DEF LastWait, KeeperAt
  <2>2. ASSUME confirmed PROVE Deserted(os)
    <3>1. CASE keeper.assigned BY <1>1, <2>1, <2>2, <3>1 DEF KeeperSound
    <3>2. CASE ~keeper.assigned
      <4>1. \A p \in Pids : Running(os, p) => Named(os, p) = keeper.child
        BY <1>1, <2>1, <3>2 DEF KeeperSound, Held
      <4>2. keeper.child[1] \in Pids BY <1>1, <2>1 DEF KeeperSound
      <4>3. ASSUME NEW p \in Pids, Running(os, p) PROVE FALSE
        <5>1. keeper.child = <<p, os.proc[p].gen>> /\ keeper.child[1] = p BY <4>1, <4>3 DEF Named
        <5>2. keeper.child # NoIdentity BY <4>2, ContainmentAssumption DEF NoIdentity
        <5> QED BY <2>2, <4>3, <5>1, <5>2 DEF Exists, Present, IdOf, Running
      <4> QED BY <4>3 DEF Deserted
    <3> QED BY <1>1, <3>1, <3>2
  <2> HIDE DEF confirmed
  <2>3. o \in {"closed", "failed"} => Deserted(os') BY <2>1, <2>2
  <2>4. MachineSound(os', family') BY <1>1, <2>1
  <2> HIDE DEF o
  <2> QED BY <2>1, <2>3, <2>4, EndingKeeps
<1>7. CASE KeeperDies
  <2>1. keeper' = Ended("died") /\ MachineSound(os', family')
    BY <1>1, <1>2, <1>7 DEF KeeperDies
  <2> QED BY <2>1, EndingKeeps
<1>8. CASE ReleaseJob /\ keeper' = Ended("closed")
  <2>1. keeper.pc = "release" /\ os' = JobClosed(os) /\ family' = family
    BY <1>8 DEF ReleaseJob, KeeperAt
  <2>2. keeper.then = "close" /\ ~keeper.errors
    <3>1. Ended("closed").pc = "end" /\ DOMAIN keeper = KeeperFields BY DEF Ended, Idle, ContainmentInv
    <3>2. Going("last").pc # "end" BY <3>1 DEF Going, KeeperFields
    <3> QED BY <1>8, <3>1, <3>2 DEF ReleaseJob
  <2>3. Deserted(os) BY <1>1, <2>1, <2>2 DEF KeeperSound
  <2> QED BY <1>2, <1>8, <2>1, <2>3, EndingKeeps
<1> QED BY <1>4, <1>5, <1>6, <1>7, <1>8

-----------------------------------------------------------------------------
(* Steps of the keeper that change the machine. *)

(* The machine with one process made another. *)
Remade(m, p, r) == [m EXCEPT !.proc = [m.proc EXCEPT ![p] = r]]

(* Nothing else changes. *)
LEMMA RemadeMachine ==
  ASSUME NEW m \in Machines, NEW p \in Pids,
         NEW r \in [gen : Nat, parent : Nat, state : {"none", "suspended", "alive", "dying", "zombie"},
                    job : BOOLEAN]
  PROVE  /\ Remade(m, p, r) \in Machines /\ Remade(m, p, r).births = m.births
         /\ Remade(m, p, r).job = m.job /\ Remade(m, p, r).proc[p] = r
         /\ \A q \in Pids : q # p => Remade(m, p, r).proc[q] = m.proc[q]
BY DEF Remade, Machines

(* The child is put into the job, and only there it is resumed. *)
LEMMA LaunchKeeps ==
  ASSUME ContainmentInv, keeper.mode = "job", AssignToJob \/ IdentifyRoot \/ ResumeRoot
  PROVE  ContainmentInv'
<1>1. /\ MachineSound(os, family) /\ KeeperSound(os, keeper) /\ os \in Machines
      /\ DOMAIN keeper = KeeperFields /\ keeper.owned = {}
  BY DEF ContainmentInv, MachineSound
<1> DEFINE c == keeper.child[1]
           r == os.proc[c]
<1>2. /\ keeper.pc \in LaunchPcs /\ c \in Pids /\ os.job = "open" /\ keeper.outcome = "none"
      /\ <<c, r.gen>> = keeper.child /\ r.state = "suspended" /\ Held(os, keeper)
      /\ keeper.assigned \in BOOLEAN /\ keeper.errors \in BOOLEAN
      /\ keeper.then = "close" => keeper.assigned
      /\ keeper.assigned <=> keeper.pc # "assign"
  BY <1>1 DEF KeeperSound, AssignToJob, IdentifyRoot, ResumeRoot, KeeperAt, LaunchPcs, SamplePcs, ClosePcs, Named
<1>3. r \in [gen : Nat, parent : Nat, state : {"none", "suspended", "alive", "dying", "zombie"},
             job : BOOLEAN]
  BY <1>1, <1>2 DEF Machines
<1> DEFINE Same == /\ DOMAIN keeper' = KeeperFields /\ keeper'.mode = "job"
                   /\ keeper'.child = keeper.child /\ keeper'.outcome = "none"
                   /\ keeper'.owned = {} /\ keeper'.errors = keeper.errors
                   /\ keeper'.then = keeper.then /\ keeper'.assigned = TRUE
<1>4. CASE AssignToJob
  <2> DEFINE s == [r EXCEPT !.job = TRUE]
  <2>1. Same /\ keeper'.pc = "identify" /\ family' = family
    BY <1>1, <1>2, <1>4 DEF AssignToJob, KeeperAt, Going, KeeperFields
  <2>2. os' = Remade(os, c, s)
    BY <1>1, <1>2, <1>4 DEF AssignToJob, Remade, Machines
  <2>3. s \in [gen : Nat, parent : Nat, state : {"none", "suspended", "alive", "dying", "zombie"},
               job : BOOLEAN]
        /\ s.gen = r.gen /\ s.state = "suspended" /\ s.job = TRUE
    BY <1>2, <1>3
  <2> HIDE DEF s
  <2>4. /\ os' \in Machines /\ os'.births = os.births /\ os'.job = os.job /\ os'.proc[c] = s
        /\ \A q \in Pids : q # c => os'.proc[q] = os.proc[q]
    BY <1>1, <1>2, <2>2, <2>3, RemadeMachine
  <2> HIDE DEF c
  <2>5. \A q \in Pids : Running(os, q) => Named(os, q) = keeper.child
    BY <1>2, <1>4 DEF Held, AssignToJob, KeeperAt
  <2>6. \A q \in Pids : Running(os, q) => q = c
    BY <1>2, <2>5 DEF Named
  <2>7. MachineSound(os', family')
    BY <1>1, <1>2, <2>1, <2>3, <2>4 DEF MachineSound, Named, Running
  <2>8. Held(os', keeper') BY <2>1, <2>3, <2>4, <2>6 DEF Held, Running
  <2>9. Named(os', c) = keeper.child BY <1>2, <2>3, <2>4 DEF Named
  <2>10. KeeperSound(os', keeper')
    BY <1>2, <2>1, <2>3, <2>4, <2>8, <2>9 DEF KeeperSound, LaunchPcs, SamplePcs, ClosePcs, c
  <2>11. SampleSound(os', keeper') BY <2>1 DEF SampleSound
  <2> QED BY <2>1, <2>7, <2>10, <2>11 DEF ContainmentInv
<1>5. CASE IdentifyRoot
  <2>1. Same /\ keeper'.pc = "resume" /\ family' = family /\ os' = os
    BY <1>1, <1>2, <1>5 DEF IdentifyRoot, KeeperAt, Going, KeeperFields
  <2>2. Held(os', keeper') BY <1>2, <1>5, <2>1 DEF Held, IdentifyRoot, KeeperAt
  <2>3. KeeperSound(os', keeper')
    BY <1>2, <2>1, <2>2 DEF KeeperSound, LaunchPcs, SamplePcs, ClosePcs, Named
  <2>4. SampleSound(os', keeper') BY <2>1 DEF SampleSound
  <2> QED BY <1>1, <2>1, <2>3, <2>4 DEF ContainmentInv
<1>6. CASE ResumeRoot
  <2> DEFINE s == [r EXCEPT !.state = "alive"]
  <2>1. Same /\ keeper'.pc = "monitor" /\ family' = family
    BY <1>1, <1>2, <1>6 DEF ResumeRoot, KeeperAt, Going, KeeperFields
  <2>2. os' = Remade(os, c, s)
    BY <1>1, <1>2, <1>6 DEF ResumeRoot, Remade, Machines
  <2>3. r.job = TRUE
    BY <1>2, <1>3, <1>6 DEF Held, ResumeRoot, KeeperAt, Running
  <2>4. s \in [gen : Nat, parent : Nat, state : {"none", "suspended", "alive", "dying", "zombie"},
               job : BOOLEAN]
        /\ s.gen = r.gen /\ s.state = "alive" /\ s.job = TRUE
    BY <1>3, <2>3
  <2> HIDE DEF s
  <2>5. /\ os' \in Machines /\ os'.births = os.births /\ os'.job = os.job /\ os'.proc[c] = s
        /\ \A q \in Pids : q # c => os'.proc[q] = os.proc[q]
    BY <1>1, <1>2, <2>2, <2>4, RemadeMachine
  <2> HIDE DEF c
  <2>6. Held(os, keeper) /\ keeper.assigned BY <1>2, <1>6 DEF ResumeRoot, KeeperAt
  <2>7. MachineSound(os', family')
    BY <1>1, <1>2, <2>1, <2>4, <2>5 DEF MachineSound, Named, Running
  <2>8. Held(os', keeper') BY <2>1, <2>4, <2>5, <2>6 DEF Held, Running
  <2>9. KeeperSound(os', keeper')
    BY <1>2, <2>1, <2>5, <2>8 DEF KeeperSound, LaunchPcs, SamplePcs, ClosePcs, c
  <2>10. SampleSound(os', keeper') BY <2>1 DEF SampleSound
  <2> QED BY <2>1, <2>7, <2>9, <2>10 DEF ContainmentInv
<1> QED BY <1>4, <1>5, <1>6

(* The job is made, and the child is started in it suspended. *)
LEMMA StartKeeps ==
  ASSUME ContainmentInv, keeper.mode = "job", CreateJob(TRUE) \/ \E p \in Pids : SpawnSuspended(p)
  PROVE  ContainmentInv'
<1>1. /\ MachineSound(os, family) /\ KeeperSound(os, keeper) /\ os \in Machines
      /\ DOMAIN keeper = KeeperFields /\ keeper.owned = {}
  BY DEF ContainmentInv, MachineSound
<1>2. keeper.pc \in {"create", "spawn"} BY DEF CreateJob, SpawnSuspended, KeeperAt
<1>3. /\ ~keeper.assigned /\ keeper.child = NoIdentity /\ keeper.outcome = "none" /\ Held(os, keeper)
      /\ keeper.assigned \in BOOLEAN /\ keeper.errors \in BOOLEAN /\ keeper.then # "close"
  BY <1>1, <1>2 DEF KeeperSound
<1>4. ASSUME NEW p \in Pids PROVE ~Running(os, p)
  <2>1. SUFFICES ASSUME Running(os, p) PROVE FALSE OBVIOUS
  <2>2. Named(os, p) = NoIdentity BY <1>3, <2>1 DEF Held
  <2> QED BY <2>2, ContainmentAssumption DEF Named, NoIdentity
<1> DEFINE Same == /\ DOMAIN keeper' = KeeperFields /\ keeper'.mode = "job" /\ keeper'.outcome = "none"
                   /\ keeper'.owned = {} /\ keeper'.errors = keeper.errors
                   /\ keeper'.then = keeper.then /\ keeper'.assigned = FALSE
<1>5. CASE CreateJob(TRUE)
  <2>1. Same /\ keeper'.pc = "spawn" /\ keeper'.child = NoIdentity /\ family' = family
        /\ os' = [os EXCEPT !.job = "open"]
    BY <1>1, <1>3, <1>5 DEF CreateJob, KeeperAt, Going, KeeperFields
  <2>2. os' \in Machines /\ os'.proc = os.proc /\ os'.births = os.births /\ os'.job = "open"
    BY <1>1, <2>1 DEF Machines
  <2>3. MachineSound(os', family') BY <1>1, <2>1, <2>2 DEF MachineSound, Running, Named
  <2>4. Held(os', keeper') BY <1>4, <2>1, <2>2 DEF Held, Running
  <2>5. KeeperSound(os', keeper')
    BY <1>3, <2>1, <2>2, <2>4 DEF KeeperSound, LaunchPcs, SamplePcs, ClosePcs
  <2>6. SampleSound(os', keeper') BY <2>1 DEF SampleSound
  <2> QED BY <2>1, <2>3, <2>5, <2>6 DEF ContainmentInv
<1>6. ASSUME NEW p \in Pids, SpawnSuspended(p) PROVE ContainmentInv'
  <2> DEFINE r == [gen |-> os.births + 1, parent |-> 0, state |-> "suspended", job |-> FALSE]
             born == [os EXCEPT !.births = os.births + 1]
  <2>1. /\ Same /\ keeper'.pc = "assign" /\ keeper'.child = <<p, os.births + 1>>
        /\ family' = {<<p, os.births + 1>>}
    BY <1>1, <1>3, <1>6 DEF SpawnSuspended, KeeperAt, Going, KeeperFields
  <2>2. os.births \in Nat /\ os.job = "open"
    BY <1>1, <1>6 DEF Machines, KeeperSound, SpawnSuspended, KeeperAt
  <2>3. born \in Machines /\ born.births = os.births + 1 /\ born.proc = os.proc /\ born.job = os.job
    BY <1>1, <2>2 DEF Machines
  <2>4. r \in [gen : Nat, parent : Nat, state : {"none", "suspended", "alive", "dying", "zombie"},
               job : BOOLEAN]
        /\ r.gen = os.births + 1 /\ r.state = "suspended"
    BY <2>2
  <2>5. os' = Remade(born, p, r)
    BY <1>1, <1>6 DEF SpawnSuspended, Born, Remade, Machines
  <2> HIDE DEF r, born
  <2>6. /\ os' \in Machines /\ os'.births = os.births + 1 /\ os'.job = "open" /\ os'.proc[p] = r
        /\ \A q \in Pids : q # p => os'.proc[q] = os.proc[q]
    BY <2>2, <2>3, <2>4, <2>5, RemadeMachine
  <2>7. \A q \in Pids : Running(os', q) => q = p BY <1>4, <2>6 DEF Running
  <2>8. Named(os', p) = <<p, os.births + 1>> BY <2>4, <2>6 DEF Named
  <2>9. MachineSound(os', family')
    <3>1. \A q \in Pids : os'.proc[q].state # "alive"
      BY <2>4, <2>6, <2>7 DEF Running
    <3>2. os.births + 1 \in 1..os'.births BY <2>2, <2>6
    <3> QED BY <2>1, <2>4, <2>6, <2>7, <2>8, <3>1, <3>2 DEF MachineSound
  <2>10. Held(os', keeper') BY <2>1, <2>4, <2>6, <2>7, <2>8 DEF Held
  <2>11. keeper'.child[1] = p BY <2>1
  <2>12. KeeperSound(os', keeper')
    BY <1>3, <2>1, <2>4, <2>6, <2>8, <2>10, <2>11 DEF KeeperSound, LaunchPcs, SamplePcs, ClosePcs
  <2>13. SampleSound(os', keeper') BY <2>1 DEF SampleSound
  <2> QED BY <2>1, <2>9, <2>12, <2>13 DEF ContainmentInv
<1> QED BY <1>5, <1>6

(* Processes are terminated. *)
LEMMA KillingKeeps ==
  ASSUME ContainmentInv, keeper.mode = "job",
         KillUnassigned(TRUE) \/ TerminateJob(TRUE)
  PROVE  ContainmentInv'
<1>1. /\ MachineSound(os, family) /\ KeeperSound(os, keeper) /\ os \in Machines
      /\ DOMAIN keeper = KeeperFields /\ keeper.owned = {}
  BY DEF ContainmentInv, MachineSound
<1>2. keeper.errors \in BOOLEAN /\ keeper.assigned \in BOOLEAN /\ (keeper.then = "close" => keeper.assigned)
  BY <1>1 DEF KeeperSound
<1>3. ASSUME NEW doomed, os' = [os EXCEPT !.proc = Dying(os.proc, doomed)], family' = family,
             os.job = "open", ClosesOn(os, keeper, keeper')
      PROVE  ContainmentInv'
  <2>1. os' = Terminated(os, doomed, os.job) BY <1>1, <1>3 DEF Terminated, Machines
  <2>2. Weakened(os, os') /\ os'.job = "open"
    BY <1>1, <1>3, <2>1, DyingWeakens
  <2>3. KeeperSound(os, keeper') /\ SampleSound(os, keeper') BY <1>1, <1>3, ClosesOnSound
  <2>4. /\ MachineSound(os', family') /\ (Held(os, keeper') => Held(os', keeper'))
        /\ Deserted(os) => Deserted(os')
        /\ SampleSound(os', keeper')
    BY <1>1, <1>3, <2>2, <2>3, WeakenedStays
  <2>5. KeeperSound(os', keeper')
    BY <1>3, <2>2, <2>3, <2>4 DEF KeeperSound, ClosesOn, LaunchPcs, ClosePcs
  <2> QED BY <1>1, <1>3, <2>4, <2>5 DEF ContainmentInv, ClosesOn, GoesOn
<1>4. CASE KillUnassigned(TRUE)
  <2>1. ClosesOn(os, keeper, keeper')
    BY <1>1, <1>2, <1>4 DEF KillUnassigned, KeeperFields, GoesOn, BusyPcs, LaunchPcs, SamplePcs, ClosePcs,
       ClosesOn, Going, KeeperAt
  <2> QED BY <1>1, <1>3, <1>4, <2>1 DEF KillUnassigned, KeeperAt, KeeperSound
<1>5. CASE TerminateJob(TRUE)
  <2>1. ClosesOn(os, keeper, keeper')
    BY <1>1, <1>2, <1>5 DEF TerminateJob, KeeperFields, GoesOn, BusyPcs, LaunchPcs, SamplePcs, ClosePcs,
       ClosesOn, Going, KeeperAt
  <2> QED BY <1>1, <1>3, <1>5, <2>1 DEF TerminateJob, KeeperAt, KeeperSound
<1> QED BY <1>4, <1>5

(* The job is closed and the child is still to be waited for. *)
LEMMA ReleasingKeeps ==
  ASSUME ContainmentInv, keeper.mode = "job", ReleaseJob, keeper' = Going("last")
  PROVE  ContainmentInv'
<1>1. /\ KeeperSound(os, keeper) /\ DOMAIN keeper = KeeperFields /\ keeper.owned = {}
  BY DEF ContainmentInv
<1>2. keeper.errors \in BOOLEAN /\ keeper.assigned \in BOOLEAN /\ (keeper.then = "close" => keeper.assigned)
  BY <1>1 DEF KeeperSound
<1>3. /\ keeper.pc = "release" /\ os' = JobClosed(os) /\ family' = family
      /\ keeper' = [keeper EXCEPT !.pc = "last"]
  BY DEF ReleaseJob, KeeperAt, Going
<1>4. GoesOn(keeper, keeper') /\ keeper'.pc = "last" /\ keeper'.errors = keeper.errors
  BY <1>1, <1>2, <1>3 DEF GoesOn, KeeperFields
<1>5. /\ MachineSound(os', family') /\ os'.job = "closed" /\ (Held(os, keeper') => Held(os', keeper'))
      /\ Deserted(os) => Deserted(os')
  BY <1>3, JobClosedKeeps
<1>6. Held(os, keeper') BY <1>1, <1>3, <1>4 DEF KeeperSound, Held, GoesOn
<1>7. /\ keeper.outcome = "none" /\ keeper.child[1] \in Pids
      /\ keeper.assigned /\ ~keeper.errors => Deserted(os)
  BY <1>1, <1>3 DEF KeeperSound
<1>8. KeeperSound(os', keeper')
  BY <1>2, <1>4, <1>5, <1>6, <1>7 DEF KeeperSound, GoesOn, LaunchPcs, SamplePcs, ClosePcs
<1>9. SampleSound(os', keeper') BY <1>4 DEF SampleSound
<1> QED BY <1>1, <1>4, <1>5, <1>8, <1>9 DEF ContainmentInv, GoesOn

-----------------------------------------------------------------------------
(* Steps of a tree. *)

(* The walk over the parent PIDs is the least set that holds the owned rows and every row whose *)
(* parent PID is one of its own. *)
LEMMA DescendedIsLeast ==
  ASSUME NEW rows, NEW owned
  PROVE  LET ids == {r.id : r \in rows}
             Closed(set) == /\ Active(rows, owned) \subseteq set
                            /\ \A r \in rows : (\E id \in set : id[1] = r.parent) => r.id \in set
         IN  /\ Descended(rows, owned) \subseteq ids /\ Closed(Descended(rows, owned))
             /\ \A set \in SUBSET ids : Closed(set) => Descended(rows, owned) \subseteq set
<1> DEFINE ids == {r.id : r \in rows}
           Closed(set) == /\ Active(rows, owned) \subseteq set
                          /\ \A r \in rows : (\E id \in set : id[1] = r.parent) => r.id \in set
           closed == {set \in SUBSET ids : Closed(set)}
           least == {id \in ids : \A set \in closed : id \in set}
<1>1. least \in closed
  <2>1. Active(rows, owned) \subseteq least BY DEF Active
  <2>2. ASSUME NEW r \in rows, NEW id \in least, id[1] = r.parent PROVE r.id \in least
    <3>1. \A set \in closed : id \in set OBVIOUS
    <3>2. \A set \in closed : r.id \in set BY <2>2, <3>1
    <3> QED BY <3>2
  <2> QED BY <2>1, <2>2
<1>2. \A other \in closed : least \subseteq other OBVIOUS
<1>3. Descended(rows, owned) = CHOOSE set \in closed : \A other \in closed : set \subseteq other
  BY DEF Descended
<1> HIDE DEF closed, least
<1>4. Descended(rows, owned) \in closed /\ \A other \in closed : Descended(rows, owned) \subseteq other
  BY <1>1, <1>2, <1>3
<1> QED BY <1>4 DEF closed

(* A snapshot adds to the tree only rows whose parent PID belongs to a row of the tree. *)
LEMMA TreeSampleKeeps ==
  ASSUME ContainmentInv, keeper.mode # "job", TreeSample
  PROVE  ContainmentInv'
<1>1. /\ DOMAIN keeper = KeeperFields /\ keeper.owned \subseteq family \cup keeper.lent
      /\ family' = family
  BY DEF ContainmentInv, TreeSample
<1>2. CASE keeper' = Ended("refused")
  <2>1. DOMAIN keeper' = KeeperFields /\ keeper'.owned = {} /\ keeper'.mode = keeper.mode
    BY <1>2 DEF Ended, Idle, KeeperFields
  <2> QED BY <2>1 DEF ContainmentInv
<1> DEFINE grown == keeper.owned \cup Descended(keeper.rows, keeper.owned)
           parents == {r.id[1] : r \in {x \in keeper.rows : x.id \in grown}}
           shared == {r.id : r \in {x \in keeper.rows : x.parent \in parents}}
           lent == keeper.lent \cup shared
           next == IF keeper.snapshots + 1 < MaxSnapshots THEN "scan" ELSE "end"
<1>3. CASE keeper' = [Going(next) EXCEPT !.snapshots = @ + 1, !.rows = {}, !.left = Pids, !.owned = grown,
                                         !.lent = @ \cup shared]
  <2> HIDE DEF grown, shared, next
  <2>1. DOMAIN keeper' = KeeperFields /\ keeper'.owned = grown /\ keeper'.lent = lent
        /\ keeper'.mode = keeper.mode
    BY <1>1, <1>3 DEF Going, KeeperFields
  <2> DEFINE ids == {r.id : r \in keeper.rows}
  <2>2. /\ Descended(keeper.rows, keeper.owned) \subseteq ids
        /\ \A set \in SUBSET ids :
             /\ Active(keeper.rows, keeper.owned) \subseteq set
             /\ \A r \in keeper.rows : (\E id \in set : id[1] = r.parent) => r.id \in set
             => Descended(keeper.rows, keeper.owned) \subseteq set
        /\ Active(keeper.rows, keeper.owned) \subseteq Descended(keeper.rows, keeper.owned)
        /\ \A r \in keeper.rows : (\E id \in Descended(keeper.rows, keeper.owned) : id[1] = r.parent)
                                     => r.id \in Descended(keeper.rows, keeper.owned)
    BY DescendedIsLeast
  <2> DEFINE walked == Descended(keeper.rows, keeper.owned)
             set == walked \cap (family \cup lent)
  <2>3. Active(keeper.rows, keeper.owned) \subseteq set
    BY <1>1, <2>2 DEF Active
  <2>4. ASSUME NEW r \in keeper.rows, NEW id \in set, id[1] = r.parent PROVE r.id \in set
    <3>1. r.id \in walked BY <2>2, <2>4
    <3>2. PICK x \in keeper.rows : x.id = id BY <2>2
    <3>3. r.parent \in parents BY <2>4, <3>2 DEF grown
    <3> QED BY <3>1, <3>3 DEF shared
  <2>5. walked \subseteq set BY <2>2, <2>3, <2>4
  <2>6. grown \subseteq family \cup lent BY <1>1, <2>5 DEF grown
  <2> QED BY <1>1, <2>1, <2>6 DEF ContainmentInv
<1> QED BY <1>2, <1>3 DEF TreeSample

(* The root of a tree is of its own family; a row that is read changes nothing. *)
LEMMA TreeKeeps ==
  ASSUME ContainmentInv, keeper.mode # "job", ContainmentNext
  PROVE  ContainmentInv'
<1>1. DOMAIN keeper = KeeperFields /\ keeper.owned \subseteq family \cup keeper.lent
  BY DEF ContainmentInv
<1>2. ASSUME DOMAIN keeper' = KeeperFields, keeper'.mode = keeper.mode, keeper'.owned = keeper.owned,
             keeper'.lent = keeper.lent, family \subseteq family'
      PROVE  ContainmentInv'
  BY <1>1, <1>2 DEF ContainmentInv
<1>3. ASSUME NEW p \in Pids, NEW q \in Pids, Fork(p, q) PROVE ContainmentInv'
  BY <1>1, <1>2, <1>3 DEF Fork
<1>4. ASSUME NEW p \in Pids, Stranger(p) \/ ProcessEnds(p) PROVE ContainmentInv'
  BY <1>1, <1>2, <1>4 DEF Stranger, ProcessEnds
<1>5. ASSUME NEW p \in Pids, ScanProc(p) \/ ScanCim(p) PROVE ContainmentInv'
  <2>1. family' = family /\ DOMAIN keeper' = KeeperFields /\ keeper'.mode = keeper.mode
        /\ keeper'.owned = keeper.owned /\ keeper'.lent = keeper.lent
    BY <1>1, <1>5 DEF ScanProc, ScanCim, RowRead, KeeperFields
  <2> QED BY <1>2, <2>1
<1>6. ASSUME NEW p \in Pids, TreeStarts(p) PROVE ContainmentInv'
  <2> DEFINE root == <<p, os.births + 1>>
  <2>1. family' = {root} /\ DOMAIN keeper' = KeeperFields /\ keeper'.mode = keeper.mode
        /\ keeper'.owned = {root}
    BY <1>1, <1>6 DEF TreeStarts, Going, KeeperFields
  <2> QED BY <2>1 DEF ContainmentInv
<1>7. CASE TreeSample BY <1>7, TreeSampleKeeps
<1> QED
  BY <1>3, <1>4, <1>5, <1>6, <1>7
     DEF ContainmentNext, SpawnSuspended, CreateJob, KillUnassigned, TerminateJob, SpawnFails, AssignToJob,
         IdentifyRoot, ResumeRoot, LaunchFails, TerminateQuery, TerminateOpen, TerminateCheck, TerminateWait,
         ReapChild, DrainJob, ReleaseJob, LastWait, SampleStarts, SampleQuery, SampleRead, SampleReread,
         SampleVerify, SampleReturns, CloseStarts, KeeperDies, KeeperAt

-----------------------------------------------------------------------------
(* The inductive invariant of the containment: with a Job Object every process that runs is of  *)
(* the family, alive only in the job, known to the keeper before the assignment; an identity    *)
(* read in a sample is never newer than the one the second list found.                          *)
LEMMA ContainmentStep == ContainmentInv /\ [ContainmentNext]_containmentVars => ContainmentInv'
<1> SUFFICES ASSUME ContainmentInv, [ContainmentNext]_containmentVars PROVE ContainmentInv' OBVIOUS
<1>1. CASE UNCHANGED containmentVars
  BY <1>1 DEF containmentVars, ContainmentInv, MachineSound, KeeperSound, SampleSound, Held, Deserted,
     Running, Named, Seen, Roster
<1>2. CASE ContainmentNext /\ keeper.mode # "job" BY <1>2, TreeKeeps
<1>3. CASE ContainmentNext /\ keeper.mode = "job"
  <2> USE <1>3
  <2>1. ASSUME MachineSound(os, family)' /\ KeeperSound(os, keeper)' /\ SampleSound(os, keeper)',
               keeper' = keeper
        PROVE  ContainmentInv'
    BY <2>1 DEF ContainmentInv
  <2>2. ASSUME NEW p \in Pids, NEW q \in Pids, Fork(p, q) PROVE ContainmentInv'
    BY <2>1, <2>2, ForkKeeps DEF Fork
  <2>3. ASSUME NEW p \in Pids, ProcessEnds(p) PROVE ContainmentInv'
    BY <2>1, <2>3, EndKeeps DEF ProcessEnds
  <2>4. CASE \/ LaunchFails \/ TerminateQuery \/ TerminateOpen \/ TerminateCheck \/ TerminateWait
             \/ ReapChild \/ DrainJob \/ CloseStarts \/ KillUnassigned(FALSE) \/ TerminateJob(FALSE)
    <3>1. ClosesOn(os, keeper, keeper') /\ os' = os /\ family' = family BY <2>4, ClosingGoesOn
    <3>2. KeeperSound(os, keeper') /\ SampleSound(os, keeper')
      BY <3>1, ClosesOnSound DEF ContainmentInv
    <3> QED BY <3>1, <3>2, QuietKeeps DEF ClosesOn
  <2>5. CASE \/ SampleStarts \/ SampleQuery \/ SampleRead \/ SampleReread \/ SampleVerify \/ SampleReturns
    <3>1. /\ keeper.pc \in SamplePcs /\ keeper'.pc \in SamplePcs /\ GoesOn(keeper, keeper')
          /\ SampleSound(os, keeper') /\ os' = os /\ family' = family
      BY <2>5, SamplingGoesOn
    <3>2. KeeperSound(os, keeper') BY <3>1, SamplingSound DEF ContainmentInv
    <3> QED BY <3>1, <3>2, QuietKeeps
  <2>6. CASE \/ CreateJob(FALSE) \/ SpawnFails \/ LastWait \/ KeeperDies BY <2>6, LeavingKeeps
  <2>7. CASE ReleaseJob
    BY <2>7, LeavingKeeps, ReleasingKeeps DEF ReleaseJob
  <2>8. CASE AssignToJob \/ IdentifyRoot \/ ResumeRoot BY <2>8, LaunchKeeps
  <2>9. CASE CreateJob(TRUE) \/ \E p \in Pids : SpawnSuspended(p) BY <2>9, StartKeeps
  <2>10. CASE KillUnassigned(TRUE) \/ TerminateJob(TRUE) BY <2>10, KillingKeeps
  <2>11. ~TreeSample /\ \A p \in Pids : ~Stranger(p) /\ ~TreeStarts(p) /\ ~ScanProc(p) /\ ~ScanCim(p)
    <3>1. keeper.pc # "scan"
      <4>1. KeeperSound(os, keeper) BY DEF ContainmentInv
      <4> QED BY <4>1 DEF KeeperSound, LaunchPcs, SamplePcs, ClosePcs
    <3> QED BY <3>1 DEF TreeSample, Stranger, TreeStarts, ScanProc, ScanCim
  <2> HIDE <1>3
  <2>12. ContainmentNext BY <1>3
  <2> QED
    BY <2>2, <2>3, <2>4, <2>5, <2>6, <2>7, <2>8, <2>9, <2>10, <2>11, <2>12 DEF ContainmentNext
<1> QED BY <1>1, <1>2, <1>3

(* What the invariant says about the family. *)
LEMMA ContainedByInv == ContainmentInv => FamilyIsContained
<1> SUFFICES ASSUME ContainmentInv, keeper.mode = "job"
             PROVE  /\ \A p \in Pids : os.proc[p].state = "alive" /\ IdOf(p) \in family => os.proc[p].job
                    /\ keeper.outcome \in {"closed", "failed"} => ~\E id \in family : Exists(id)
                    /\ os.job = "closed" => \A p \in Pids : IdOf(p) \in family => os.proc[p].state # "alive"
                    /\ keeper.pc = "sampled" => keeper.read = keeper.truth
  BY DEF ContainmentInv, FamilyIsContained
<1>1. MachineSound(os, family) /\ KeeperSound(os, keeper) /\ SampleSound(os, keeper) BY DEF ContainmentInv
<1>2. ASSUME keeper.outcome \in {"closed", "failed"} PROVE ~\E id \in family : Exists(id)
  <2>1. Deserted(os) BY <1>1, <1>2 DEF KeeperSound
  <2>2. \A p \in Pids : ~Running(os, p) BY <2>1 DEF Deserted
  <2>3. \A id \in family : id[1] \in Pids BY <1>1 DEF MachineSound
  <2> QED BY <2>2, <2>3 DEF Exists, Present, Running
<1> QED BY <1>1, <1>2 DEF MachineSound, SampleSound

(* Whatever forks, ends and takes a PID again between two calls, and wherever a launch, a       *)
(* sample or a close fails: what runs of the child's family runs in the Job Object, a confirmed *)
(* close or cleanup leaves nothing of it, a sample is the membership of one moment, and a tree   *)
(* counts a stranger only through a parent's PID in the same snapshot (close, terminate_members, *)
(* wait_empty, _collect_stable_membership_snapshot, ProcessTreeSampler.sample).                  *)
THEOREM FamilyContained == ContainmentSpec => []FamilyIsContained
<1>1. ContainmentInit => ContainmentInv BY ContainmentInitially
<1>2. ContainmentInv /\ [ContainmentNext]_containmentVars => ContainmentInv' BY ContainmentStep
<1>3. ContainmentInv => FamilyIsContained BY ContainedByInv
<1> QED BY <1>1, <1>2, <1>3, PTL DEF ContainmentSpec

-----------------------------------------------------------------------------
(* The coordination registry. *)

(* A new registry keeps the holder of every task of the old one, and changes one task. *)
KeepsHolders(old, new) ==
  \A t \in WriteTasks : old[t] # NoEntry =>
    /\ new[t] # NoEntry
    /\ new[t].owner = old[t].owner /\ new[t].epoch = old[t].epoch /\ new[t].head = old[t].head

MovesOne(old, new) == \E t \in WriteTasks : \A u \in WriteTasks : new[u] # old[u] <=> u = t

Entries == {NoEntry} \cup [phase : CoordinationPhases, owner : Owners, epoch : 1..MaxIssued, head : {1}]
Registries == [WriteTasks -> Entries]

(* The holder of an entry was given a lease of its branch, and the branch has the head. *)
WasLeased(entry, t, leases, branchTips) ==
  /\ \E l \in leases : l.task = t /\ l.owner = entry.owner /\ l.epoch = entry.epoch
  /\ branchTips[<<t, entry.epoch, entry.owner>>] = entry.head
RegistrySound(r, leases, branchTips) ==
  \A t \in WriteTasks : r[t] # NoEntry => WasLeased(r[t], t, leases, branchTips)

(* An epoch is not greater than the number of leases there are. *)
LeasesSound ==
  /\ IsFiniteSet(issued) /\ Cardinality(issued) <= MaxIssued
  /\ \A l \in issued : l.task \in WriteTasks /\ l.owner \in Owners /\ l.epoch \in 1..Cardinality(issued)
  /\ tips \in [Branches -> {0, 1}]

ChainSound ==
  /\ chain \in Seq(Registries)
  /\ \A i \in DOMAIN chain : MovesOne(RegistryAt(i - 1), chain[i]) /\ RegistrySound(chain[i], issued, tips)
  /\ \A i, j \in DOMAIN chain : i < j => KeepsHolders(chain[i], chain[j])

(* A plan is a good successor of the registry it was made for. *)
PlanFields == {"pc", "task", "base", "before", "after"}
PlannersSound ==
  /\ DOMAIN planner = Coordinators
  /\ \A c \in Coordinators :
       /\ planner[c].pc \in {"planned", "checked"} =>
            /\ DOMAIN planner[c] = PlanFields
            /\ planner[c].base \in 0..Len(chain)
            /\ planner[c].after \in Registries
            /\ MovesOne(RegistryAt(planner[c].base), planner[c].after)
            /\ KeepsHolders(RegistryAt(planner[c].base), planner[c].after)
            /\ RegistrySound(planner[c].after, issued, tips)
       /\ planner[c].pc = "mutated" => planner[c].base \in 1..Len(chain)

RegistryInv == LeasesSound /\ ChainSound /\ PlannersSound /\ VerifiedSwapWasTip

(* No lease, no registry, no plan. *)
LEMMA RegistryInitially == RegistryInit => RegistryInv
<1> SUFFICES ASSUME RegistryInit PROVE RegistryInv OBVIOUS
<1> USE DEF RegistryInit
<1>1. LeasesSound
  <2>1. IsFiniteSet({}) /\ Cardinality({}) = 0 BY FS_EmptySet
  <2> QED BY <2>1, RegistryAssumption DEF LeasesSound, NoHead
<1>2. chain \in Seq(Registries) /\ DOMAIN chain = {} BY DEF Registries
<1>3. ChainSound BY <1>2 DEF ChainSound
<1>4. \A c \in Coordinators : planner[c] = [pc |-> "idle"] BY DEF IdlePlanner
<1>5. PlannersSound BY <1>4 DEF PlannersSound
<1> QED BY <1>1, <1>3, <1>5 DEF RegistryInv, VerifiedSwapWasTip

(* What was leased stays leased when leases are added and tips of new branches appear. *)
LEMMA SoundStays ==
  ASSUME NEW r \in Registries, NEW leases, NEW more, leases \subseteq more,
         NEW old \in [Branches -> {0, 1}], NEW new \in [Branches -> {0, 1}],
         \A b \in Branches : old[b] = 1 => new[b] = 1,
         RegistrySound(r, leases, old)
  PROVE  RegistrySound(r, more, new)
<1> SUFFICES ASSUME NEW t \in WriteTasks, r[t] # NoEntry PROVE WasLeased(r[t], t, more, new)
  BY DEF RegistrySound
<1>1. r[t] \in [phase : CoordinationPhases, owner : Owners, epoch : 1..MaxIssued, head : {1}]
  BY DEF Registries, Entries
<1>2. r[t].epoch \in 1..(MaxIssued + 1) /\ r[t].owner \in Owners /\ r[t].head = 1
  BY <1>1, RegistryAssumption
<1>3. <<t, r[t].epoch, r[t].owner>> \in Branches BY <1>2 DEF Branches
<1> QED BY <1>2, <1>3 DEF RegistrySound, WasLeased

(* Leases and tips may change under the registries and the plans. *)
LEMMA LeasingKeeps ==
  ASSUME RegistryInv, LeasesSound', UNCHANGED <<chain, planner, swapped>>, issued \subseteq issued',
         \A b \in Branches : tips[b] = 1 => tips'[b] = 1
  PROVE  RegistryInv'
<1>1. tips \in [Branches -> {0, 1}] /\ tips' \in [Branches -> {0, 1}]
  BY DEF RegistryInv, LeasesSound
<1>2. ASSUME NEW r \in Registries, RegistrySound(r, issued, tips) PROVE RegistrySound(r, issued', tips')
  BY <1>1, <1>2, SoundStays
<1>3. ChainSound'
  <2>1. ASSUME NEW i \in DOMAIN chain PROVE RegistrySound(chain[i], issued', tips')
    BY <1>2 DEF RegistryInv, ChainSound
  <2> QED BY <2>1 DEF RegistryInv, ChainSound, RegistryAt
<1>4. PlannersSound'
  BY <1>2 DEF RegistryInv, PlannersSound, RegistryAt
<1> QED BY <1>3, <1>4 DEF RegistryInv, VerifiedSwapWasTip

(* A new lease whose epoch follows one that there is. *)
LEMMA IssueKeeps ==
  ASSUME RegistryInv, NEW l, Issue(l), UNCHANGED <<tips, chain, planner, swapped>>,
         l.task \in WriteTasks, l.owner \in Owners, l.epoch \in 1..(Cardinality(issued) + 1)
  PROVE  RegistryInv'
<1>1. /\ IsFiniteSet(issued) /\ l \notin issued /\ issued' = issued \cup {l}
      /\ Cardinality(issued) < MaxIssued
  BY DEF RegistryInv, LeasesSound, Issue
<1>2. Cardinality(issued) \in Nat BY <1>1, FS_CardinalityType
<1>3. IsFiniteSet(issued') /\ Cardinality(issued') = Cardinality(issued) + 1
  BY <1>1, FS_AddElement
<1>4. LeasesSound'
  <2>1. ASSUME NEW x \in issued'
        PROVE  x.task \in WriteTasks /\ x.owner \in Owners /\ x.epoch \in 1..Cardinality(issued')
    BY <1>1, <1>2, <1>3 DEF RegistryInv, LeasesSound
  <2> QED BY <1>1, <1>2, <1>3, <2>1, RegistryAssumption DEF RegistryInv, LeasesSound
<1> QED BY <1>1, <1>4, LeasingKeeps

(* Every way to get a lease. *)
LEMMA GrantKeeps ==
  ASSUME RegistryInv,
         \/ \E t \in WriteTasks, o \in Owners : GrantFirst(t, o)
         \/ \E l \in issued : \/ GrantResume(l) \/ Heartbeat(l)
                              \/ \E o \in Owners : GrantNext(l, o)
  PROVE  RegistryInv'
<1>1. /\ Cardinality(issued) \in Nat
      /\ \A l \in issued : l.task \in WriteTasks /\ l.owner \in Owners /\ l.epoch \in 1..Cardinality(issued)
  BY FS_CardinalityType DEF RegistryInv, LeasesSound
<1>2. ASSUME NEW t \in WriteTasks, NEW o \in Owners, NEW e \in 1..(Cardinality(issued) + 1), NEW h, NEW now,
             Issue(Lease(t, o, e, h, now)), UNCHANGED <<tips, chain, planner, swapped>>
      PROVE  RegistryInv'
  <2>1. Lease(t, o, e, h, now).task = t /\ Lease(t, o, e, h, now).owner = o /\ Lease(t, o, e, h, now).epoch = e
    BY DEF Lease
  <2> QED BY <1>2, <2>1, IssueKeeps
<1>3. ASSUME NEW t \in WriteTasks, NEW o \in Owners, GrantFirst(t, o) PROVE RegistryInv'
  <2>1. 1 \in 1..(Cardinality(issued) + 1) BY <1>1
  <2> QED BY <1>2, <1>3, <2>1 DEF GrantFirst
<1>4. ASSUME NEW l \in issued, GrantResume(l) \/ Heartbeat(l) PROVE RegistryInv'
  <2>1. l.epoch \in 1..(Cardinality(issued) + 1) BY <1>1
  <2> QED BY <1>1, <1>2, <1>4, <2>1 DEF GrantResume, Heartbeat
<1>5. ASSUME NEW l \in issued, NEW o \in Owners, GrantNext(l, o) PROVE RegistryInv'
  <2>1. l.epoch + 1 \in 1..(Cardinality(issued) + 1) BY <1>1
  <2> QED BY <1>1, <1>2, <1>5, <2>1 DEF GrantNext
<1> QED BY <1>3, <1>4, <1>5

(* A push only gives a head to a branch that has none. *)
LEMMA PushKeeps ==
  ASSUME RegistryInv, NEW l \in issued, PushLeaseBranch(l)
  PROVE  RegistryInv'
<1>1. tips \in [Branches -> {0, 1}] /\ tips' = [tips EXCEPT ![BranchOf(l)] = 1]
  BY DEF RegistryInv, LeasesSound, PushLeaseBranch
<1>2. tips' \in [Branches -> {0, 1}] /\ \A b \in Branches : tips[b] = 1 => tips'[b] = 1
  BY <1>1
<1>3. UNCHANGED <<issued, chain, planner, swapped>> BY DEF PushLeaseBranch
<1>4. LeasesSound' BY <1>2, <1>3 DEF RegistryInv, LeasesSound
<1> QED BY <1>2, <1>3, <1>4, LeasingKeeps

(* The registry that is the tip of the ref. *)
LEMMA TipRegistry ==
  ASSUME RegistryInv
  PROVE  /\ Len(chain) \in Nat /\ DOMAIN chain = 1..Len(chain)
         /\ RegistryAt(Len(chain)) \in Registries /\ RegistrySound(RegistryAt(Len(chain)), issued, tips)
         /\ \A i \in DOMAIN chain : chain[i] \in Registries
<1>1. chain \in Seq(Registries) BY DEF RegistryInv, ChainSound
<1>2. CASE Len(chain) = 0
  <2>1. EmptyRegistry \in Registries BY DEF EmptyRegistry, Registries, Entries
  <2>2. RegistrySound(EmptyRegistry, issued, tips) BY DEF EmptyRegistry, RegistrySound
  <2> QED BY <1>1, <1>2, <2>1, <2>2 DEF RegistryAt
<1>3. CASE Len(chain) # 0
  <2>1. Len(chain) \in DOMAIN chain BY <1>1, <1>3
  <2> QED BY <1>1, <1>3, <2>1 DEF RegistryAt, RegistryInv, ChainSound
<1> QED BY <1>2, <1>3

(* A plan changes one task and keeps its holder. *)
LEMMA PlanKeeps ==
  ASSUME RegistryInv, NEW c \in Coordinators, NEW t \in WriteTasks,
         NEW candidate \in [phase : CoordinationPhases, owner : Owners, epoch : 1..MaxIssued, head : {1}],
         WasLeased(candidate, t, issued, tips), PlanTransition(c, t, candidate)
  PROVE  RegistryInv'
<1> DEFINE before == RegistryAt(Len(chain))
           after == [before EXCEPT ![t] = candidate]
           plan == [pc |-> "planned", task |-> t, base |-> Len(chain), before |-> before, after |-> after]
<1>1. /\ ValidateTransition(before[t], candidate) /\ before[t] # candidate
      /\ planner' = [planner EXCEPT ![c] = plan]
      /\ UNCHANGED <<clock, issued, tips, chain, swapped>>
  BY DEF PlanTransition
<1>2. Len(chain) \in Nat /\ before \in Registries /\ RegistrySound(before, issued, tips)
  BY TipRegistry
<1> HIDE DEF before
<1>3. /\ after \in Registries /\ after[t] = candidate
      /\ \A u \in WriteTasks : u # t => after[u] = before[u]
  BY <1>2 DEF Registries, Entries
<1>4. candidate # NoEntry
  <2>1. candidate.phase # NoEntry.phase BY DEF CoordinationPhases, NoEntry
  <2> QED BY <2>1
<1>5. MovesOne(before, after) BY <1>1, <1>3 DEF MovesOne
<1>6. KeepsHolders(before, after)
  <2>1. before[t] # NoEntry => /\ candidate.owner = before[t].owner /\ candidate.epoch = before[t].epoch
                               /\ candidate.head = before[t].head
    BY <1>1 DEF ValidateTransition
  <2> QED BY <1>3, <1>4, <2>1 DEF KeepsHolders
<1>7. RegistrySound(after, issued, tips) BY <1>2, <1>3 DEF RegistrySound
<1>8. /\ DOMAIN plan = PlanFields /\ plan.pc = "planned" /\ plan.base = Len(chain) /\ plan.after = after
  BY DEF PlanFields
<1> HIDE DEF plan, after
<1>9. PlannersSound'
  <2>1. DOMAIN planner' = Coordinators /\ planner'[c] = plan
        /\ \A d \in Coordinators : d # c => planner'[d] = planner[d]
    BY <1>1 DEF RegistryInv, PlannersSound
  <2>2. Len(chain) \in 0..Len(chain) BY <1>2
  <2>3. ASSUME NEW d \in Coordinators
        PROVE  /\ planner'[d].pc \in {"planned", "checked"} =>
                    /\ DOMAIN planner'[d] = PlanFields
                    /\ planner'[d].base \in 0..Len(chain)
                    /\ planner'[d].after \in Registries
                    /\ MovesOne(RegistryAt(planner'[d].base), planner'[d].after)
                    /\ KeepsHolders(RegistryAt(planner'[d].base), planner'[d].after)
                    /\ RegistrySound(planner'[d].after, issued, tips)
               /\ planner'[d].pc = "mutated" => planner'[d].base \in 1..Len(chain)
    <3>1. CASE d = c BY <1>3, <1>5, <1>6, <1>7, <1>8, <2>1, <2>2, <3>1 DEF before
    <3>2. CASE d # c BY <2>1, <3>2 DEF RegistryInv, PlannersSound
    <3> QED BY <3>1, <3>2
  <2> QED BY <1>1, <2>1, <2>3 DEF PlannersSound, RegistryAt
<1>10. LeasesSound' /\ ChainSound' /\ VerifiedSwapWasTip'
  BY <1>1 DEF RegistryInv, LeasesSound, ChainSound, VerifiedSwapWasTip, RegistryAt
<1> QED BY <1>9, <1>10 DEF RegistryInv

(* A task is enrolled from a lease, or its phase moves. *)
LEMMA PlanningKeeps ==
  ASSUME RegistryInv, NEW c \in Coordinators,
         \/ \E l \in issued : PlanEnrollment(c, l, "ready")
         \/ \E t \in WriteTasks, p \in CoordinationPhases : PlanPhase(c, t, p)
  PROVE  RegistryInv'
<1>1. ASSUME NEW l \in issued, PlanEnrollment(c, l, "ready") PROVE RegistryInv'
  <2> DEFINE entry == Projection(l, "ready")
  <2>1. /\ l.task \in WriteTasks /\ l.owner \in Owners /\ l.epoch \in 1..Cardinality(issued)
        /\ Cardinality(issued) \in Nat /\ Cardinality(issued) <= MaxIssued /\ tips \in [Branches -> {0, 1}]
    BY FS_CardinalityType DEF RegistryInv, LeasesSound
  <2>2. l.epoch \in 1..MaxIssued /\ l.epoch \in 1..(MaxIssued + 1) BY <2>1, RegistryAssumption
  <2>3. BranchOf(l) = <<l.task, l.epoch, l.owner>> /\ BranchOf(l) \in Branches
    BY <2>1, <2>2 DEF BranchOf, Branches
  <2>4. tips[BranchOf(l)] = l.head /\ l.head = 1
    BY <1>1, <2>1, <2>3 DEF PlanEnrollment, Preparable, NoHead
  <2>5. /\ entry.owner = l.owner /\ entry.epoch = l.epoch /\ entry.head = l.head
        /\ entry \in [phase : CoordinationPhases, owner : Owners, epoch : 1..MaxIssued, head : {1}]
    BY <2>1, <2>2, <2>4 DEF Projection, CoordinationPhases
  <2> HIDE DEF entry
  <2>6. WasLeased(entry, l.task, issued, tips) BY <2>3, <2>4, <2>5 DEF WasLeased
  <2>7. PlanTransition(c, l.task, entry) BY <1>1 DEF PlanEnrollment, entry
  <2> QED BY <2>1, <2>5, <2>6, <2>7, PlanKeeps
<1>2. ASSUME NEW t \in WriteTasks, NEW p \in CoordinationPhases, PlanPhase(c, t, p) PROVE RegistryInv'
  <2> DEFINE old == RegistryAt(Len(chain))[t]
             entry == [old EXCEPT !.phase = p]
  <2>1. old # NoEntry /\ PlanTransition(c, t, entry) BY <1>2 DEF PlanPhase
  <2>2. /\ old \in [phase : CoordinationPhases, owner : Owners, epoch : 1..MaxIssued, head : {1}]
        /\ WasLeased(old, t, issued, tips)
    BY <2>1, TipRegistry DEF Registries, Entries, RegistrySound
  <2> HIDE DEF old
  <2>3. /\ entry.owner = old.owner /\ entry.epoch = old.epoch /\ entry.head = old.head
        /\ entry \in [phase : CoordinationPhases, owner : Owners, epoch : 1..MaxIssued, head : {1}]
    BY <2>2
  <2> HIDE DEF entry
  <2>4. WasLeased(entry, t, issued, tips) BY <2>2, <2>3 DEF WasLeased
  <2> QED BY <2>1, <2>3, <2>4, PlanKeeps
<1> QED BY <1>1, <1>2

(* A move of the ref: the plan was made for the tip, and every other plan stays one for its base. *)
LEMMA MoveKeeps ==
  ASSUME RegistryInv, NEW c \in Coordinators, planner[c].pc = "checked", planner[c].base = Len(chain),
         chain' = Append(chain, planner[c].after),
         DOMAIN planner' = Coordinators, \A d \in Coordinators : d # c => planner'[d] = planner[d],
         planner'[c].pc = "idle" \/ (planner'[c].pc = "mutated" /\ planner'[c].base = Len(chain')),
         UNCHANGED <<issued, tips, swapped>>
  PROVE  RegistryInv'
<1> DEFINE new == planner[c].after
           n == Len(chain)
<1>1. /\ n \in Nat /\ DOMAIN chain = 1..n /\ RegistryAt(n) \in Registries
      /\ \A i \in DOMAIN chain : chain[i] \in Registries
  BY TipRegistry
<1>2. /\ new \in Registries /\ MovesOne(RegistryAt(n), new) /\ KeepsHolders(RegistryAt(n), new)
      /\ RegistrySound(new, issued, tips)
  BY DEF RegistryInv, PlannersSound
<1>3. chain \in Seq(Registries) BY DEF RegistryInv, ChainSound
<1> HIDE DEF new, n
<1>4. /\ chain' \in Seq(Registries) /\ Len(chain') = n + 1 /\ DOMAIN chain' = 1..(n + 1)
      /\ chain'[n + 1] = new /\ \A i \in 1..n : chain'[i] = chain[i]
  BY <1>1, <1>2, <1>3 DEF new, n
<1>5. \A i \in 0..n : RegistryAt(i)' = RegistryAt(i)
  BY <1>1, <1>4 DEF RegistryAt
<1>6. ChainSound'
  <2>1. ASSUME NEW i \in 1..(n + 1)
        PROVE  MovesOne(RegistryAt(i - 1)', chain'[i]) /\ RegistrySound(chain'[i], issued, tips)
    <3>1. CASE i = n + 1
      <4>1. i - 1 = n /\ n \in 0..n BY <1>1, <3>1
      <4> QED BY <1>2, <1>4, <1>5, <3>1, <4>1
    <3>2. CASE i \in 1..n
      <4>1. i - 1 \in 0..n BY <1>1, <3>2
      <4> QED BY <1>1, <1>4, <1>5, <3>2, <4>1 DEF RegistryInv, ChainSound
    <3> QED BY <1>1, <3>1, <3>2
  <2>2. ASSUME NEW i \in 1..(n + 1), NEW j \in 1..(n + 1), i < j PROVE KeepsHolders(chain'[i], chain'[j])
    <3>1. i \in 1..n BY <1>1, <2>2
    <3>2. CASE j \in 1..n BY <1>1, <1>4, <2>2, <3>1, <3>2 DEF RegistryInv, ChainSound
    <3>3. CASE j = n + 1
      <4>1. n \in DOMAIN chain /\ RegistryAt(n) = chain[n] BY <1>1, <3>1 DEF RegistryAt
      <4>2. i = n \/ KeepsHolders(chain[i], chain[n])
        BY <1>1, <3>1, <4>1 DEF RegistryInv, ChainSound
      <4>3. KeepsHolders(chain[n], new) BY <1>2, <4>1
      <4>4. KeepsHolders(chain[i], new) BY <4>2, <4>3 DEF KeepsHolders
      <4> QED BY <1>4, <3>1, <3>3, <4>4
    <3> QED BY <1>1, <3>2, <3>3
  <2> QED BY <1>4, <2>1, <2>2 DEF ChainSound
<1>7. PlannersSound'
  <2>1. ASSUME NEW d \in Coordinators
        PROVE  (/\ planner[d].pc \in {"planned", "checked"} =>
                    /\ DOMAIN planner[d] = PlanFields
                    /\ planner[d].base \in 0..Len(chain)
                    /\ planner[d].after \in Registries
                    /\ MovesOne(RegistryAt(planner[d].base), planner[d].after)
                    /\ KeepsHolders(RegistryAt(planner[d].base), planner[d].after)
                    /\ RegistrySound(planner[d].after, issued, tips)
                /\ planner[d].pc = "mutated" => planner[d].base \in 1..Len(chain))'
    <3>1. CASE d = c BY <1>1, <1>4, <3>1
    <3>2. CASE d # c
      <4>1. planner'[d] = planner[d] BY <3>2
      <4> DEFINE p == planner[d]
      <4>2. p.pc \in {"planned", "checked"} =>
              /\ DOMAIN p = PlanFields /\ p.base \in 0..n /\ p.after \in Registries
              /\ MovesOne(RegistryAt(p.base), p.after) /\ KeepsHolders(RegistryAt(p.base), p.after)
              /\ RegistrySound(p.after, issued, tips)
        BY DEF RegistryInv, PlannersSound, n
      <4>3. p.pc = "mutated" => p.base \in 1..n BY DEF RegistryInv, PlannersSound, n
      <4>4. p.base \in 0..n => RegistryAt(planner[d].base)' = RegistryAt(p.base)
        BY <1>1, <1>4, <4>1 DEF RegistryAt
      <4> QED BY <1>1, <1>4, <4>1, <4>2, <4>3, <4>4
    <3> QED BY <3>1, <3>2
  <2> QED BY <2>1 DEF PlannersSound
<1>8. VerifiedSwapWasTip' BY <1>1, <1>4 DEF RegistryInv, VerifiedSwapWasTip
<1>9. LeasesSound' BY DEF RegistryInv, LeasesSound
<1> QED BY <1>6, <1>7, <1>8, <1>9 DEF RegistryInv

(* A coordinator checks its plan, reads back, gives up or dies: only it changes, and what is    *)
(* reported was the tip.                                                                         *)
LEMMA CoordinatorKeeps ==
  ASSUME RegistryInv, NEW c \in Coordinators, NEW p, planner' = [planner EXCEPT ![c] = p],
         \/ p.pc = "idle"
         \/ planner[c].pc = "planned" /\ p = [planner[c] EXCEPT !.pc = "checked"],
         UNCHANGED <<issued, tips, chain>>, VerifiedSwapWasTip'
  PROVE  RegistryInv'
<1>1. /\ DOMAIN planner' = Coordinators /\ planner'[c] = p
      /\ \A d \in Coordinators : d # c => planner'[d] = planner[d]
  BY DEF RegistryInv, PlannersSound
<1>2. LeasesSound' /\ ChainSound' BY DEF RegistryInv, LeasesSound, ChainSound, RegistryAt
<1>3. PlannersSound'
  <2>1. ASSUME NEW d \in Coordinators
        PROVE  (/\ planner[d].pc \in {"planned", "checked"} =>
                    /\ DOMAIN planner[d] = PlanFields
                    /\ planner[d].base \in 0..Len(chain)
                    /\ planner[d].after \in Registries
                    /\ MovesOne(RegistryAt(planner[d].base), planner[d].after)
                    /\ KeepsHolders(RegistryAt(planner[d].base), planner[d].after)
                    /\ RegistrySound(planner[d].after, issued, tips)
                /\ planner[d].pc = "mutated" => planner[d].base \in 1..Len(chain))'
    <3>1. CASE d # c BY <1>1, <3>1 DEF RegistryInv, PlannersSound, RegistryAt
    <3>2. CASE d = c /\ p.pc = "idle" BY <1>1, <3>2
    <3>3. CASE d = c /\ planner[c].pc = "planned" /\ p = [planner[c] EXCEPT !.pc = "checked"]
      <4>1. DOMAIN planner[c] = PlanFields BY <3>3 DEF RegistryInv, PlannersSound
      <4>2. /\ DOMAIN p = PlanFields /\ p.pc = "checked" /\ p.base = planner[c].base
            /\ p.after = planner[c].after
        BY <3>3, <4>1 DEF PlanFields
      <4> QED BY <1>1, <3>3, <4>2 DEF RegistryInv, PlannersSound, RegistryAt
    <3> QED BY <3>1, <3>2, <3>3
  <2> QED BY <1>1, <2>1 DEF PlannersSound
<1> QED BY <1>2, <1>3 DEF RegistryInv

(* The steps of compare_and_swap_registry_plan after the plan. *)
LEMMA SwappingKeeps ==
  ASSUME RegistryInv, NEW c \in Coordinators,
         CheckBeforeSwap(c) \/ UpdateRefs(c) \/ ReadBack(c) \/ CoordinatorDies(c)
  PROVE  RegistryInv'
<1>1. IdlePlanner.pc = "idle" BY DEF IdlePlanner
<1>2. VerifiedSwapWasTip /\ DOMAIN planner = Coordinators /\ Len(chain) \in Nat /\ DOMAIN chain = 1..Len(chain)
  BY TipRegistry DEF RegistryInv, PlannersSound
<1>3. ASSUME planner' = [planner EXCEPT ![c] = IdlePlanner], UNCHANGED <<issued, tips, chain, swapped>>
      PROVE  RegistryInv'
  <2>1. VerifiedSwapWasTip' BY <1>2, <1>3 DEF VerifiedSwapWasTip
  <2> QED BY <1>1, <1>3, <2>1, CoordinatorKeeps
<1>4. CASE CheckBeforeSwap(c)
  <2>1. planner[c].pc = "planned" /\ UNCHANGED <<issued, tips, chain, swapped>>
    BY <1>4 DEF CheckBeforeSwap
  <2>2. CASE planner' = [planner EXCEPT ![c] = IdlePlanner] BY <1>3, <2>1, <2>2
  <2>3. CASE planner' = [planner EXCEPT ![c] = [planner[c] EXCEPT !.pc = "checked"]]
    <3>1. VerifiedSwapWasTip' BY <1>2, <2>1 DEF VerifiedSwapWasTip
    <3> QED BY <2>1, <2>3, <3>1, CoordinatorKeeps
  <2> QED BY <1>2, <1>4, <2>2, <2>3 DEF CheckBeforeSwap
<1>5. CASE UpdateRefs(c)
  <2>1. CASE planner' = [planner EXCEPT ![c] = IdlePlanner] /\ UNCHANGED chain
    BY <1>3, <1>5, <2>1 DEF UpdateRefs
  <2>2. CASE /\ planner[c].pc = "checked" /\ planner[c].base = Len(chain)
             /\ chain' = Append(chain, planner[c].after)
             /\ \/ planner' = [planner EXCEPT ![c] = [planner[c] EXCEPT !.pc = "mutated", !.base = Len(chain')]]
                \/ planner' = [planner EXCEPT ![c] = IdlePlanner]
    <3>1. DOMAIN planner[c] = PlanFields BY <2>2 DEF RegistryInv, PlannersSound
    <3>2. DOMAIN planner' = Coordinators /\ \A d \in Coordinators : d # c => planner'[d] = planner[d]
      BY <1>2, <2>2
    <3>3. planner'[c].pc = "idle" \/ (planner'[c].pc = "mutated" /\ planner'[c].base = Len(chain'))
      <4> DEFINE n == Len(chain')
                 p == [planner[c] EXCEPT !.pc = "mutated", !.base = n]
      <4> HIDE DEF n
      <4>1. p.pc = "mutated" /\ p.base = n BY <3>1 DEF PlanFields
      <4>2. planner' = [planner EXCEPT ![c] = p] \/ planner' = [planner EXCEPT ![c] = IdlePlanner]
        BY <2>2 DEF n
      <4> HIDE DEF p
      <4> QED BY <1>1, <1>2, <4>1, <4>2 DEF n
    <3>4. UNCHANGED <<issued, tips, swapped>> BY <1>5 DEF UpdateRefs
    <3> QED BY <2>2, <3>2, <3>3, <3>4, MoveKeeps
  <2>3. \/ planner' = [planner EXCEPT ![c] = IdlePlanner] /\ UNCHANGED chain
        \/ /\ planner[c].pc = "checked" /\ planner[c].base = Len(chain)
           /\ chain' = Append(chain, planner[c].after)
           /\ \/ planner' = [planner EXCEPT ![c] = [planner[c] EXCEPT !.pc = "mutated", !.base = Len(chain')]]
              \/ planner' = [planner EXCEPT ![c] = IdlePlanner]
    BY <1>2, <1>5 DEF UpdateRefs
  <2> QED BY <2>1, <2>2, <2>3
<1>6. CASE ReadBack(c)
  <2>1. planner[c].base \in 1..Len(chain) BY <1>6 DEF ReadBack, RegistryInv, PlannersSound
  <2>2. /\ planner' = [planner EXCEPT ![c] = IdlePlanner] /\ UNCHANGED <<issued, tips, chain>>
        /\ swapped' = IF Len(chain) = planner[c].base
                      THEN swapped \cup {<<c, planner[c].base, Len(chain)>>} ELSE swapped
    BY <1>6 DEF ReadBack
  <2>3. VerifiedSwapWasTip'
    <3>1. ASSUME NEW s \in swapped' PROVE s[2] = s[3] /\ s[2] \in DOMAIN chain
      <4>1. CASE s \in swapped BY <1>2, <4>1 DEF VerifiedSwapWasTip
      <4>2. CASE Len(chain) = planner[c].base /\ s = <<c, planner[c].base, Len(chain)>>
        <5>1. s[2] = planner[c].base /\ s[3] = Len(chain) BY <4>2
        <5> QED BY <1>2, <2>1, <4>2, <5>1
      <4> QED BY <2>2, <3>1, <4>1, <4>2
    <3> QED BY <2>2, <3>1 DEF VerifiedSwapWasTip
  <2> QED BY <1>1, <2>2, <2>3, CoordinatorKeeps
<1>7. CASE CoordinatorDies(c) BY <1>3, <1>7 DEF CoordinatorDies
<1> QED BY <1>4, <1>5, <1>6, <1>7

(* Every step keeps the invariant. *)
LEMMA RegistryStep == RegistryInv /\ [RegistryNext]_registryVars => RegistryInv'
<1> SUFFICES ASSUME RegistryInv, [RegistryNext]_registryVars PROVE RegistryInv' OBVIOUS
<1>1. ASSUME UNCHANGED <<issued, tips, chain, planner, swapped>> PROVE RegistryInv'
  <2>1. LeasesSound' BY <1>1 DEF RegistryInv, LeasesSound
  <2> QED BY <1>1, <2>1, LeasingKeeps
<1>2. CASE UNCHANGED registryVars BY <1>1, <1>2 DEF registryVars
<1>3. CASE PassTime BY <1>1, <1>3 DEF PassTime
<1>4. ASSUME NEW l \in issued, PushLeaseBranch(l) PROVE RegistryInv' BY <1>4, PushKeeps
<1>5. ASSUME NEW c \in Coordinators, \E l \in issued : PlanEnrollment(c, l, "ready") PROVE RegistryInv'
  BY <1>5, PlanningKeeps
<1>6. ASSUME NEW c \in Coordinators, \E t \in WriteTasks, p \in CoordinationPhases : PlanPhase(c, t, p)
      PROVE  RegistryInv'
  BY <1>6, PlanningKeeps
<1>7. ASSUME NEW c \in Coordinators, CheckBeforeSwap(c) \/ UpdateRefs(c) \/ ReadBack(c) \/ CoordinatorDies(c)
      PROVE  RegistryInv'
  BY <1>7, SwappingKeeps
<1> QED BY <1>2, <1>3, <1>4, <1>5, <1>6, <1>7, GrantKeeps DEF RegistryNext

(* What the invariant says about the registry. *)
LEMMA RegistryInvImplies == RegistryInv => RegistryIsTheRecord
<1> SUFFICES ASSUME RegistryInv PROVE RegistryIsTheRecord OBVIOUS
<1>1. EnrolledHolderIsFixed BY DEF RegistryInv, ChainSound, EnrolledHolderIsFixed, KeepsHolders
<1>2. OneTaskPerMove
  <2> SUFFICES ASSUME NEW i \in DOMAIN chain
               PROVE  Cardinality({t \in WriteTasks : chain[i][t] # RegistryAt(i - 1)[t]}) = 1
    BY DEF OneTaskPerMove
  <2>1. PICK t \in WriteTasks : \A u \in WriteTasks : chain[i][u] # RegistryAt(i - 1)[u] <=> u = t
    BY DEF RegistryInv, ChainSound, MovesOne
  <2>2. {u \in WriteTasks : chain[i][u] # RegistryAt(i - 1)[u]} = {t} BY <2>1
  <2> QED BY <2>2, FS_Singleton
<1>3. EnrolledWriterWasLeased
  BY DEF RegistryInv, ChainSound, RegistrySound, WasLeased, EnrolledWriterWasLeased
<1> QED BY <1>1, <1>2, <1>3 DEF RegistryInv, RegistryIsTheRecord

(* However many coordinators plan on the same tip, lose answers and die: an enrolled task keeps  *)
(* its owner, epoch and head, each move of the ref changes one task, a swap reported as verified *)
(* was the tip, and every enrolled writer was leased the branch whose tip is its head            *)
(* (compare_and_swap_registry_plan, validate_enrollment_transition).                             *)
THEOREM RegistryRecords == RegistrySpec => []RegistryIsTheRecord
<1>1. RegistryInv /\ [RegistryNext]_registryVars => RegistryInv' BY RegistryStep
<1> QED BY <1>1, RegistryInitially, RegistryInvImplies, PTL DEF RegistrySpec

-----------------------------------------------------------------------------
(* The ready-set selection of the coordination. *)

(* ready_tasks sorts by a strict total order of the tasks. *)
LEMMA BeforeIsOrder ==
  ASSUME NEW s \in TaskIds, NEW t \in TaskIds, NEW u \in TaskIds
  PROVE  /\ ~Before(s, s)
         /\ Before(s, t) /\ Before(t, u) => Before(s, u)
         /\ s # t => Before(s, t) \/ Before(t, s)
<1>1. \A x \in TaskIds : DescendantCount(x) \in Nat
  <2> TAKE x \in TaskIds
  <2>1. {y \in TaskIds : DependsOnPlus[<<y, x>>]} \in SUBSET TaskIds OBVIOUS
  <2> QED BY <2>1, DependencyGraphAccepted, FS_Subset, FS_CardinalityType DEF DescendantCount
<1>2. \A x \in TaskIds : RiskOrder[Packet[x].risk] \in Nat
  BY DependencyGraphAccepted DEF RiskOrder
<1>3. s \in Nat /\ t \in Nat /\ u \in Nat BY DependencyGraphAccepted
<1> QED BY <1>1, <1>2, <1>3 DEF Before

(* A set of tasks that is not empty has a last one in that order. *)
LEMMA LastInOrder ==
  ASSUME NEW C \in SUBSET TaskIds, C # {}
  PROVE  \E m \in C : \A t \in C : ~Before(m, t)
<1> DEFINE Bad == {S \in SUBSET TaskIds : S # {} /\ \A m \in S : \E t \in S : Before(m, t)}
<1>1. SUFFICES ASSUME Bad # {} PROVE FALSE OBVIOUS
<1>2. IsWellFoundedOn(StrictSubsetOrdering(TaskIds), SUBSET TaskIds)
  BY DependencyGraphAccepted, FS_StrictSubsetOrderingWellFounded, FS_FiniteSubsetsOfFinite
<1>3. PICK S \in Bad : \A U \in Bad : <<U, S>> \notin StrictSubsetOrdering(TaskIds)
  BY <1>1, <1>2, WFMin
<1>4. PICK x \in S : TRUE OBVIOUS
<1> DEFINE U == S \ {x}
<1>5. U \in SUBSET TaskIds /\ <<U, S>> \in StrictSubsetOrdering(TaskIds)
  BY <1>4 DEF StrictSubsetOrdering
<1>6. U \notin Bad BY <1>3, <1>5
<1>7. U # {} BY <1>4, BeforeIsOrder
<1>8. PICK y \in U : \A t \in U : ~Before(y, t) BY <1>5, <1>6, <1>7
<1>9. Before(y, x) /\ \E t \in S : Before(x, t) BY <1>4, <1>8
<1> QED BY <1>4, <1>5, <1>8, <1>9, BeforeIsOrder

(* The tasks of C kept by the loop of ready_tasks. *)
Greedy(C, kept) ==
  /\ kept \in SUBSET C
  /\ \A t \in C : t \in kept <=> ~\E s \in kept : Before(s, t) /\ HardConflict(t, s)

(* The loop of ready_tasks has a result for every set of candidates. *)
LEMMA GreedyExists == ASSUME NEW C \in SUBSET TaskIds PROVE \E kept : Greedy(C, kept)
<1> DEFINE Bad == {S \in SUBSET TaskIds : \A kept \in SUBSET S : ~Greedy(S, kept)}
<1>1. SUFFICES ASSUME Bad # {} PROVE FALSE OBVIOUS
<1>2. IsWellFoundedOn(StrictSubsetOrdering(TaskIds), SUBSET TaskIds)
  BY DependencyGraphAccepted, FS_StrictSubsetOrderingWellFounded, FS_FiniteSubsetsOfFinite
<1>3. PICK S \in Bad : \A U \in Bad : <<U, S>> \notin StrictSubsetOrdering(TaskIds)
  BY <1>1, <1>2, WFMin
<1>4. S # {}
  <2>1. Greedy({}, {}) BY DEF Greedy
  <2> QED BY <1>3, <2>1
<1>5. PICK m \in S : \A t \in S : ~Before(m, t) BY <1>3, <1>4, LastInOrder
<1> DEFINE U == S \ {m}
<1>6. U \in SUBSET TaskIds /\ <<U, S>> \in StrictSubsetOrdering(TaskIds)
  BY <1>5 DEF StrictSubsetOrdering
<1>7. PICK kept \in SUBSET U : Greedy(U, kept) BY <1>3, <1>6
<1>8. \A t \in U : t \in kept <=> ~\E s \in kept : Before(s, t) /\ HardConflict(t, s)
  BY <1>7 DEF Greedy
<1>9. CASE \E s \in kept : Before(s, m) /\ HardConflict(m, s)
  <2>1. kept \in SUBSET S /\ m \notin kept BY <1>7
  <2>2. Greedy(S, kept) BY <1>8, <1>9, <2>1 DEF Greedy
  <2> QED BY <1>3, <2>1, <2>2
<1>10. CASE ~\E s \in kept : Before(s, m) /\ HardConflict(m, s)
  <2>1. kept \cup {m} \in SUBSET S BY <1>5, <1>7
  <2>2. \A t \in S : t \in kept \cup {m} <=>
          ~\E s \in kept \cup {m} : Before(s, t) /\ HardConflict(t, s)
    BY <1>5, <1>8, <1>10
  <2>3. Greedy(S, kept \cup {m}) BY <2>1, <2>2 DEF Greedy
  <2> QED BY <1>3, <2>1, <2>3
<1> QED BY <1>9, <1>10

(* What ready_tasks returns is what its loop keeps of the candidates. *)
LEMMA ReadyTasksGreedy == Greedy(Candidates, ReadyTasks)
<1>1. Candidates \in SUBSET TaskIds BY DEF Candidates
<1>2. \E kept : Greedy(Candidates, kept) BY <1>1, GreedyExists
<1> QED BY <1>2 DEF Greedy, ReadyTasks

(* classify_conflict does not depend on the order of its arguments, and a clash is hard. *)
LEMMA HardIsSymmetric ==
  ASSUME NEW s \in TaskIds, NEW t \in TaskIds
  PROVE  /\ HardConflict(s, t) <=> HardConflict(t, s)
         /\ Clash(s, t) => HardConflict(s, t)
<1>1. \A k, l : SameKey(k, l) <=> SameKey(l, k)
  BY DEF SameKey, FileOverlap
<1>2. \A k, l : SameKey(k, l) => k[1] = l[1] BY DEF SameKey
<1> DEFINE shared(x, y) == {k \in Packet[x].keys : \E l \in Packet[y].keys : SameKey(k, l)}
           among(x, y, N) == \E k \in shared(x, y) : k[1] \in N
<1>3. \A N : among(s, t, N) <=> among(t, s, N) BY <1>1, <1>2
<1>4. \A x, y : ClassifyConflict(x, y) = "hard" <=>
        /\ among(x, y, HardNamespaces \cup {"file"})
        /\ \/ Packet[x].mode # "read_only" \/ Packet[y].mode # "read_only"
           \/ among(x, y, {"side-effect"})
  BY DEF ClassifyConflict
<1>5. HardConflict(s, t) <=> HardConflict(t, s)
  <2> HIDE DEF among
  <2> QED BY <1>3, <1>4 DEF HardConflict
<1>6. ASSUME Clash(s, t) PROVE HardConflict(s, t)
  <2>1. PICK k \in Packet[s].keys, l \in Packet[t].keys :
          /\ SameKey(k, l)
          /\ \/ k[1] = "side-effect"
             \/ /\ k[1] \in {"file", "identity", "schema"}
                /\ "write" \in {Packet[s].mode, Packet[t].mode}
    BY <1>6 DEF Clash
  <2>2. k \in shared(s, t) BY <2>1
  <2>3. among(s, t, HardNamespaces \cup {"file"}) BY <2>1, <2>2 DEF HardNamespaces
  <2>4. k[1] = "side-effect" => among(s, t, {"side-effect"}) BY <2>2
  <2>5. s # t BY <1>6 DEF Clash
  <2> HIDE DEF among
  <2> QED BY <1>4, <2>1, <2>3, <2>4, <2>5 DEF HardConflict
<1> QED BY <1>5, <1>6

(* The selection: kept tasks are candidates that do not conflict with each other or with an *)
(* active one, and a candidate left out conflicts with a kept one.                          *)
LEMMA Selected ==
  /\ ReadyTasks \subseteq Candidates /\ ReadyTasks \subseteq TaskIds
  /\ \A s, t \in ReadyTasks : ~HardConflict(s, t)
  /\ \A t \in ReadyTasks, r \in ActiveTasks : ~HardConflict(t, r)
  /\ SelectionIsMaximal
<1>1. /\ ReadyTasks \in SUBSET Candidates
      /\ \A t \in Candidates : t \in ReadyTasks <=>
            ~\E s \in ReadyTasks : Before(s, t) /\ HardConflict(t, s)
  BY ReadyTasksGreedy DEF Greedy
<1>2. Candidates \subseteq TaskIds BY DEF Candidates
<1>3. \A s, t \in ReadyTasks : ~HardConflict(s, t)
  <2> SUFFICES ASSUME NEW s \in ReadyTasks, NEW t \in ReadyTasks, HardConflict(s, t) PROVE FALSE
    OBVIOUS
  <2>1. s \in TaskIds /\ t \in TaskIds /\ s # t BY <1>1, <1>2 DEF HardConflict
  <2>2. HardConflict(t, s) BY <2>1, HardIsSymmetric
  <2> QED BY <1>1, <2>1, <2>2, BeforeIsOrder
<1>4. \A t \in ReadyTasks, r \in ActiveTasks : ~HardConflict(t, r) BY <1>1 DEF Candidates
<1>5. SelectionIsMaximal BY <1>1, <1>2, HardIsSymmetric DEF SelectionIsMaximal
<1> QED BY <1>1, <1>2, <1>3, <1>4, <1>5

TaskPhases == {"planned", "ready", "executing", "review", "verification", "integration", "complete"}

(* Every variable of the scheduler, and the pairs in flight. *)
SchedulerInv ==
  /\ phase \in [TaskIds -> TaskPhases]
  /\ leased \subseteq TaskIds /\ batch \subseteq TaskIds
  /\ unseen \in [TaskIds -> SUBSET TaskIds]
  /\ \A s, t \in TaskIds :
       InFlight(s) /\ InFlight(t) /\ Clash(s, t) => s \in unseen[t] \/ t \in unseen[s]

(* A step that puts no further task in flight keeps the pairs. *)
LEMMA NothingTakesOff ==
  ASSUME SchedulerInv, UNCHANGED unseen,
         \A t \in TaskIds : InFlight(t)' => InFlight(t),
         phase' \in [TaskIds -> TaskPhases], leased' \subseteq TaskIds, batch' \subseteq TaskIds
  PROVE  SchedulerInv'
BY DEF SchedulerInv, Clash

(* Nothing is in flight at first. *)
LEMMA SchedulerStarts == SchedulerInit => SchedulerInv
BY DEF SchedulerInit, SchedulerInv, InFlight, TaskPhases

(* A selection: what is selected clashes only with what the selection could not see. *)
LEMMA SelectKeeps == ASSUME SchedulerInv, SelectBatch PROVE SchedulerInv'
<1> DEFINE blind == {u \in TaskIds : InFlight(u) /\ u \notin ActiveTasks}
           R == ReadyTasks
<1>1. /\ batch = {} /\ batch' = R /\ UNCHANGED <<phase, condition, leased>>
      /\ unseen' = [t \in TaskIds |-> IF t \in R THEN blind ELSE unseen[t]]
  BY DEF SelectBatch
<1>2. /\ R \subseteq TaskIds
      /\ \A s, t \in R : ~HardConflict(s, t)
      /\ \A t \in R, r \in ActiveTasks : ~HardConflict(t, r)
  BY Selected
<1> HIDE DEF R, blind
<1>3. \A t \in TaskIds : InFlight(t)' => InFlight(t) \/ t \in R BY <1>1 DEF InFlight
<1>4. \A t \in TaskIds : unseen'[t] = IF t \in R THEN blind ELSE unseen[t] BY <1>1
<1>5. \A t \in R, u \in TaskIds \ R : InFlight(u) =>
        u \in unseen'[t] \/ (~Clash(u, t) /\ ~Clash(t, u))
  <2> SUFFICES ASSUME NEW t \in R, NEW u \in TaskIds \ R, InFlight(u), u \notin unseen'[t]
               PROVE  ~Clash(u, t) /\ ~Clash(t, u)
    OBVIOUS
  <2>1. u \in ActiveTasks BY <1>2, <1>4 DEF blind
  <2>2. ~HardConflict(t, u) BY <1>2, <2>1
  <2> QED BY <1>2, <2>2, HardIsSymmetric
<1>6. \A s, t \in TaskIds :
        InFlight(s)' /\ InFlight(t)' /\ Clash(s, t) => s \in unseen'[t] \/ t \in unseen'[s]
  <2> SUFFICES ASSUME NEW s \in TaskIds, NEW t \in TaskIds, InFlight(s)', InFlight(t)', Clash(s, t)
               PROVE  s \in unseen'[t] \/ t \in unseen'[s]
    OBVIOUS
  <2>1. CASE s \in R /\ t \in R BY <1>2, <2>1, HardIsSymmetric
  <2>2. CASE s \in R /\ t \notin R BY <1>3, <1>5, <2>2
  <2>3. CASE s \notin R /\ t \in R BY <1>3, <1>5, <2>3
  <2>4. CASE s \notin R /\ t \notin R BY <1>3, <1>4, <2>4 DEF SchedulerInv
  <2> QED BY <2>1, <2>2, <2>3, <2>4
<1>7. unseen' \in [TaskIds -> SUBSET TaskIds] BY <1>1 DEF SchedulerInv, blind
<1> QED BY <1>1, <1>2, <1>6, <1>7 DEF SchedulerInv, Clash

(* A phase report starts work only on a leased task and otherwise moves a task that is at work. *)
LEMMA ReportPhaseKeeps ==
  ASSUME SchedulerInv, NEW t \in TaskIds, NEW p, ReportPhase(t, p) PROVE SchedulerInv'
<1>1. /\ p \in AllowedTransitions[phase[t]] /\ (p = "executing" => t \in leased)
      /\ phase' = [phase EXCEPT ![t] = p] /\ leased' \subseteq leased
      /\ UNCHANGED <<batch, unseen>>
  BY DEF ReportPhase
<1>2. phase[t] \in TaskPhases BY DEF SchedulerInv
<1>3. /\ p \in TaskPhases
      /\ \/ p \in {"ready", "executing", "complete"}
         \/ phase[t] \in {"executing", "review", "verification", "integration"}
  BY <1>1, <1>2 DEF AllowedTransitions, TaskPhases
<1>4. \A u \in TaskIds : phase'[u] = IF u = t THEN p ELSE phase[u]
  BY <1>1 DEF SchedulerInv
<1>5. \A u \in TaskIds : InFlight(u)' => InFlight(u)
  <2> TAKE u \in TaskIds
  <2>1. CASE u # t BY <1>1, <1>4, <2>1 DEF InFlight
  <2>2. CASE u = t BY <1>1, <1>3, <1>4, <2>2 DEF InFlight
  <2> QED BY <2>1, <2>2
<1>6. phase' \in [TaskIds -> TaskPhases] BY <1>1, <1>3 DEF SchedulerInv
<1> QED BY <1>1, <1>5, <1>6, NothingTakesOff DEF SchedulerInv

(* Every step of the coordination keeps the pairs. *)
LEMMA SchedulerStep == SchedulerInv /\ [SchedulerNext]_schedulerVars => SchedulerInv'
<1> SUFFICES ASSUME SchedulerInv, [SchedulerNext]_schedulerVars PROVE SchedulerInv' OBVIOUS
<1>1. CASE SelectBatch BY <1>1, SelectKeeps
<1>2. ASSUME NEW t \in TaskIds, LeaseTask(t) PROVE SchedulerInv'
  <2>1. \A u \in TaskIds : InFlight(u)' => InFlight(u) BY <1>2 DEF LeaseTask, InFlight
  <2> QED BY <1>2, <2>1, NothingTakesOff DEF LeaseTask, SchedulerInv
<1>3. ASSUME NEW t \in TaskIds, LoseLease(t) PROVE SchedulerInv'
  <2>1. \A u \in TaskIds : InFlight(u)' => InFlight(u) BY <1>3 DEF LoseLease, InFlight
  <2> QED BY <1>3, <2>1, NothingTakesOff DEF LoseLease, SchedulerInv
<1>4. ASSUME NEW t \in TaskIds, NEW p \in ToSet(Phases), ReportPhase(t, p) PROVE SchedulerInv'
  BY <1>4, ReportPhaseKeeps
<1>5. ASSUME NEW t \in TaskIds, NEW c \in {"healthy", "blocked"}, ReportCondition(t, c)
      PROVE  SchedulerInv'
  <2>1. UNCHANGED <<phase, leased, batch, unseen>> BY <1>5 DEF ReportCondition
  <2> QED BY <2>1, NothingTakesOff DEF SchedulerInv, InFlight
<1>6. CASE UNCHANGED schedulerVars
  BY <1>6, NothingTakesOff DEF SchedulerInv, InFlight, schedulerVars
<1> QED BY <1>1, <1>2, <1>3, <1>4, <1>5, <1>6 DEF SchedulerNext

(* Active tasks are in flight. *)
LEMMA SelectionByInv == SchedulerInv => SelectionIsExact
<1> SUFFICES ASSUME SchedulerInv PROVE ClashesOverlapOnlyUnseen
  BY Selected DEF SelectionIsExact
<1>1. \A t \in ActiveTasks : t \in TaskIds /\ InFlight(t) BY DEF ActiveTasks, InFlight
<1> QED BY <1>1 DEF SchedulerInv, ClashesOverlapOnlyUnseen

(* ready_tasks: two clashing tasks execute together only if the selection of one could not    *)
(* see the other, and no candidate is held back without a conflict.                           *)
THEOREM SelectionAlwaysExact == SchedulerSpec => []SelectionIsExact
<1>1. SchedulerSpec => []SchedulerInv BY SchedulerStarts, SchedulerStep, PTL DEF SchedulerSpec
<1> QED BY <1>1, SelectionByInv, PTL

(* Both halves of the coordination: the selection keeps clashing tasks apart, and the registry *)
(* records who writes; they share no state (scheduler.py ready_tasks, registry.py, enrollment). *)
THEOREM TasksKeptApart == SchedulerSpec /\ RegistrySpec => []CoordinationKeepsTasksApart
BY SelectionAlwaysExact, RegistryRecords, PTL DEF CoordinationKeepsTasksApart

-----------------------------------------------------------------------------
(* The restartable stages of the checkpoint study. *)

Trees == [Paths -> Nat]
StageReceipts ==
  [stage : {"prepare", "arm", "finalize"}, status : {"started", "failed", "succeeded"},
   protocol : Nat, review : Nat, code : Nat \ {0}]
Uploadable == [tree : Trees, receipt : StageReceipts]
ReviewRecords == [protocol : Nat, prepare : Nat]
RunKeys == {"phase", "factor", "tree", "done", "receipt"}

(* Every cell and arm of a tree is of the fit beside it. *)
NamesItsFit(t) ==
  \A f \in Factors : /\ \A c \in Cells : t[<<"cell", f, c>>] \in {0, t[<<"fit", f>>]}
                     /\ t[<<"arm", f>>] \in {0, t[<<"fit", f>>]}

(* What was fitted in a tree was fitted under the review its receipt names. *)
Reviewed(a, posted) ==
  \A f \in Factors : a.tree[<<"fit", f>>] # 0 =>
    /\ a.receipt.review \in DOMAIN posted
    /\ posted[a.receipt.review].protocol = a.tree[<<"protocol">>]
    /\ a.tree[<<"protocol">>] = a.receipt.code

ComparisonRests(t) == t[<<"comparison">>] = 1 => \A f \in Factors : ArmValid(t, f)

SuccessHolds(a) ==
  a.receipt.status = "succeeded" =>
    /\ a.receipt.protocol = a.tree[<<"protocol">>] /\ a.receipt.protocol # 0
    /\ a.receipt.stage = "arm" => \E f \in Factors : ArmValid(a.tree, f)
    /\ a.receipt.stage = "finalize" => a.tree[<<"comparison">>] = 1

TreeSound(t, made) ==
  /\ t \in Trees /\ NamesItsFit(t) /\ ComparisonRests(t)
  /\ \A f \in Factors : t[<<"fit", f>>] <= made

(* An artifact, uploaded or about to be; a prepared tree holds no fit. *)
ArtifactSound(a, made, posted) ==
  /\ TreeSound(a.tree, made) /\ a.receipt \in StageReceipts
  /\ Reviewed(a, posted) /\ SuccessHolds(a)
  /\ a.receipt.stage = "prepare" => \A f \in Factors : a.tree[<<"fit", f>>] = 0

(* Two artifacts with the same fit are of the same review. *)
SameReview(a, b) ==
  \A f \in Factors : a.tree[<<"fit", f>>] # 0 /\ b.tree[<<"fit", f>>] = a.tree[<<"fit", f>>]
                       => b.receipt.review = a.receipt.review

(* The last command of the stage has done its work. *)
LastDone(r) ==
  \/ r.phase = "ready" /\ r.done = Len(CommandsForStage(r))
  \/ r.phase = "exited" /\ r.done + 1 = Len(CommandsForStage(r))

ProductThere(r) ==
  /\ r.receipt.stage = "arm" => ArmValid(r.tree, r.factor)
  /\ r.receipt.stage = "finalize" => r.tree[<<"comparison">>] = 1

(* The run under way: past the preflight it works under a posted review of its own protocol. *)
StageSound(r, made, posted) ==
  /\ DOMAIN r = RunKeys /\ ArtifactSound(r, made, posted) /\ r.done \in Nat
  /\ r.phase = "preflight" => r.tree = EmptyTree /\ r.receipt.stage # "prepare" /\ r.done = 0
  /\ r.phase # "over" => r.receipt.status = "started"
  /\ r.receipt.stage = "arm" => r.factor \in Factors
  /\ r.phase \in {"ready", "exited"} /\ r.receipt.stage # "prepare" =>
       /\ r.receipt.review \in DOMAIN posted
       /\ posted[r.receipt.review].protocol = r.receipt.code
       /\ r.tree[<<"protocol">>] = r.receipt.code
  /\ r.phase = "ready" => r.done <= Len(CommandsForStage(r))
  /\ r.phase = "exited" => r.done < Len(CommandsForStage(r))
  /\ LastDone(r) => ProductThere(r)

StagePhases == {"preflight", "ready", "exited", "over"}

UploadsSound ==
  /\ uploads \in Seq(Uploadable) /\ reviews \in Seq(ReviewRecords)
  /\ fitsMade \in Nat /\ pullHead \in Nat \ {0}
  /\ \A i \in DOMAIN uploads : ArtifactSound(uploads[i], fitsMade, reviews)
  /\ \A i, j \in DOMAIN uploads : SameReview(uploads[i], uploads[j])

PipelineInv ==
  /\ UploadsSound
  /\ \/ stageRun = NoRun
     \/ /\ stageRun.phase \in StagePhases
        /\ StageSound(stageRun, fitsMade, reviews)
        /\ \A i \in DOMAIN uploads : SameReview(uploads[i], stageRun)

-----------------------------------------------------------------------------
(* Different paths of a tree are different. *)
LEMMA PathsApart ==
  ASSUME NEW f, NEW g, NEW c, NEW d
  PROVE  /\ <<"fit", f>> = <<"fit", g>> => f = g
         /\ <<"arm", f>> = <<"arm", g>> => f = g
         /\ <<"cell", f, c>> = <<"cell", g, d>> => f = g /\ c = d
         /\ <<"fit", f>> # <<"arm", g>>
         /\ <<"fit", f>> # <<"cell", g, d>> /\ <<"arm", f>> # <<"cell", g, d>>
         /\ <<"protocol">> # <<"comparison">>
         /\ <<"protocol">> # <<"fit", f>> /\ <<"comparison">> # <<"fit", f>>
         /\ <<"protocol">> # <<"arm", f>> /\ <<"comparison">> # <<"arm", f>>
         /\ <<"protocol">> # <<"cell", f, c>> /\ <<"comparison">> # <<"cell", f, c>>
<1>1. <<"fit", f>> = <<"fit", g>> => f = g OBVIOUS
<1>2. <<"arm", f>> = <<"arm", g>> => f = g OBVIOUS
<1>3. <<"cell", f, c>> = <<"cell", g, d>> => f = g /\ c = d OBVIOUS
<1>4. <<"fit", f>> # <<"arm", g>> OBVIOUS
<1>5. <<"fit", f>>[1] = "fit" /\ <<"arm", f>>[1] = "arm" /\ <<"cell", g, d>>[1] = "cell"
      /\ <<"cell", f, c>>[1] = "cell" OBVIOUS
<1>6. <<"fit", f>> # <<"cell", g, d>> /\ <<"arm", f>> # <<"cell", g, d>> BY <1>5
<1>7. <<"protocol">>[1] = "protocol" /\ <<"comparison">>[1] = "comparison" OBVIOUS
<1>8. /\ <<"protocol">> # <<"fit", f>> /\ <<"comparison">> # <<"fit", f>>
      /\ <<"protocol">> # <<"arm", f>> /\ <<"comparison">> # <<"arm", f>>
      /\ <<"protocol">> # <<"cell", f, c>> /\ <<"comparison">> # <<"cell", f, c>>
      /\ <<"protocol">> # <<"comparison">>
  BY <1>5, <1>7
<1> QED BY <1>1, <1>2, <1>3, <1>4, <1>6, <1>8

(* Where everything is. *)
LEMMA PathsThere ==
  /\ <<"protocol">> \in Paths /\ <<"comparison">> \in Paths
  /\ \A f \in Factors : <<"fit", f>> \in Paths /\ <<"arm", f>> \in Paths
  /\ \A f \in Factors, c \in Cells : <<"cell", f, c>> \in Paths
  BY DEF Paths

(* An artifact stays sound when more is fitted and more reviews are posted. *)
LEMMA ArtifactStays ==
  ASSUME NEW a, NEW made \in Nat, NEW more \in Nat, made <= more, NEW posted, NEW longer,
         \A w \in DOMAIN posted : w \in DOMAIN longer /\ longer[w] = posted[w],
         ArtifactSound(a, made, posted)
  PROVE  ArtifactSound(a, more, longer)
<1>1. \A f \in Factors : a.tree[<<"fit", f>>] \in Nat
  BY PathsThere DEF ArtifactSound, TreeSound, Trees
<1>2. TreeSound(a.tree, more) BY <1>1 DEF ArtifactSound, TreeSound
<1>3. Reviewed(a, longer) BY DEF ArtifactSound, Reviewed
<1> QED BY <1>2, <1>3 DEF ArtifactSound

(* So does the run under way. *)
LEMMA StageStays ==
  ASSUME NEW r, NEW made \in Nat, NEW posted, NEW longer,
         \A w \in DOMAIN posted : w \in DOMAIN longer /\ longer[w] = posted[w],
         StageSound(r, made, posted)
  PROVE  StageSound(r, made, longer)
<1>1. ArtifactSound(r, made, longer) BY ArtifactStays DEF StageSound
<1> QED BY <1>1 DEF StageSound

(* The order of the cells is a sequence of them. *)
LEMMA CellOrderIsSeq == CellOrder \in [1..Cardinality(Cells) -> Cells] /\ Cardinality(Cells) \in Nat
<1>1. Cardinality(Cells) \in Nat /\ ExistsBijection(1..Cardinality(Cells), Cells)
  BY FS_CardinalityType, PipelineAssumption
<1>2. \E s \in [1..Cardinality(Cells) -> Cells] : \A i, j \in DOMAIN s : s[i] = s[j] => i = j
  BY <1>1 DEF ExistsBijection, Bijection, Injection, IsInjective
<1> QED BY <1>1, <1>2 DEF CellOrder

(* The commands of a stage: one for prepare and finalize; an arm ends with its assembly. *)
LEMMA Commands ==
  ASSUME NEW r, r.receipt.stage \in {"prepare", "arm", "finalize"}
  PROVE  LET cmds == CommandsForStage(r) IN
         /\ Len(cmds) \in Nat \ {0}
         /\ r.receipt.stage = "prepare" => cmds = << <<"protocol">> >>
         /\ r.receipt.stage = "finalize" => cmds = << <<"comparison">> >>
         /\ r.receipt.stage = "arm" =>
              /\ cmds[Len(cmds)] = <<"arm", r.factor>>
              /\ \A i \in 1..Len(cmds) :
                   \/ cmds[i] = <<"fit", r.factor>>
                   \/ \E c \in Cells : cmds[i] = <<"cell", r.factor, c>>
                   \/ cmds[i] = <<"arm", r.factor>>
<1>1. CASE r.receipt.stage = "prepare" BY <1>1 DEF CommandsForStage
<1>2. CASE r.receipt.stage = "finalize" BY <1>2 DEF CommandsForStage
<1>3. CASE r.receipt.stage = "arm"
  <2> DEFINE n == Cardinality(Cells)
             cells == [i \in DOMAIN CellOrder |-> <<"cell", r.factor, CellOrder[i]>>]
             P == {<<"fit", r.factor>>, <<"arm", r.factor>>} \cup {<<"cell", r.factor, c>> : c \in Cells}
             front == << <<"fit", r.factor>> >>
             back == << <<"arm", r.factor>> >>
  <2>1. n \in Nat /\ DOMAIN CellOrder = 1..n /\ \A i \in 1..n : CellOrder[i] \in Cells BY CellOrderIsSeq
  <2>2. cells \in Seq(P) /\ Len(cells) = n
    <3>1. cells \in [1..n -> P] BY <2>1
    <3> QED BY <2>1, <3>1
  <2>3. front \in Seq(P) /\ back \in Seq(P) /\ Len(front) = 1 /\ Len(back) = 1 /\ back[1] = <<"arm", r.factor>>
    OBVIOUS
  <2>4. CommandsForStage(r) = (front \o cells) \o back BY <1>3 DEF CommandsForStage
  <2> HIDE DEF cells, front, back, P, n
  <2>5. front \o cells \in Seq(P) /\ Len(front \o cells) = 1 + n
    <3>1. front \o cells \in Seq(P) /\ Len(front \o cells) = Len(front) + Len(cells)
      BY <2>2, <2>3, ConcatProperties, Zenon
    <3> QED BY <2>2, <2>3, <3>1
  <2> DEFINE cmds == (front \o cells) \o back
  <2>6. cmds \in Seq(P) /\ Len(cmds) = (1 + n) + 1 /\ cmds[(1 + n) + 1] = back[1]
    <3>1. (1 + n) + 1 \in 1..(1 + n) + 1 /\ ~((1 + n) + 1 <= 1 + n) /\ (1 + n) + 1 - (1 + n) = 1 BY <2>1
    <3> QED BY <2>1, <2>3, <2>5, <3>1, ConcatProperties
  <2> HIDE DEF cmds
  <2>7. \A i \in 1..Len(cmds) : cmds[i] \in P BY <2>6, ElementOfSeq
  <2>8. \A i \in 1..Len(cmds) :
           \/ cmds[i] = <<"fit", r.factor>>
           \/ \E c \in Cells : cmds[i] = <<"cell", r.factor, c>>
           \/ cmds[i] = <<"arm", r.factor>>
    BY <2>7 DEF P
  <2>9. CommandsForStage(r) = cmds BY <2>4 DEF cmds
  <2>10. Len(cmds) \in Nat \ {0} BY <2>1, <2>6
  <2> QED BY <1>3, <2>3, <2>6, <2>8, <2>9, <2>10
<1> QED BY <1>1, <1>2, <1>3

-----------------------------------------------------------------------------
(* The initial state. *)
LEMMA PipelineInitially == PipelineInit => PipelineInv
  BY DEF PipelineInit, PipelineInv, UploadsSound

(* A merged tree holds what some tree holds, and all that any of them holds. *)
LEMMA MergeIsUnion ==
  ASSUME NEW trees, \A i \in DOMAIN trees : trees[i] \in Trees, Agree(trees)
  PROVE  /\ MergeCheckpointTrees(trees) \in Trees
         /\ \A p \in Paths : MergeCheckpointTrees(trees)[p] # 0 =>
              \E i \in DOMAIN trees : trees[i][p] = MergeCheckpointTrees(trees)[p]
         /\ \A p \in Paths, i \in DOMAIN trees :
              trees[i][p] # 0 => MergeCheckpointTrees(trees)[p] = trees[i][p]
<1> DEFINE t == MergeCheckpointTrees(trees)
<1>1. ASSUME NEW p \in Paths
      PROVE  /\ t[p] \in Nat
             /\ t[p] # 0 => \E i \in DOMAIN trees : trees[i][p] = t[p]
             /\ \A i \in DOMAIN trees : trees[i][p] # 0 => t[p] = trees[i][p]
  <2> DEFINE holders == {i \in DOMAIN trees : trees[i][p] # 0}
  <2>1. t[p] = IF holders = {} THEN 0 ELSE trees[CHOOSE i \in holders : TRUE][p]
    BY DEF MergeCheckpointTrees
  <2>2. \A i \in DOMAIN trees : trees[i][p] \in Nat BY DEF Trees
  <2>3. CASE holders = {} BY <2>1, <2>3
  <2>4. CASE holders # {}
    <3>1. (CHOOSE i \in holders : TRUE) \in holders BY <2>4
    <3>2. PICK k \in DOMAIN trees : t[p] = trees[k][p] /\ trees[k][p] # 0 BY <2>1, <2>4, <3>1
    <3>3. \A i \in DOMAIN trees : trees[i][p] # 0 => trees[i][p] = trees[k][p] BY <3>2 DEF Agree
    <3> QED BY <2>2, <3>2, <3>3
  <2> QED BY <2>3, <2>4
<1>2. t \in [Paths -> Nat] BY <1>1 DEF MergeCheckpointTrees
<1> QED BY <1>1, <1>2 DEF Trees

(* A merge of sound trees is sound: the cells and arms come with the fit they name. *)
LEMMA MergeIsSound ==
  ASSUME NEW made \in Nat, NEW trees, Agree(trees), \A i \in DOMAIN trees : TreeSound(trees[i], made)
  PROVE  TreeSound(MergeCheckpointTrees(trees), made)
<1> DEFINE t == MergeCheckpointTrees(trees)
<1>1. \A i \in DOMAIN trees : trees[i] \in Trees BY DEF TreeSound
<1>2. /\ t \in Trees
      /\ \A p \in Paths : t[p] # 0 => \E i \in DOMAIN trees : trees[i][p] = t[p]
      /\ \A p \in Paths, i \in DOMAIN trees : trees[i][p] # 0 => t[p] = trees[i][p]
  BY <1>1, MergeIsUnion
<1> HIDE DEF t
<1>3. ASSUME NEW f \in Factors PROVE t[<<"fit", f>>] <= made
  <2>1. CASE t[<<"fit", f>>] = 0 BY <2>1
  <2>2. CASE t[<<"fit", f>>] # 0 BY <2>2, <1>2, PathsThere DEF TreeSound
  <2> QED BY <2>1, <2>2
<1>4. ASSUME NEW f \in Factors, NEW p \in Paths,
             \A i \in DOMAIN trees : trees[i][p] \in {0, trees[i][<<"fit", f>>]}
      PROVE  t[p] \in {0, t[<<"fit", f>>]}
  <2>1. CASE t[p] = 0 BY <2>1
  <2>2. CASE t[p] # 0
    <3>1. PICK i \in DOMAIN trees : trees[i][p] = t[p] BY <1>2, <2>2
    <3>2. trees[i][<<"fit", f>>] = t[p] BY <1>4, <2>2, <3>1
    <3> QED BY <1>2, <2>2, <3>2, PathsThere
  <2> QED BY <2>1, <2>2
<1>5. NamesItsFit(t) BY <1>4, PathsThere DEF NamesItsFit, TreeSound
<1>6. ASSUME t[<<"comparison">>] = 1, NEW f \in Factors PROVE ArmValid(t, f)
  <2>1. PICK i \in DOMAIN trees : trees[i][<<"comparison">>] = 1 BY <1>2, <1>6, PathsThere
  <2>2. ArmValid(trees[i], f) BY <2>1 DEF TreeSound, ComparisonRests
  <2>3. t[<<"fit", f>>] = trees[i][<<"fit", f>>] /\ trees[i][<<"fit", f>>] # 0
    BY <1>2, <2>2, PathsThere DEF ArmValid, RosterComplete, FitValid
  <2>4. t[<<"arm", f>>] = trees[i][<<"arm", f>>]
    BY <1>2, <2>2, <2>3, PathsThere DEF ArmValid
  <2>5. \A c \in Cells : t[<<"cell", f, c>>] = t[<<"fit", f>>]
    BY <1>2, <2>2, <2>3, PathsThere DEF ArmValid, RosterComplete, CellValid
  <2> QED BY <2>2, <2>3, <2>4, <2>5 DEF ArmValid, RosterComplete, FitValid, CellValid
<1> QED BY <1>2, <1>3, <1>5, <1>6 DEF TreeSound, ComparisonRests, t

-----------------------------------------------------------------------------
(* One path of a tree is written, the others stay as they are. *)
TreeWith(t, p, v) == [t EXCEPT ![p] = v]

(* It stays a tree. *)
LEMMA TreeWritten ==
  ASSUME NEW t \in Trees, NEW p \in Paths, NEW v \in Nat
  PROVE  /\ TreeWith(t, p, v) \in Trees
         /\ \A q \in Paths : TreeWith(t, p, v)[q] = IF q = p THEN v ELSE t[q]
  BY DEF Trees, TreeWith

(* The run after the child's work is published: another tree, nothing else. *)
Exited(r, t) == [r EXCEPT !.phase = "exited", !.tree = t]

(* Its command list is that of the run before. *)
LEMMA ExitedFields ==
  ASSUME NEW r, DOMAIN r = RunKeys, NEW t
  PROVE  /\ DOMAIN Exited(r, t) = RunKeys /\ Exited(r, t).phase = "exited" /\ Exited(r, t).tree = t
         /\ Exited(r, t).factor = r.factor /\ Exited(r, t).done = r.done
         /\ Exited(r, t).receipt = r.receipt
         /\ CommandsForStage(Exited(r, t)) = CommandsForStage(r)
<1> DEFINE x == Exited(r, t)
<1>1. /\ DOMAIN x = RunKeys /\ x.phase = "exited" /\ x.tree = t /\ x.factor = r.factor
      /\ x.done = r.done /\ x.receipt = r.receipt
  BY DEF Exited, RunKeys
<1> HIDE DEF x
<1>2. CommandsForStage(x) = CommandsForStage(r) BY <1>1 DEF CommandsForStage
<1> QED BY <1>1, <1>2 DEF x

(* The run of a child whose tree is sound is sound. *)
LEMMA ChildKeepsStage ==
  ASSUME NEW r, NEW made \in Nat, NEW more \in Nat, made <= more, NEW posted,
         StageSound(r, made, posted), r.phase = "ready", r.done < Len(CommandsForStage(r)),
         NEW t, TreeSound(t, more),
         r.receipt.stage = "prepare" => \A f \in Factors : t[<<"fit", f>>] = 0,
         r.receipt.stage # "prepare" => t[<<"protocol">>] = r.tree[<<"protocol">>],
         r.done + 1 = Len(CommandsForStage(r)) =>
           /\ r.receipt.stage = "arm" => ArmValid(t, r.factor)
           /\ r.receipt.stage = "finalize" => t[<<"comparison">>] = 1
  PROVE  StageSound(Exited(r, t), more, posted)
<1> DEFINE x == Exited(r, t)
<1>1. /\ DOMAIN x = RunKeys /\ x.phase = "exited" /\ x.tree = t /\ x.factor = r.factor
      /\ x.done = r.done /\ x.receipt = r.receipt /\ CommandsForStage(x) = CommandsForStage(r)
  BY ExitedFields DEF StageSound
<1> HIDE DEF x
<1>2. /\ r.receipt \in StageReceipts /\ r.receipt.status = "started" /\ r.done \in Nat
      /\ r.receipt.stage = "arm" => r.factor \in Factors
  BY DEF StageSound, ArtifactSound
<1>3. r.receipt.stage # "prepare" =>
        /\ r.receipt.review \in DOMAIN posted
        /\ posted[r.receipt.review].protocol = r.receipt.code
        /\ r.tree[<<"protocol">>] = r.receipt.code
  BY DEF StageSound
<1>4. Reviewed(x, posted) BY <1>1, <1>3 DEF Reviewed
<1>5. SuccessHolds(x) BY <1>1, <1>2 DEF SuccessHolds
<1>6. ArtifactSound(x, more, posted) BY <1>1, <1>2, <1>4, <1>5 DEF ArtifactSound
<1>7. LastDone(x) => ProductThere(x) BY <1>1 DEF LastDone, ProductThere
<1>8. StageSound(x, more, posted) BY <1>1, <1>2, <1>3, <1>6, <1>7 DEF StageSound
<1> QED BY <1>8 DEF x

(* The run under way is sound and shares no fit with an artifact of another review. *)
UnderWay(r, made) ==
  /\ r.phase \in StagePhases /\ StageSound(r, made, reviews)
  /\ \A i \in DOMAIN uploads : SameReview(uploads[i], r)

(* What a child may make of the tree: a sound one, with the fits that were there and new ones. *)
Worked(r, t, more) ==
  /\ TreeSound(t, more)
  /\ r.receipt.stage = "prepare" => \A f \in Factors : t[<<"fit", f>>] = 0
  /\ r.receipt.stage # "prepare" => t[<<"protocol">>] = r.tree[<<"protocol">>]
  /\ r.done + 1 = Len(CommandsForStage(r)) =>
       /\ r.receipt.stage = "arm" => ArmValid(t, r.factor)
       /\ r.receipt.stage = "finalize" => t[<<"comparison">>] = 1
  /\ \A f \in Factors : t[<<"fit", f>>] = r.tree[<<"fit", f>>] \/ t[<<"fit", f>>] > fitsMade

(* A child that worked keeps the invariant: a new fit has a number no artifact has. *)
LEMMA WorkedKeeps ==
  ASSUME PipelineInv, stageRun.phase = "ready", stageRun.done < Len(CommandsForStage(stageRun)),
         NEW more \in Nat, fitsMade <= more, NEW t, Worked(stageRun, t, more),
         stageRun' = Exited(stageRun, t), fitsMade' = more, UNCHANGED <<pullHead, reviews, uploads>>
  PROVE  PipelineInv'
<1> DEFINE r == stageRun
<1>1. StageSound(r, fitsMade, reviews) /\ \A i \in DOMAIN uploads : SameReview(uploads[i], r)
  BY DEF PipelineInv, NoRun
<1>2. fitsMade \in Nat BY DEF PipelineInv, UploadsSound
<1>3. StageSound(Exited(r, t), more, reviews)
  BY <1>1, <1>2, ChildKeepsStage DEF Worked
<1>4. Exited(r, t).tree = t /\ Exited(r, t).receipt = r.receipt /\ Exited(r, t).phase = "exited"
  BY <1>1, ExitedFields DEF StageSound
<1>5. ASSUME NEW i \in DOMAIN uploads PROVE SameReview(uploads[i], Exited(r, t))
  <2>1. \A f \in Factors : uploads[i].tree[<<"fit", f>>] \in Nat /\ uploads[i].tree[<<"fit", f>>] <= fitsMade
    BY PathsThere DEF PipelineInv, UploadsSound, ArtifactSound, TreeSound, Trees
  <2>2. \A f \in Factors : t[<<"fit", f>>] = r.tree[<<"fit", f>>] \/ t[<<"fit", f>>] > fitsMade
    BY DEF Worked
  <2>3. \A f \in Factors : t[<<"fit", f>>] \in Nat BY PathsThere DEF Worked, TreeSound, Trees
  <2>4. \A f \in Factors : t[<<"fit", f>>] = uploads[i].tree[<<"fit", f>>]
                             => r.tree[<<"fit", f>>] = uploads[i].tree[<<"fit", f>>]
    BY <1>2, <2>1, <2>2, <2>3
  <2> QED BY <1>1, <1>4, <2>4 DEF SameReview
<1>6. UploadsSound'
  <2>1. \A i \in DOMAIN uploads : ArtifactSound(uploads[i], more, reviews)
    BY <1>2, ArtifactStays DEF PipelineInv, UploadsSound
  <2> QED BY <2>1 DEF PipelineInv, UploadsSound
<1>7. StageSound(stageRun', fitsMade', reviews') /\ stageRun'.phase = "exited" BY <1>3, <1>4
<1>8. \A i \in DOMAIN uploads' : SameReview(uploads'[i], stageRun') BY <1>5
<1> QED BY <1>6, <1>7, <1>8 DEF PipelineInv, StagePhases

(* fit_checkpoint keeps a fit that is there, or trains once and writes it where none was. *)
LEMMA FitWorks ==
  ASSUME PipelineInv, stageRun.phase = "ready", stageRun.receipt.stage = "arm",
         stageRun.done < Len(CommandsForStage(stageRun)),
         stageRun.done + 1 # Len(CommandsForStage(stageRun)), NEW f \in Factors,
         FitCheckpoint(stageRun, <<"fit", f>>), UNCHANGED <<pullHead, reviews, uploads>>
  PROVE  PipelineInv'
<1> DEFINE r == stageRun
           t == r.tree
           v == fitsMade + 1
           p == <<"fit", f>>
           u == TreeWith(t, p, v)
<1>1. StageSound(r, fitsMade, reviews) BY DEF PipelineInv, NoRun
<1>2. TreeSound(t, fitsMade) /\ DOMAIN r = RunKeys BY <1>1 DEF StageSound, ArtifactSound
<1>3. fitsMade \in Nat BY DEF PipelineInv, UploadsSound
<1>4. CASE t[<<"fit", f>>] # 0
  <2>1. [r EXCEPT !.phase = "exited"] = Exited(r, t) BY <1>2 DEF Exited, RunKeys
  <2>2. stageRun' = Exited(r, t) /\ fitsMade' = fitsMade BY <1>4, <2>1 DEF FitCheckpoint
  <2>3. Worked(r, t, fitsMade) BY <1>2 DEF Worked
  <2> QED BY <1>3, <2>2, <2>3, WorkedKeeps
<1>5. CASE t[<<"fit", f>>] = 0
  <2>1. stageRun' = Exited(r, u) /\ fitsMade' = v BY <1>5 DEF FitCheckpoint, Exited, TreeWith
  <2>2. u \in Trees /\ \A q \in Paths : u[q] = IF q = p THEN v ELSE t[q]
    <3>1. t \in Trees BY <1>2 DEF TreeSound
    <3>2. p \in Paths BY PathsThere
    <3>3. v \in Nat BY <1>3
    <3> HIDE DEF t, v, p
    <3> QED BY <3>1, <3>2, <3>3, TreeWritten
  <2>a. v = fitsMade + 1 /\ v \in Nat BY <1>3
  <2>b. t[<<"fit", f>>] = 0 BY <1>5
  <2> HIDE DEF u, t, v
  <2>3. /\ \A g \in Factors : u[<<"fit", g>>] = IF g = f THEN v ELSE t[<<"fit", g>>]
        /\ \A g \in Factors : u[<<"arm", g>>] = t[<<"arm", g>>]
        /\ \A g \in Factors, c \in Cells : u[<<"cell", g, c>>] = t[<<"cell", g, c>>]
        /\ u[<<"protocol">>] = t[<<"protocol">>] /\ u[<<"comparison">>] = t[<<"comparison">>]
    BY <2>2, PathsThere, PathsApart
  <2>4. \A g \in Factors : t[<<"fit", g>>] \in Nat /\ t[<<"fit", g>>] <= fitsMade
    BY <1>2, PathsThere DEF TreeSound, Trees
  <2>5. NamesItsFit(u) BY <1>2, <1>5, <2>3 DEF TreeSound, NamesItsFit
  <2>6. ComparisonRests(u)
    <3>1. ~ArmValid(t, f) BY <1>5 DEF ArmValid, RosterComplete, FitValid
    <3> QED BY <1>2, <2>3, <3>1 DEF TreeSound, ComparisonRests
  <2>7. \A g \in Factors : u[<<"fit", g>>] <= v
    <3> TAKE g \in Factors
    <3>1. CASE g = f BY <2>3, <2>a, <3>1
    <3>2. CASE g # f BY <1>3, <2>3, <2>4, <2>a, <3>2
    <3> QED BY <3>1, <3>2
  <2>8. TreeSound(u, v) BY <2>2, <2>5, <2>6, <2>7 DEF TreeSound
  <2>9. \A g \in Factors : u[<<"fit", g>>] = t[<<"fit", g>>] \/ u[<<"fit", g>>] > fitsMade
    <3> TAKE g \in Factors
    <3>1. CASE g = f BY <1>3, <2>3, <2>a, <3>1
    <3>2. CASE g # f BY <2>3, <3>2
    <3> QED BY <3>1, <3>2
  <2>10. Worked(r, u, v) BY <2>3, <2>8, <2>9 DEF Worked, t
  <2>11. fitsMade <= v BY <1>3, <2>a
  <2> QED BY <2>1, <2>a, <2>10, <2>11, WorkedKeeps
<1> QED BY <1>4, <1>5

(* replay_cell and assemble_arm write the number of the fit beside them. *)
LEMMA CopyOfFitWorks ==
  ASSUME PipelineInv, stageRun.phase = "ready", stageRun.receipt.stage = "arm",
         stageRun.done < Len(CommandsForStage(stageRun)), NEW f \in Factors, f = stageRun.factor,
         FitValid(stageRun.tree, f), NEW p,
         p = <<"arm", f>> \/ \E c \in Cells : p = <<"cell", f, c>>,
         stageRun.done + 1 = Len(CommandsForStage(stageRun)) =>
           p = <<"arm", f>> /\ RosterComplete(stageRun.tree, f),
         stageRun' = Exited(stageRun, TreeWith(stageRun.tree, p, stageRun.tree[<<"fit", f>>])),
         UNCHANGED <<pullHead, reviews, uploads, fitsMade>>
  PROVE  PipelineInv'
<1> DEFINE r == stageRun
           t == r.tree
           v == t[<<"fit", f>>]
           u == TreeWith(t, p, v)
<1>1. StageSound(r, fitsMade, reviews) BY DEF PipelineInv, NoRun
<1>2. TreeSound(t, fitsMade) BY <1>1 DEF StageSound, ArtifactSound
<1>3. fitsMade \in Nat BY DEF PipelineInv, UploadsSound
<1>4. p \in Paths BY PathsThere
<1>5. v \in Nat /\ v # 0 BY <1>2, PathsThere DEF TreeSound, Trees, FitValid
<1>6. u \in Trees /\ \A q \in Paths : u[q] = IF q = p THEN v ELSE t[q]
  <2>1. t \in Trees BY <1>2 DEF TreeSound
  <2> HIDE DEF t, v
  <2> QED BY <1>4, <1>5, <2>1, TreeWritten
<1> HIDE DEF u
<1>7. \A g \in Factors : p # <<"fit", g>> /\ p # <<"protocol">> /\ p # <<"comparison">> BY PathsApart
<1>8. /\ \A g \in Factors : u[<<"fit", g>>] = t[<<"fit", g>>]
      /\ u[<<"protocol">>] = t[<<"protocol">>] /\ u[<<"comparison">>] = t[<<"comparison">>]
  BY <1>6, <1>7, PathsThere
<1>9. \A g \in Factors : u[<<"arm", g>>] = t[<<"arm", g>>] \/ (g = f /\ u[<<"arm", g>>] = v)
  <2> TAKE g \in Factors
  <2>1. p = <<"arm", g>> => g = f BY PathsApart
  <2>2. <<"arm", g>> \in Paths BY PathsThere
  <2> HIDE DEF t, v
  <2>3. u[<<"arm", g>>] = IF <<"arm", g>> = p THEN v ELSE t[<<"arm", g>>] BY <1>6, <2>2
  <2> QED BY <2>1, <2>3
<1>10. \A g \in Factors, c \in Cells :
          u[<<"cell", g, c>>] = t[<<"cell", g, c>>] \/ (g = f /\ u[<<"cell", g, c>>] = v)
  <2> TAKE g \in Factors, c \in Cells
  <2>1. p = <<"cell", g, c>> => g = f BY PathsApart
  <2>2. <<"cell", g, c>> \in Paths BY PathsThere
  <2> HIDE DEF t, v
  <2>3. u[<<"cell", g, c>>] = IF <<"cell", g, c>> = p THEN v ELSE t[<<"cell", g, c>>] BY <1>6, <2>2
  <2> QED BY <2>1, <2>3
<1>11. NamesItsFit(u)
  <2>1. NamesItsFit(t) BY <1>2 DEF TreeSound
  <2> SUFFICES ASSUME NEW g \in Factors
               PROVE  /\ \A c \in Cells : u[<<"cell", g, c>>] \in {0, u[<<"fit", g>>]}
                      /\ u[<<"arm", g>>] \in {0, u[<<"fit", g>>]}
    BY DEF NamesItsFit
  <2>2. u[<<"fit", g>>] = t[<<"fit", g>>] /\ (g = f => t[<<"fit", g>>] = v) BY <1>8
  <2> HIDE DEF t, v
  <2>3. ASSUME NEW c \in Cells PROVE u[<<"cell", g, c>>] \in {0, u[<<"fit", g>>]}
    BY <1>10, <2>1, <2>2 DEF NamesItsFit
  <2>4. u[<<"arm", g>>] \in {0, u[<<"fit", g>>]} BY <1>9, <2>1, <2>2 DEF NamesItsFit
  <2> QED BY <2>3, <2>4
<1>12. ASSUME NEW g \in Factors, ArmValid(t, g) PROVE ArmValid(u, g)
  BY <1>8, <1>9, <1>10, <1>12 DEF ArmValid, RosterComplete, FitValid, CellValid
<1>13. TreeSound(u, fitsMade)
  BY <1>2, <1>6, <1>8, <1>11, <1>12 DEF TreeSound, ComparisonRests
<1>14. p = <<"arm", f>> /\ RosterComplete(t, f) => ArmValid(u, f)
  BY <1>5, <1>6, <1>8, <1>10, PathsThere DEF ArmValid, RosterComplete, FitValid, CellValid
<1>15. Worked(r, u, fitsMade) BY <1>8, <1>13, <1>14 DEF Worked
<1> QED BY <1>3, <1>15, WorkedKeeps DEF u

(* finalize writes the comparison when every arm rebuilds. *)
LEMMA FinalizeWorks ==
  ASSUME PipelineInv, stageRun.phase = "ready", stageRun.receipt.stage = "finalize",
         stageRun.done < Len(CommandsForStage(stageRun)),
         FinalizeStudy(stageRun, <<"comparison">>), UNCHANGED <<pullHead, reviews, uploads>>
  PROVE  PipelineInv'
<1> DEFINE r == stageRun
           t == r.tree
           u == TreeWith(t, <<"comparison">>, 1)
<1>1. StageSound(r, fitsMade, reviews) BY DEF PipelineInv, NoRun
<1>2. TreeSound(t, fitsMade) BY <1>1 DEF StageSound, ArtifactSound
<1>3. fitsMade \in Nat BY DEF PipelineInv, UploadsSound
<1>4. stageRun' = Exited(r, u) /\ fitsMade' = fitsMade /\ \A f \in Factors : ArmValid(t, f)
  BY DEF FinalizeStudy, Exited, TreeWith
<1>5. u \in Trees /\ \A q \in Paths : u[q] = IF q = <<"comparison">> THEN 1 ELSE t[q]
  <2>1. t \in Trees BY <1>2 DEF TreeSound
  <2>2. <<"comparison">> \in Paths BY PathsThere
  <2> HIDE DEF t
  <2> QED BY <1>2, <2>1, <2>2, TreeWritten
<1> HIDE DEF u
<1>6. /\ \A g \in Factors : u[<<"fit", g>>] = t[<<"fit", g>>] /\ u[<<"arm", g>>] = t[<<"arm", g>>]
      /\ \A g \in Factors, c \in Cells : u[<<"cell", g, c>>] = t[<<"cell", g, c>>]
      /\ u[<<"protocol">>] = t[<<"protocol">>] /\ u[<<"comparison">>] = 1
  BY <1>5, PathsThere, PathsApart
<1>7. NamesItsFit(u) BY <1>2, <1>6 DEF TreeSound, NamesItsFit
<1>8. \A g \in Factors : ArmValid(u, g) BY <1>4, <1>6 DEF ArmValid, RosterComplete, FitValid, CellValid
<1>9. TreeSound(u, fitsMade) BY <1>2, <1>5, <1>6, <1>7, <1>8 DEF TreeSound, ComparisonRests
<1>10. Worked(r, u, fitsMade) BY <1>6, <1>9 DEF Worked
<1> QED BY <1>3, <1>4, <1>10, WorkedKeeps

(* prepare writes the protocol into an empty tree. *)
LEMMA PrepareWorks ==
  ASSUME PipelineInv, stageRun.phase = "ready", stageRun.receipt.stage = "prepare",
         stageRun.done < Len(CommandsForStage(stageRun)),
         PrepareStudy(stageRun, <<"protocol">>), UNCHANGED <<pullHead, reviews, uploads>>
  PROVE  PipelineInv'
<1> DEFINE r == stageRun
           t == r.tree
           v == r.receipt.code
           p == <<"protocol">>
           u == TreeWith(t, p, v)
<1>1. StageSound(r, fitsMade, reviews) BY DEF PipelineInv, NoRun
<1>2. TreeSound(t, fitsMade) /\ r.receipt.code \in Nat
  BY <1>1 DEF StageSound, ArtifactSound, StageReceipts
<1>3. fitsMade \in Nat BY DEF PipelineInv, UploadsSound
<1>4. stageRun' = Exited(r, u) /\ fitsMade' = fitsMade /\ t = EmptyTree
  BY DEF PrepareStudy, Exited, TreeWith
<1>5. u \in Trees /\ \A q \in Paths : u[q] = IF q = p THEN v ELSE t[q]
  <2>1. t \in Trees BY <1>2 DEF TreeSound
  <2>2. p \in Paths BY PathsThere
  <2>3. v \in Nat BY <1>2
  <2> HIDE DEF t, v, p
  <2> QED BY <2>1, <2>2, <2>3, TreeWritten
<1> HIDE DEF u
<1>6. \A q \in Paths : q # <<"protocol">> => u[q] = 0 BY <1>4, <1>5 DEF EmptyTree
<1>7. /\ \A g \in Factors : u[<<"fit", g>>] = 0 /\ u[<<"arm", g>>] = 0
      /\ \A g \in Factors, c \in Cells : u[<<"cell", g, c>>] = 0
      /\ u[<<"comparison">>] = 0
  BY <1>6, PathsThere, PathsApart
<1>8. TreeSound(u, fitsMade)
  <2>1. NamesItsFit(u) BY <1>7 DEF NamesItsFit
  <2>2. ComparisonRests(u) BY <1>7 DEF ComparisonRests
  <2>3. ASSUME NEW g \in Factors PROVE u[<<"fit", g>>] <= fitsMade
    <3>1. u[<<"fit", g>>] = 0 BY <1>7
    <3> QED BY <1>3, <3>1
  <2> QED BY <1>5, <2>1, <2>2, <2>3 DEF TreeSound
<1>9. \A g \in Factors : t[<<"fit", g>>] = 0 BY <1>4, PathsThere DEF EmptyTree
<1>10. Worked(r, u, fitsMade) BY <1>7, <1>8, <1>9 DEF Worked
<1> QED BY <1>3, <1>4, <1>10, WorkedKeeps

(* The child of the next command, whichever it is. *)
LEMMA ChildStep == ASSUME PipelineInv, RunChild PROVE PipelineInv'
<1> DEFINE r == stageRun
           cmds == CommandsForStage(r)
           p == cmds[r.done + 1]
<1>1. /\ r.phase = "ready" /\ r.done < Len(cmds) /\ UNCHANGED <<pullHead, reviews, uploads>>
      /\ \/ p[1] = "protocol" /\ PrepareStudy(r, p)
         \/ p[1] = "fit" /\ FitCheckpoint(r, p)
         \/ p[1] = "cell" /\ ReplayCell(r, p)
         \/ p[1] = "arm" /\ AssembleArm(r, p)
         \/ p[1] = "comparison" /\ FinalizeStudy(r, p)
  BY DEF RunChild
<1>2. /\ DOMAIN r = RunKeys /\ r.done \in Nat /\ r.receipt.stage \in {"prepare", "arm", "finalize"}
      /\ r.receipt.stage = "arm" => r.factor \in Factors
  BY <1>1 DEF PipelineInv, NoRun, StageSound, ArtifactSound, StageReceipts
<1>3. /\ Len(cmds) \in Nat \ {0}
      /\ r.receipt.stage = "prepare" => cmds = << <<"protocol">> >>
      /\ r.receipt.stage = "finalize" => cmds = << <<"comparison">> >>
      /\ r.receipt.stage = "arm" =>
           /\ cmds[Len(cmds)] = <<"arm", r.factor>>
           /\ \A i \in 1..Len(cmds) :
                \/ cmds[i] = <<"fit", r.factor>>
                \/ \E c \in Cells : cmds[i] = <<"cell", r.factor, c>>
                \/ cmds[i] = <<"arm", r.factor>>
  BY <1>2, Commands
<1> HIDE DEF cmds
<1>4. r.done + 1 \in 1..Len(cmds) BY <1>1, <1>2, <1>3
<1>5. CASE r.receipt.stage = "prepare"
  <2>1. p = <<"protocol">> /\ p[1] = "protocol"
    <3>1. cmds = << <<"protocol">> >> BY <1>3, <1>5
    <3>2. Len(cmds) = 1 BY <3>1
    <3>3. r.done + 1 = 1 BY <1>2, <1>4, <3>2
    <3> QED BY <3>1, <3>3
  <2> QED BY <1>1, <1>5, <2>1, PrepareWorks DEF cmds
<1>6. CASE r.receipt.stage = "finalize"
  <2>1. p = <<"comparison">> /\ p[1] = "comparison"
    <3>1. cmds = << <<"comparison">> >> BY <1>3, <1>6
    <3>2. Len(cmds) = 1 BY <3>1
    <3>3. r.done + 1 = 1 BY <1>2, <1>4, <3>2
    <3> QED BY <3>1, <3>3
  <2> QED BY <1>1, <1>6, <2>1, FinalizeWorks DEF cmds
<1>7. CASE r.receipt.stage = "arm"
  <2> DEFINE f == r.factor
             u == TreeWith(r.tree, p, r.tree[<<"fit", f>>])
  <2>1. f \in Factors BY <1>2, <1>7
  <2>2. r.done + 1 = Len(cmds) => p = <<"arm", f>> BY <1>3, <1>7
  <2>3. \/ p = <<"fit", f>> \/ p = <<"arm", f>> \/ \E c \in Cells : p = <<"cell", f, c>>
    BY <1>3, <1>4, <1>7
  <2> HIDE DEF p
  <2>4. CASE p = <<"fit", f>>
    <3>1. p[1] = "fit" /\ p # <<"arm", f>> BY <2>4, PathsApart
    <3>2. FitCheckpoint(r, <<"fit", f>>) BY <1>1, <2>4, <3>1
    <3> QED BY <1>1, <1>7, <2>1, <2>2, <3>1, <3>2, FitWorks DEF cmds
  <2>5. CASE p = <<"arm", f>>
    <3>1. p[1] = "arm" /\ p[2] = f BY <2>5
    <3>2. AssembleArm(r, p) BY <1>1, <3>1
    <3>3. RosterComplete(r.tree, f) /\ stageRun' = Exited(r, u) /\ UNCHANGED fitsMade
      BY <3>1, <3>2 DEF AssembleArm, Exited, TreeWith
    <3>4. FitValid(r.tree, f) BY <3>3 DEF RosterComplete
    <3> QED BY <1>1, <1>7, <2>1, <2>5, <3>3, <3>4, CopyOfFitWorks DEF cmds
  <2>6. CASE \E c \in Cells : p = <<"cell", f, c>>
    <3>1. PICK c \in Cells : p = <<"cell", f, c>> BY <2>6
    <3>2. p[1] = "cell" /\ p[2] = f /\ p # <<"arm", f>> BY <3>1, PathsApart
    <3>3. ReplayCell(r, p) BY <1>1, <3>2
    <3>4. FitValid(r.tree, f) /\ stageRun' = Exited(r, u) /\ UNCHANGED fitsMade
      BY <3>2, <3>3 DEF ReplayCell, Exited, TreeWith
    <3> QED BY <1>1, <1>7, <2>1, <2>2, <2>6, <3>2, <3>4, CopyOfFitWorks DEF cmds
  <2> QED BY <2>3, <2>4, <2>5, <2>6
<1> QED BY <1>2, <1>5, <1>6, <1>7

-----------------------------------------------------------------------------
(* The run changes, the artifacts do not. *)
LEMMA RunMoves ==
  ASSUME PipelineInv, UNCHANGED <<pullHead, reviews, uploads, fitsMade>>,
         NEW x, stageRun' = x, x.phase \in StagePhases, StageSound(x, fitsMade, reviews),
         \A i \in DOMAIN uploads : SameReview(uploads[i], x)
  PROVE  PipelineInv'
<1>1. UploadsSound' BY DEF PipelineInv, UploadsSound
<1> QED BY <1>1 DEF PipelineInv

(* The run goes on with the same tree under the same review. *)
LEMMA SameTree ==
  ASSUME NEW a, NEW r, NEW x, SameReview(a, r), x.tree = r.tree, x.receipt.review = r.receipt.review
  PROVE  SameReview(a, x)
  BY DEF SameReview

(* A run starts with an empty tree. *)
LEMMA StartStep ==
  ASSUME PipelineInv, NEW stage, NEW f, StartStage(stage, f),
         stage \in {"prepare", "finalize"} \/ (stage = "arm" /\ f \in Factors)
  PROVE  PipelineInv'
<1> DEFINE x == [phase |-> IF stage = "prepare" THEN "ready" ELSE "preflight",
                 factor |-> f, tree |-> EmptyTree, done |-> 0,
                 receipt |-> [stage |-> stage, status |-> "started",
                              protocol |-> 0, review |-> 0, code |-> pullHead]]
<1>1. stageRun' = x /\ UNCHANGED <<pullHead, reviews, uploads, fitsMade>> BY DEF StartStage
<1>2. /\ DOMAIN x = RunKeys /\ x.factor = f /\ x.tree = EmptyTree /\ x.done = 0
      /\ x.phase = IF stage = "prepare" THEN "ready" ELSE "preflight"
      /\ x.receipt \in StageReceipts /\ x.receipt.stage = stage /\ x.receipt.status = "started"
  BY DEF RunKeys, StageReceipts, PipelineInv, UploadsSound
<1> HIDE DEF x
<1>3. Len(CommandsForStage(x)) \in Nat \ {0} BY <1>2, Commands
<1>4. EmptyTree \in Trees /\ \A q \in Paths : EmptyTree[q] = 0 BY DEF EmptyTree, Trees
<1>5. /\ \A g \in Factors : EmptyTree[<<"fit", g>>] = 0 /\ EmptyTree[<<"arm", g>>] = 0
      /\ \A g \in Factors, c \in Cells : EmptyTree[<<"cell", g, c>>] = 0
      /\ EmptyTree[<<"comparison">>] = 0
  BY <1>4, PathsThere
<1>6. fitsMade \in Nat BY DEF PipelineInv, UploadsSound
<1>7. TreeSound(x.tree, fitsMade)
  <2>1. NamesItsFit(EmptyTree) BY <1>5 DEF NamesItsFit
  <2>2. ComparisonRests(EmptyTree) BY <1>5 DEF ComparisonRests
  <2>3. ASSUME NEW g \in Factors PROVE EmptyTree[<<"fit", g>>] <= fitsMade
    <3>1. EmptyTree[<<"fit", g>>] = 0 BY <1>5
    <3> QED BY <1>6, <3>1
  <2> QED BY <1>2, <1>4, <2>1, <2>2, <2>3 DEF TreeSound
<1>8. ArtifactSound(x, fitsMade, reviews)
  BY <1>2, <1>5, <1>7 DEF ArtifactSound, Reviewed, SuccessHolds
<1>9. stage # "prepare" => x.phase = "preflight" BY <1>2
<1>10. StageSound(x, fitsMade, reviews)
  <2>1. ~LastDone(x) BY <1>2, <1>3 DEF LastDone
  <2>2. x.phase = "ready" => stage = "prepare" BY <1>2
  <2>3. x.phase \in {"ready", "preflight"} BY <1>2
  <2>4. 0 <= Len(CommandsForStage(x)) BY <1>3
  <2> QED BY <1>2, <1>8, <1>9, <2>1, <2>2, <2>3, <2>4 DEF StageSound
<1>11. \A i \in DOMAIN uploads : SameReview(uploads[i], x) BY <1>2, <1>5 DEF SameReview
<1>12. x.phase \in StagePhases BY <1>2 DEF StagePhases
<1> QED BY <1>1, <1>10, <1>11, <1>12, RunMoves

(* Exit status 0 of the child is recorded. *)
LEMMA ChildSucceedsStep == ASSUME PipelineInv, ChildSucceeded PROVE PipelineInv'
<1> DEFINE r == stageRun
           x == [r EXCEPT !.phase = "ready", !.done = @ + 1]
<1>1. r.phase = "exited" /\ stageRun' = x /\ UNCHANGED <<pullHead, reviews, uploads, fitsMade>>
  BY DEF ChildSucceeded
<1>2. StageSound(r, fitsMade, reviews) /\ \A i \in DOMAIN uploads : SameReview(uploads[i], r)
  BY <1>1 DEF PipelineInv, NoRun
<1>3. /\ DOMAIN x = RunKeys /\ x.factor = r.factor /\ x.tree = r.tree /\ x.done = r.done + 1
      /\ x.phase = "ready" /\ x.receipt = r.receipt
  BY <1>2 DEF RunKeys, StageSound
<1> HIDE DEF x
<1>4. CommandsForStage(x) = CommandsForStage(r) BY <1>3 DEF CommandsForStage
<1>5. /\ r.receipt.stage \in {"prepare", "arm", "finalize"} /\ r.done \in Nat
      /\ r.done < Len(CommandsForStage(r))
  BY <1>1, <1>2 DEF StageSound, ArtifactSound, StageReceipts
<1>6. Len(CommandsForStage(r)) \in Nat BY <1>5, Commands
<1>7. x.done \in Nat /\ x.done <= Len(CommandsForStage(r)) BY <1>3, <1>5, <1>6
<1>8. ArtifactSound(x, fitsMade, reviews)
  BY <1>2, <1>3 DEF StageSound, ArtifactSound, Reviewed, SuccessHolds
<1>9. LastDone(x) => ProductThere(x) BY <1>1, <1>2, <1>3, <1>4 DEF LastDone, ProductThere, StageSound
<1>10. StageSound(x, fitsMade, reviews)
  BY <1>1, <1>2, <1>3, <1>4, <1>7, <1>8, <1>9 DEF StageSound
<1>11. \A i \in DOMAIN uploads : SameReview(uploads[i], x) BY <1>2, <1>3, SameTree
<1> QED BY <1>1, <1>3, <1>10, <1>11, RunMoves DEF StagePhases

(* The stage ends, and with it the work: whatever the last receipt says holds of the tree. *)
LEMMA RunEnds ==
  ASSUME PipelineInv, UNCHANGED <<pullHead, reviews, uploads, fitsMade>>, stageRun.phase \in StagePhases,
         NEW x, stageRun' = x, DOMAIN x = RunKeys, x.phase = "over", x.factor = stageRun.factor,
         x.tree = stageRun.tree, x.done = stageRun.done, x.receipt \in StageReceipts,
         x.receipt.stage = stageRun.receipt.stage, x.receipt.review = stageRun.receipt.review,
         x.receipt.code = stageRun.receipt.code, SuccessHolds(x)
  PROVE  PipelineInv'
<1> DEFINE r == stageRun
<1>1. StageSound(r, fitsMade, reviews) /\ \A i \in DOMAIN uploads : SameReview(uploads[i], r)
  BY DEF PipelineInv, NoRun, StagePhases
<1>2. ArtifactSound(x, fitsMade, reviews) BY <1>1 DEF StageSound, ArtifactSound, Reviewed
<1>3. StageSound(x, fitsMade, reviews) BY <1>1, <1>2 DEF StageSound, LastDone
<1>4. \A i \in DOMAIN uploads : SameReview(uploads[i], x) BY <1>1, SameTree
<1> QED BY <1>3, <1>4, RunMoves DEF StagePhases

(* A receipt written over another one. *)
LEMMA ReceiptFields ==
  ASSUME NEW r, DOMAIN r = RunKeys, r.receipt \in StageReceipts, NEW c \in StageReceipts
  PROVE  LET x == [r EXCEPT !.phase = "over", !.receipt = c] IN
         /\ DOMAIN x = RunKeys /\ x.phase = "over" /\ x.factor = r.factor /\ x.tree = r.tree
         /\ x.done = r.done /\ x.receipt = c
  BY DEF RunKeys

(* The run succeeds, fails or is cancelled. *)
LEMMA EndStep ==
  ASSUME PipelineInv, StageSucceeds \/ StageCommandFails \/ RunCancelled PROVE PipelineInv'
<1> DEFINE r == stageRun
<1>1. r.phase \in StagePhases /\ UNCHANGED <<pullHead, reviews, uploads, fitsMade>>
  BY DEF StageSucceeds, StageCommandFails, RunCancelled, StagePhases
<1>2. StageSound(r, fitsMade, reviews) BY <1>1 DEF PipelineInv, NoRun, StagePhases
<1>3. DOMAIN r = RunKeys /\ r.receipt \in StageReceipts BY <1>2 DEF StageSound, ArtifactSound
<1>4. CASE StageSucceeds
  <2> DEFINE c == [r.receipt EXCEPT !.status = "succeeded", !.protocol = r.receipt.code]
             x == [r EXCEPT !.phase = "over", !.receipt = c]
  <2>1. /\ c \in StageReceipts /\ c.status = "succeeded" /\ c.protocol = r.receipt.code
        /\ c.stage = r.receipt.stage /\ c.review = r.receipt.review /\ c.code = r.receipt.code
        /\ r.receipt.code # 0
    BY <1>3 DEF StageReceipts
  <2>2. stageRun' = x /\ r.phase = "ready" /\ StageComplete(r) /\ r.tree[<<"protocol">>] = r.receipt.code
    BY <1>4 DEF StageSucceeds
  <2> HIDE DEF c
  <2>3. /\ DOMAIN x = RunKeys /\ x.phase = "over" /\ x.factor = r.factor /\ x.tree = r.tree
        /\ x.done = r.done /\ x.receipt = c
    BY <1>3, <2>1, ReceiptFields
  <2> HIDE DEF x
  <2>4. ProductThere(r) /\ (r.receipt.stage = "arm" => r.factor \in Factors)
    BY <1>2, <2>2 DEF StageSound, LastDone, StageComplete
  <2>5. SuccessHolds(x) BY <2>1, <2>2, <2>3, <2>4 DEF SuccessHolds, ProductThere
  <2> QED BY <1>1, <2>1, <2>2, <2>3, <2>5, RunEnds
<1>5. CASE StageCommandFails
  <2> DEFINE c == [r.receipt EXCEPT !.status = "failed"]
             x == [r EXCEPT !.phase = "over", !.receipt = c]
  <2>1. /\ c \in StageReceipts /\ c.status = "failed" /\ c.stage = r.receipt.stage
        /\ c.review = r.receipt.review /\ c.code = r.receipt.code
    BY <1>3 DEF StageReceipts
  <2>2. stageRun' = x BY <1>5 DEF StageCommandFails
  <2> HIDE DEF c
  <2>3. /\ DOMAIN x = RunKeys /\ x.phase = "over" /\ x.factor = r.factor /\ x.tree = r.tree
        /\ x.done = r.done /\ x.receipt = c
    BY <1>3, <2>1, ReceiptFields
  <2> HIDE DEF x
  <2>4. SuccessHolds(x) BY <2>1, <2>3 DEF SuccessHolds
  <2> QED BY <1>1, <2>1, <2>2, <2>3, <2>4, RunEnds
<1>6. CASE RunCancelled
  <2> DEFINE x == [r EXCEPT !.phase = "over"]
  <2>1. stageRun' = x /\ r.phase \in {"ready", "exited"} BY <1>6 DEF RunCancelled
  <2>2. /\ DOMAIN x = RunKeys /\ x.phase = "over" /\ x.factor = r.factor /\ x.tree = r.tree
        /\ x.done = r.done /\ x.receipt = r.receipt
    BY <1>3 DEF RunKeys
  <2> HIDE DEF x
  <2>3. SuccessHolds(x) BY <1>2, <2>2 DEF SuccessHolds, StageSound, ArtifactSound
  <2> QED BY <1>1, <1>3, <2>1, <2>2, <2>3, RunEnds
<1> QED BY <1>4, <1>5, <1>6

(* The trees of the runs referred to are the trees of finished uploads. *)
LEMMA TreesOfReferences ==
  ASSUME PipelineInv, NEW s \in References
  PROVE  /\ DOMAIN TreesOf(s) = DOMAIN s
         /\ \A i \in DOMAIN s : s[i] \in DOMAIN uploads /\ TreesOf(s)[i] = uploads[s[i]].tree
<1>1. DOMAIN TreesOf(s) = DOMAIN s /\ \A i \in DOMAIN s : TreesOf(s)[i] = uploads[s[i]].tree
  BY DEF TreesOf
<1>2. uploads \in Seq(Uploadable) BY DEF PipelineInv, UploadsSound
<1>3. Len(uploads) \in Nat /\ DOMAIN uploads = 1..Len(uploads) BY <1>2
<1>4. PICK n \in 1..Len(uploads) : s \in [1..n -> 1..Len(uploads)] BY DEF References
<1> QED BY <1>1, <1>3, <1>4

(* Inputs of earlier runs are merged: all of the review this run has shown, with their fits. *)
LEMMA RestoreStep ==
  ASSUME PipelineInv, NEW s \in References, NEW w, RestoreInputs(s, w) PROVE PipelineInv'
<1> DEFINE r == stageRun
           code == r.receipt.code
           trees == TreesOf(s)
           t == MergeCheckpointTrees(trees)
           prepared == {i \in DOMAIN s : uploads[s[i]].receipt.stage = "prepare"
                                          /\ uploads[s[i]].receipt.status = "succeeded"}
           c == [r.receipt EXCEPT !.protocol = code, !.review = w]
           x == [r EXCEPT !.phase = "ready", !.tree = t, !.receipt = c]
<1>1. /\ r.phase = "preflight" /\ Agree(trees) /\ t[<<"protocol">>] = code
      /\ Cardinality(prepared) = 1
      /\ \A i \in prepared : ValidateReview(w, code, s[i])
      /\ \A i \in DOMAIN s : ValidatePriorReceipt(uploads[s[i]].receipt, code, code, w)
      /\ stageRun' = x /\ UNCHANGED <<pullHead, reviews, uploads, fitsMade>>
  BY DEF RestoreInputs
<1>2. DOMAIN trees = DOMAIN s /\ \A i \in DOMAIN s : s[i] \in DOMAIN uploads /\ trees[i] = uploads[s[i]].tree
  BY TreesOfReferences
<1>3. StageSound(r, fitsMade, reviews) /\ \A i \in DOMAIN uploads : SameReview(uploads[i], r)
  BY <1>1 DEF PipelineInv, NoRun
<1>4. /\ DOMAIN r = RunKeys /\ r.receipt \in StageReceipts /\ r.receipt.stage # "prepare"
      /\ r.receipt.status = "started" /\ r.done = 0 /\ (r.receipt.stage = "arm" => r.factor \in Factors)
  BY <1>1, <1>3 DEF StageSound, ArtifactSound
<1>5. PICK i \in DOMAIN s : ValidateReview(w, code, s[i])
  <2>1. Cardinality({}) = 0 BY FS_EmptySet
  <2>2. prepared # {}
    <3> HIDE DEF prepared
    <3> QED BY <1>1, <2>1
  <2>3. PICK i \in prepared : TRUE BY <2>2
  <2> QED BY <1>1, <2>3
<1>6. w \in DOMAIN reviews /\ reviews[w].protocol = code BY <1>5 DEF ValidateReview
<1>7. w \in Nat
  BY <1>6 DEF PipelineInv, UploadsSound
<1>8. fitsMade \in Nat /\ \A k \in DOMAIN uploads : ArtifactSound(uploads[k], fitsMade, reviews)
  BY DEF PipelineInv, UploadsSound
<1>9. \A k \in DOMAIN trees : TreeSound(trees[k], fitsMade) BY <1>2, <1>8 DEF ArtifactSound
<1>10. TreeSound(t, fitsMade) BY <1>1, <1>8, <1>9, MergeIsSound
<1>11. \A k \in DOMAIN trees : trees[k] \in Trees BY <1>9 DEF TreeSound
<1>12. \A p \in Paths : t[p] # 0 => \E k \in DOMAIN trees : trees[k][p] = t[p]
  BY <1>1, <1>11, MergeIsUnion
<1> HIDE DEF t, trees
<1>13. ASSUME NEW f \in Factors, t[<<"fit", f>>] # 0
       PROVE  \E k \in DOMAIN uploads : uploads[k].tree[<<"fit", f>>] = t[<<"fit", f>>]
                                         /\ uploads[k].receipt.review = w
  <2>1. PICK k \in DOMAIN s : uploads[s[k]].tree[<<"fit", f>>] = t[<<"fit", f>>]
    BY <1>2, <1>12, <1>13, PathsThere
  <2>2. uploads[s[k]].receipt.stage # "prepare" BY <1>2, <1>8, <1>13, <2>1 DEF ArtifactSound
  <2>3. uploads[s[k]].receipt.review = w BY <1>1, <2>2 DEF ValidatePriorReceipt
  <2> QED BY <1>2, <2>1, <2>3
<1>14. /\ c \in StageReceipts /\ c.stage = r.receipt.stage /\ c.status = "started"
       /\ c.review = w /\ c.code = code
  BY <1>4, <1>7 DEF StageReceipts
<1> HIDE DEF c
<1>15. /\ DOMAIN x = RunKeys /\ x.phase = "ready" /\ x.tree = t /\ x.receipt = c
       /\ x.factor = r.factor /\ x.done = r.done
  BY <1>4 DEF RunKeys
<1> HIDE DEF x
<1>16. ArtifactSound(x, fitsMade, reviews)
  BY <1>1, <1>4, <1>6, <1>10, <1>14, <1>15 DEF ArtifactSound, Reviewed, SuccessHolds
<1>17. Len(CommandsForStage(x)) \in Nat \ {0}
  BY <1>4, <1>14, <1>15, Commands DEF StageReceipts
<1>18. ~LastDone(x) BY <1>4, <1>15, <1>17 DEF LastDone
<1>19. x.done \in Nat /\ x.done <= Len(CommandsForStage(x)) BY <1>4, <1>15, <1>17
<1>20. StageSound(x, fitsMade, reviews)
  BY <1>1, <1>4, <1>6, <1>14, <1>15, <1>16, <1>18, <1>19 DEF StageSound
<1>21. ASSUME NEW k \in DOMAIN uploads PROVE SameReview(uploads[k], x)
  <2> SUFFICES ASSUME NEW f \in Factors, uploads[k].tree[<<"fit", f>>] # 0,
                      t[<<"fit", f>>] = uploads[k].tree[<<"fit", f>>]
               PROVE  w = uploads[k].receipt.review
    BY <1>14, <1>15 DEF SameReview
  <2>1. PICK j \in DOMAIN uploads : uploads[j].tree[<<"fit", f>>] = t[<<"fit", f>>]
                                    /\ uploads[j].receipt.review = w
    BY <1>13
  <2>2. SameReview(uploads[k], uploads[j]) BY DEF PipelineInv, UploadsSound
  <2> QED BY <2>1, <2>2 DEF SameReview
<1> QED BY <1>1, <1>15, <1>20, <1>21, RunMoves DEF StagePhases

(* The tree and the receipt of a run that is over become an artifact. *)
LEMMA UploadStep == ASSUME PipelineInv, Upload PROVE PipelineInv'
<1> DEFINE r == stageRun
           a == [tree |-> r.tree, receipt |-> r.receipt]
<1>1. /\ r.phase = "over" /\ stageRun' = NoRun /\ UNCHANGED <<pullHead, reviews, fitsMade>>
      /\ uploads' = uploads \/ uploads' = Append(uploads, a)
  BY DEF Upload
<1>2. StageSound(r, fitsMade, reviews) /\ \A i \in DOMAIN uploads : SameReview(uploads[i], r)
  BY <1>1 DEF PipelineInv, NoRun
<1>3. CASE uploads' = uploads BY <1>1, <1>3 DEF PipelineInv, UploadsSound
<1>4. CASE uploads' = Append(uploads, a)
  <2>1. a.tree = r.tree /\ a.receipt = r.receipt OBVIOUS
  <2>2. a \in Uploadable BY <1>2 DEF Uploadable, StageSound, ArtifactSound, TreeSound
  <2> HIDE DEF a
  <2>3. ArtifactSound(a, fitsMade, reviews)
    BY <1>2, <2>1 DEF StageSound, ArtifactSound, Reviewed, SuccessHolds
  <2>4. \A i \in DOMAIN uploads : SameReview(uploads[i], a) BY <1>2, <2>1, SameTree
  <2>5. \A i \in DOMAIN uploads : SameReview(a, uploads[i]) BY <2>4 DEF SameReview
  <2>6. SameReview(a, a) BY DEF SameReview
  <2>7. uploads \in Seq(Uploadable) BY DEF PipelineInv, UploadsSound
  <2>8. /\ uploads' \in Seq(Uploadable) /\ DOMAIN uploads' = 1..(Len(uploads) + 1)
        /\ DOMAIN uploads = 1..Len(uploads) /\ Len(uploads) \in Nat
        /\ \A i \in DOMAIN uploads : uploads'[i] = uploads[i]
        /\ uploads'[Len(uploads) + 1] = a
    BY <1>4, <2>2, <2>7
  <2>9. \A i \in DOMAIN uploads' : (i \in DOMAIN uploads /\ uploads'[i] = uploads[i]) \/ uploads'[i] = a
    BY <2>8
  <2>10. \A i \in DOMAIN uploads' : ArtifactSound(uploads'[i], fitsMade, reviews)
    BY <2>3, <2>9 DEF PipelineInv, UploadsSound
  <2>11. \A i, j \in DOMAIN uploads' : SameReview(uploads'[i], uploads'[j])
    BY <2>4, <2>5, <2>6, <2>9 DEF PipelineInv, UploadsSound
  <2> QED BY <1>1, <2>8, <2>10, <2>11 DEF PipelineInv, UploadsSound
<1> QED BY <1>1, <1>3, <1>4

(* A review is posted: what was posted stays. *)
LEMMA PostStep ==
  ASSUME PipelineInv, NEW k \in 1..Len(uploads), PostReview(k) PROVE PipelineInv'
<1> DEFINE x == [protocol |-> uploads[k].receipt.protocol, prepare |-> k]
<1>1. reviews' = Append(reviews, x) /\ UNCHANGED <<pullHead, uploads, stageRun, fitsMade>>
  BY DEF PostReview
<1>2. reviews \in Seq(ReviewRecords) /\ uploads \in Seq(Uploadable) /\ fitsMade \in Nat
  BY DEF PipelineInv, UploadsSound
<1>3. uploads[k] \in Uploadable BY <1>2
<1>4. x \in ReviewRecords BY <1>2, <1>3 DEF ReviewRecords, Uploadable, StageReceipts
<1> HIDE DEF x
<1>5. /\ reviews' \in Seq(ReviewRecords)
      /\ \A w \in DOMAIN reviews : w \in DOMAIN reviews' /\ reviews'[w] = reviews[w]
  BY <1>1, <1>2, <1>4
<1>6. \A i \in DOMAIN uploads : ArtifactSound(uploads[i], fitsMade, reviews')
  BY <1>2, <1>5, ArtifactStays DEF PipelineInv, UploadsSound
<1>7. StageSound(stageRun, fitsMade, reviews) => StageSound(stageRun, fitsMade, reviews')
  BY <1>2, <1>5, StageStays
<1> QED BY <1>1, <1>5, <1>6, <1>7 DEF PipelineInv, UploadsSound

(* Every step keeps the invariant. *)
LEMMA PipelineStep == PipelineInv /\ [PipelineNext]_pipelineVars => PipelineInv'
<1> SUFFICES ASSUME PipelineInv, [PipelineNext]_pipelineVars PROVE PipelineInv' OBVIOUS
<1>1. CASE PushCommit BY <1>1 DEF PushCommit, PipelineInv, UploadsSound
<1>2. CASE \E k \in 1..Len(uploads) : PostReview(k) BY <1>2, PostStep
<1>3. CASE \E stage \in {"prepare", "finalize"} : StartStage(stage, NoFactor)
  <2>1. PICK stage \in {"prepare", "finalize"} : StartStage(stage, NoFactor) BY <1>3
  <2> QED BY <2>1, StartStep
<1>4. CASE \E f \in Factors : StartStage("arm", f) BY <1>4, StartStep
<1>5. CASE \E s \in References, w \in 1..Len(reviews) : RestoreInputs(s, w) BY <1>5, RestoreStep
<1>6. CASE RunChild BY <1>6, ChildStep
<1>7. CASE ChildSucceeded BY <1>7, ChildSucceedsStep
<1>8. CASE StageSucceeds \/ StageCommandFails \/ RunCancelled BY <1>8, EndStep
<1>9. CASE Upload BY <1>9, UploadStep
<1>10. CASE UNCHANGED pipelineVars BY <1>10 DEF pipelineVars, PipelineInv, UploadsSound
<1> QED BY <1>1, <1>2, <1>3, <1>4, <1>5, <1>6, <1>7, <1>8, <1>9, <1>10 DEF PipelineNext

(* What the invariant says of the artifacts and of the tree of the run under way. *)
LEMMA EvidenceWholeByInv == PipelineInv => MergedEvidenceIsWhole
<1> SUFFICES ASSUME PipelineInv PROVE MergedEvidenceIsWhole OBVIOUS
<1> DEFINE now == [tree |-> stageRun.tree, receipt |-> stageRun.receipt]
<1>1. uploads \in Seq(Uploadable) /\ DOMAIN uploads = 1..Len(uploads) BY DEF PipelineInv, UploadsSound
<1>2. now.tree = stageRun.tree /\ now.receipt = stageRun.receipt OBVIOUS
<1> HIDE DEF now
<1>3. ASSUME stageRun # NoRun
      PROVE  ArtifactSound(now, fitsMade, reviews) /\ \A i \in DOMAIN uploads : SameReview(uploads[i], now)
  BY <1>2, <1>3, SameTree DEF PipelineInv, StageSound, ArtifactSound, Reviewed, SuccessHolds
<1>4. \A a \in Artifacts : (\E i \in DOMAIN uploads : a = uploads[i]) \/ (stageRun # NoRun /\ a = now)
  <2>1. CASE stageRun = NoRun BY <1>1, <2>1 DEF Artifacts
  <2>2. CASE stageRun # NoRun BY <1>1, <2>2 DEF Artifacts, now
  <2> QED BY <2>1, <2>2
<1>5. \A a \in Artifacts : ArtifactSound(a, fitsMade, reviews)
  BY <1>3, <1>4 DEF PipelineInv, UploadsSound
<1>6. \A a, b \in Artifacts : SameReview(a, b)
  <2> TAKE a, b \in Artifacts
  <2>1. CASE a # now /\ b # now BY <1>4, <2>1 DEF PipelineInv, UploadsSound
  <2>2. CASE b = now /\ stageRun # NoRun
    <3>1. a = now \/ \E i \in DOMAIN uploads : a = uploads[i] BY <1>4
    <3>2. SameReview(now, now) BY DEF SameReview
    <3> QED BY <1>3, <2>2, <3>1, <3>2
  <2>3. CASE a = now /\ stageRun # NoRun
    <3>1. b = now \/ \E i \in DOMAIN uploads : b = uploads[i] BY <1>4
    <3>2. SameReview(now, now) BY DEF SameReview
    <3>3. \A i \in DOMAIN uploads : SameReview(now, uploads[i]) BY <1>3, <2>3 DEF SameReview
    <3> QED BY <2>3, <3>1, <3>2, <3>3
  <2> QED BY <1>4, <2>1, <2>2, <2>3 DEF PipelineInv, UploadsSound
<1>7. EvidenceNamesItsFit BY <1>5 DEF EvidenceNamesItsFit, ArtifactSound, TreeSound, NamesItsFit
<1>8. FitsAreReviewed BY <1>5, <1>6 DEF FitsAreReviewed, ArtifactSound, Reviewed, SameReview
<1>9. SucceededStageIsComplete
  BY <1>5 DEF SucceededStageIsComplete, ArtifactSound, SuccessHolds, TreeSound, ComparisonRests
<1> QED BY <1>7, <1>8, <1>9 DEF MergedEvidenceIsWhole

(* However stages fail, are cancelled and are merged by later runs, for any number of factors, *)
(* cells, reviews and pushes: what a tree holds is of one fit, was fitted under one posted       *)
(* review, and a receipt that says succeeded is of a finished stage                              *)
(* (ppo_checkpoint_actions.py _restore_checkpoint_inputs, run_stage_commands).                   *)
THEOREM MergedAlwaysWhole == PipelineSpec => []MergedEvidenceIsWhole
<1>1. PipelineInv /\ [PipelineNext]_pipelineVars => PipelineInv' BY PipelineStep
<1> QED BY <1>1, PipelineInitially, EvidenceWholeByInv, PTL DEF PipelineSpec
===============================================================================
