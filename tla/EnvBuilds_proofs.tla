--------------------------- MODULE EnvBuilds_proofs ---------------------------
(* Proofs about EnvBuilds, for any builds, targets, workers, cancellations *)
(* and crashes and for a queue of any capacity.                            *)
EXTENDS EnvBuilds, TLAPS

\* A build is in one place at a time: its StartBuild request, the queue (once),
\* or one worker; and while it is there, its status is none that a worker ends with.
Once ==
  /\ \A i, j \in 1 .. Len(jobs) : jobs[i] = jobs[j] => i = j
  /\ \A b \in starting : status[b] \in {"queued", "canceled"}
  /\ \A b \in Queued : b \notin starting /\ status[b] \in {"queued", "canceled"}
  /\ \A w \in Workers : wb[w] # NoBuild =>
       wb[w] \notin starting \cup Queued /\ status[wb[w]] \in {"queued", "building", "canceled"}
  /\ \A v, w \in Workers : wb[v] = wb[w] /\ wb[v] # NoBuild => v = w

\* A worker past its only read meets "canceled" when the cancellation came later.
Races ==
  \A w \in Workers :
    wpc[w] \notin {"idle", "read"} /\ status[wb[w]] = "canceled" => wb[w] \in raced

\* What a worker with a list of targets has done so far.
Progress ==
  \A w \in Workers : wpc[w] \in {"build", "targets"} =>
    /\ Requested(wb[w]) # {}
    /\ allReady[w] => \A t \in Requested(wb[w]) \ todo[w] : artifact[wb[w]][t] = "ready"

Inv == TypeOK /\ Once /\ Races /\ Progress /\ NothingForgotten /\ ReadyMeansBuilt

\* The steps of a build, spelled out.
LEMMA Steps ==
  /\ DOMAIN NextStep = {"begin", "spec", "dockerfile", "artifacts", "build"}
  /\ NextStep["begin"] = "spec" /\ NextStep["spec"] = "dockerfile"
  /\ NextStep["dockerfile"] = "artifacts" /\ NextStep["artifacts"] = "build"
  /\ NextStep["build"] = "targets"
  BY DEF NextStep

-----------------------------------------------------------------------------
(* The channel.                                                            *)

\* Sending adds one element at the end.
LEMMA Sent ==
  ASSUME NEW s \in Seq(Builds), NEW b \in Builds
  PROVE  /\ Append(s, b) \in Seq(Builds)
         /\ Len(Append(s, b)) = Len(s) + 1
         /\ \A i \in 1 .. Len(s) : Append(s, b)[i] = s[i]
         /\ Append(s, b)[Len(s) + 1] = b
  OBVIOUS

\* Receiving takes the first.
LEMMA Received ==
  ASSUME NEW s \in Seq(Builds), s # <<>>
  PROVE  /\ Head(s) \in Builds
         /\ Head(s) = s[1]
         /\ Tail(s) \in Seq(Builds)
         /\ Len(Tail(s)) = Len(s) - 1
         /\ Len(s) \in Nat \ {0}
         /\ \A i \in 1 .. Len(Tail(s)) : Tail(s)[i] = s[i + 1]
  OBVIOUS

\* What the queue holds after a send.
LEMMA QueuedSent ==
  ASSUME NEW b \in Builds, jobs \in Seq(Builds), jobs' = Append(jobs, b)
  PROVE  Queued' = Queued \cup {b}
<1>1. Len(jobs) \in Nat
  OBVIOUS
<1>2. 1 .. Len(jobs') = (1 .. Len(jobs)) \cup {Len(jobs) + 1}
  BY <1>1, Sent
<1>3. \A i \in 1 .. Len(jobs) : jobs'[i] = jobs[i]
  BY Sent
<1>4. jobs'[Len(jobs) + 1] = b
  BY Sent
<1> QED BY <1>2, <1>3, <1>4 DEF Queued

\* What the queue held before a receive.
LEMMA QueuedReceived ==
  ASSUME jobs \in Seq(Builds), jobs # <<>>, jobs' = Tail(jobs)
  PROVE  Queued = Queued' \cup {Head(jobs)}
<1>1. Len(jobs) \in Nat \ {0} /\ Len(jobs') = Len(jobs) - 1
  BY Received
<1>2. \A i \in 1 .. Len(jobs') : jobs'[i] = jobs[i + 1] /\ i + 1 \in 1 .. Len(jobs)
  BY <1>1, Received
<1>3. ASSUME NEW j \in 1 .. Len(jobs), j # 1
      PROVE  j - 1 \in 1 .. Len(jobs') /\ jobs'[j - 1] = jobs[j]
  <2>1. j - 1 \in 1 .. Len(jobs') /\ (j - 1) + 1 = j
    BY <1>1, <1>3
  <2> QED BY <2>1, <1>2
<1>4. Head(jobs) = jobs[1] /\ 1 \in 1 .. Len(jobs)
  BY <1>1, Received
<1>5. Queued \subseteq Queued' \cup {Head(jobs)}
  BY <1>3, <1>4 DEF Queued
<1>6. Queued' \cup {Head(jobs)} \subseteq Queued
  BY <1>2, <1>4 DEF Queued
<1> QED BY <1>5, <1>6

\* What the queue holds when nobody sends or receives.
LEMMA QueuedSame == ASSUME UNCHANGED jobs PROVE Queued' = Queued
  BY DEF Queued

\* What the queue holds are builds.
LEMMA QueuedTyped == ASSUME jobs \in Seq(Builds) PROVE Queued \subseteq Builds
  BY DEF Queued

\* An exit leaves the queue empty.
LEMMA QueuedNone == ASSUME jobs' = <<>> PROVE Queued' = {}
  BY DEF Queued

\* A send of something new repeats no element.
LEMMA DistinctSent ==
  ASSUME NEW b \in Builds, jobs \in Seq(Builds), jobs' = Append(jobs, b), b \notin Queued,
         \A i, j \in 1 .. Len(jobs) : jobs[i] = jobs[j] => i = j
  PROVE  \A i, j \in 1 .. Len(jobs') : jobs'[i] = jobs'[j] => i = j
<1>1. Len(jobs) \in Nat
  OBVIOUS
<1>2. \A i \in 1 .. Len(jobs') : i \in 1 .. Len(jobs) \/ i = Len(jobs) + 1
  BY <1>1, Sent
<1>3. \A i \in 1 .. Len(jobs) : jobs'[i] = jobs[i] /\ jobs[i] # b
  BY Sent DEF Queued
<1>4. jobs'[Len(jobs) + 1] = b
  BY Sent
<1> QED BY <1>2, <1>3, <1>4

\* Nor does a receive repeat one; the one received has left.
LEMMA DistinctReceived ==
  ASSUME jobs \in Seq(Builds), jobs # <<>>, jobs' = Tail(jobs),
         \A i, j \in 1 .. Len(jobs) : jobs[i] = jobs[j] => i = j
  PROVE  /\ \A i, j \in 1 .. Len(jobs') : jobs'[i] = jobs'[j] => i = j
         /\ Head(jobs) \notin Queued'
<1>1. Len(jobs) \in Nat \ {0} /\ Len(jobs') = Len(jobs) - 1
  BY Received
<1>2. \A i \in 1 .. Len(jobs') : jobs'[i] = jobs[i + 1] /\ i + 1 \in 2 .. Len(jobs)
  BY <1>1, Received
<1>3. Head(jobs) = jobs[1] /\ 1 \in 1 .. Len(jobs) /\ 2 .. Len(jobs) \subseteq 1 .. Len(jobs)
  BY <1>1, Received
<1>4. \A i \in 1 .. Len(jobs') : jobs'[i] # Head(jobs)
  BY <1>1, <1>2, <1>3
<1>5. ASSUME NEW i \in 1 .. Len(jobs'), NEW j \in 1 .. Len(jobs'), jobs'[i] = jobs'[j]
      PROVE  i = j
  <2>1. i + 1 = j + 1
    BY <1>2, <1>3, <1>5
  <2>2. i \in Int /\ j \in Int
    BY <1>1
  <2> QED BY <2>1, <2>2
<1> QED BY <1>4, <1>5 DEF Queued

-----------------------------------------------------------------------------
(* The initial state and the steps.                                        *)

\* The initial state satisfies the invariant.
LEMMA InitInv == ASSUME Init PROVE Inv
<1>1. TypeOK
  <2>1. crashes \in 0 .. MaxCrashes /\ jobs \in Seq(Builds) /\ Len(jobs) = 0 /\ 0 <= QueueSize
    BY ConstantsAssumption DEF Init
  <2>2. Len(jobs) <= QueueSize
    BY <2>1
  <2> QED BY <2>1, <2>2 DEF Init, TypeOK
<1>2. Queued = {}
  BY DEF Init, Queued
<1>3. Once
  BY <1>2 DEF Init, Once
<1>4. Races /\ Progress
  BY DEF Init, Races, Progress
<1>5. NothingForgotten /\ ReadyMeansBuilt
  BY DEF Init, NothingForgotten, ReadyMeansBuilt
<1> QED BY <1>1, <1>3, <1>4, <1>5 DEF Inv

\* Every step preserves the types.
LEMMA StepTypes == ASSUME TypeOK, [Next]_vars PROVE TypeOK'
<1>1. ASSUME NEW w \in Workers, Receive(w) PROVE TypeOK'
  <2>1. jobs' \in Seq(Builds) /\ Len(jobs') = Len(jobs) - 1 /\ Len(jobs) \in Nat
    BY <1>1, Received DEF Receive, TypeOK
  <2>2. Len(jobs') <= QueueSize
    BY <2>1, ConstantsAssumption DEF TypeOK
  <2>3. Head(jobs) \in Builds /\ Head(jobs) # NoBuild
    BY <1>1, Received, ConstantsAssumption DEF Receive, TypeOK
  <2> QED BY <1>1, <2>1, <2>2, <2>3 DEF Receive, TypeOK, request
<1>2. ASSUME NEW w \in Workers, Read(w) PROVE TypeOK'
  <2>1. CASE Return(w)
    BY <1>2, <2>1 DEF Read, Return, TypeOK, request
  <2>2. CASE wpc' = [wpc EXCEPT ![w] = "begin"] /\ UNCHANGED <<wb, todo, allReady>>
    BY <1>2, <2>2, Steps DEF Read, TypeOK, request
  <2> QED BY <1>2, <2>1, <2>2 DEF Read
<1>3. ASSUME NEW w \in Workers, Advance(w) PROVE TypeOK'
  <2>1. wpc' \in [Workers -> DOMAIN NextStep \cup {"idle", "read", "targets"}]
    BY <1>3, Steps DEF Advance, TypeOK
  <2>2. \A v \in Workers : wpc'[v] = "idle" <=> wpc[v] = "idle"
    BY <1>3, Steps DEF Advance, TypeOK
  <2> QED BY <1>3, <2>1, <2>2 DEF Advance, TypeOK, Requested, request
<1>4. ASSUME NEW w \in Workers, Fail(w) PROVE TypeOK'
  BY <1>4 DEF Fail, Return, TypeOK, Final, request
<1>5. ASSUME NEW w \in Workers, Publish(w) PROVE TypeOK'
  BY <1>5 DEF Publish, TypeOK, request
<1>6. ASSUME NEW w \in Workers, Finalize(w) PROVE TypeOK'
  BY <1>6 DEF Finalize, Return, TypeOK, Final, request
<1>7. ASSUME NEW w \in Workers, StoreFails(w) PROVE TypeOK'
  BY <1>7 DEF StoreFails, Return, TypeOK, request
<1>8. ASSUME NEW b \in Builds, CreateBuild(b) PROVE TypeOK'
  BY <1>8 DEF CreateBuild, TypeOK, worker
<1>9. ASSUME NEW b \in Builds, SaveArtifact(b) PROVE TypeOK'
  BY <1>9 DEF SaveArtifact, TypeOK, worker
<1>10. ASSUME NEW b \in Builds, StartFails(b) PROVE TypeOK'
  BY <1>10 DEF StartFails, TypeOK, worker
<1>11. ASSUME NEW b \in Builds, Enqueue(b) PROVE TypeOK'
  <2>1. jobs' \in Seq(Builds) /\ Len(jobs') = Len(jobs) + 1
    BY <1>11, Sent DEF Enqueue, TypeOK
  <2>2. Len(jobs) \in Nat /\ Len(jobs) < QueueSize
    BY <1>11 DEF Enqueue, TypeOK
  <2>3. Len(jobs') <= QueueSize
    BY <2>1, <2>2, ConstantsAssumption
  <2> QED BY <1>11, <2>1, <2>3 DEF Enqueue, TypeOK, worker
<1>12. ASSUME NEW b \in Builds, EnqueueRefused(b) PROVE TypeOK'
  BY <1>12 DEF EnqueueRefused, TypeOK, worker
<1>13. ASSUME NEW c \in Cancels, NEW b \in Builds, CancelRead(c, b) PROVE TypeOK'
  BY <1>13 DEF CancelRead, TypeOK, worker, request
<1>14. ASSUME NEW c \in Cancels, CancelWrite(c) PROVE TypeOK'
  BY <1>14 DEF CancelWrite, TypeOK, Final, worker, request
<1>15. ASSUME NEW c \in Cancels, CancelFails(c) PROVE TypeOK'
  BY <1>15 DEF CancelFails, TypeOK, worker, request
<1>16. CASE Crash
  <2>1. <<>> \in Seq(Builds) /\ Len(<<>>) <= QueueSize
    BY ConstantsAssumption
  <2>2. crashes' \in 0 .. MaxCrashes
    BY <1>16, ConstantsAssumption DEF Crash, TypeOK
  <2> QED BY <1>16, <2>1, <2>2, QueuedTyped DEF Crash, Exit, TypeOK
<1>17. CASE Stop
  BY <1>17 DEF Stop, TypeOK, worker, request
<1>18. CASE StopReturns
  <2>1. <<>> \in Seq(Builds) /\ Len(<<>>) <= QueueSize
    BY ConstantsAssumption
  <2>2. crashes' \in 0 .. MaxCrashes
    BY <1>18, ConstantsAssumption DEF StopReturns, TypeOK
  <2> QED BY <1>18, <2>1, <2>2, QueuedTyped DEF StopReturns, Exit, TypeOK
<1>19. CASE Start
  BY <1>19 DEF Start, TypeOK, worker, request
<1>20. CASE UNCHANGED vars
  BY <1>20 DEF vars, TypeOK, worker, request
<1> QED
  BY <1>1, <1>2, <1>3, <1>4, <1>5, <1>6, <1>7, <1>8, <1>9, <1>10, <1>11, <1>12, <1>13, <1>14,
     <1>15, <1>16, <1>17, <1>18, <1>19, <1>20
  DEF Next, WorkerStep, StartStep, CancelStep

\* Every step keeps each build in one place.
LEMMA StepOnce == ASSUME TypeOK, Once, [Next]_vars PROVE Once'
<1>1. ASSUME NEW w \in Workers, Receive(w) PROVE Once'
  BY <1>1, QueuedReceived, DistinctReceived, Received DEF Receive, Once, TypeOK, request
<1>2. ASSUME NEW w \in Workers, Read(w) PROVE Once'
  <2>1. Queued' = Queued /\ starting' = starting /\ status' = status /\ jobs' = jobs
    BY <1>2, QueuedSame DEF Read, request
  <2>2. wb' = wb \/ wb' = [wb EXCEPT ![w] = NoBuild]
    BY <1>2 DEF Read, Return
  <2>3. \A v \in Workers : wb'[v] = wb[v] \/ wb'[v] = NoBuild
    BY <2>2 DEF TypeOK
  <2>4. \A v \in Workers : wb'[v] # NoBuild =>
             wb'[v] \notin starting \cup Queued /\ status[wb'[v]] \in {"queued", "building", "canceled"}
    BY <2>3 DEF Once
  <2>5. \A u, v \in Workers : wb'[u] = wb'[v] /\ wb'[u] # NoBuild => u = v
    BY <2>3 DEF Once
  <2> QED BY <2>1, <2>4, <2>5 DEF Once
<1>3. ASSUME NEW w \in Workers, Advance(w) PROVE Once'
  BY <1>3, QueuedSame, Steps DEF Advance, Once, TypeOK, request
<1>4. ASSUME NEW w \in Workers, Fail(w) PROVE Once'
  BY <1>4, QueuedSame DEF Fail, Return, Once, TypeOK, request
<1>5. ASSUME NEW w \in Workers, Publish(w) PROVE Once'
  BY <1>5, QueuedSame DEF Publish, Once, request
<1>6. ASSUME NEW w \in Workers, Finalize(w) PROVE Once'
  BY <1>6, QueuedSame DEF Finalize, Return, Once, TypeOK, request
<1>7. ASSUME NEW w \in Workers, StoreFails(w) PROVE Once'
  BY <1>7, QueuedSame DEF StoreFails, Return, Once, request
<1>8. ASSUME NEW b \in Builds, CreateBuild(b) PROVE Once'
  BY <1>8, QueuedSame DEF CreateBuild, Once, TypeOK, worker
<1>9. ASSUME NEW b \in Builds, SaveArtifact(b) PROVE Once'
  BY <1>9, QueuedSame DEF SaveArtifact, Once, worker
<1>10. ASSUME NEW b \in Builds, StartFails(b) PROVE Once'
  BY <1>10, QueuedSame DEF StartFails, Once, worker
<1>11. ASSUME NEW b \in Builds, Enqueue(b) PROVE Once'
  BY <1>11, QueuedSent, DistinctSent DEF Enqueue, Once, TypeOK, worker
<1>12. ASSUME NEW b \in Builds, EnqueueRefused(b) PROVE Once'
  BY <1>12, QueuedSame DEF EnqueueRefused, Once, worker
<1>13. ASSUME NEW c \in Cancels, NEW b \in Builds, CancelRead(c, b) PROVE Once'
  BY <1>13, QueuedSame DEF CancelRead, Once, worker, request
<1>14. ASSUME NEW c \in Cancels, CancelWrite(c) PROVE Once'
  BY <1>14, QueuedSame DEF CancelWrite, Once, worker, request
<1>15. ASSUME NEW c \in Cancels, CancelFails(c) PROVE Once'
  BY <1>15, QueuedSame DEF CancelFails, Once, worker, request
<1>16. CASE Crash
  BY <1>16, QueuedNone DEF Crash, Exit, Once
<1>17. CASE Stop
  BY <1>17, QueuedSame DEF Stop, Once, worker, request
<1>18. CASE StopReturns
  BY <1>18, QueuedNone DEF StopReturns, Exit, Once
<1>19. CASE Start
  BY <1>19, QueuedSame DEF Start, Once, worker, request
<1>20. CASE UNCHANGED vars
  BY <1>20, QueuedSame DEF vars, Once, worker, request
<1> QED
  BY <1>1, <1>2, <1>3, <1>4, <1>5, <1>6, <1>7, <1>8, <1>9, <1>10, <1>11, <1>12, <1>13, <1>14,
     <1>15, <1>16, <1>17, <1>18, <1>19, <1>20
  DEF Next, WorkerStep, StartStep, CancelStep

\* Every step keeps account of the late cancellations.
LEMMA StepRaces == ASSUME TypeOK, Once, Races, [Next]_vars PROVE Races'
<1>1. ASSUME NEW w \in Workers, Receive(w) PROVE Races'
  BY <1>1 DEF Receive, Races
<1>2. ASSUME NEW w \in Workers, Read(w) PROVE Races'
  <2>1. UNCHANGED <<status, raced>>
    BY <1>2 DEF Read
  <2>2. \A v \in Workers : wpc'[v] \notin {"idle", "read"} =>
             wb'[v] = wb[v] /\ (wpc[v] \notin {"idle", "read"} \/ status[wb[v]] # "canceled")
    BY <1>2 DEF Read, Return, TypeOK, Final
  <2> QED BY <2>1, <2>2 DEF Races
<1>3. ASSUME NEW w \in Workers, Advance(w) PROVE Races'
  BY <1>3, Steps DEF Advance, Races
<1>4. ASSUME NEW w \in Workers, Fail(w) PROVE Races'
  BY <1>4 DEF Fail, Return, Races, TypeOK
<1>5. ASSUME NEW w \in Workers, Publish(w) PROVE Races'
  BY <1>5 DEF Publish, Races
<1>6. ASSUME NEW w \in Workers, Finalize(w) PROVE Races'
  BY <1>6 DEF Finalize, Return, Races, TypeOK
<1>7. ASSUME NEW w \in Workers, StoreFails(w) PROVE Races'
  BY <1>7 DEF StoreFails, Return, Races, TypeOK
<1>8. ASSUME NEW b \in Builds, CreateBuild(b) PROVE Races'
  BY <1>8 DEF CreateBuild, Races, worker
<1>9. ASSUME NEW b \in Builds, SaveArtifact(b) PROVE Races'
  BY <1>9 DEF SaveArtifact, Races, worker
<1>10. ASSUME NEW b \in Builds, StartFails(b) PROVE Races'
  BY <1>10 DEF StartFails, Races, worker
<1>11. ASSUME NEW b \in Builds, Enqueue(b) PROVE Races'
  BY <1>11 DEF Enqueue, Races, worker
<1>12. ASSUME NEW b \in Builds, EnqueueRefused(b) PROVE Races'
  BY <1>12 DEF EnqueueRefused, Races, worker
<1>13. ASSUME NEW c \in Cancels, NEW b \in Builds, CancelRead(c, b) PROVE Races'
  BY <1>13 DEF CancelRead, Races, worker
<1>14. ASSUME NEW c \in Cancels, CancelWrite(c) PROVE Races'
  BY <1>14 DEF CancelWrite, Races, worker
<1>15. ASSUME NEW c \in Cancels, CancelFails(c) PROVE Races'
  BY <1>15 DEF CancelFails, Races, worker
<1>16. CASE Crash
  BY <1>16 DEF Crash, Exit, Races
<1>17. CASE Stop
  BY <1>17 DEF Stop, Races, worker
<1>18. CASE StopReturns
  BY <1>18 DEF StopReturns, Exit, Races
<1>19. CASE Start
  BY <1>19 DEF Start, Races, worker
<1>20. CASE UNCHANGED vars
  BY <1>20 DEF vars, Races, worker
<1> QED
  BY <1>1, <1>2, <1>3, <1>4, <1>5, <1>6, <1>7, <1>8, <1>9, <1>10, <1>11, <1>12, <1>13, <1>14,
     <1>15, <1>16, <1>17, <1>18, <1>19, <1>20
  DEF Next, WorkerStep, StartStep, CancelStep

\* Every step keeps account of the targets.
LEMMA StepProgress == ASSUME TypeOK, Once, Progress, [Next]_vars PROVE Progress'
<1>1. ASSUME NEW w \in Workers, Receive(w) PROVE Progress'
  BY <1>1 DEF Receive, Progress, Requested
<1>2. ASSUME NEW w \in Workers, Read(w) PROVE Progress'
  BY <1>2 DEF Read, Return, Progress, TypeOK, Requested
<1>3. ASSUME NEW w \in Workers, Advance(w) PROVE Progress'
  <2>1. \A b : Requested(b)' = Requested(b)
    BY <1>3 DEF Advance, Requested
  <2>2. \A v \in Workers \ {w} : wpc'[v] = wpc[v] /\ todo'[v] = todo[v]
    BY <1>3 DEF Advance, TypeOK
  <2>3. wb' = wb /\ allReady' = allReady /\ artifact' = artifact
    BY <1>3 DEF Advance
  <2>4. CASE wpc[w] = "artifacts"
    <3>1. Requested(wb[w]) # {} /\ todo'[w] = Requested(wb[w])
      BY <1>3, <2>4 DEF Advance, TypeOK
    <3> QED BY <2>1, <2>2, <2>3, <3>1 DEF Progress, TypeOK
  <2>5. CASE wpc[w] # "artifacts"
    <3>1. todo' = todo /\ (wpc'[w] \in {"build", "targets"} => wpc[w] = "build")
      BY <1>3, <2>5, Steps DEF Advance, TypeOK
    <3> QED BY <2>1, <2>2, <2>3, <3>1 DEF Progress, TypeOK
  <2> QED BY <2>4, <2>5
<1>4. ASSUME NEW w \in Workers, Fail(w) PROVE Progress'
  BY <1>4 DEF Fail, Return, Progress, TypeOK, Requested
<1>5. ASSUME NEW w \in Workers, Publish(w) PROVE Progress'
  <2>1. PICK t \in todo[w], result \in {"ready", "failed"} :
          /\ artifact' = [artifact EXCEPT ![wb[w]][t] = result]
          /\ todo' = [todo EXCEPT ![w] = @ \ {t}]
          /\ allReady' = [allReady EXCEPT ![w] = @ /\ result = "ready"]
    BY <1>5 DEF Publish
  <2>2. wpc' = wpc /\ wb' = wb /\ wpc[w] = "targets"
    BY <1>5 DEF Publish
  <2>3. wb[w] \in Builds /\ t \in Targets
    BY <2>2 DEF TypeOK
  <2>4. /\ artifact'[wb[w]] = [artifact[wb[w]] EXCEPT ![t] = result]
        /\ \A b \in Builds \ {wb[w]} : artifact'[b] = artifact[b]
    BY <2>1, <2>3 DEF TypeOK
  <2>5. ASSUME NEW v \in Workers \ {w}, wpc[v] \in {"build", "targets"}
        PROVE  wb[v] \in Builds \ {wb[w]} /\ todo'[v] = todo[v] /\ allReady'[v] = allReady[v]
    BY <2>1, <2>2, <2>3, <2>5 DEF Once, TypeOK
  <2>6. \A v \in Workers \ {w} : wpc[v] \in {"build", "targets"} =>
          Requested(wb[v])' = Requested(wb[v])
    BY <2>2, <2>4, <2>5 DEF Requested
  <2>7. Requested(wb[w])' = Requested(wb[w]) \cup {t}
    BY <2>2, <2>3, <2>4 DEF Requested, TypeOK
  <2>8. allReady'[w] = (allReady[w] /\ result = "ready") /\ todo'[w] = todo[w] \ {t}
    BY <2>1 DEF TypeOK
  <2>9. \A s \in Targets : artifact'[wb[w]][s] = IF s = t THEN result ELSE artifact[wb[w]][s]
    BY <2>3, <2>4 DEF TypeOK
  <2>10. allReady'[w] => \A s \in Requested(wb[w])' \ todo'[w] : artifact'[wb[w]][s] = "ready"
    BY <2>2, <2>7, <2>8, <2>9 DEF Progress, Requested
  <2>11. ASSUME NEW v \in Workers \ {w}, wpc[v] \in {"build", "targets"}
         PROVE  /\ Requested(wb[v])' # {}
                /\ allReady'[v] =>
                     \A s \in Requested(wb[v])' \ todo'[v] : artifact'[wb[v]][s] = "ready"
    BY <2>2, <2>4, <2>5, <2>6, <2>11 DEF Progress
  <2> QED BY <2>2, <2>7, <2>10, <2>11 DEF Progress
<1>6. ASSUME NEW w \in Workers, Finalize(w) PROVE Progress'
  BY <1>6 DEF Finalize, Return, Progress, TypeOK, Requested
<1>7. ASSUME NEW w \in Workers, StoreFails(w) PROVE Progress'
  BY <1>7 DEF StoreFails, Return, Progress, TypeOK, Requested
<1>8. ASSUME NEW b \in Builds, CreateBuild(b) PROVE Progress'
  BY <1>8 DEF CreateBuild, Progress, Requested, worker
<1>9. ASSUME NEW b \in Builds, SaveArtifact(b) PROVE Progress'
  BY <1>9 DEF SaveArtifact, Progress, Once, TypeOK, Requested, worker
<1>10. ASSUME NEW b \in Builds, StartFails(b) PROVE Progress'
  BY <1>10 DEF StartFails, Progress, Requested, worker
<1>11. ASSUME NEW b \in Builds, Enqueue(b) PROVE Progress'
  BY <1>11 DEF Enqueue, Progress, Requested, worker
<1>12. ASSUME NEW b \in Builds, EnqueueRefused(b) PROVE Progress'
  BY <1>12 DEF EnqueueRefused, Progress, Requested, worker
<1>13. ASSUME NEW c \in Cancels, NEW b \in Builds, CancelRead(c, b) PROVE Progress'
  BY <1>13 DEF CancelRead, Progress, Requested, worker
<1>14. ASSUME NEW c \in Cancels, CancelWrite(c) PROVE Progress'
  BY <1>14 DEF CancelWrite, Progress, Requested, worker
<1>15. ASSUME NEW c \in Cancels, CancelFails(c) PROVE Progress'
  BY <1>15 DEF CancelFails, Progress, Requested, worker
<1>16. CASE Crash
  BY <1>16 DEF Crash, Exit, Progress
<1>17. CASE Stop
  BY <1>17 DEF Stop, Progress, Requested, worker
<1>18. CASE StopReturns
  BY <1>18 DEF StopReturns, Exit, Progress
<1>19. CASE Start
  BY <1>19 DEF Start, Progress, Requested, worker
<1>20. CASE UNCHANGED vars
  BY <1>20 DEF vars, Progress, Requested, worker
<1> QED
  BY <1>1, <1>2, <1>3, <1>4, <1>5, <1>6, <1>7, <1>8, <1>9, <1>10, <1>11, <1>12, <1>13, <1>14,
     <1>15, <1>16, <1>17, <1>18, <1>19, <1>20
  DEF Next, WorkerStep, StartStep, CancelStep

\* No step forgets a build.
LEMMA StepForgets == ASSUME TypeOK, NothingForgotten, [Next]_vars PROVE NothingForgotten'
<1>1. ASSUME NEW w \in Workers, Receive(w) PROVE NothingForgotten'
  <2>1. Queued = Queued' \cup {Head(jobs)}
    BY <1>1, QueuedReceived DEF Receive, TypeOK
  <2>2. wb' = [wb EXCEPT ![w] = Head(jobs)] /\ wb[w] = NoBuild
    BY <1>1 DEF Receive, TypeOK
  <2>3. \A b \in Builds : (\E v \in Workers : wb[v] = b) => \E v \in Workers : wb'[v] = b
    BY <2>2, ConstantsAssumption DEF TypeOK
  <2>4. \E v \in Workers : wb'[v] = Head(jobs)
    BY <2>2 DEF TypeOK
  <2> QED BY <1>1, <2>1, <2>3, <2>4 DEF Receive, NothingForgotten, request
<1>2. ASSUME NEW w \in Workers, Read(w) PROVE NothingForgotten'
  BY <1>2, QueuedSame DEF Read, Return, NothingForgotten, TypeOK, Final, request
<1>3. ASSUME NEW w \in Workers, Advance(w) PROVE NothingForgotten'
  BY <1>3, QueuedSame, Steps DEF Advance, NothingForgotten, request
<1>4. ASSUME NEW w \in Workers, Fail(w) PROVE NothingForgotten'
  BY <1>4, QueuedSame DEF Fail, Return, NothingForgotten, TypeOK, request
<1>5. ASSUME NEW w \in Workers, Publish(w) PROVE NothingForgotten'
  BY <1>5, QueuedSame DEF Publish, NothingForgotten, request
<1>6. ASSUME NEW w \in Workers, Finalize(w) PROVE NothingForgotten'
  BY <1>6, QueuedSame DEF Finalize, Return, NothingForgotten, TypeOK, request
<1>7. ASSUME NEW w \in Workers, StoreFails(w) PROVE NothingForgotten'
  BY <1>7, QueuedSame DEF StoreFails, Return, NothingForgotten, request
<1>8. ASSUME NEW b \in Builds, CreateBuild(b) PROVE NothingForgotten'
  BY <1>8, QueuedSame DEF CreateBuild, NothingForgotten, worker
<1>9. ASSUME NEW b \in Builds, SaveArtifact(b) PROVE NothingForgotten'
  BY <1>9, QueuedSame DEF SaveArtifact, NothingForgotten, worker
<1>10. ASSUME NEW b \in Builds, StartFails(b) PROVE NothingForgotten'
  BY <1>10, QueuedSame DEF StartFails, NothingForgotten, worker
<1>11. ASSUME NEW b \in Builds, Enqueue(b) PROVE NothingForgotten'
  BY <1>11, QueuedSent DEF Enqueue, NothingForgotten, TypeOK, worker
<1>12. ASSUME NEW b \in Builds, EnqueueRefused(b) PROVE NothingForgotten'
  BY <1>12, QueuedSame DEF EnqueueRefused, NothingForgotten, worker
<1>13. ASSUME NEW c \in Cancels, NEW b \in Builds, CancelRead(c, b) PROVE NothingForgotten'
  BY <1>13, QueuedSame DEF CancelRead, NothingForgotten, worker, request
<1>14. ASSUME NEW c \in Cancels, CancelWrite(c) PROVE NothingForgotten'
  BY <1>14, QueuedSame DEF CancelWrite, NothingForgotten, worker, request
<1>15. ASSUME NEW c \in Cancels, CancelFails(c) PROVE NothingForgotten'
  BY <1>15, QueuedSame DEF CancelFails, NothingForgotten, worker, request
<1>16. CASE Crash
  BY <1>16, QueuedNone DEF Crash, Exit, NothingForgotten
<1>17. CASE Stop
  BY <1>17, QueuedSame DEF Stop, NothingForgotten, worker, request
<1>18. CASE StopReturns
  BY <1>18, QueuedNone DEF StopReturns, Exit, NothingForgotten
<1>19. CASE Start
  BY <1>19, QueuedSame DEF Start, NothingForgotten, worker, request
<1>20. CASE UNCHANGED vars
  BY <1>20, QueuedSame DEF vars, NothingForgotten, worker, request
<1> QED
  BY <1>1, <1>2, <1>3, <1>4, <1>5, <1>6, <1>7, <1>8, <1>9, <1>10, <1>11, <1>12, <1>13, <1>14,
     <1>15, <1>16, <1>17, <1>18, <1>19, <1>20
  DEF Next, WorkerStep, StartStep, CancelStep

\* No step makes a build ready, or changes a ready one, against its artifacts.
LEMMA StepReady == ASSUME TypeOK, Once, Progress, ReadyMeansBuilt, [Next]_vars PROVE ReadyMeansBuilt'
<1>1. ASSUME NEW w \in Workers, Receive(w) PROVE ReadyMeansBuilt'
  BY <1>1 DEF Receive, ReadyMeansBuilt, Progress, Requested
<1>2. ASSUME NEW w \in Workers, Read(w) PROVE ReadyMeansBuilt'
  BY <1>2 DEF Read, Return, ReadyMeansBuilt, Progress, Requested
<1>3. ASSUME NEW w \in Workers, Advance(w) PROVE ReadyMeansBuilt'
  BY <1>3 DEF Advance, ReadyMeansBuilt, Progress, Requested
<1>4. ASSUME NEW w \in Workers, Fail(w) PROVE ReadyMeansBuilt'
  BY <1>4 DEF Fail, Return, ReadyMeansBuilt, Progress, Requested
<1>5. ASSUME NEW w \in Workers, Publish(w) PROVE ReadyMeansBuilt'
  BY <1>5 DEF Publish, ReadyMeansBuilt, Progress, Once, TypeOK, Requested
<1>6. ASSUME NEW w \in Workers, Finalize(w) PROVE ReadyMeansBuilt'
  BY <1>6 DEF Finalize, Return, ReadyMeansBuilt, Progress, Requested
<1>7. ASSUME NEW w \in Workers, StoreFails(w) PROVE ReadyMeansBuilt'
  BY <1>7 DEF StoreFails, Return, ReadyMeansBuilt, Progress, Requested
<1>8. ASSUME NEW b \in Builds, CreateBuild(b) PROVE ReadyMeansBuilt'
  BY <1>8 DEF CreateBuild, ReadyMeansBuilt, Progress, Requested
<1>9. ASSUME NEW b \in Builds, SaveArtifact(b) PROVE ReadyMeansBuilt'
  BY <1>9 DEF SaveArtifact, ReadyMeansBuilt, Progress, Once, Requested
<1>10. ASSUME NEW b \in Builds, StartFails(b) PROVE ReadyMeansBuilt'
  BY <1>10 DEF StartFails, ReadyMeansBuilt, Progress, Requested
<1>11. ASSUME NEW b \in Builds, Enqueue(b) PROVE ReadyMeansBuilt'
  BY <1>11 DEF Enqueue, ReadyMeansBuilt, Progress, Requested
<1>12. ASSUME NEW b \in Builds, EnqueueRefused(b) PROVE ReadyMeansBuilt'
  BY <1>12 DEF EnqueueRefused, ReadyMeansBuilt, Progress, Requested
<1>13. ASSUME NEW c \in Cancels, NEW b \in Builds, CancelRead(c, b) PROVE ReadyMeansBuilt'
  BY <1>13 DEF CancelRead, ReadyMeansBuilt, Progress, Requested
<1>14. ASSUME NEW c \in Cancels, CancelWrite(c) PROVE ReadyMeansBuilt'
  BY <1>14 DEF CancelWrite, ReadyMeansBuilt, Progress, Requested
<1>15. ASSUME NEW c \in Cancels, CancelFails(c) PROVE ReadyMeansBuilt'
  BY <1>15 DEF CancelFails, ReadyMeansBuilt, Progress, Requested
<1>16. CASE Crash
  BY <1>16 DEF Crash, Exit, ReadyMeansBuilt, Progress, Requested
<1>17. CASE Stop
  BY <1>17 DEF Stop, ReadyMeansBuilt, Progress, Requested
<1>18. CASE StopReturns
  BY <1>18 DEF StopReturns, Exit, ReadyMeansBuilt, Progress, Requested
<1>19. CASE Start
  BY <1>19 DEF Start, ReadyMeansBuilt, Progress, Requested
<1>20. CASE UNCHANGED vars
  BY <1>20 DEF vars, ReadyMeansBuilt, Progress, Requested
<1> QED
  BY <1>1, <1>2, <1>3, <1>4, <1>5, <1>6, <1>7, <1>8, <1>9, <1>10, <1>11, <1>12, <1>13, <1>14,
     <1>15, <1>16, <1>17, <1>18, <1>19, <1>20
  DEF Next, WorkerStep, StartStep, CancelStep

\* A final status changes only through a race: the worker writes to a build that
\* is not final or was canceled too late for it, and CancelBuild writes "canceled".
LEMMA StepFinal == ASSUME TypeOK, Once, Races, [Next]_vars PROVE OnlyRacesChangeFinal
<1>1. CASE UNCHANGED status
  BY <1>1 DEF OnlyRacesChangeFinal
<1>2. ASSUME NEW w \in Workers, wpc[w] \notin {"idle", "read"},
             \A b \in Builds : status'[b] # status[b] => b = wb[w]
      PROVE  OnlyRacesChangeFinal
  BY <1>2 DEF OnlyRacesChangeFinal, Once, Races, TypeOK, Final
<1>3. ASSUME NEW w \in Workers, Advance(w) PROVE OnlyRacesChangeFinal
  BY <1>2, <1>3, Steps DEF Advance, TypeOK
<1>4. ASSUME NEW w \in Workers, Fail(w) \/ Finalize(w) PROVE OnlyRacesChangeFinal
  BY <1>2, <1>4 DEF Fail, Finalize, TypeOK
<1>5. ASSUME NEW w \in Workers, Receive(w) \/ Read(w) \/ Publish(w) \/ StoreFails(w)
      PROVE  OnlyRacesChangeFinal
  BY <1>1, <1>5 DEF Receive, Read, Publish, StoreFails
<1>6. ASSUME NEW b \in Builds, CreateBuild(b) PROVE OnlyRacesChangeFinal
  BY <1>6 DEF CreateBuild, OnlyRacesChangeFinal, TypeOK, Final
<1>7. ASSUME NEW b \in Builds,
             SaveArtifact(b) \/ StartFails(b) \/ Enqueue(b) \/ EnqueueRefused(b)
      PROVE  OnlyRacesChangeFinal
  BY <1>1, <1>7 DEF SaveArtifact, StartFails, Enqueue, EnqueueRefused
<1>8. ASSUME NEW c \in Cancels, CancelWrite(c) PROVE OnlyRacesChangeFinal
  BY <1>8 DEF CancelWrite, OnlyRacesChangeFinal, TypeOK
<1>9. ASSUME NEW c \in Cancels, CancelFails(c) \/ \E b \in Builds : CancelRead(c, b)
      PROVE  OnlyRacesChangeFinal
  BY <1>1, <1>9 DEF CancelFails, CancelRead
<1>10. CASE Crash \/ Stop \/ StopReturns \/ Start
  BY <1>1, <1>10 DEF Crash, Stop, StopReturns, Start, Exit
<1>11. CASE UNCHANGED vars
  BY <1>1, <1>11 DEF vars
<1> QED
  BY <1>3, <1>4, <1>5, <1>6, <1>7, <1>8, <1>9, <1>10, <1>11
  DEF Next, WorkerStep, StartStep, CancelStep

\* Inv holds in every reachable state.
LEMMA Invariant == Spec => []Inv
<1>1. Inv /\ [Next]_vars => Inv'
  BY StepTypes, StepOnce, StepRaces, StepProgress, StepForgets, StepReady DEF Inv
<1> QED BY InitInv, <1>1, PTL DEF Spec

-----------------------------------------------------------------------------
(* The theorems.                                                           *)

\* The variables keep their types; the channel keeps its capacity.
THEOREM TypeCorrect == Spec => []TypeOK
<1>1. Inv => TypeOK
  BY DEF Inv
<1> QED BY Invariant, <1>1, PTL

\* No build is forgotten but by a store error, a refusal or an exit.
THEOREM NothingForgottenCorrect == Spec => []NothingForgotten
<1>1. Inv => NothingForgotten
  BY DEF Inv
<1> QED BY Invariant, <1>1, PTL

\* A build that is ready has its artifacts ready.
THEOREM ReadyCorrect == Spec => []ReadyMeansBuilt
<1>1. Inv => ReadyMeansBuilt
  BY DEF Inv
<1> QED BY Invariant, <1>1, PTL

\* A final status is changed only by a cancellation and a worker that overlap.
THEOREM FinalCorrect == Spec => FinalUnlessRaced
<1>1. Inv /\ [Next]_vars => [OnlyRacesChangeFinal]_vars
  BY StepFinal DEF Inv
<1> QED BY Invariant, <1>1, PTL DEF Spec, FinalUnlessRaced
=============================================================================
