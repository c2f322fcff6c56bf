-------------------------- MODULE ServerJobsProofs --------------------------
(* Safety of the server's jobs, for any number of jobs and repositories.   *)
EXTENDS ServerJobs, TLAPS

\* A job has a worker exactly while its routine says so, and nothing is under
\* way for a job that was never requested.
RoutinesFit ==
    \A j \in JobIds :
        /\ routine[j] = "forked" <=> child[j] # "none"
        /\ jobs[j].status = "free" => routine[j] = "none"
        /\ j \in sigterm => child[j] # "none"

IInv == TypeOK /\ RoutinesFit /\ JobIsCarried

LEMMA Initially == Init => IInv
<1> SUFFICES ASSUME Init
             PROVE  IInv
  OBVIOUS
<1>1. jobs \in [JobIds -> Job] /\ \A j \in JobIds : jobs[j].status = "free"
  BY JobsAssumption DEF Init, Job, Status
<1>2. embeds \in [EmbedIds -> Embed]
  BY JobsAssumption DEF Init, Embed, Status
<1>3. TypeOK
  BY <1>1, <1>2 DEF Init, TypeOK, Routine, Child
<1>4. RoutinesFit /\ JobIsCarried
  BY <1>1 DEF Init, RoutinesFit, JobIsCarried, Active
<1>5. QED
  BY <1>3, <1>4 DEF IInv

\* What becomes of the jobs when the status of one is set.
LEMMA StatusSet ==
    ASSUME TypeOK, NEW j \in JobIds, NEW status \in Status, SetStatus(j, status)
    PROVE  /\ jobs' \in [JobIds -> Job]
           /\ jobs'[j].status = status
           /\ \A i \in JobIds : jobs'[i].repo = jobs[i].repo
           /\ \A i \in JobIds \ {j} : jobs'[i] = jobs[i]
  BY DEF TypeOK, SetStatus, Job

LEMMA RetrySet ==
    ASSUME TypeOK, NEW j \in JobIds, MayRetry(j), Retry(j)
    PROVE  /\ jobs' \in [JobIds -> Job]
           /\ jobs'[j].status = "analyzing"
           /\ \A i \in JobIds : jobs'[i].repo = jobs[i].repo
           /\ \A i \in JobIds \ {j} : jobs'[i] = jobs[i]
           /\ routine' = [routine EXCEPT ![j] = "backoff"]
           /\ locks' = locks
<1>1. jobs[j] \in Job /\ jobs[j].retries + 1 \in 0..MaxRetries
  BY JobsAssumption DEF TypeOK, Job, MayRetry
<1>2. QED
  BY <1>1 DEF TypeOK, Retry, Job, Status

\* The same for the jobs of embeddings.
LEMMA EmbedSet ==
    ASSUME TypeOK, NEW e \in EmbedIds, NEW status \in Status \ {"cloning"},
           embeds' = [embeds EXCEPT ![e].status = status]
    PROVE  /\ embeds' \in [EmbedIds -> Embed]
           /\ embeds'[e].status = status
           /\ \A f \in EmbedIds : embeds'[f].repo = embeds[f].repo
           /\ \A f \in EmbedIds \ {e} : embeds'[f] = embeds[f]
  BY DEF TypeOK, Embed

LEMMA ReposTyped ==
    ASSUME TypeOK
    PROVE  /\ \A j \in JobIds : jobs[j].repo \in Repos
           /\ \A e \in EmbedIds : embeds[e].repo \in Repos
  BY DEF TypeOK, Job, Embed

-----------------------------------------------------------------------------
(* Every job is carried on *)

LEMMA LaunchInv ==
    ASSUME IInv, NEW j \in JobIds, routine[j] # "forked", Launch(j),
           UNCHANGED <<sigterm, reloads, embedVars, deleting>>
    PROVE  IInv'
<1> USE DEF IInv, embedVars
<1>1. jobs[j].repo \in Repos
  BY ReposTyped
<1>2. CASE Locked(RepoOf(j))
  <2>1. SetStatus(j, "failed") /\ routine' = [routine EXCEPT ![j] = "none"]
        /\ UNCHANGED <<child, locks>>
    BY <1>2 DEF Launch
  <2>2. child[j] = "none"
    BY DEF RoutinesFit
  <2>3. QED
    BY <2>1, <2>2, StatusSet DEF Status, TypeOK, Routine, RoutinesFit, JobIsCarried, Active
<1>3. CASE ~Locked(RepoOf(j))
  <2>1. /\ SetStatus(j, "analyzing") /\ locks' = locks \cup {RepoOf(j)}
        /\ routine' = [routine EXCEPT ![j] = "forked"]
        /\ child' = [child EXCEPT ![j] = "working"]
    BY <1>3 DEF Launch
  <2>2. QED
    BY <1>1, <2>1, StatusSet
       DEF Status, TypeOK, Routine, Child, RoutinesFit, JobIsCarried, Active, RepoOf
<1>4. QED
  BY <1>2, <1>3

LEMMA AnalyzeInv ==
    ASSUME IInv, NEW j \in JobIds,
           AnalyzePath(j) \/ AnalyzeUrl(j) \/ Cloned(j) \/ CloneFails(j)
    PROVE  IInv'
<1> USE DEF IInv
<1>1. CASE AnalyzePath(j)
  <2>1. routine[j] # "forked"
    BY <1>1 DEF AnalyzePath, RoutinesFit
  <2>2. QED
    BY <1>1, <2>1, LaunchInv DEF AnalyzePath
<1>2. CASE AnalyzeUrl(j)
  <2>1. child[j] = "none"
    BY <1>2 DEF AnalyzeUrl, RoutinesFit
  <2>2. QED
    BY <1>2, <2>1, StatusSet
       DEF AnalyzeUrl, Status, TypeOK, Routine, RoutinesFit, JobIsCarried, Active, embedVars
<1>3. CASE Cloned(j)
  BY <1>3, LaunchInv DEF Cloned
<1>4. CASE CloneFails(j)
  <2>1. child[j] = "none"
    BY <1>4 DEF CloneFails, RoutinesFit
  <2>2. QED
    BY <1>4, <2>1, StatusSet
       DEF CloneFails, Release, Status, TypeOK, Routine, RoutinesFit, JobIsCarried, Active,
           embedVars
<1>5. QED
  BY <1>1, <1>2, <1>3, <1>4

LEMMA ReportInv ==
    ASSUME IInv, NEW j \in JobIds,
           \/ Progress(j) \/ Complete(j) \/ AnalysisFails(j) \/ Uncaught(j) \/ SeesSigterm(j)
           \/ Reloaded(j)
    PROVE  IInv'
<1> USE DEF IInv
<1>1. CASE Progress(j)
  BY <1>1, StatusSet
     DEF Progress, Reports, Status, TypeOK, RoutinesFit, JobIsCarried, Active, workerVars,
         embedVars
<1>2. CASE Complete(j)
  BY <1>2 DEF Complete, Reports, Release, TypeOK, Child, RoutinesFit, JobIsCarried, embedVars
<1>3. ASSUME NEW next \in {"failing", "done"}, Error(j, next), child[j] # "none",
             sigterm' \subseteq sigterm
      PROVE  IInv'
  BY <1>3, StatusSet
     DEF Error, Release, Status, TypeOK, Child, RoutinesFit, JobIsCarried, Active, embedVars
<1>4. CASE AnalysisFails(j)
  BY <1>3, <1>4 DEF AnalysisFails, Reports, TypeOK
<1>5. CASE Uncaught(j)
  BY <1>3, <1>5 DEF Uncaught, Reports, TypeOK
<1>6. CASE SeesSigterm(j)
  BY <1>3, <1>6 DEF SeesSigterm, RoutinesFit
<1>7. CASE Reloaded(j)
  <2>1. reloads' \in [JobIds -> Nat]
    BY <1>7 DEF Reloaded, TypeOK
  <2>2. PICK status \in {"complete", "failed"} : SetStatus(j, status)
    BY <1>7 DEF Reloaded
  <2>3. QED
    BY <1>7, <2>1, <2>2, StatusSet
       DEF Reloaded, Status, TypeOK, RoutinesFit, JobIsCarried, Active, embedVars
<1>8. QED
  BY <1>1, <1>2, <1>4, <1>5, <1>6, <1>7

LEMMA ExitInv ==
    ASSUME IInv, NEW j \in JobIds, Exit(j) \/ SpawnFails(j) \/ Refork(j) \/ Cancel(j)
    PROVE  IInv'
<1> USE DEF IInv, embedVars
<1>1. CASE Exit(j)
  <2>1. child' = [child EXCEPT ![j] = "none"] /\ sigterm' = sigterm \ {j}
        /\ UNCHANGED <<reloads, embeds, pipelines, deleting>>
    BY <1>1 DEF Exit
  <2>2. CASE ~Active(jobs[j])
    BY <1>1, <2>1, <2>2 DEF Exit, TypeOK, Routine, Child, RoutinesFit, JobIsCarried
  <2>3. CASE Active(jobs[j]) /\ MayRetry(j)
    <3>1. Retry(j)
      BY <1>1, <2>3 DEF Exit
    <3>2. QED
      BY <2>1, <2>3, <3>1, RetrySet
         DEF TypeOK, Routine, Child, RoutinesFit, JobIsCarried, Active
  <2>4. CASE Active(jobs[j]) /\ ~MayRetry(j)
    <3>1. SetStatus(j, "failed") /\ routine' = [routine EXCEPT ![j] = "none"]
          /\ locks' \subseteq locks
      BY <1>1, <2>4 DEF Exit, CrashedTooOften, Release
    <3>2. QED
      BY <2>1, <3>1, StatusSet
         DEF Status, TypeOK, Routine, Child, RoutinesFit, JobIsCarried, Active
  <2>5. QED
    BY <2>2, <2>3, <2>4
<1>2. CASE SpawnFails(j)
  BY <1>2, StatusSet
     DEF SpawnFails, Release, Status, TypeOK, Routine, Child, RoutinesFit, JobIsCarried, Active
<1>3. CASE Refork(j)
  BY <1>3 DEF Refork, TypeOK, Routine, Child, RoutinesFit, JobIsCarried
<1>4. CASE Cancel(j)
  BY <1>4, StatusSet DEF Cancel, Status, TypeOK, RoutinesFit, JobIsCarried, Active
<1>5. QED
  BY <1>1, <1>2, <1>3, <1>4

\* Embeddings and deletions leave the analysis jobs alone.
LEMMA OthersInv ==
    ASSUME IInv,
           \/ \E e \in EmbedIds : StartEmbed(e) \/ EmbedEnds(e) \/ EmbedTimesOut(e) \/ CancelEmbed(e)
           \/ \E r \in EmbedRepos : EmbedRejected(r)
           \/ \E r \in Repos : StartDelete(r) \/ EndDelete(r)
    PROVE  IInv'
<1> USE DEF IInv
<1>1. UNCHANGED <<jobs, workerVars>>
  BY DEF StartEmbed, EmbedEnds, EmbedTimesOut, CancelEmbed, EmbedRejected, StartDelete, EndDelete
<1>2. (RoutinesFit /\ JobIsCarried)'
  BY <1>1 DEF workerVars, RoutinesFit, JobIsCarried
<1>3. ASSUME NEW e \in EmbedIds, StartEmbed(e) \/ EmbedEnds(e) \/ EmbedTimesOut(e) \/ CancelEmbed(e)
      PROVE  embeds' \in [EmbedIds -> Embed] /\ pipelines' \in [EmbedIds -> Nat]
             /\ deleting' \in SUBSET Repos /\ locks' \in SUBSET Repos
  <2>1. embeds[e].repo \in Repos
    BY ReposTyped
  <2>2. CASE StartEmbed(e)
    <3>1. /\ embeds' = [embeds EXCEPT ![e].status = "analyzing"]
          /\ locks' = locks \cup {embeds[e].repo}
          /\ pipelines' = [pipelines EXCEPT ![e] = @ + 1] /\ UNCHANGED deleting
      BY <2>2 DEF StartEmbed
    <3>2. embeds' \in [EmbedIds -> Embed]
      BY <3>1, EmbedSet DEF Status
    <3>3. QED
      BY <2>1, <3>1, <3>2 DEF TypeOK
  <2>3. CASE EmbedEnds(e)
    <3>1. pipelines' \in [EmbedIds -> Nat]
      BY <2>3 DEF EmbedEnds, TypeOK
    <3>2. PICK status \in {"complete", "failed"} :
            embeds' = IF embeds[e].status = "failed" THEN embeds
                      ELSE [embeds EXCEPT ![e].status = status]
      BY <2>3 DEF EmbedEnds
    <3>3. embeds' \in [EmbedIds -> Embed]
      BY <3>2, EmbedSet DEF TypeOK, Status
    <3>4. QED
      BY <2>3, <3>1, <3>3 DEF EmbedEnds, EmbedUnlock, Release, TypeOK
  <2>4. CASE EmbedTimesOut(e)
    BY <2>4, EmbedSet DEF EmbedTimesOut, EmbedUnlock, Release, TypeOK, Status
  <2>5. CASE CancelEmbed(e)
    BY <2>5, EmbedSet DEF CancelEmbed, TypeOK, Status
  <2>6. QED
    BY <1>3, <2>2, <2>3, <2>4, <2>5
<1>4. ASSUME NEW r \in EmbedRepos, EmbedRejected(r)
      PROVE  TypeOK'
  BY <1>1, <1>4, JobsAssumption DEF EmbedRejected, TypeOK, workerVars, embedVars
<1>5. ASSUME NEW r \in Repos, StartDelete(r) \/ EndDelete(r)
      PROVE  TypeOK'
  BY <1>1, <1>5 DEF StartDelete, EndDelete, Release, TypeOK, workerVars, embedVars
<1>6. TypeOK'
  BY <1>1, <1>3, <1>4, <1>5 DEF TypeOK, workerVars
<1>7. QED
  BY <1>2, <1>6

LEMMA Inductive == IInv /\ [Next]_vars => IInv'
<1> SUFFICES ASSUME IInv, [Next]_vars
             PROVE  IInv'
  OBVIOUS
<1>1. CASE Next
  BY <1>1, AnalyzeInv, ReportInv, ExitInv, OthersInv DEF Next, WorkerStep
<1>2. CASE UNCHANGED vars
  BY <1>2 DEF vars, workerVars, embedVars, IInv, TypeOK, RoutinesFit, JobIsCarried
<1>3. QED
  BY <1>1, <1>2

\* Every reachable state is well typed; no job is retried more often than
\* MAX_WORKER_RETRIES, however often late messages reopen it.
THEOREM JobsTypeCorrect == Spec => []TypeOK
<1>1. IInv => TypeOK
  BY DEF IInv
<1>2. QED
  BY Initially, Inductive, <1>1, PTL DEF Spec

\* A job that is not over has a clone, a worker or a retry timer that will
\* carry it on, whatever is cancelled, fails or comes late.
THEOREM EveryJobIsCarried == Spec => []JobIsCarried
<1>1. IInv => JobIsCarried
  BY DEF IInv
<1>2. QED
  BY Initially, Inductive, <1>1, PTL DEF Spec

-----------------------------------------------------------------------------
(* The repo lock, as long as workers only crash *)

\* Nothing is cancelled, times out or fails, except that workers crash, and
\* embeddings are requested for one repository.
Calm == Disturbances = {} /\ \A r, s \in EmbedRepos : r = s

\* A job has a right to its repository while its worker runs and while it waits
\* for the retry of a crashed one.
Claims(j) == child[j] = "working" \/ routine[j] = "backoff"

\* A claim ends with the job; a worker that is done is only waited for.
ClaimsAreActive ==
    \A j \in JobIds :
        /\ child[j] # "failing" /\ j \notin sigterm
        /\ Claims(j) \/ routine[j] = "cloning" => Active(jobs[j])
        /\ reloads[j] > 0 => child[j] = "done"
        /\ child[j] = "done" /\ Active(jobs[j]) => reloads[j] > 0

EmbedsFit ==
    \A e \in EmbedIds :
        /\ embeds[e].repo \in EmbedRepos
        /\ pipelines[e] \in {0, 1}
        /\ Active(embeds[e]) => pipelines[e] = 1

\* Who has a right to a repository has locked it, and nobody else has one.
LocksFit ==
    /\ \A j \in JobIds : Claims(j) =>
         /\ RepoOf(j) \in locks \ deleting
         /\ \A e \in EmbedIds : pipelines[e] = 1 => embeds[e].repo # RepoOf(j)
    /\ \A e \in EmbedIds : pipelines[e] = 1 =>
         /\ embeds[e].repo \in locks \ deleting
         /\ \A f \in EmbedIds : pipelines[f] = 1 /\ embeds[f].repo = embeds[e].repo => e = f
    /\ deleting \subseteq locks
    /\ \A r \in locks :
         \/ r \in deleting
         \/ \E j \in JobIds : Claims(j) /\ RepoOf(j) = r
         \/ \E e \in EmbedIds : pipelines[e] = 1 /\ embeds[e].repo = r

CInv == IInv /\ SingleSlot /\ ClaimsAreActive /\ EmbedsFit /\ LocksFit

LEMMA CalmInitially == Init => CInv
<1> SUFFICES ASSUME Init
             PROVE  CInv
  OBVIOUS
<1>1. \A j \in JobIds : jobs[j].status = "free"
  BY DEF Init
<1>2. \A e \in EmbedIds : embeds[e].status = "free" /\ embeds[e].repo \in EmbedRepos
  BY DEF Init
<1>3. SingleSlot /\ ClaimsAreActive /\ EmbedsFit /\ LocksFit
  BY <1>1, <1>2
     DEF Init, SingleSlot, ClaimsAreActive, EmbedsFit, LocksFit, Claims, Active
<1>4. QED
  BY <1>3, Initially DEF CInv

\* The job that launches is the active one; it takes a lock nobody has.
LEMMA LaunchCalm ==
    ASSUME CInv, NEW j \in JobIds, routine[j] # "forked", routine[j] # "backoff",
           \A i \in JobIds \ {j} : ~Active(jobs[i]), Launch(j),
           UNCHANGED <<sigterm, reloads, embedVars, deleting>>
    PROVE  (SingleSlot /\ ClaimsAreActive /\ EmbedsFit /\ LocksFit)'
<1> USE DEF CInv, IInv, embedVars
<1>0. child[j] = "none" /\ reloads[j] = 0 /\ \A i \in JobIds \ {j} : ~Claims(i)
  BY DEF RoutinesFit, ClaimsAreActive, TypeOK
<1>1. CASE Locked(RepoOf(j))
  <2>1. SetStatus(j, "failed") /\ routine' = [routine EXCEPT ![j] = "none"]
        /\ UNCHANGED <<child, locks>>
    BY <1>1 DEF Launch
  <2>2. QED
    BY <1>0, <2>1, StatusSet
       DEF Status, TypeOK, SingleSlot, ClaimsAreActive, EmbedsFit, LocksFit, Claims, Active,
           RepoOf
<1>2. CASE ~Locked(RepoOf(j))
  <2>1. /\ SetStatus(j, "analyzing") /\ locks' = locks \cup {RepoOf(j)}
        /\ routine' = [routine EXCEPT ![j] = "forked"]
        /\ child' = [child EXCEPT ![j] = "working"]
    BY <1>2 DEF Launch
  <2>2. QED
    BY <1>0, <1>2, <2>1, StatusSet
       DEF Status, TypeOK, SingleSlot, ClaimsAreActive, EmbedsFit, LocksFit, Claims, Active,
           RepoOf, Locked
<1>3. QED
  BY <1>1, <1>2

LEMMA AnalyzeCalm ==
    ASSUME Calm, CInv, NEW j \in JobIds,
           AnalyzePath(j) \/ AnalyzeUrl(j) \/ Cloned(j) \/ CloneFails(j)
    PROVE  (SingleSlot /\ ClaimsAreActive /\ EmbedsFit /\ LocksFit)'
<1> USE DEF CInv, IInv
<1>1. CASE AnalyzePath(j)
  <2>1. routine[j] = "none" /\ \A i \in JobIds : ~Active(jobs[i])
    BY <1>1 DEF AnalyzePath, RoutinesFit, SlotIsFree
  <2>2. QED
    BY <1>1, <2>1, LaunchCalm DEF AnalyzePath
<1>2. CASE AnalyzeUrl(j)
  <2>1. child[j] = "none" /\ routine[j] = "none" /\ \A i \in JobIds : ~Active(jobs[i])
    BY <1>2 DEF AnalyzeUrl, RoutinesFit, SlotIsFree
  <2>2. QED
    BY <1>2, <2>1, StatusSet
       DEF AnalyzeUrl, Status, TypeOK, SingleSlot, ClaimsAreActive, EmbedsFit, LocksFit, Claims,
           Active, RepoOf, embedVars
<1>3. CASE Cloned(j)
  <2>1. routine[j] = "cloning" /\ \A i \in JobIds \ {j} : ~Active(jobs[i])
    BY <1>3 DEF Cloned, ClaimsAreActive, SingleSlot
  <2>2. QED
    BY <1>3, <2>1, LaunchCalm DEF Cloned
<1>4. CASE CloneFails(j)
  BY <1>4 DEF CloneFails, Calm
<1>5. QED
  BY <1>1, <1>2, <1>3, <1>4

\* A job that ends in a step that also unlocks its repository.
LEMMA EndCalm ==
    ASSUME CInv, NEW j \in JobIds, Claims(j),
           SetStatus(j, "failed"), Release(RepoOf(j)),
           \/ routine' = [routine EXCEPT ![j] = "none"] /\ child' = [child EXCEPT ![j] = "none"]
           \/ routine' = routine /\ child' = [child EXCEPT ![j] = "done"] /\ routine[j] = "forked",
           sigterm' \subseteq sigterm, UNCHANGED <<reloads, embedVars, deleting>>
    PROVE  (SingleSlot /\ ClaimsAreActive /\ EmbedsFit /\ LocksFit)'
<1> USE DEF CInv, IInv
<1>1. \A i \in JobIds \ {j} : ~Active(jobs[i]) /\ ~Claims(i)
  BY DEF ClaimsAreActive, SingleSlot
<1>2. reloads[j] = 0
  BY DEF ClaimsAreActive, RoutinesFit, Claims, TypeOK
<1>3. ~Claims(j)' /\ \A i \in JobIds \ {j} : ~Claims(i)'
  BY <1>1 DEF Claims, TypeOK
<1>4. (SingleSlot /\ ClaimsAreActive)'
  BY <1>1, <1>2, <1>3, StatusSet
     DEF Status, TypeOK, SingleSlot, ClaimsAreActive, Claims, Active
<1>5. EmbedsFit'
  BY DEF EmbedsFit, embedVars, Active
<1>6. LocksFit'
  BY <1>1, <1>3, StatusSet DEF LocksFit, embedVars, RepoOf, Release
<1>7. QED
  BY <1>4, <1>5, <1>6

LEMMA ReportCalm ==
    ASSUME Calm, CInv, NEW j \in JobIds,
           \/ Progress(j) \/ Complete(j) \/ AnalysisFails(j) \/ Uncaught(j) \/ SeesSigterm(j)
           \/ Reloaded(j)
    PROVE  (SingleSlot /\ ClaimsAreActive /\ EmbedsFit /\ LocksFit)'
<1> USE DEF CInv, IInv
<1>1. ASSUME Reports(j)
      PROVE  child[j] = "working" /\ routine[j] = "forked" /\ Claims(j) /\ Active(jobs[j])
             /\ \A i \in JobIds \ {j} : ~Active(jobs[i]) /\ ~Claims(i)
  BY <1>1 DEF Reports, ClaimsAreActive, RoutinesFit, Claims, SingleSlot
<1>2. CASE Progress(j)
  BY <1>1, <1>2, StatusSet, SMTT(30)
     DEF Progress, Status, TypeOK, SingleSlot, ClaimsAreActive, EmbedsFit, LocksFit, Claims,
         Active, RepoOf, workerVars, embedVars
<1>3. CASE Complete(j)
  <2>1. ~Claims(j)' /\ \A i \in JobIds \ {j} : ~Claims(i)'
    BY <1>1, <1>3 DEF Complete, Claims, TypeOK
  <2>2. (SingleSlot /\ ClaimsAreActive)'
    BY <1>1, <1>3, <2>1 DEF Complete, TypeOK, SingleSlot, ClaimsAreActive, Claims, Active
  <2>3. (EmbedsFit /\ LocksFit)'
    BY <1>1, <1>3, <2>1 DEF Complete, Release, EmbedsFit, LocksFit, Active, RepoOf, embedVars
  <2>4. QED
    BY <2>2, <2>3
<1>4. CASE AnalysisFails(j)
  BY <1>1, <1>4, EndCalm DEF AnalysisFails, Error
<1>5. CASE Uncaught(j)
  BY <1>5 DEF Uncaught, Calm
<1>6. CASE SeesSigterm(j)
  BY <1>6 DEF SeesSigterm, ClaimsAreActive
<1>7. CASE Reloaded(j)
  <2>1. PICK status \in {"complete", "failed"} : SetStatus(j, status)
    BY <1>7 DEF Reloaded
  <2>2. child[j] = "done" /\ routine[j] = "forked" /\ ~Claims(j)
    BY <1>7 DEF Reloaded, ClaimsAreActive, RoutinesFit, Claims
  <2>3. (SingleSlot /\ ClaimsAreActive)'
    BY <1>7, <2>1, <2>2, StatusSet
       DEF Reloaded, Status, TypeOK, SingleSlot, ClaimsAreActive, Claims, Active
  <2>4. (EmbedsFit /\ LocksFit)'
    BY <1>7, <2>1, <2>2, StatusSet
       DEF Reloaded, Status, EmbedsFit, LocksFit, Claims, Active, RepoOf, embedVars
  <2>5. QED
    BY <2>3, <2>4
<1>8. QED
  BY <1>2, <1>3, <1>4, <1>5, <1>6, <1>7

LEMMA ExitCalm ==
    ASSUME Calm, CInv, NEW j \in JobIds, Exit(j) \/ SpawnFails(j) \/ Refork(j) \/ Cancel(j)
    PROVE  (SingleSlot /\ ClaimsAreActive /\ EmbedsFit /\ LocksFit)'
<1> USE DEF CInv, IInv
<1>1. CASE Exit(j) /\ child[j] = "done"
  <2>1. reloads[j] = 0 /\ ~Active(jobs[j]) /\ ~Claims(j)
    BY <1>1 DEF Exit, Calm, ClaimsAreActive, RoutinesFit, Claims, TypeOK
  <2>2. /\ child' = [child EXCEPT ![j] = "none"] /\ routine' = [routine EXCEPT ![j] = "none"]
        /\ sigterm' \subseteq sigterm
        /\ UNCHANGED <<jobs, reloads, embedVars, deleting, locks>>
    BY <1>1, <2>1 DEF Exit
  <2>3. QED
    BY <2>1, <2>2
       DEF TypeOK, SingleSlot, ClaimsAreActive, EmbedsFit, LocksFit, Claims, Active, RepoOf,
           embedVars
<1>2. CASE Exit(j) /\ child[j] # "done"
  <2>1. child[j] = "working" /\ routine[j] = "forked" /\ Claims(j) /\ Active(jobs[j])
        /\ reloads[j] = 0
    BY <1>2 DEF Exit, TypeOK, Child, ClaimsAreActive, RoutinesFit, Claims
  <2>2. /\ child' = [child EXCEPT ![j] = "none"] /\ sigterm' \subseteq sigterm
        /\ UNCHANGED <<reloads, embedVars, deleting>>
    BY <1>2 DEF Exit
  <2>3. CASE MayRetry(j)
    <3>1. Retry(j)
      BY <1>2, <2>1, <2>3 DEF Exit
    <3>2. (SingleSlot /\ ClaimsAreActive)'
      BY <2>1, <2>2, <2>3, <3>1, RetrySet
         DEF TypeOK, SingleSlot, ClaimsAreActive, Claims, Active
    <3>3. (EmbedsFit /\ LocksFit)'
      BY <2>1, <2>2, <2>3, <3>1, RetrySet
         DEF TypeOK, EmbedsFit, LocksFit, Claims, Active, RepoOf, embedVars
    <3>4. QED
      BY <3>2, <3>3
  <2>4. CASE ~MayRetry(j)
    <3>1. SetStatus(j, "failed") /\ Release(RepoOf(j)) /\ routine' = [routine EXCEPT ![j] = "none"]
      BY <1>2, <2>1, <2>4 DEF Exit, CrashedTooOften
    <3>2. QED
      BY <2>1, <2>2, <3>1, EndCalm
  <2>5. QED
    BY <2>3, <2>4
<1>3. CASE SpawnFails(j)
  <2>1. Claims(j) /\ Release(RepoOf(j)) /\ SetStatus(j, "failed") /\ sigterm' \subseteq sigterm
    BY <1>3 DEF SpawnFails, Claims
  <2>2. QED
    BY <1>3, <2>1, EndCalm DEF SpawnFails
<1>4. CASE Refork(j)
  <2>1. Active(jobs[j]) /\ Claims(j) /\ child[j] = "none" /\ reloads[j] = 0
    BY <1>4 DEF Refork, ClaimsAreActive, RoutinesFit, Claims, TypeOK
  <2>2. /\ routine' = [routine EXCEPT ![j] = "forked"] /\ child' = [child EXCEPT ![j] = "working"]
        /\ UNCHANGED <<jobs, sigterm, reloads, embedVars, deleting, locks>>
    BY <1>4, <2>1 DEF Refork
  <2>3. \A i \in JobIds : Claims(i)' <=> Claims(i)
    BY <2>1, <2>2 DEF Claims, TypeOK
  <2>4. (SingleSlot /\ ClaimsAreActive)'
    BY <2>1, <2>2 DEF TypeOK, SingleSlot, ClaimsAreActive, Claims, Active
  <2>5. (EmbedsFit /\ LocksFit)'
    BY <2>2, <2>3 DEF EmbedsFit, LocksFit, Active, RepoOf, embedVars
  <2>6. QED
    BY <2>4, <2>5
<1>5. CASE Cancel(j)
  BY <1>5 DEF Cancel, Calm
<1>6. QED
  BY <1>1, <1>2, <1>3, <1>4, <1>5

LEMMA EmbedCalm ==
    ASSUME Calm, CInv, NEW e \in EmbedIds,
           StartEmbed(e) \/ EmbedEnds(e) \/ EmbedTimesOut(e) \/ CancelEmbed(e)
    PROVE  (SingleSlot /\ ClaimsAreActive /\ EmbedsFit /\ LocksFit)'
<1> USE DEF CInv, IInv
<1>1. UNCHANGED <<jobs, workerVars, deleting>>
  BY DEF StartEmbed, EmbedEnds, EmbedTimesOut, CancelEmbed
<1>2. (SingleSlot /\ ClaimsAreActive)'
  BY <1>1 DEF workerVars, SingleSlot, ClaimsAreActive, Claims, Active
<1>3. \A j \in JobIds : /\ Claims(j)' <=> Claims(j)
                        /\ RepoOf(j)' = RepoOf(j)
  BY <1>1 DEF workerVars, Claims, RepoOf
<1>4. CASE StartEmbed(e)
  <2>1. /\ embeds[e].repo \notin locks /\ locks' = locks \cup {embeds[e].repo}
        /\ embeds' = [embeds EXCEPT ![e].status = "analyzing"]
        /\ pipelines' = [pipelines EXCEPT ![e] = @ + 1]
    BY <1>4 DEF StartEmbed, Locked
  <2>2. pipelines[e] = 0
    BY <2>1 DEF EmbedsFit, LocksFit
  <2>3. EmbedsFit'
    BY <2>1, <2>2, EmbedSet DEF EmbedsFit, TypeOK, Status, Active
  <2>4. LocksFit'
    BY <1>1, <1>3, <2>1, <2>2, EmbedSet DEF LocksFit, TypeOK, Status
  <2>5. QED
    BY <1>2, <2>3, <2>4
<1>5. CASE EmbedEnds(e)
  <2>1. /\ pipelines[e] = 1 /\ pipelines' = [pipelines EXCEPT ![e] = 0]
        /\ locks' = locks \ {embeds[e].repo}
    <3>1. pipelines[e] = 1 /\ locks' = locks \ {embeds[e].repo}
      BY <1>5 DEF EmbedEnds, EmbedUnlock, Release, EmbedsFit
    <3>2. pipelines' = [pipelines EXCEPT ![e] = 1 - 1]
      BY <1>5, <3>1 DEF EmbedEnds
    <3>3. QED
      BY <3>1, <3>2
  <2>2. PICK status \in {"complete", "failed"} :
          embeds' = IF embeds[e].status = "failed" THEN embeds
                    ELSE [embeds EXCEPT ![e].status = status]
    BY <1>5 DEF EmbedEnds
  <2>3. /\ embeds' \in [EmbedIds -> Embed] /\ ~Active(embeds'[e])
        /\ \A f \in EmbedIds : embeds'[f].repo = embeds[f].repo
        /\ \A f \in EmbedIds \ {e} : embeds'[f] = embeds[f]
    BY <2>2, EmbedSet DEF Status, Active, TypeOK
  <2>4. EmbedsFit'
    BY <2>1, <2>3 DEF EmbedsFit, TypeOK, Active
  <2>5. LocksFit'
    BY <1>1, <1>3, <2>1, <2>3 DEF LocksFit, TypeOK
  <2>6. QED
    BY <1>2, <2>4, <2>5
<1>6. CASE EmbedTimesOut(e)
  BY <1>6 DEF EmbedTimesOut, Calm
<1>7. CASE CancelEmbed(e)
  <2>1. embeds' = [embeds EXCEPT ![e].status = "failed"] /\ UNCHANGED <<pipelines, locks>>
    BY <1>7 DEF CancelEmbed
  <2>2. EmbedsFit'
    BY <2>1, EmbedSet DEF EmbedsFit, TypeOK, Status, Active
  <2>3. LocksFit'
    BY <1>1, <1>3, <2>1, EmbedSet DEF LocksFit, TypeOK, Status
  <2>4. QED
    BY <1>2, <2>2, <2>3
<1>8. QED
  BY <1>4, <1>5, <1>6, <1>7

LEMMA DeleteCalm ==
    ASSUME Calm, CInv,
           \/ \E r \in EmbedRepos : EmbedRejected(r)
           \/ \E r \in Repos : StartDelete(r) \/ EndDelete(r)
    PROVE  (SingleSlot /\ ClaimsAreActive /\ EmbedsFit /\ LocksFit)'
<1> USE DEF CInv, IInv
<1>1. ASSUME NEW r \in EmbedRepos, EmbedRejected(r)
      PROVE  FALSE
  BY <1>1 DEF EmbedRejected, OtherEmbedActive, Calm, EmbedsFit
<1>2. PICK r \in Repos : StartDelete(r) \/ EndDelete(r)
  BY <1>1
<1>3. UNCHANGED <<jobs, workerVars, embedVars>>
  BY <1>2 DEF StartDelete, EndDelete
<1>4. (SingleSlot /\ ClaimsAreActive /\ EmbedsFit)'
  BY <1>3 DEF workerVars, embedVars, SingleSlot, ClaimsAreActive, EmbedsFit, Claims, Active
<1>5. \A j \in JobIds : /\ Claims(j)' <=> Claims(j)
                        /\ RepoOf(j)' = RepoOf(j)
  BY <1>3 DEF workerVars, Claims, RepoOf
<1>6. LocksFit'
  <2>1. CASE StartDelete(r)
    BY <1>3, <1>5, <2>1 DEF StartDelete, Locked, LocksFit, embedVars
  <2>2. CASE EndDelete(r)
    BY <1>3, <1>5, <2>2 DEF EndDelete, Release, LocksFit, embedVars
  <2>3. QED
    BY <1>2, <2>1, <2>2
<1>7. QED
  BY <1>4, <1>6

LEMMA CalmInductive == Calm /\ CInv /\ [Next]_vars => CInv'
<1> SUFFICES ASSUME Calm, CInv, [Next]_vars
             PROVE  CInv'
  OBVIOUS
<1>1. IInv'
  BY Inductive DEF CInv
<1>2. CASE Next
  BY <1>1, <1>2, AnalyzeCalm, ReportCalm, ExitCalm, EmbedCalm, DeleteCalm
     DEF Next, WorkerStep, CInv
<1>3. CASE UNCHANGED vars
  BY <1>1, <1>3
     DEF vars, workerVars, embedVars, CInv, SingleSlot, ClaimsAreActive, EmbedsFit, LocksFit,
         Claims, Active, RepoOf
<1>4. QED
  BY <1>2, <1>3

LEMMA OneUserHolds == CInv => OneUser
<1> SUFFICES ASSUME CInv, NEW r \in Repos, NEW u \in Users(r), NEW v \in Users(r)
             PROVE  u = v
  BY DEF OneUser
<1> USE DEF CInv, IInv
<1>1. \A j \in JobIds : Reports(j) => Claims(j) /\ Active(jobs[j])
  BY DEF Reports, ClaimsAreActive, Claims
<1>2. \A i, j \in JobIds : Reports(i) /\ Reports(j) => i = j
  BY <1>1 DEF SingleSlot
<1>3. \A e \in EmbedIds : pipelines[e] > 0 => pipelines[e] = 1
  BY DEF EmbedsFit
<1>4. \A e, f \in EmbedIds : pipelines[e] > 0 /\ pipelines[f] > 0
                               /\ embeds[e].repo = r /\ embeds[f].repo = r => e = f
  BY <1>3 DEF LocksFit
<1>5. \A j \in JobIds : Reports(j) /\ RepoOf(j) = r =>
        r \notin deleting /\ \A e \in EmbedIds : pipelines[e] > 0 => embeds[e].repo # r
  BY <1>1, <1>3 DEF LocksFit
<1>6. \A e \in EmbedIds : pipelines[e] > 0 /\ embeds[e].repo = r => r \notin deleting
  BY <1>3 DEF LocksFit
<1>7. QED
  BY <1>2, <1>4, <1>5, <1>6 DEF Users

LEMMA LockIsOwnedHolds == CInv => LockIsOwned
<1> SUFFICES ASSUME CInv, NEW r \in locks
             PROVE  \/ Users(r) # {}
                    \/ \E j \in JobIds : /\ RepoOf(j) = r /\ Active(jobs[j])
                                         /\ routine[j] = "backoff"
  BY DEF LockIsOwned
<1> USE DEF CInv, IInv
<1>1. CASE r \in deleting
  BY <1>1 DEF Users
<1>2. CASE \E j \in JobIds : Claims(j) /\ RepoOf(j) = r
  <2>1. PICK j \in JobIds : Claims(j) /\ RepoOf(j) = r
    BY <1>2
  <2>2. CASE child[j] = "working"
    <3>1. <<"analyze", j>> \in Users(r)
      BY <2>1, <2>2 DEF Users, Reports
    <3>2. QED
      BY <3>1
  <2>3. CASE routine[j] = "backoff"
    BY <2>1, <2>3 DEF ClaimsAreActive
  <2>4. QED
    BY <2>1, <2>2, <2>3 DEF Claims
<1>3. CASE \E e \in EmbedIds : pipelines[e] = 1 /\ embeds[e].repo = r
  <2>1. PICK e \in EmbedIds : pipelines[e] = 1 /\ embeds[e].repo = r
    BY <1>3
  <2>2. <<"embed", e>> \in Users(r)
    BY <2>1 DEF Users
  <2>3. QED
    BY <2>2
<1>4. QED
  BY <1>1, <1>2, <1>3 DEF LocksFit

LEMMA CalmInvariant ==
    ASSUME Calm
    PROVE  Spec => []CInv
<1>1. CInv /\ [Next]_vars => CInv'
  BY CalmInductive
<1>2. QED
  BY CalmInitially, <1>1, PTL DEF Spec

\* As long as workers only crash, the repo lock keeps the users of a repository
\* apart, over crashes, backoff and retries.
THEOREM LockWorksWhenCalm ==
    ASSUME Calm
    PROVE  Spec => []OneUser
<1>1. QED
  BY OneUserHolds, CalmInvariant, PTL

\* Under the same condition the lock is never left behind: whoever ends a job or
\* an embedding, and however often it was retried, gives it back.
THEOREM LockNeverLeaks ==
    ASSUME Calm
    PROVE  Spec => []LockIsOwned
<1>1. QED
  BY LockIsOwnedHolds, CalmInvariant, PTL

\* Under the same condition one analysis is active at a time, as the job manager
\* reports it to every later request.
THEOREM OneAnalysisAtATime ==
    ASSUME Calm
    PROVE  Spec => []SingleSlot
<1>1. CInv => SingleSlot
  BY DEF CInv
<1>2. QED
  BY <1>1, CalmInvariant, PTL

=============================================================================
