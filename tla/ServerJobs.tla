------------------------------ MODULE ServerJobs ----------------------------
(***************************************************************************)
(* The background jobs of the HTTP server: analysis jobs, each a clone and *)
(* a forked worker with retries, embedding jobs in the server process, and *)
(* the deletion of a repository, kept apart by a lock per repository       *)
(* (server/analyze-job.ts, server/api.ts, server/analyze-worker.ts).       *)
(*                                                                         *)
(* One action is one turn of the server's event loop or one step of a      *)
(* forked worker.  A worker's message is handled in the step that sends    *)
(* it, which loses nothing but the delay: a worker listens to SIGTERM only.*)
(***************************************************************************)
EXTENDS Naturals, FiniteSets

CONSTANTS
    Repos,          \* repositories, each the key of a lock
    JobIds,         \* analysis jobs that may be created
    EmbedIds,       \* embedding jobs that may be created
    EmbedRepos,     \* repositories an embedding may be requested for
    MaxRetries,     \* MAX_WORKER_RETRIES
    MaxPipelines,   \* bound: pipelines that run at a time for one embedding job
    Disturbances    \* what may happen besides worker crashes, see below

\* "cancel": an analysis is cancelled or reaches its 30 minutes; "throw": an
\* exception escapes the analysis; "clone": cloneOrPull throws; "slow":
\* backend.init() outlasts the worker's exit; "timeout": an embedding reaches
\* its 30 minutes.
Kinds == {"cancel", "throw", "clone", "slow", "timeout"}

ASSUME JobsAssumption ==
    /\ IsFiniteSet(Repos) /\ EmbedRepos \subseteq Repos
    /\ IsFiniteSet(JobIds) /\ IsFiniteSet(EmbedIds)
    /\ MaxRetries \in Nat /\ MaxPipelines \in Nat
    /\ Disturbances \subseteq Kinds

VARIABLES
    jobs,       \* jobManager's jobs
    routine,    \* what carries a job on in the server, see Routine
    child,      \* the forked worker of a job, see Child
    sigterm,    \* jobs whose worker was sent SIGTERM and did not see it yet
    reloads,    \* calls of backend.init() a job awaits
    embeds,     \* embedJobManager's jobs
    pipelines,  \* embedding pipelines that run for a job
    deleting,   \* repositories being deleted
    locks       \* activeRepoPaths

workerVars == <<routine, child, sigterm, reloads>>
embedVars == <<embeds, pipelines>>
vars == <<jobs, workerVars, embedVars, deleting, locks>>

\* "cloning": cloneOrPull is awaited; "backoff": forkWorker's timer is set.
Routine == {"none", "cloning", "forked", "backoff"}

\* "failing": it reported an exception or SIGTERM and the analysis still runs;
\* "done": runFullAnalysis returned or threw and the outcome is reported.
Child == {"none", "working", "failing", "done"}

Status == {"free", "cloning", "analyzing", "complete", "failed"}
Job == [status : Status, repo : Repos, retries : 0..MaxRetries]
Embed == [status : Status \ {"cloning"}, repo : Repos]

Terminal(job) == job.status \in {"complete", "failed"}
Active(job) == job.status \in {"cloning", "analyzing"}

RepoOf(j) == jobs[j].repo

Init ==
    /\ jobs \in [JobIds -> {[status |-> "free", repo |-> r, retries |-> 0] : r \in Repos}]
    /\ embeds \in [EmbedIds -> {[status |-> "free", repo |-> r] : r \in EmbedRepos}]
    /\ routine = [j \in JobIds |-> "none"] /\ child = [j \in JobIds |-> "none"]
    /\ sigterm = {} /\ reloads = [j \in JobIds |-> 0]
    /\ pipelines = [e \in EmbedIds |-> 0]
    /\ deleting = {} /\ locks = {}

-----------------------------------------------------------------------------
(* POST /api/analyze *)

\* Mutant: only a job that is cloning occupies the slot.
SlotIsFreeUnlessCloning == \A j \in JobIds : jobs[j].status # "cloning"

\* createJob accepts one job at a time; a request for the active job's own
\* repository is answered with that job, and any other is rejected.
SlotIsFree == \A j \in JobIds : ~Active(jobs[j])

SetStatus(j, status) == jobs' = [jobs EXCEPT ![j].status = status]

Release(r) == locks' = locks \ {r}

Locked(r) == r \in locks

\* The rest of the request once the sources are there: lock and fork.
Launch(j) ==
    \/ /\ Locked(RepoOf(j))
       /\ SetStatus(j, "failed")
       /\ routine' = [routine EXCEPT ![j] = "none"]
       /\ UNCHANGED <<child, locks>>
    \/ /\ ~Locked(RepoOf(j))
       /\ locks' = locks \cup {RepoOf(j)}
       /\ SetStatus(j, "analyzing")
       /\ routine' = [routine EXCEPT ![j] = "forked"]
       /\ child' = [child EXCEPT ![j] = "working"]

\* A local path is analysed where it is, in the same turn.
AnalyzePath(j) ==
    /\ jobs[j].status = "free" /\ SlotIsFree
    /\ Launch(j)
    /\ UNCHANGED <<sigterm, reloads, embedVars, deleting>>

\* A URL without the name of a repository fails the job in the same turn.
AnalyzeUrl(j) ==
    /\ jobs[j].status = "free" /\ SlotIsFree
    /\ \/ SetStatus(j, "cloning") /\ routine' = [routine EXCEPT ![j] = "cloning"]
       \/ SetStatus(j, "failed") /\ UNCHANGED routine
    /\ UNCHANGED <<child, sigterm, reloads, embedVars, deleting, locks>>

\* Nobody asks whether the job was cancelled meanwhile.
Cloned(j) ==
    /\ routine[j] = "cloning"
    /\ Launch(j)
    /\ UNCHANGED <<sigterm, reloads, embedVars, deleting>>

\* git fails, or the URL is refused: the handler of the exception releases a
\* lock this job does not have yet.
CloneFails(j) ==
    /\ "clone" \in Disturbances /\ routine[j] = "cloning"
    /\ Release(RepoOf(j))
    /\ SetStatus(j, "failed")
    /\ routine' = [routine EXCEPT ![j] = "none"]
    /\ UNCHANGED <<child, sigterm, reloads, embedVars, deleting>>

-----------------------------------------------------------------------------
(* The worker and the handlers of its messages *)

Reports(j) == child[j] \in {"working", "failing"}

\* 'progress' sets the status, too.
Progress(j) ==
    /\ Reports(j)
    /\ SetStatus(j, "analyzing")
    /\ UNCHANGED <<workerVars, embedVars, deleting, locks>>

\* 'complete': the status follows when the backend is reinitialised.
Complete(j) ==
    /\ Reports(j)
    /\ child' = [child EXCEPT ![j] = "done"]
    /\ Release(RepoOf(j))
    /\ reloads' = [reloads EXCEPT ![j] = @ + 1]
    /\ UNCHANGED <<jobs, routine, sigterm, embedVars, deleting>>

Reloaded(j) ==
    /\ reloads[j] > 0
    /\ reloads' = [reloads EXCEPT ![j] = @ - 1]
    /\ \/ SetStatus(j, "complete")
       \/ SetStatus(j, "failed")
    /\ UNCHANGED <<routine, child, sigterm, embedVars, deleting, locks>>

\* 'error' of a worker that is in `next` afterwards.
Error(j, next) ==
    /\ child' = [child EXCEPT ![j] = next]
    /\ Release(RepoOf(j))
    /\ SetStatus(j, "failed")
    /\ UNCHANGED <<routine, reloads, embedVars, deleting>>

\* The analysis failed.
AnalysisFails(j) ==
    /\ Reports(j)
    /\ Error(j, "done") /\ UNCHANGED sigterm

\* An exception that nobody caught: the worker reports it and ends a little
\* later, and the analysis goes on until then.
Uncaught(j) ==
    /\ "throw" \in Disturbances /\ Reports(j)
    /\ Error(j, "failing") /\ UNCHANGED sigterm

\* SIGTERM is reported, too; then the worker closes the database and ends.
SeesSigterm(j) ==
    /\ j \in sigterm
    /\ Error(j, IF child[j] = "done" THEN "done" ELSE "failing")
    /\ sigterm' = sigterm \ {j}

\* Mutant: the last crash leaves the job as it is.
CrashedTooOftenSilently(j) ==
    /\ Release(RepoOf(j))
    /\ UNCHANGED jobs
    /\ routine' = [routine EXCEPT ![j] = "none"]

CrashedTooOften(j) ==
    /\ Release(RepoOf(j))
    /\ SetStatus(j, "failed")
    /\ routine' = [routine EXCEPT ![j] = "none"]

\* Mutant: the repository is unlocked until the retry.
RetryUnlocked(j) ==
    /\ jobs' = [jobs EXCEPT ![j].status = "analyzing", ![j].retries = @ + 1]
    /\ routine' = [routine EXCEPT ![j] = "backoff"]
    /\ Release(RepoOf(j))

Retry(j) ==
    /\ jobs' = [jobs EXCEPT ![j].status = "analyzing", ![j].retries = @ + 1]
    /\ routine' = [routine EXCEPT ![j] = "backoff"]
    /\ UNCHANGED locks

\* Mutant: one retry too many.
MayRetryLate(j) == jobs[j].retries <= MaxRetries

MayRetry(j) == jobs[j].retries < MaxRetries

\* The worker is gone, by itself or crashed.  Half a second passes between its
\* last report and its end.
Exit(j) ==
    /\ child[j] # "none"
    /\ child[j] = "done" /\ reloads[j] > 0 => "slow" \in Disturbances
    /\ child' = [child EXCEPT ![j] = "none"]
    /\ sigterm' = sigterm \ {j}
    /\ \/ /\ ~Active(jobs[j])
          /\ routine' = [routine EXCEPT ![j] = "none"]
          /\ UNCHANGED <<jobs, locks>>
       \/ /\ Active(jobs[j]) /\ MayRetry(j)
          /\ Retry(j)
       \/ /\ Active(jobs[j]) /\ ~MayRetry(j)
          /\ CrashedTooOften(j)
    /\ UNCHANGED <<reloads, embedVars, deleting>>

\* The child process could not be started, which is no exit.
SpawnFails(j) ==
    /\ child[j] = "working"
    /\ child' = [child EXCEPT ![j] = "none"]
    /\ Release(RepoOf(j))
    /\ SetStatus(j, "failed")
    /\ routine' = [routine EXCEPT ![j] = "none"]
    /\ sigterm' = sigterm \ {j}
    /\ UNCHANGED <<reloads, embedVars, deleting>>

\* forkWorker by its timer.  It does not take the lock again.
Refork(j) ==
    /\ routine[j] = "backoff"
    /\ IF Active(jobs[j])
       THEN /\ routine' = [routine EXCEPT ![j] = "forked"]
            /\ child' = [child EXCEPT ![j] = "working"]
       ELSE /\ routine' = [routine EXCEPT ![j] = "none"]
            /\ UNCHANGED child
    /\ UNCHANGED <<jobs, sigterm, reloads, embedVars, deleting, locks>>

\* cancelJob, by the user or the 30-minute timer.
Cancel(j) ==
    /\ "cancel" \in Disturbances /\ Active(jobs[j])
    /\ sigterm' = IF child[j] # "none" THEN sigterm \cup {j} ELSE sigterm
    /\ SetStatus(j, "failed")
    /\ UNCHANGED <<routine, child, reloads, embedVars, deleting, locks>>

-----------------------------------------------------------------------------
(* POST and DELETE /api/embed, DELETE /api/repo *)

OtherEmbedActive(r) == \E e \in EmbedIds : Active(embeds[e]) /\ embeds[e].repo # r

\* A new embedding job, or one more pipeline for the job that is active.
StartEmbed(e) ==
    /\ LET r == embeds[e].repo
       IN /\ ~Locked(r) /\ ~OtherEmbedActive(r)
          /\ \/ embeds[e].status = "free"
                  /\ \A f \in EmbedIds : ~Active(embeds[f])
             \/ Active(embeds[e]) /\ pipelines[e] < MaxPipelines
          /\ locks' = locks \cup {r}
    /\ embeds' = [embeds EXCEPT ![e].status = "analyzing"]
    /\ pipelines' = [pipelines EXCEPT ![e] = @ + 1]
    /\ UNCHANGED <<jobs, workerVars, deleting>>

\* createJob throws after the lock was taken.
EmbedRejected(r) ==
    /\ ~Locked(r) /\ OtherEmbedActive(r)
    /\ locks' = locks \cup {r}
    /\ UNCHANGED <<jobs, workerVars, embedVars, deleting>>

\* Mutant: the job ends and the lock stays.
EmbedUnlockForgotten(e) == UNCHANGED locks

EmbedUnlock(e) == Release(embeds[e].repo)

\* The pipeline returns or throws; a job that failed meanwhile stays failed.
EmbedEnds(e) ==
    /\ pipelines[e] > 0
    /\ pipelines' = [pipelines EXCEPT ![e] = @ - 1]
    /\ EmbedUnlock(e)
    /\ \E status \in {"complete", "failed"} :
         embeds' = IF embeds[e].status = "failed" THEN embeds
                   ELSE [embeds EXCEPT ![e].status = status]
    /\ UNCHANGED <<jobs, workerVars, deleting>>

\* The pipeline is not told and runs on without the lock.
EmbedTimesOut(e) ==
    /\ "timeout" \in Disturbances
    /\ pipelines[e] > 0 /\ Active(embeds[e])
    /\ EmbedUnlock(e)
    /\ embeds' = [embeds EXCEPT ![e].status = "failed"]
    /\ UNCHANGED <<jobs, workerVars, pipelines, deleting>>

\* The pipeline runs on and has the lock until it ends.
CancelEmbed(e) ==
    /\ Active(embeds[e])
    /\ embeds' = [embeds EXCEPT ![e].status = "failed"]
    /\ UNCHANGED <<jobs, workerVars, pipelines, deleting, locks>>

\* One deletion of a repository at a time.
StartDelete(r) ==
    /\ ~Locked(r) /\ r \notin deleting
    /\ locks' = locks \cup {r}
    /\ deleting' = deleting \cup {r}
    /\ UNCHANGED <<jobs, workerVars, embedVars>>

EndDelete(r) ==
    /\ r \in deleting
    /\ deleting' = deleting \ {r}
    /\ Release(r)
    /\ UNCHANGED <<jobs, workerVars, embedVars>>

-----------------------------------------------------------------------------

WorkerStep(j) ==
    \/ Progress(j) \/ Complete(j) \/ AnalysisFails(j) \/ Uncaught(j) \/ SeesSigterm(j)
    \/ Exit(j) \/ SpawnFails(j)

Next ==
    \/ \E j \in JobIds :
         \/ AnalyzePath(j) \/ AnalyzeUrl(j) \/ Cloned(j) \/ CloneFails(j)
         \/ WorkerStep(j) \/ Reloaded(j) \/ Refork(j) \/ Cancel(j)
    \/ \E e \in EmbedIds : StartEmbed(e) \/ EmbedEnds(e) \/ EmbedTimesOut(e) \/ CancelEmbed(e)
    \/ \E r \in EmbedRepos : EmbedRejected(r)
    \/ \E r \in Repos : StartDelete(r) \/ EndDelete(r)

Spec == Init /\ [][Next]_vars

\* git ends, timers fire, backend.init() settles, and a worker ends: it has 30
\* minutes before SIGTERM, and half a second once it has reported.
Fairness ==
    \A j \in JobIds :
        /\ WF_vars(Cloned(j) \/ CloneFails(j)) /\ WF_vars(Exit(j))
        /\ WF_vars(Reloaded(j)) /\ WF_vars(Refork(j))

FairSpec == Spec /\ Fairness

-----------------------------------------------------------------------------
(* Properties *)

TypeOK ==
    /\ jobs \in [JobIds -> Job]
    /\ routine \in [JobIds -> Routine] /\ child \in [JobIds -> Child]
    /\ sigterm \in SUBSET JobIds /\ reloads \in [JobIds -> Nat]
    /\ embeds \in [EmbedIds -> Embed] /\ pipelines \in [EmbedIds -> Nat]
    /\ deleting \in SUBSET Repos /\ locks \in SUBSET Repos

\* Who has the database files of a repository in use.
Users(r) ==
    {<<"analyze", j>> : j \in {j \in JobIds : Reports(j) /\ RepoOf(j) = r}}
    \cup {<<"embed", e>> : e \in {e \in EmbedIds : pipelines[e] > 0 /\ embeds[e].repo = r}}
    \cup {<<"delete", d>> : d \in deleting \cap {r}}

\* The repo lock keeps analyses, embeddings and deletions of a repository apart,
\* over crashes and retries of the worker.
OneUser == \A r \in Repos : \A u, v \in Users(r) : u = v

\* A repository is locked only on behalf of a job or a deletion that will
\* unlock it: it does not stay locked for ever.
LockIsOwned ==
    \A r \in locks :
        \/ Users(r) # {}
        \/ \E j \in JobIds : RepoOf(j) = r /\ Active(jobs[j]) /\ routine[j] = "backoff"

\* One active analysis at a time.
SingleSlot == \A i, j \in JobIds : Active(jobs[i]) /\ Active(jobs[j]) => i = j

\* An active job always has somebody that will carry it on.
JobIsCarried ==
    \A j \in JobIds : Active(jobs[j]) => routine[j] # "none"

\* Every job ends, whatever reopens it, and so does its worker.
JobsEnd ==
    \A j \in JobIds : <>[](~Active(jobs[j]) /\ child[j] = "none" /\ routine[j] = "none")

=============================================================================
