-------------------------- MODULE JobSystemClaims ---------------------------
(***************************************************************************)
(* What comments and documents of the repository say of the job system and *)
(* its code does not do.  Each claim is refuted by a run of its own.       *)
(***************************************************************************)
EXTENDS JobSystem

\* Push sequences collapse "into a single snapshot of the latest commit"
\* (architecture/03-job-system.md): the push a branch has committed last has a job
\* that builds, or has built, its commit.
LatestPushHasJob ==
    \A b \in Branches :
        latest[b] # Null =>
            \E j \in Jobs : jobs[j].branch = b /\ jobs[j].commit = CommitOf[latest[b]]

\* "duplicate delivery, no-op" (job.go): a delivery that was handled before and
\* comes again under the same delivery id changes no job.
DuplicateDeliveryIsNoOp ==
    [][\A h \in Handlers :
          /\ push[h].pc = "checked"
          /\ push'[h] # push[h]
          /\ push[h].delivery \in {applied[i] : i \in DOMAIN applied} \ Anonymous
          => UNCHANGED jobs]_vars

\* "ON CONFLICT (repo_id, branch, commit_sha) DO NOTHING" on the snapshot insert
\* (architecture/05-authentication.md): a running job whose execution reports
\* success succeeds, even if its commit has a snapshot already.
RepeatedSnapshotSucceeds ==
    [][\A w \in Workers :
          /\ exec[w].pc = "succeeding"
          /\ exec'[w].pc = "idle"
          /\ jobs[exec[w].job].status = "running"
          => jobs'[exec[w].job].status = "succeeded"]_vars

\* "the watchdog will catch orphaned jobs" (job.go, on a failed enqueue): a queued
\* job does not stay queued forever.
OrphansAreCaught == \A j \in Jobs : jobs[j].status = "queued" ~> jobs[j].status # "queued"
=============================================================================
