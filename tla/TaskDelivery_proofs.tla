------------------------ MODULE TaskDelivery_proofs -------------------------
(***************************************************************************)
(* Proofs about TaskDelivery: it implements JobSystem, so that what is     *)
(* proved of JobSystem holds of it; and in a sound rotation of the signing *)
(* key no token is refused before it expires.                              *)
(***************************************************************************)
EXTENDS TaskDelivery, JobSystem_proofs

\* Every step of TaskDelivery is a step of JobSystem or leaves its variables alone:
\* a refused request counts as a lost one, one that is cut off as a dead worker.
LEMMA StepRefines == ASSUME [DeliveryNext]_allVars PROVE [Next]_vars
<1> USE DeliveryAssumption
<1>1. CASE Deploy \/ Retire
    BY <1>1 DEF Deploy, Retire
<1>2. CASE Intake
    BY <1>2 DEF Intake, Next, IntakeStep, IntakeNext
<1>3. ASSUME NEW h \in Handlers, SignAndEnqueue(h) PROVE Next
    BY <1>3 DEF SignAndEnqueue, Next, IntakeStep, IntakeNext
<1>4. ASSUME NEW j \in Jobs, RunUnauthorized(j) PROVE Next
    <2>1. DeliverFails(j)
        BY <1>4 DEF RunUnauthorized, DeliverFails, execVars
    <2> QED
        BY <1>4, <2>1 DEF RunUnauthorized, Next, ExecStep, ExecNext
<1>5. ASSUME NEW j \in Jobs, NEW w \in Workers, RunAuthorized(w, j) PROVE Next
    BY <1>5 DEF RunAuthorized, Next, ExecStep, ExecNext
<1>6. ASSUME NEW w \in Workers, ExecutionStep(w) PROVE Next
    <2>1. UNCHANGED intakeVars
        BY <1>6 DEF ExecutionStep, StartAuthorized, StartUnauthorized, Work, CompleteAuthorized,
            CompleteUnauthorized, CutOff, Killed, RequestEnds
    <2>2. WorkerStep(w)
        <3>1. CASE StartAuthorized(w) \/ Work(w) \/ CompleteAuthorized(w) \/ CutOff(w) \/ Killed(w)
            BY <3>1 DEF StartAuthorized, Work, CompleteAuthorized, CutOff, Killed, WorkerStep
        <3>2. CASE StartUnauthorized(w)
            BY <3>2 DEF StartUnauthorized, CallStartFails, WorkerStep
        <3>3. CASE CompleteUnauthorized(w)
            BY <3>3 DEF CompleteUnauthorized, CallComplete, WorkerStep
        <3> QED
            BY <1>6, <3>1, <3>2, <3>3 DEF ExecutionStep
    <2> QED
        BY <2>1, <2>2 DEF Next, ExecStep, ExecNext
<1>7. CASE Watchdog
    BY <1>7 DEF Watchdog, Next, ExecStep, ExecNext
<1>8. CASE Elapse
    BY <1>8 DEF Elapse, Next, ExecStep, ExecNext, vars, execVars, intakeVars
<1>9. CASE UNCHANGED allVars
    BY <1>9 DEF allVars
<1> QED
    BY <1>1, <1>2, <1>3, <1>4, <1>5, <1>6, <1>7, <1>8, <1>9 DEF DeliveryNext, TaskStep

\* With tokens, deployments and timeouts the system is still a JobSystem.
THEOREM JobSystemImplemented == DeliverySpec => ImplementsJobSystem
<1>1. DeliveryInit => Init
    BY DEF DeliveryInit
<1> QED
    BY <1>1, StepRefines, PTL DEF DeliverySpec, ImplementsJobSystem, Spec

-----------------------------------------------------------------------------
(* The invariant.  TokensHonoured is not inductive: that a token is        *)
(* accepted depends on which deployment signed it, and when.               *)

\* A rollout begins only when the last one has settled.
Rollout ==
    /\ plan \in Plans
    /\ stage \in 1 .. Len(plan)
    /\ rolling \in BOOLEAN
    /\ since \in 0 .. Settle
    /\ rolling => stage < Len(plan) /\ since = Settle

Tokens ==
    /\ token \in [Jobs -> Token \cup {NoToken}]
    /\ \A j \in Jobs : attempts[j] > 0 => token[j] \in Token

Requests ==
    /\ signer \in [Workers -> Signer \cup {NoSigner}]
    /\ \A w \in Workers : exec[w].pc # "idle" => signer[w] \in Signer
    /\ ran \in [Workers -> 0 .. RequestTimeout]
    /\ kills \in 0 .. MaxKills

\* No task waits longer than it should.
Waits ==
    /\ waited \in [Jobs -> 0 .. Backlog + Backoff]
    /\ \A j \in Jobs : attempts[j] > 0 /\ ~BeingExecuted(j) =>
           waited[j] <= IF attempts[j] = MaxAttempts THEN Backlog ELSE Backoff

\* Instances of deployment n may have signed something of that age: it serves, or it
\* was the last one to be replaced and this was before.
Signs(n, age) ==
    /\ n \in 1 .. Len(plan)
    /\ \/ n = stage
       \/ rolling /\ n = stage + 1
       \/ ~rolling /\ n + 1 = stage /\ since <= age

TokensRecent ==
    \A j \in Jobs : attempts[j] > 0 /\ ~Expired(token[j]) =>
        \E n \in 1 .. Len(plan) : Signs(n, token[j].age) /\ token[j].key = plan[n]["api"].key

SignersRecent ==
    \A w \in Workers : exec[w].pc # "idle" =>
        \E n \in 1 .. Len(plan) : Signs(n, ran[w]) /\ signer[w] = plan[n]["worker"]

DeliveryInv == Rollout /\ Tokens /\ Requests /\ Waits /\ (Sound => TokensRecent /\ SignersRecent)

\* The deployments of a plan are pairs of signers.
LEMMA PlanTyped ==
    ASSUME Rollout
    PROVE  /\ Len(plan) \in Nat \ {0}
           /\ \A n \in 1 .. Len(plan), s \in Services : plan[n][s] \in Signer
<1>1. plan \in Seq([Services -> Signer]) /\ Len(plan) > 0
    BY DeliveryAssumption DEF Rollout
<1>2. \A n \in 1 .. Len(plan) : plan[n] \in [Services -> Signer]
    BY <1>1
<1> QED
    BY <1>1, <1>2

\* The initial state satisfies the invariant.
LEMMA DeliveryInvInit == DeliveryInit => DeliveryInv
<1> SUFFICES ASSUME DeliveryInit PROVE DeliveryInv
    OBVIOUS
<1>1. Rollout
    <2>1. plan \in Seq([Services -> Signer]) /\ Len(plan) > 0 /\ Settle \in Nat
        BY DeliveryAssumption DEF DeliveryInit
    <2>2. 1 \in 1 .. Len(plan) /\ Settle \in 0 .. Settle
        BY <2>1
    <2> QED
        BY <2>2 DEF DeliveryInit, Rollout
<1>2. \A j \in Jobs : attempts[j] = 0
    BY DEF DeliveryInit, Init, DispatchInit
<1>3. \A w \in Workers : exec[w].pc = "idle"
    BY DEF DeliveryInit, Init, ExecInit, IdleSlot
<1>4. Tokens
    BY <1>2 DEF DeliveryInit, Tokens
<1>6. 0 \in 0 .. RequestTimeout /\ 0 \in 0 .. MaxKills /\ 0 \in 0 .. Backlog + Backoff
    BY DeliveryAssumption
<1>7. Requests
    BY <1>3, <1>6 DEF DeliveryInit, Requests
<1>8. Waits
    BY <1>2, <1>6 DEF DeliveryInit, Waits
<1>5. TokensRecent /\ SignersRecent
    BY <1>2, <1>3 DEF TokensRecent, SignersRecent
<1> QED
    BY <1>1, <1>4, <1>5, <1>7, <1>8 DEF DeliveryInv

\* A step of an execution leaves the other slots alone; it goes on with its request
\* or ends it.  Unless the task is deleted it has the attempts it had.
LEMMA ExecutionFrame ==
    ASSUME TypeInv, NEW w \in Workers, ExecutionStep(w)
    PROVE  /\ exec[w].pc # "idle"
           /\ \A v \in Workers \ {w} : exec'[v] = exec[v]
           /\ \A j \in Jobs : attempts'[j] > 0 => attempts'[j] = attempts[j]
           /\ UNCHANGED rolloutVars
           /\ \/ /\ exec'[w].pc # "idle"
                 /\ exec'[w].job = exec[w].job
                 /\ UNCHANGED <<taskVars, runVars>>
              \/ /\ exec'[w].pc = "idle"
                 /\ RequestEnds(w)
                 /\ kills' = kills \/ (kills < MaxKills /\ kills' = kills + 1)
<1>1. exec \in [Workers -> Exec] /\ attempts \in [Jobs -> 0 .. MaxAttempts]
    BY DEF TypeInv, TypeOK, ExecTypeOK, DispatchTypeOK
<1>2. CASE StartAuthorized(w)
    <2>1. CASE CallStart(w)
        BY <1>1, <1>2, <2>1 DEF StartAuthorized, CallStart, Exec
    <2>2. CASE CallStartFails(w)
        BY <1>1, <1>2, <2>2 DEF StartAuthorized, CallStartFails, Goto, Exec
    <2> QED
        BY <1>2, <2>1, <2>2 DEF StartAuthorized
<1>3. CASE StartUnauthorized(w)
    BY <1>1, <1>3 DEF StartUnauthorized, Goto, Exec
<1>4. CASE Work(w)
    BY <1>1, <1>4 DEF Work, RunAndUpload, RunFails, Goto, Exec
<1>5. CASE CompleteAuthorized(w) \/ CompleteUnauthorized(w)
    <2>1. /\ exec[w].pc \in {"succeeding", "failing"}
          /\ Free(w)
          /\ Answer(exec[w].job)
          /\ RequestEnds(w)
          /\ UNCHANGED kills
        BY <1>5 DEF CompleteAuthorized, CompleteUnauthorized, CallComplete, Report
    <2> QED
        BY <1>1, <2>1 DEF Free, IdleSlot, Answer, RequestEnds
<1>6. CASE CutOff(w) \/ Killed(w)
    <2>1. /\ WorkerDies(w)
          /\ RequestEnds(w)
          /\ kills' = kills \/ (kills < MaxKills /\ kills' = kills + 1)
        BY <1>6 DEF CutOff, Killed
    <2> QED
        BY <1>1, <2>1 DEF WorkerDies, Free, IdleSlot, RequestEnds
<1> QED
    BY <1>2, <1>3, <1>4, <1>5, <1>6 DEF ExecutionStep

\* A signer in use is that of a deployment that serves.
LEMMA ServingSigns ==
    ASSUME Rollout, NEW service \in Services, NEW s \in Serving(service)
    PROVE  /\ s \in Signer
           /\ \E n \in 1 .. Len(plan) :
                 s = plan[n][service] /\ (n = stage \/ (rolling /\ n = stage + 1))
BY PlanTyped DEF Serving, Rollout

\* A token is accepted with either key until it expires.
LEMMA AcceptedToken ==
    ASSUME NEW s \in Signer, NEW t \in Token, t.key \in {s.key, s.prev}, ~Expired(t)
    PROVE  Authorized(s, t)
<1>1. t.key # NoKey
    BY TokenAssumption DEF Token
<1>2. CASE t.key = s.key
    BY <1>2 DEF Authorized, Validate, ValidateWith
<1>3. CASE t.key # s.key /\ t.key = s.prev
    BY <1>1, <1>3 DEF Authorized, Validate, ValidateWith
<1> QED
    BY <1>2, <1>3

\* What was signed in a deployment as recent as Signs demands is accepted by those
\* that serve, if the rotation is sound.
LEMMA RecentAccepted ==
    ASSUME Rollout, Sound, NEW n \in 1 .. Len(plan), NEW age, Signs(n, age)
    PROVE  /\ \A s \in Serving("worker") : s \in Signer /\ plan[n]["api"].key \in {s.key, s.prev}
           /\ \A s \in Serving("api") : s \in Signer /\ plan[n]["worker"].key \in {s.key, s.prev}
<1>1. Len(plan) \in Nat /\ stage \in 1 .. Len(plan) /\ DOMAIN plan = 1 .. Len(plan)
    BY DeliveryAssumption DEF Rollout
<1>2. ASSUME NEW m \in 1 .. Len(plan), m = stage \/ (rolling /\ m = stage + 1)
      PROVE  n <= m + 1 /\ m <= n + 1
    BY <1>1, <1>2 DEF Signs
<1>3. ASSUME NEW s \in Serving("worker")
      PROVE  s \in Signer /\ plan[n]["api"].key \in {s.key, s.prev}
    <2>1. PICK m \in 1 .. Len(plan) : s = plan[m]["worker"] /\ (m = stage \/ (rolling /\ m = stage + 1))
        BY <1>3, ServingSigns DEF Services
    <2>2. Accepts(plan[m]["worker"], plan[n]["api"])
        BY <1>1, <1>2, <2>1 DEF Sound
    <2> QED
        BY <1>3, <2>1, <2>2, ServingSigns DEF Services, Accepts
<1>4. ASSUME NEW s \in Serving("api")
      PROVE  s \in Signer /\ plan[n]["worker"].key \in {s.key, s.prev}
    <2>1. PICK m \in 1 .. Len(plan) : s = plan[m]["api"] /\ (m = stage \/ (rolling /\ m = stage + 1))
        BY <1>4, ServingSigns DEF Services
    <2>2. Accepts(plan[m]["api"], plan[n]["worker"])
        BY <1>1, <1>2, <2>1 DEF Sound
    <2> QED
        BY <1>4, <2>1, <2>2, ServingSigns DEF Services, Accepts
<1> QED
    BY <1>3, <1>4

\* The invariant is enough for TokensHonoured.
LEMMA DeliveryInvHonours == DeliveryInv => TokensHonoured
<1> SUFFICES ASSUME DeliveryInv, Sound
             PROVE  /\ \A j \in Jobs : attempts[j] > 0 /\ ~Expired(token[j]) =>
                           \A s \in Serving("worker") : Authorized(s, token[j])
                    /\ \A w \in Workers : exec[w].pc # "idle" =>
                           \A s \in Serving("api") : Authorized(s, Sign(signer[w]))
    BY DEF TokensHonoured
<1>1. Rollout /\ Tokens /\ Requests /\ TokensRecent /\ SignersRecent
    BY DEF DeliveryInv
<1>2. ASSUME NEW j \in Jobs, attempts[j] > 0, ~Expired(token[j]), NEW s \in Serving("worker")
      PROVE  Authorized(s, token[j])
    <2>1. PICK n \in 1 .. Len(plan) : Signs(n, token[j].age) /\ token[j].key = plan[n]["api"].key
        BY <1>1, <1>2 DEF TokensRecent
    <2>2. token[j] \in Token
        BY <1>1, <1>2 DEF Tokens
    <2>3. s \in Signer /\ token[j].key \in {s.key, s.prev}
        BY <1>1, <1>2, <2>1, RecentAccepted
    <2> QED
        BY <1>2, <2>2, <2>3, AcceptedToken
<1>3. ASSUME NEW w \in Workers, exec[w].pc # "idle", NEW s \in Serving("api")
      PROVE  Authorized(s, Sign(signer[w]))
    <2>1. PICK n \in 1 .. Len(plan) : Signs(n, ran[w]) /\ signer[w] = plan[n]["worker"]
        BY <1>1, <1>3 DEF SignersRecent
    <2>2. Sign(signer[w]) \in Token /\ Sign(signer[w]).key = signer[w].key /\ ~Expired(Sign(signer[w]))
        BY <1>1, <1>3, TokenAssumption DEF Requests, Sign, Token, Signer, Expired
    <2>3. s \in Signer /\ signer[w].key \in {s.key, s.prev}
        BY <1>1, <1>3, <2>1, RecentAccepted
    <2> QED
        BY <1>3, <2>2, <2>3, AcceptedToken
<1> QED
    BY <1>2, <1>3

-----------------------------------------------------------------------------
(* The steps preserve the invariant.                                       *)

\* Steps of the intake, of the watchdog and stuttering ones.
LEMMA QuietKeeps ==
    ASSUME DeliveryInv, UNCHANGED <<attempts, exec, rolloutVars, taskVars, runVars>>
    PROVE  DeliveryInv'
BY DEF DeliveryInv, Rollout, Tokens, Requests, Waits, BeingExecuted, Sound, TokensRecent,
    SignersRecent, Signs, rolloutVars, taskVars, runVars

\* A rollout begins when what was signed in the last but one deployment has expired.
LEMMA DeployKeeps == ASSUME DeliveryInv, Deploy PROVE DeliveryInv'
<1>1. UNCHANGED <<attempts, exec, plan, stage, since, taskVars, runVars>>
    BY DEF Deploy, vars
<1>2. Rollout'
    BY <1>1 DEF Deploy, DeliveryInv, Rollout
<1>3. Tokens' /\ Requests' /\ Waits'
    BY <1>1 DEF DeliveryInv, Tokens, Requests, Waits, BeingExecuted, taskVars, runVars
<1>4. ASSUME Sound' PROVE TokensRecent' /\ SignersRecent'
    <2>0. Settle \in Nat /\ RequestTimeout \in Nat /\ TTL \in Nat
        BY DeliveryAssumption, TokenAssumption
    <2>5. Sound
        BY <1>1, <1>4 DEF Sound
    <2>1. /\ TokensRecent /\ SignersRecent
          /\ since > TTL /\ RequestTimeout <= TTL
        BY <2>5 DEF DeliveryInv, Sound, Deploy
    <2>2. ASSUME NEW n \in 1 .. Len(plan), NEW age \in 0 .. TTL, Signs(n, age) PROVE Signs(n, age)'
        BY <1>1, <2>0, <2>1, <2>2 DEF Signs, Deploy
    <2>3. TokensRecent'
        <3>1. \A j \in Jobs : attempts[j] > 0 /\ ~Expired(token[j]) => token[j].age \in 0 .. TTL
            BY <2>0 DEF DeliveryInv, Tokens, Token, Expired
        <3> QED
            BY <1>1, <2>1, <2>2, <3>1 DEF TokensRecent, taskVars
    <2>4. SignersRecent'
        <3>1. \A w \in Workers : ran[w] \in 0 .. TTL
            BY <2>0, <2>1 DEF DeliveryInv, Requests
        <3> QED
            BY <1>1, <2>1, <2>2, <3>1 DEF SignersRecent, runVars
    <2> QED
        BY <2>3, <2>4
<1> QED
    BY <1>2, <1>3, <1>4 DEF DeliveryInv

\* When it is complete, what the old instances signed has any age.
LEMMA RetireKeeps == ASSUME DeliveryInv, Retire PROVE DeliveryInv'
<1>1. UNCHANGED <<attempts, exec, plan, taskVars, runVars>> /\ stage \in 1 .. Len(plan)
    BY DEF Retire, vars, DeliveryInv, Rollout
<1>2. Rollout'
    <2>1. Len(plan) \in Nat /\ Settle \in Nat /\ stage < Len(plan)
        BY PlanTyped, DeliveryAssumption DEF Retire, DeliveryInv, Rollout
    <2>2. stage + 1 \in 1 .. Len(plan) /\ 0 \in 0 .. Settle
        BY <1>1, <2>1
    <2> QED
        BY <1>1, <2>2 DEF Retire, DeliveryInv, Rollout
<1>3. Tokens' /\ Requests' /\ Waits'
    BY <1>1 DEF DeliveryInv, Tokens, Requests, Waits, BeingExecuted, taskVars, runVars
<1>4. ASSUME Sound' PROVE TokensRecent' /\ SignersRecent'
    <2>1. Sound /\ TokensRecent /\ SignersRecent
        BY <1>1, <1>4 DEF DeliveryInv, Sound
    <2>2. ASSUME NEW n \in 1 .. Len(plan), NEW age \in Nat, Signs(n, age) PROVE Signs(n, age)'
        BY <1>1, <2>2 DEF Signs, Retire
    <2>3. TokensRecent'
        <3>1. \A j \in Jobs : attempts[j] > 0 => token[j].age \in Nat
            BY DEF DeliveryInv, Tokens, Token
        <3> QED
            BY <1>1, <2>1, <2>2, <3>1 DEF TokensRecent, taskVars
    <2>4. SignersRecent'
        <3>1. \A w \in Workers : ran[w] \in Nat
            BY DEF DeliveryInv, Requests
        <3> QED
            BY <1>1, <2>1, <2>2, <3>1 DEF SignersRecent, runVars
    <2> QED
        BY <2>3, <2>4
<1> QED
    BY <1>2, <1>3, <1>4 DEF DeliveryInv

\* A new task gets a token that is signed now.
LEMMA EnqueueKeeps ==
    ASSUME TypeInv, DeliveryInv, NEW h \in Handlers, SignAndEnqueue(h)
    PROVE  DeliveryInv'
<1> DEFINE j == push[h].job
<1>1. /\ UNCHANGED <<exec, rolloutVars, runVars>>
      /\ \A k \in Jobs \ {j} : attempts'[k] = attempts[k]
      /\ j \in Jobs
    BY DEF SignAndEnqueue, PushEnqueue, Enqueue, execVars, TypeInv, TypeOK, DispatchTypeOK,
        IntakeTypeOK, PushTypeOK
<1>2. PICK s \in Serving("api") : token' = [token EXCEPT ![j] = Sign(s)]
    BY DEF SignAndEnqueue
<1>3. Rollout /\ Rollout'
    BY <1>1 DEF DeliveryInv, Rollout, rolloutVars
<1>4. PICK n \in 1 .. Len(plan) : s = plan[n]["api"] /\ (n = stage \/ (rolling /\ n = stage + 1))
    BY <1>3, ServingSigns DEF Services
<1>5. Sign(s) \in Token /\ Sign(s).age = 0 /\ Sign(s).key = s.key
    BY <1>3, ServingSigns, TokenAssumption DEF Services, Sign, Token, Signer
<1>6. /\ token'[j] = Sign(s)
      /\ \A k \in Jobs \ {j} : token'[k] = token[k]
    BY <1>1, <1>2 DEF DeliveryInv, Tokens
<1> HIDE DEF j
<1>7. Tokens'
    BY <1>1, <1>2, <1>5, <1>6 DEF DeliveryInv, Tokens
<1>8. Requests'
    BY <1>1 DEF DeliveryInv, Requests, runVars
<1>9. Waits'
    <2>1. waited' = [waited EXCEPT ![j] = 0]
        BY DEF SignAndEnqueue, j
    <2> QED
        BY <1>1, <2>1, DeliveryAssumption DEF DeliveryInv, Waits, BeingExecuted
<1>10. ASSUME Sound' PROVE TokensRecent' /\ SignersRecent'
    <2>1. TokensRecent /\ SignersRecent
        BY <1>1, <1>10 DEF DeliveryInv, Sound, rolloutVars
    <2>2. \A m, age : Signs(m, age)' <=> Signs(m, age)
        BY <1>1 DEF Signs, rolloutVars
    <2>3. Signs(n, token'[j].age) /\ token'[j].key = plan[n]["api"].key
        BY <1>4, <1>5, <1>6 DEF Signs
    <2>4. TokensRecent'
        BY <1>1, <1>6, <2>1, <2>2, <2>3 DEF TokensRecent, rolloutVars
    <2>5. SignersRecent'
        BY <1>1, <2>1, <2>2 DEF SignersRecent, rolloutVars, runVars
    <2> QED
        BY <2>4, <2>5
<1> QED
    BY <1>3, <1>7, <1>8, <1>9, <1>10 DEF DeliveryInv

\* An attempt that is refused is followed by the wait for the next one.
LEMMA RefusalKeeps ==
    ASSUME TypeInv, DeliveryInv, NEW j \in Jobs, RunUnauthorized(j)
    PROVE  DeliveryInv'
<1>1. /\ UNCHANGED <<exec, rolloutVars, token, runVars>>
      /\ waited' = [waited EXCEPT ![j] = 0]
      /\ attempts[j] > 0
      /\ attempts' = [attempts EXCEPT ![j] = @ - 1]
      /\ attempts \in [Jobs -> 0 .. MaxAttempts]
    BY DEF RunUnauthorized, Attempt, execVars, TypeInv, TypeOK, DispatchTypeOK
<1>2. /\ \A k \in Jobs : attempts'[k] > 0 => attempts[k] > 0
      /\ \A k \in Jobs \ {j} : attempts'[k] = attempts[k]
    BY <1>1
<1>3. Rollout' /\ Requests'
    BY <1>1 DEF DeliveryInv, Rollout, Requests, rolloutVars, runVars
<1>4. Tokens'
    BY <1>1, <1>2 DEF DeliveryInv, Tokens
<1>5. Waits'
    <2>1. waited' \in [Jobs -> 0 .. Backlog + Backoff] /\ waited'[j] = 0
        BY <1>1, DeliveryAssumption DEF DeliveryInv, Waits
    <2>2. \A k \in Jobs \ {j} : waited'[k] = waited[k] /\ (BeingExecuted(k)' <=> BeingExecuted(k))
        BY <1>1 DEF DeliveryInv, Waits, BeingExecuted
    <2> QED
        BY <1>2, <2>1, <2>2, DeliveryAssumption DEF DeliveryInv, Waits
<1>6. ASSUME Sound' PROVE TokensRecent' /\ SignersRecent'
    <2>1. TokensRecent /\ SignersRecent
        BY <1>1, <1>6 DEF DeliveryInv, Sound, rolloutVars
    <2>2. \A m, age : Signs(m, age)' <=> Signs(m, age)
        BY <1>1 DEF Signs, rolloutVars
    <2> QED
        BY <1>1, <1>2, <2>1, <2>2 DEF TokensRecent, SignersRecent, rolloutVars, runVars
<1> QED
    BY <1>3, <1>4, <1>5, <1>6 DEF DeliveryInv

\* An execution has the signer of an instance that serves when it begins.
LEMMA RunKeeps ==
    ASSUME TypeInv, DeliveryInv, NEW w \in Workers, NEW j \in Jobs, RunAuthorized(w, j)
    PROVE  DeliveryInv'
<1>1. /\ UNCHANGED <<rolloutVars, taskVars, kills>>
      /\ exec[w].pc = "idle"
      /\ exec'[w].pc = "starting" /\ exec'[w].job = j
      /\ \A v \in Workers \ {w} : exec'[v] = exec[v]
      /\ ran' = [ran EXCEPT ![w] = 0]
      /\ attempts[j] > 0
      /\ attempts' = [attempts EXCEPT ![j] = @ - 1]
      /\ attempts \in [Jobs -> 0 .. MaxAttempts]
    BY DEF RunAuthorized, Deliver, Attempt, TypeInv, TypeOK, DispatchTypeOK, ExecTypeOK
<1>2. /\ \A k \in Jobs : attempts'[k] > 0 => attempts[k] > 0
      /\ \A k \in Jobs \ {j} : attempts'[k] = attempts[k]
    BY <1>1
<1>3. PICK s \in Serving("worker") : signer' = [signer EXCEPT ![w] = s]
    BY DEF RunAuthorized
<1>4. Rollout /\ Rollout'
    BY <1>1 DEF DeliveryInv, Rollout, rolloutVars
<1>5. s \in Signer
    BY <1>4, ServingSigns DEF Services
<1>6. Tokens'
    BY <1>1, <1>2 DEF DeliveryInv, Tokens, taskVars
<1>7. Requests'
    <2>1. 0 \in 0 .. RequestTimeout
        BY DeliveryAssumption
    <2>2. /\ signer' \in [Workers -> Signer \cup {NoSigner}]
          /\ \A v \in Workers : exec'[v].pc # "idle" => signer'[v] \in Signer
        BY <1>1, <1>3, <1>5 DEF DeliveryInv, Requests
    <2>3. ran' \in [Workers -> 0 .. RequestTimeout] /\ kills' \in 0 .. MaxKills
        BY <1>1, <2>1 DEF DeliveryInv, Requests
    <2> QED
        BY <2>2, <2>3 DEF Requests
<1>8. Waits'
    <2>1. ASSUME NEW k \in Jobs, ~BeingExecuted(k)' PROVE k # j /\ ~BeingExecuted(k)
        BY <1>1, <2>1 DEF BeingExecuted
    <2> QED
        BY <1>1, <1>2, <2>1 DEF DeliveryInv, Waits, taskVars
<1>9. ASSUME Sound' PROVE TokensRecent' /\ SignersRecent'
    <2>1. TokensRecent /\ SignersRecent
        BY <1>1, <1>9 DEF DeliveryInv, Sound, rolloutVars
    <2>2. \A m, age : Signs(m, age)' <=> Signs(m, age)
        BY <1>1 DEF Signs, rolloutVars
    <2>3. TokensRecent'
        BY <1>1, <1>2, <2>1, <2>2 DEF TokensRecent, rolloutVars, taskVars
    <2>4. PICK n \in 1 .. Len(plan) : s = plan[n]["worker"] /\ (n = stage \/ (rolling /\ n = stage + 1))
        BY <1>4, ServingSigns DEF Services
    <2>5. \A age : Signs(n, age)
        BY <2>4 DEF Signs
    <2>6. /\ signer'[w] = s
          /\ \A v \in Workers \ {w} : signer'[v] = signer[v] /\ ran'[v] = ran[v]
        BY <1>1, <1>3 DEF DeliveryInv, Requests
    <2>7. SignersRecent'
        BY <1>1, <2>1, <2>2, <2>4, <2>5, <2>6 DEF SignersRecent, rolloutVars
    <2> QED
        BY <2>3, <2>7
<1> QED
    BY <1>4, <1>6, <1>7, <1>8, <1>9 DEF DeliveryInv

\* A step of an execution.
LEMMA ExecutionKeeps ==
    ASSUME TypeInv, DeliveryInv, NEW w \in Workers, ExecutionStep(w)
    PROVE  DeliveryInv'
<1>1. /\ exec[w].pc # "idle"
      /\ \A v \in Workers \ {w} : exec'[v] = exec[v]
      /\ \A j \in Jobs : attempts'[j] > 0 => attempts'[j] = attempts[j]
      /\ UNCHANGED rolloutVars
    BY ExecutionFrame
<1>2. Rollout'
    BY <1>1 DEF DeliveryInv, Rollout, rolloutVars
<1>3. \A m, age : Signs(m, age)' <=> Signs(m, age)
    BY <1>1 DEF Signs, rolloutVars
<1>4. Sound' => TokensRecent /\ SignersRecent
    BY <1>1 DEF DeliveryInv, Sound, rolloutVars
<1>5. CASE /\ exec'[w].pc # "idle"
           /\ exec'[w].job = exec[w].job
           /\ UNCHANGED <<taskVars, runVars>>
    <2>1. Tokens' /\ Requests'
        BY <1>1, <1>5 DEF DeliveryInv, Tokens, Requests, taskVars, runVars
    <2>2. \A j \in Jobs : BeingExecuted(j)' <=> BeingExecuted(j)
        BY <1>1, <1>5 DEF BeingExecuted
    <2>3. Waits'
        BY <1>1, <1>5, <2>2 DEF DeliveryInv, Waits, taskVars
    <2>4. Sound' => TokensRecent' /\ SignersRecent'
        BY <1>1, <1>3, <1>4, <1>5 DEF TokensRecent, SignersRecent, rolloutVars, taskVars, runVars
    <2> QED
        BY <1>2, <2>1, <2>3, <2>4 DEF DeliveryInv
<1>6. CASE /\ exec'[w].pc = "idle"
           /\ RequestEnds(w)
           /\ kills' = kills \/ (kills < MaxKills /\ kills' = kills + 1)
    <2>1. /\ signer' = [signer EXCEPT ![w] = NoSigner]
          /\ ran' = [ran EXCEPT ![w] = 0]
          /\ waited' = [waited EXCEPT ![exec[w].job] = 0]
          /\ UNCHANGED token
        BY <1>6 DEF RequestEnds
    <2>2. Tokens'
        BY <1>1, <2>1 DEF DeliveryInv, Tokens
    <2>3. Requests'
        <3>1. 0 \in 0 .. RequestTimeout /\ MaxKills \in Nat
            BY DeliveryAssumption
        <3>2. /\ signer' \in [Workers -> Signer \cup {NoSigner}]
              /\ \A v \in Workers : exec'[v].pc # "idle" => signer'[v] \in Signer
            BY <1>1, <1>6, <2>1 DEF DeliveryInv, Requests
        <3>3. ran' \in [Workers -> 0 .. RequestTimeout]
            BY <2>1, <3>1 DEF DeliveryInv, Requests
        <3>4. kills' \in 0 .. MaxKills
            BY <1>6, <3>1 DEF DeliveryInv, Requests
        <3> QED
            BY <3>2, <3>3, <3>4 DEF Requests
    <2>4. Waits'
        <3>1. exec[w].job \in Jobs
            BY <1>1 DEF TypeInv, TypeOK, ExecTypeOK
        <3>2. \A j \in Jobs \ {exec[w].job} : BeingExecuted(j)' <=> BeingExecuted(j)
            BY <1>1, <1>6 DEF BeingExecuted
        <3>3. 0 \in 0 .. Backlog + Backoff /\ 0 <= Backlog /\ 0 <= Backoff
            BY DeliveryAssumption
        <3>4. waited' \in [Jobs -> 0 .. Backlog + Backoff] /\ waited'[exec[w].job] = 0
            BY <2>1, <3>1, <3>3 DEF DeliveryInv, Waits
        <3>5. \A j \in Jobs \ {exec[w].job} : waited'[j] = waited[j]
            BY <2>1 DEF DeliveryInv, Waits
        <3> QED
            BY <1>1, <3>2, <3>3, <3>4, <3>5 DEF DeliveryInv, Waits
    <2>5. Sound' => TokensRecent' /\ SignersRecent'
        <3>1. \A v \in Workers \ {w} : signer'[v] = signer[v] /\ ran'[v] = ran[v]
            BY <2>1 DEF DeliveryInv, Requests
        <3> QED
            BY <1>1, <1>3, <1>4, <1>6, <2>1, <3>1 DEF TokensRecent, SignersRecent, rolloutVars
    <2> QED
        BY <1>2, <2>2, <2>3, <2>4, <2>5 DEF DeliveryInv
<1> QED
    BY <1>5, <1>6, ExecutionFrame

\* A tick: tokens and requests age as fast as the rollout settles.
LEMMA ElapseKeeps == ASSUME TypeInv, DeliveryInv, Elapse PROVE DeliveryInv'
<1>1. /\ UNCHANGED <<attempts, exec, plan, stage, rolling, signer, kills>>
      /\ since' = IF since < Settle THEN since + 1 ELSE since
      /\ token' = [j \in Jobs |-> IF attempts[j] > 0 THEN Older(token[j]) ELSE NoToken]
      /\ waited' = [j \in Jobs |-> IF attempts[j] > 0 /\ ~BeingExecuted(j)
                                   THEN waited[j] + 1 ELSE waited[j]]
      /\ ran' = [w \in Workers |-> IF exec[w].pc = "running" THEN ran[w] + 1 ELSE ran[w]]
      /\ \A j \in Jobs : ~Due(j)
      /\ \A w \in Workers : InTime(w)
    BY DEF Elapse, Tick, execVars
<1>2. /\ Settle \in Nat /\ RequestTimeout \in Nat /\ Backlog \in Nat /\ Backoff \in Nat
      /\ TTL \in Nat /\ since \in 0 .. Settle
    BY DeliveryAssumption, TokenAssumption DEF DeliveryInv, Rollout
<1>3. since' \in 0 .. Settle /\ since' <= since + 1 /\ (since = Settle => since' = Settle)
    BY <1>1, <1>2
<1>4. Rollout'
    BY <1>1, <1>3 DEF DeliveryInv, Rollout
<1>5. ASSUME NEW t \in Token
      PROVE  /\ Older(t) \in Token
             /\ Older(t).key = t.key
             /\ ~Expired(Older(t)) => ~Expired(t) /\ Older(t).age = t.age + 1 /\ t.age \in Nat
    BY <1>2 DEF Token, Older, Expired
<1>6. Tokens'
    BY <1>1, <1>5 DEF DeliveryInv, Tokens
<1>7. Requests'
    <2>1. \A w \in Workers : exec[w].pc = "running" => ran[w] < RequestTimeout
        BY <1>1 DEF InTime
    <2>2. ran' \in [Workers -> 0 .. RequestTimeout]
        BY <1>1, <1>2, <2>1 DEF DeliveryInv, Requests
    <2> QED
        BY <1>1, <2>2 DEF DeliveryInv, Requests
<1>8. Waits'
    <2> DEFINE Bound(j) == IF attempts[j] = MaxAttempts THEN Backlog ELSE Backoff
    <2>1. ASSUME NEW j \in Jobs, attempts[j] > 0, ~BeingExecuted(j)
          PROVE  waited[j] \in Nat /\ waited[j] + 1 <= Bound(j)
        <3>1. waited[j] \in Nat /\ waited[j] <= Bound(j) /\ waited[j] # Bound(j)
            BY <1>1, <2>1 DEF DeliveryInv, Waits, Due
        <3> QED
            BY <1>2, <3>1
    <2>2. \A j \in Jobs : Bound(j) \in Nat /\ Bound(j) <= Backlog + Backoff
        BY <1>2
    <2> HIDE DEF Bound
    <2>3. \A j \in Jobs : waited'[j] \in 0 .. Backlog + Backoff
        BY <1>1, <1>2, <2>1, <2>2 DEF DeliveryInv, Waits
    <2>4. waited' \in [Jobs -> 0 .. Backlog + Backoff]
        BY <1>1, <2>3
    <2>5. \A j \in Jobs : attempts'[j] > 0 /\ ~BeingExecuted(j)' => waited'[j] <= Bound(j)
        BY <1>1, <2>1 DEF BeingExecuted
    <2> QED
        BY <1>1, <2>4, <2>5 DEF Waits, Bound
<1>9. ASSUME Sound' PROVE TokensRecent' /\ SignersRecent'
    <2>1. TokensRecent /\ SignersRecent
        BY <1>1, <1>9 DEF DeliveryInv, Sound
    <2>2. ASSUME NEW n \in 1 .. Len(plan), NEW age \in Nat, Signs(n, age)
          PROVE  \/ n = stage
                 \/ rolling /\ n = stage + 1
                 \/ ~rolling /\ n + 1 = stage /\ since' <= age + 1
        BY <1>2, <1>3, <2>2 DEF Signs
    <2>3. TokensRecent'
        <3> SUFFICES ASSUME NEW j \in Jobs, attempts[j] > 0, ~Expired(Older(token[j]))
                     PROVE  \E n \in 1 .. Len(plan) :
                                Signs(n, token[j].age)' /\ token'[j].key = plan[n]["api"].key
            BY <1>1 DEF TokensRecent, Expired
        <3>1. token[j] \in Token /\ token'[j] = Older(token[j])
            BY <1>1 DEF DeliveryInv, Tokens
        <3>2. PICK n \in 1 .. Len(plan) : Signs(n, token[j].age) /\ token[j].key = plan[n]["api"].key
            BY <1>5, <2>1, <3>1 DEF TokensRecent
        <3>3. Signs(n, token[j].age)'
            BY <1>1, <1>5, <2>2, <3>1, <3>2 DEF Signs
        <3> QED
            BY <1>5, <3>1, <3>2, <3>3
    <2>4. SignersRecent'
        <3> SUFFICES ASSUME NEW w \in Workers, exec[w].pc # "idle"
                     PROVE  \E n \in 1 .. Len(plan) : Signs(n, ran[w])' /\ signer[w] = plan[n]["worker"]
            BY <1>1 DEF SignersRecent
        <3>1. ran[w] \in Nat /\ ran'[w] = ran[w] + 1
            BY <1>1, <1>2 DEF InTime, DeliveryInv, Requests
        <3>2. PICK n \in 1 .. Len(plan) : Signs(n, ran[w]) /\ signer[w] = plan[n]["worker"]
            BY <2>1 DEF SignersRecent
        <3>3. Signs(n, ran[w])'
            BY <1>1, <2>2, <3>1, <3>2 DEF Signs
        <3> QED
            BY <3>2, <3>3
    <2> QED
        BY <2>3, <2>4
<1> QED
    BY <1>4, <1>6, <1>7, <1>8, <1>9 DEF DeliveryInv

\* Every step preserves the invariant, given that its states are well-typed.
LEMMA DeliveryInvNext ==
    ASSUME TypeInv, DeliveryInv, [DeliveryNext]_allVars PROVE DeliveryInv'
<1>1. CASE Deploy
    BY <1>1, DeployKeeps
<1>2. CASE Retire
    BY <1>2, RetireKeeps
<1>3. CASE Intake
    <2>1. \A h \in Handlers : PushStep(h) => UNCHANGED attempts
        BY DEF PushStep, PushBegin, PushCheck, PushUpdate, PushCreate, PushDuplicate, PushAbort
    <2> QED
        BY <1>3, <2>1, QuietKeeps DEF Intake, execVars
<1>4. ASSUME NEW h \in Handlers, SignAndEnqueue(h) PROVE DeliveryInv'
    BY <1>4, EnqueueKeeps
<1>5. ASSUME NEW j \in Jobs, RunUnauthorized(j) PROVE DeliveryInv'
    BY <1>5, RefusalKeeps
<1>6. ASSUME NEW j \in Jobs, NEW w \in Workers, RunAuthorized(w, j) PROVE DeliveryInv'
    BY <1>6, RunKeeps
<1>7. ASSUME NEW w \in Workers, ExecutionStep(w) PROVE DeliveryInv'
    BY <1>7, ExecutionKeeps
<1>8. CASE Watchdog
    BY <1>8, QuietKeeps DEF Watchdog, Timeout
<1>9. CASE Elapse
    BY <1>9, ElapseKeeps
<1>10. CASE UNCHANGED allVars
    BY <1>10, QuietKeeps DEF allVars, vars
<1> QED
    BY <1>1, <1>2, <1>3, <1>4, <1>5, <1>6, <1>7, <1>8, <1>9, <1>10 DEF DeliveryNext, TaskStep

\* Rollouts settle, tokens and requests are as old as the deployment that signed
\* them allows, and no task waits too long.
THEOREM DeliveryCorrect == DeliverySpec => [](TypeInv /\ DeliveryInv)
<1>1. DeliverySpec => []TypeInv
    BY JobSystemImplemented, TypeCorrect, PTL DEF ImplementsJobSystem
<1>2. DeliveryInit => DeliveryInv
    BY DeliveryInvInit
<1>3. TypeInv /\ DeliveryInv /\ [DeliveryNext]_allVars => DeliveryInv'
    BY DeliveryInvNext
<1> QED
    BY <1>1, <1>2, <1>3, PTL DEF DeliverySpec

\* Every variable of TaskDelivery keeps its type.
THEOREM DeliveryTypes == DeliverySpec => []DeliveryTypeOK
<1>1. TypeInv /\ DeliveryInv => DeliveryTypeOK
    BY DEF TypeInv, DeliveryInv, Rollout, Tokens, Requests, Waits, DeliveryTypeOK
<1> QED
    BY <1>1, DeliveryCorrect, PTL

\* In a sound rotation of the signing key no worker refuses a task that has not
\* expired, and the API refuses no callback.
THEOREM RotationHonoursTokens == DeliverySpec => []TokensHonoured
BY DeliveryCorrect, DeliveryInvHonours, PTL
=============================================================================
