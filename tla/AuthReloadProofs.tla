-------------------------- MODULE AuthReloadProofs --------------------------
(***************************************************************************)
(* Proofs about AuthReload for every set of settings requests and issuers  *)
(* and every bound.  Chained says how the chain of reloads and the waiting *)
(* requests fit together; Ordered, which rests on it, orders the versions  *)
(* in the settings, in the reload that runs and in the serving instance.   *)
(***************************************************************************)
EXTENDS AuthReload, SequenceTheorems, TLAPS

-----------------------------------------------------------------------------
(* Types *)

LEMMA EffectiveType == TypeOK => Effective \in Provider
  BY DEF TypeOK, Effective, Config

\* What a step of a reload leaves in running.
LEMMA RunningType ==
  ASSUME TypeOK, NEW x \in Reloads, NEW j \in Job \cup {NoJob}
  PROVE  [running EXCEPT ![x] = j] \in [Reloads -> Job \cup {NoJob}]
  BY DEF TypeOK

LEMMA CommitType ==
  ASSUME TypeOK, NEW w \in Writers, NEW oidc \in Provider, Commit(w, oidc)
  PROVE  TypeOK'
<1>1. stored' \in Config
  BY DEF Commit, TypeOK, Config
<1>2. stored.version + 1 \in Nat
  BY DEF TypeOK, Config
<1>3. [pc |-> "written", issuer |-> NoIssuer, version |-> stored.version + 1] \in Request
  BY <1>2 DEF Request, Provider
<1>4. writer' \in [Writers -> Request]
  BY <1>3 DEF Commit, TypeOK
<1> QED
  BY <1>1, <1>4 DEF Commit, TypeOK

LEMMA WriterType ==
  ASSUME TypeOK, NEW w \in Writers,
         (\E i \in Issuers : VerifyIssuer(w, i)) \/ PutOidc(w) \/ WriteSettings(w) \/ CallReload(w)
  PROVE  TypeOK'
<1>1. ASSUME NEW i \in Issuers, VerifyIssuer(w, i) PROVE TypeOK'
  <2>1. [pc |-> "verified", issuer |-> i, version |-> 0] \in Request
    BY DEF Request, Provider
  <2> QED
    BY <1>1, <2>1 DEF VerifyIssuer, TypeOK
<1>2. CASE PutOidc(w)
  <2>1. writer[w].issuer \in Provider
    BY DEF TypeOK, Request
  <2> QED
    BY <1>2, <2>1, CommitType DEF PutOidc
<1>3. CASE WriteSettings(w)
  <2>1. NoIssuer \in Provider /\ stored.oidc \in Provider
    BY DEF TypeOK, Config, Provider
  <2> QED
    BY <1>3, <2>1, CommitType DEF WriteSettings
<1>4. CASE CallReload(w)
  <2>1. queue' \in Seq(Reloads)
    BY <1>4, AppendProperties DEF CallReload, TypeOK, Reloads
  <2>2. writer' \in [Writers -> Request]
    BY <1>4 DEF CallReload, TypeOK, Request
  <2> QED
    BY <1>4, <2>1, <2>2 DEF CallReload, TypeOK
<1> QED
  BY <1>1, <1>2, <1>3, <1>4

LEMMA TurnType ==
  ASSUME TypeOK, NEW x, Turn(x)
  PROVE  x \in Reloads /\ Tail(queue) \in Seq(Reloads)
  BY HeadTailProperties DEF Turn, TypeOK

LEMMA IdleType == [w \in Writers |-> Idle] \in [Writers -> Request] /\ Idle \in Request
  BY DEF Idle, Request, Provider

LEMMA ReloadType ==
  ASSUME TypeOK, NEW x \in Reloads, Reload(x) \/ LoadFails(x)
  PROVE  TypeOK'
<1>1. CASE ReadConfig(x)
  <2>1. [pc |-> "read", oidc |-> Effective, version |-> stored.version] \in Job
    BY EffectiveType DEF Job, TypeOK, Config
  <2>2. running' \in [Reloads -> Job \cup {NoJob}]
    BY <1>1, <2>1, RunningType DEF ReadConfig
  <2> QED
    BY <1>1, <2>2, TurnType DEF ReadConfig, TypeOK
<1>2. ASSUME running[x] # NoJob
      PROVE  \A p \in {"probing", "building"}, o \in {NoIssuer, running[x].oidc} :
                [pc |-> p, oidc |-> o, version |-> running[x].version] \in Job
  BY <1>2 DEF TypeOK, Job, Provider
<1>3. CASE Resume(x)
  <2>1. running' \in [Reloads -> Job \cup {NoJob}]
    BY <1>2, <1>3, RunningType DEF Resume
  <2> QED
    BY <1>3, <2>1 DEF Resume, TypeOK
<1>4. CASE ProbeSucceeds(x)
  <2>1. running' \in [Reloads -> Job \cup {NoJob}]
    BY <1>2, <1>4, RunningType DEF ProbeSucceeds
  <2> QED
    BY <1>4, <2>1 DEF ProbeSucceeds, TypeOK
<1>5. CASE ProbeFails(x)
  <2>1. running' \in [Reloads -> Job \cup {NoJob}]
    BY <1>2, <1>5, RunningType DEF ProbeFails
  <2> QED
    BY <1>5, <2>1 DEF ProbeFails, TypeOK
<1>6. CASE Build(x)
  <2>1. live' \in Config
    BY <1>6 DEF Build, Install, TypeOK, Config, Job, Provider
  <2>2. running' \in [Reloads -> Job \cup {NoJob}]
    BY <1>6, RunningType DEF Build, Install
  <2>3. writer' \in [Writers -> Request]
    BY <1>6, IdleType DEF Build, Install, TypeOK
  <2>4. acked' \in Nat
    BY <1>6 DEF Build, Install, TypeOK, Request
  <2>5. retry' \in BOOLEAN
    BY <1>6 DEF Build, TypeOK
  <2> QED
    BY <1>6, <2>1, <2>2, <2>3, <2>4, <2>5 DEF Build, Install, TypeOK
<1>7. CASE LoadFails(x)
  <2>1. writer' \in [Writers -> Request]
    BY <1>7, IdleType DEF LoadFails, TypeOK
  <2> QED
    BY <1>7, <2>1, TurnType DEF LoadFails, TypeOK
<1> QED
  BY <1>1, <1>3, <1>4, <1>5, <1>6, <1>7 DEF Reload

LEMMA WorldType ==
  ASSUME TypeOK, TimerFires \/ (\E e \in Provider : Restart(e)) \/ (\E i \in Issuers : IssuerChanges(i))
  PROVE  TypeOK'
<1>1. CASE TimerFires
  <2>1. queue' \in Seq(Reloads)
    BY <1>1, AppendProperties DEF TimerFires, TypeOK, Reloads
  <2> QED
    BY <1>1, <2>1 DEF TimerFires, TypeOK
<1>2. ASSUME NEW e \in Provider, Restart(e) PROVE TypeOK'
  <2>1. stored' \in Config
    BY <1>2 DEF Restart, TypeOK, Config, Provider
  <2>2. queue' \in Seq(Reloads)
    BY <1>2 DEF Restart, Reloads
  <2> QED
    BY <1>2, <2>1, <2>2, IdleType DEF Restart, TypeOK
<1>3. ASSUME NEW i \in Issuers, IssuerChanges(i) PROVE TypeOK'
  BY <1>3 DEF IssuerChanges, TypeOK
<1> QED
  BY <1>1, <1>2, <1>3

LEMMA TypeInit == ASSUME Init PROVE TypeOK
<1>1. stored \in Config
  BY DEF Init, Config, Provider
<1>2. queue \in Seq(Reloads)
  BY DEF Init, Reloads
<1> QED
  BY <1>1, <1>2, IdleType DEF Init, TypeOK

LEMMA TypeStep == ASSUME TypeOK, [Next]_vars PROVE TypeOK'
<1>1. CASE UNCHANGED vars
  BY <1>1 DEF vars, TypeOK
<1>2. CASE Next
  BY <1>2, WriterType, ReloadType, WorldType DEF Next
<1> QED
  BY <1>1, <1>2

\* Every reachable state is well typed, whatever the requests, issuers, faults
\* and bounds.
THEOREM TypeCorrect == Spec => []TypeOK
<1>1. Init => TypeOK
  BY TypeInit
<1>2. TypeOK /\ [Next]_vars => TypeOK'
  BY TypeStep
<1> QED
  BY <1>1, <1>2, PTL DEF Spec

-----------------------------------------------------------------------------
(* The chain *)

\* At most one reload runs; a request whose reload is queued or running waits,
\* and has no other.
Chained ==
    /\ \A x, y \in Reloads : running[x] # NoJob /\ running[y] # NoJob => x = y
    /\ \A k \in 1..Len(queue) : queue[k] \in Writers =>
          writer[queue[k]].pc = "waiting" /\ running[queue[k]] = NoJob
    /\ \A j, k \in 1..Len(queue) : queue[j] = queue[k] /\ queue[j] \in Writers => j = k
    /\ \A w \in Writers : running[w] # NoJob => writer[w].pc = "waiting"

\* Versions only grow along settings, running reload, serving instance; a
\* reload is at least as new as what was acknowledged and as the write of the
\* request that waits for it.
Ordered ==
    /\ acked <= stored.version
    /\ Serving => acked <= live.version /\ live.version <= stored.version
    /\ \A w \in Writers : writer[w].version <= stored.version
    /\ \A x \in Reloads : running[x] # NoJob =>
          /\ running[x].version <= stored.version
          /\ acked <= running[x].version
          /\ Serving => live.version <= running[x].version
          /\ x \in Writers => writer[x].version <= running[x].version

IInv == TypeOK /\ Chained /\ Ordered

LEMMA ChainedInit == ASSUME Init PROVE Chained /\ Ordered
<1>1. Len(queue) = 1 /\ queue[1] = Boot
  BY DEF Init
<1>2. \A k \in 1..Len(queue) : queue[k] \notin Writers
  BY <1>1, AuthReloadAssumption
<1>5. Chained
  BY <1>2 DEF Init, Chained, Reloads
<1>3. stored.version = 0 /\ acked = 0 /\ ~Serving
  BY DEF Init, Serving
<1>4. Ordered
  BY <1>3 DEF Init, Ordered, Idle
<1> QED
  BY <1>5, <1>4

\* Requests outside the chain may do as they like.
LEMMA ChainedWriter ==
  ASSUME TypeOK, Chained, NEW w \in Writers, writer[w].pc # "waiting",
         writer' \in [Writers -> Request],
         \A v \in Writers : v # w => writer'[v] = writer[v],
         UNCHANGED <<queue, running>>
  PROVE  Chained'
<1>1. running[w] = NoJob
  BY DEF Chained
<1>2. \A k \in 1..Len(queue) : queue[k] # w
  BY DEF Chained
<1> QED
  BY <1>1, <1>2 DEF Chained, TypeOK

\* The request w or the timer joins the end of the queue.
LEMMA ChainedAppend ==
  ASSUME TypeOK, Chained, NEW x \in Writers \cup {Timer},
         x \in Writers => writer[x].pc = "written",
         queue' = Append(queue, x),
         writer' = IF x \in Writers THEN [writer EXCEPT ![x].pc = "waiting"] ELSE writer,
         UNCHANGED running
  PROVE  Chained'
<1>1. /\ Len(queue') = Len(queue) + 1
      /\ \A k \in 1..Len(queue) : queue'[k] = queue[k]
      /\ queue'[Len(queue) + 1] = x
      /\ Len(queue) \in Nat
  BY AppendProperties, LenProperties DEF TypeOK, Reloads
<1>2. x \in Writers => running[x] = NoJob /\ \A k \in 1..Len(queue) : queue[k] # x
  BY DEF Chained
<1>3. x \in Writers => writer'[x].pc = "waiting"
  BY DEF TypeOK, Request
<1>4. \A v \in Writers : v # x => writer'[v] = writer[v]
  BY DEF TypeOK
<1>5. \A v \in Writers : writer[v].pc = "waiting" => writer'[v].pc = "waiting"
  BY <1>3, <1>4
<1>6. \A k \in 1..Len(queue') : k \in 1..Len(queue) \/ k = Len(queue) + 1
  BY <1>1
<1>7. ASSUME NEW k \in 1..Len(queue'), queue'[k] \in Writers
      PROVE  writer'[queue'[k]].pc = "waiting" /\ running'[queue'[k]] = NoJob
  BY <1>1, <1>2, <1>3, <1>5, <1>6, <1>7 DEF Chained
<1>8. ASSUME NEW j \in 1..Len(queue'), NEW k \in 1..Len(queue'),
             queue'[j] = queue'[k], queue'[j] \in Writers
      PROVE  j = k
  BY <1>1, <1>2, <1>6, <1>8, AuthReloadAssumption DEF Chained
<1>9. \A v \in Writers : running'[v] # NoJob => writer'[v].pc = "waiting"
  BY <1>5 DEF Chained
<1> QED
  BY <1>7, <1>8, <1>9 DEF Chained

\* The head of the queue leaves it, to run (job) or to fail (NoJob).
LEMMA ChainedTurn ==
  ASSUME TypeOK, Chained, NEW x \in Reloads, Turn(x), queue' = Tail(queue),
         NEW j \in Job \cup {NoJob}, running' = [running EXCEPT ![x] = j],
         \/ UNCHANGED writer
         \/ j = NoJob /\ writer' = [w \in Writers |-> IF w = x THEN Idle ELSE writer[w]]
  PROVE  Chained'
<1>1. /\ queue \in Seq(Reloads) /\ queue # <<>> /\ Len(queue) \in Nat
      /\ Len(queue') = Len(queue) - 1
      /\ \A k \in 1..Len(queue') : queue'[k] = queue[k + 1]
      /\ x = queue[1]
  BY HeadTailProperties, LenProperties DEF Turn, TypeOK
<1>2. 1 \in 1..Len(queue) /\ \A k \in 1..Len(queue') : k + 1 \in 1..Len(queue) /\ k + 1 # 1
  BY <1>1
<1>3. \A k \in 1..Len(queue') : queue'[k] \in Writers => queue'[k] # x
  BY <1>1, <1>2 DEF Chained
<1>4. \A y \in Reloads : y # x => running'[y] = NoJob
  BY DEF Turn, TypeOK
<1>5. \A v \in Writers : v # x => writer'[v] = writer[v]
  BY DEF TypeOK
<1>6. x \in Writers => writer[x].pc = "waiting"
  BY <1>1, <1>2 DEF Chained
<1>7. ASSUME NEW k \in 1..Len(queue'), queue'[k] \in Writers
      PROVE  writer'[queue'[k]].pc = "waiting" /\ running'[queue'[k]] = NoJob
  BY <1>1, <1>2, <1>3, <1>4, <1>5, <1>7 DEF Chained, Reloads
<1>8. ASSUME NEW m \in 1..Len(queue'), NEW k \in 1..Len(queue'),
             queue'[m] = queue'[k], queue'[m] \in Writers
      PROVE  m = k
  BY <1>1, <1>2, <1>8 DEF Chained
<1>9. \A v \in Writers : running'[v] # NoJob => writer'[v].pc = "waiting"
  BY <1>4, <1>6 DEF Reloads, TypeOK
<1>10. \A y, z \in Reloads : running'[y] # NoJob /\ running'[z] # NoJob => y = z
  BY <1>4
<1> QED
  BY <1>7, <1>8, <1>9, <1>10 DEF Chained

\* The reload that runs goes on, its request still waiting.
LEMMA ChainedGoesOn ==
  ASSUME TypeOK, Chained, NEW x \in Reloads, running[x] # NoJob,
         NEW j \in Job, running' = [running EXCEPT ![x] = j],
         UNCHANGED <<queue, writer>>
  PROVE  Chained'
<1>1. \A y \in Reloads : running'[y] = IF y = x THEN j ELSE running[y]
  BY DEF TypeOK
<1>2. \A k \in 1..Len(queue) : queue[k] \in Writers => queue[k] # x
  BY DEF Chained
<1>3. Writers \subseteq Reloads
  BY DEF Reloads
<1> QED
  BY <1>1, <1>2, <1>3 DEF Chained

\* The reload that runs ends, and the request that waited for it returns.
LEMMA ChainedBuild ==
  ASSUME TypeOK, Chained, NEW x \in Reloads, running[x] # NoJob,
         running' = [running EXCEPT ![x] = NoJob],
         writer' = [w \in Writers |-> IF w = x THEN Idle ELSE writer[w]],
         UNCHANGED queue
  PROVE  Chained'
<1>1. \A y \in Reloads : running'[y] = NoJob
  BY DEF TypeOK, Chained
<1>2. \A k \in 1..Len(queue) : queue[k] \in Writers => queue[k] # x
  BY DEF Chained
<1>3. Writers \subseteq Reloads
  BY DEF Reloads
<1> QED
  BY <1>1, <1>2, <1>3 DEF Chained

LEMMA ChainedStep == ASSUME TypeOK, Chained, [Next]_vars PROVE Chained'
<1>1. TypeOK'
  BY TypeStep
<1>2. CASE UNCHANGED vars
  BY <1>2 DEF vars, Chained
<1>3. ASSUME NEW w \in Writers, NEW i \in Issuers, VerifyIssuer(w, i) PROVE Chained'
  BY <1>1, <1>3, ChainedWriter DEF VerifyIssuer, TypeOK
<1>4. ASSUME NEW w \in Writers, PutOidc(w) \/ WriteSettings(w) PROVE Chained'
  <2>1. PICK o : Commit(w, o)
    BY <1>4 DEF PutOidc, WriteSettings
  <2>2. writer[w].pc # "waiting"
    BY <1>4 DEF PutOidc, WriteSettings
  <2> QED
    BY <1>1, <2>1, <2>2, ChainedWriter DEF Commit, TypeOK
<1>5. ASSUME NEW w \in Writers, CallReload(w) PROVE Chained'
  BY <1>5, ChainedAppend DEF CallReload
<1>6. ASSUME NEW x \in Reloads, ReadConfig(x) PROVE Chained'
  <2> DEFINE j == [pc |-> "read", oidc |-> Effective, version |-> stored.version]
  <2>1. j \in Job
    BY EffectiveType DEF Job, TypeOK, Config
  <2> QED
    BY <1>6, <2>1, ChainedTurn DEF ReadConfig
<1>7. ASSUME NEW x \in Reloads, LoadFails(x) PROVE Chained'
  <2>1. running' = [running EXCEPT ![x] = NoJob]
    BY <1>7 DEF LoadFails, Turn, TypeOK
  <2> QED
    BY <1>7, <2>1, ChainedTurn DEF LoadFails
<1>8. ASSUME NEW x \in Reloads, Resume(x) \/ ProbeSucceeds(x) \/ ProbeFails(x) PROVE Chained'
  <2>1. /\ running[x] # NoJob
        /\ running' = [running EXCEPT ![x] = running'[x]]
        /\ UNCHANGED <<queue, writer>>
    BY <1>8 DEF Resume, ProbeSucceeds, ProbeFails, TypeOK
  <2>2. running'[x] \in Job
    BY <1>8 DEF Resume, ProbeSucceeds, ProbeFails, TypeOK, Job, Provider
  <2> QED
    BY <2>1, <2>2, ChainedGoesOn
<1>9. ASSUME NEW x \in Reloads, Build(x) PROVE Chained'
  BY <1>9, ChainedBuild DEF Build, Install
<1>10. CASE TimerFires
  <2>1. Timer \notin Writers
    BY AuthReloadAssumption
  <2> QED
    BY <1>10, <2>1, ChainedAppend DEF TimerFires
<1>11. ASSUME NEW e \in Provider, Restart(e) PROVE Chained'
  <2>1. \A k \in 1..Len(queue') : queue'[k] \notin Writers
    BY <1>11, AuthReloadAssumption DEF Restart
  <2> QED
    BY <1>11, <2>1 DEF Restart, Chained, Reloads
<1>12. ASSUME NEW i \in Issuers, IssuerChanges(i) PROVE Chained'
  BY <1>12 DEF IssuerChanges, Chained
<1> QED
  BY <1>2, <1>3, <1>4, <1>5, <1>6, <1>7, <1>8, <1>9, <1>10, <1>11, <1>12 DEF Next, Reload

-----------------------------------------------------------------------------
(* The order of versions *)

LEMMA Numbers ==
  ASSUME TypeOK
  PROVE  /\ stored.version \in Nat /\ acked \in Nat
         /\ Serving => live.version \in Nat
         /\ \A w \in Writers : writer[w].version \in Nat
         /\ \A x \in Reloads : running[x] # NoJob => running[x].version \in Nat
  BY DEF TypeOK, Config, Request, Job, Serving

\* A written configuration is a Config, so the process serves once it has one.
LEMMA Serves == ASSUME TypeOK', live' # NoInstance PROVE live' \in Config
  BY DEF TypeOK

LEMMA OrderedStep == ASSUME TypeOK, Chained, Ordered, [Next]_vars PROVE Ordered'
<1> USE Numbers
<1>1. TypeOK'
  BY TypeStep
<1>2. CASE UNCHANGED vars
  BY <1>2 DEF vars, Ordered, Serving
<1>3. ASSUME NEW w \in Writers, NEW i \in Issuers, VerifyIssuer(w, i) PROVE Ordered'
  <2>1. running[w] = NoJob
    BY <1>3 DEF VerifyIssuer, Chained
  <2>2. \A v \in Writers : v # w => writer'[v] = writer[v]
    BY <1>3 DEF VerifyIssuer, TypeOK
  <2>3. writer'[w].version = 0
    BY <1>3 DEF VerifyIssuer, TypeOK
  <2> QED
    BY <1>3, <2>1, <2>2, <2>3 DEF VerifyIssuer, Ordered, Serving
<1>4. ASSUME NEW w \in Writers, PutOidc(w) \/ WriteSettings(w) PROVE Ordered'
  <2>1. PICK o : Commit(w, o)
    BY <1>4 DEF PutOidc, WriteSettings
  <2>2. running[w] = NoJob
    BY <1>4 DEF PutOidc, WriteSettings, Chained
  <2>3. stored'.version = stored.version + 1
    BY <2>1 DEF Commit
  <2>4. writer'[w].version = stored.version + 1
    BY <2>1 DEF Commit, TypeOK
  <2>5. \A v \in Writers : v # w => writer'[v] = writer[v]
    BY <2>1 DEF Commit, TypeOK
  <2>6. UNCHANGED <<acked, live, running>>
    BY <2>1 DEF Commit
  <2> QED
    BY <2>2, <2>3, <2>4, <2>5, <2>6 DEF Ordered, Serving
<1>5. ASSUME NEW w \in Writers, CallReload(w) PROVE Ordered'
  <2>1. \A v \in Writers : writer'[v].version = writer[v].version
    BY <1>5 DEF CallReload, TypeOK, Request
  <2> QED
    BY <1>5, <2>1 DEF CallReload, Ordered, Serving
<1>6. ASSUME NEW x \in Reloads, ReadConfig(x) PROVE Ordered'
  <2>1. \A y \in Reloads : y # x => running'[y] = NoJob
    BY <1>6 DEF ReadConfig, Turn, TypeOK
  <2>2. running'[x].version = stored.version
    BY <1>6 DEF ReadConfig, TypeOK
  <2>3. UNCHANGED <<stored, live, writer, acked>>
    BY <1>6 DEF ReadConfig
  <2> QED
    BY <2>1, <2>2, <2>3 DEF Ordered, Serving
<1>7. ASSUME NEW x \in Reloads, LoadFails(x) PROVE Ordered'
  <2>1. \A y \in Reloads : running'[y] = NoJob
    BY <1>7 DEF LoadFails, Turn
  <2>2. \A v \in Writers : writer'[v].version <= stored.version
    BY <1>7 DEF LoadFails, Ordered, Idle
  <2> QED
    BY <1>7, <2>1, <2>2 DEF LoadFails, Ordered, Serving
<1>8. ASSUME NEW x \in Reloads, Resume(x) \/ ProbeSucceeds(x) \/ ProbeFails(x) PROVE Ordered'
  <2>1. \A y \in Reloads : y # x => running'[y] = running[y]
    BY <1>8 DEF Resume, ProbeSucceeds, ProbeFails, TypeOK
  <2>2. running[x] # NoJob /\ running'[x].version = running[x].version
    BY <1>8 DEF Resume, ProbeSucceeds, ProbeFails, TypeOK
  <2>3. UNCHANGED <<stored, live, writer, acked>>
    BY <1>8 DEF Resume, ProbeSucceeds, ProbeFails
  <2> QED
    BY <2>1, <2>2, <2>3 DEF Ordered, Serving
<1>9. ASSUME NEW x \in Reloads, Build(x) PROVE Ordered'
  <2>1. running[x] # NoJob /\ stored' = stored
    BY <1>9 DEF Build
  <2>2. \A y \in Reloads : running'[y] = NoJob
    BY <1>9, <2>1 DEF Build, Install, TypeOK, Chained
  <2>3. live'.version = running[x].version
    BY <1>9 DEF Build, Install
  <2>4. acked' = acked \/ (x \in Writers /\ acked' = writer[x].version)
    BY <1>9 DEF Build, Install
  <2>5. acked' <= running[x].version
    BY <2>1, <2>4 DEF Ordered
  <2>6. \A v \in Writers : writer'[v].version <= stored.version
    BY <1>9 DEF Build, Install, Ordered, Idle
  <2>7. acked' <= stored.version
    BY <1>1, <2>1, <2>5 DEF Ordered, TypeOK
  <2> QED
    BY <2>1, <2>2, <2>3, <2>5, <2>6, <2>7 DEF Ordered
<1>10. CASE TimerFires
  BY <1>10 DEF TimerFires, Ordered, Serving
<1>11. ASSUME NEW e \in Provider, Restart(e) PROVE Ordered'
  BY <1>11 DEF Restart, Ordered, Serving, Idle
<1>12. ASSUME NEW i \in Issuers, IssuerChanges(i) PROVE Ordered'
  BY <1>12 DEF IssuerChanges, Ordered, Serving
<1> QED
  BY <1>2, <1>3, <1>4, <1>5, <1>6, <1>7, <1>8, <1>9, <1>10, <1>11, <1>12 DEF Next, Reload

LEMMA Invariance == Spec => []IInv
<1>1. Init => IInv
  BY TypeInit, ChainedInit DEF IInv
<1>2. IInv /\ [Next]_vars => IInv'
  BY TypeStep, ChainedStep, OrderedStep DEF IInv
<1> QED
  BY <1>1, <1>2, PTL DEF Spec

\* A settings request is answered 204 only when the serving instance is at
\* least as new as its write.
THEOREM AckedAreLive == Spec => []AckedIsLive
<1>1. IInv => AckedIsLive
  BY DEF IInv, Ordered, AckedIsLive
<1> QED
  BY <1>1, Invariance, PTL

\* No reload, of a request or of the timer, replaces the serving instance by
\* one built from older settings.
THEOREM ReloadsInOrder == Spec => LiveNeverOlder
<1>1. IInv /\ [Next]_vars => [Serving /\ Serving' => live.version <= live'.version]_vars
  <2> SUFFICES ASSUME IInv, Next, Serving, Serving' PROVE live.version <= live'.version
    BY DEF vars, Serving
  <2>1. live' = live \/ (\E x \in Reloads : Build(x)) \/ live' = NoInstance
    BY DEF Next, VerifyIssuer, PutOidc, WriteSettings, Commit, CallReload, Reload, ReadConfig,
           Resume, ProbeSucceeds, ProbeFails, LoadFails, TimerFires, Restart, IssuerChanges
  <2>2. CASE live' = live
    BY <2>2, Numbers DEF IInv
  <2>3. ASSUME NEW x \in Reloads, Build(x) PROVE live.version <= live'.version
    BY <2>3 DEF IInv, Ordered, Build, Install
  <2> QED
    BY <2>1, <2>2, <2>3 DEF Serving
<1> QED
  BY <1>1, Invariance, PTL DEF Spec, LiveNeverOlder

-----------------------------------------------------------------------------
(* Repair *)

\* A reload is on its way that will read the settings as they are now.
Pending == queue # <<>> \/ \E w \in Writers : writer[w].pc = "written"

\* MismatchWatched, and the same for the reload that runs: what it will leave
\* different from the configured provider is watched already.
Watched ==
    /\ Serving /\ live.oidc # Effective /\ ~faulted =>
          retry \/ Pending \/ \E x \in Reloads : running[x] # NoJob
    /\ \A x \in Reloads : running[x] # NoJob /\ running[x].oidc # Effective =>
          Pending \/ (running[x].pc = "building" /\ retry)

LEMMA WatchedInit == Init => Watched
  BY DEF Init, Watched, Pending, Serving, Reloads

LEMMA WatchedStep ==
  ASSUME TypeOK, Chained, Watched, [Next]_vars
  PROVE  Watched'
<1>1. CASE UNCHANGED vars
  BY <1>1 DEF vars, Watched, Pending, Serving, Effective
<1>2. ASSUME NEW w \in Writers, NEW i \in Issuers, VerifyIssuer(w, i) PROVE Watched'
  <2>1. Pending => Pending'
    <3>1. \A v \in Writers : writer[v].pc = "written" => writer'[v].pc = "written"
      BY <1>2 DEF VerifyIssuer, TypeOK
    <3> QED
      BY <1>2, <3>1 DEF VerifyIssuer, Pending
  <2> QED
    BY <1>2, <2>1 DEF VerifyIssuer, Watched, Serving, Effective
<1>3. ASSUME NEW w \in Writers, PutOidc(w) \/ WriteSettings(w) PROVE Watched'
  <2>1. writer'[w].pc = "written"
    BY <1>3 DEF PutOidc, WriteSettings, Commit, TypeOK
  <2> QED
    BY <2>1 DEF Watched, Pending
<1>4. ASSUME NEW w \in Writers, CallReload(w) PROVE Watched'
  <2>1. queue' # <<>>
    BY <1>4, AppendProperties DEF CallReload, TypeOK, Reloads
  <2> QED
    BY <2>1 DEF Watched, Pending
<1>5. ASSUME NEW x \in Reloads, ReadConfig(x) PROVE Watched'
  <2>1. running'[x] # NoJob /\ running'[x].oidc = Effective
    <3>1. running'[x] = [pc |-> "read", oidc |-> Effective, version |-> stored.version]
      BY <1>5 DEF ReadConfig, TypeOK
    <3>2. running'[x] \in Job
      BY <3>1, EffectiveType DEF Job, TypeOK, Config
    <3> QED
      BY <3>1, <3>2, AuthReloadAssumption
  <2>2. \A y \in Reloads : y # x => running'[y] = NoJob
    BY <1>5 DEF ReadConfig, Turn, TypeOK
  <2>3. Effective' = Effective
    BY <1>5 DEF ReadConfig, Effective
  <2> QED
    BY <2>1, <2>2, <2>3 DEF Watched
<1>6. ASSUME NEW x \in Reloads, LoadFails(x) PROVE Watched'
  <2>1. faulted' /\ UNCHANGED running /\ \A y \in Reloads : running[y] = NoJob
    BY <1>6 DEF LoadFails, Turn
  <2> QED
    BY <2>1 DEF Watched
<1>7. ASSUME NEW x \in Reloads, Resume(x) \/ ProbeSucceeds(x) \/ ProbeFails(x) PROVE Watched'
  <2>1. /\ running[x] # NoJob /\ running'[x] # NoJob
        /\ \A y \in Reloads : y # x => running'[y] = NoJob
    <3>1. running'[x] \in Job
      BY <1>7 DEF Resume, ProbeSucceeds, ProbeFails, TypeOK, Job, Provider
    <3> QED
      BY <1>7, <3>1, AuthReloadAssumption
      DEF Resume, ProbeSucceeds, ProbeFails, TypeOK, Chained
  <2>2. UNCHANGED <<queue, writer, stored, env>>
    BY <1>7 DEF Resume, ProbeSucceeds, ProbeFails
  <2>3. running'[x].oidc # Effective => Pending \/ (running'[x].pc = "building" /\ retry')
    BY <1>7 DEF Resume, ProbeSucceeds, ProbeFails, TypeOK, Watched
  <2> QED
    BY <2>1, <2>2, <2>3 DEF Watched, Pending, Effective
<1>8. ASSUME NEW x \in Reloads, Build(x) PROVE Watched'
  <2>1. running[x] # NoJob /\ UNCHANGED <<stored, env, queue>>
    BY <1>8 DEF Build
  <2>2. \A y \in Reloads : running'[y] = NoJob
    BY <1>8, <2>1 DEF Build, Install, TypeOK, Chained
  <2>3. Pending => Pending'
    <3>1. \A v \in Writers : writer[v].pc = "written" => writer'[v].pc = "written"
      BY <1>8, <2>1 DEF Build, Install, Chained
    <3> QED
      BY <2>1, <3>1 DEF Pending
  <2>4. live'.oidc # Effective => retry' \/ Pending
    BY <1>8 DEF Build, Install, Watched
  <2> QED
    BY <2>1, <2>2, <2>3, <2>4 DEF Watched, Effective
<1>9. CASE TimerFires
  <2>1. queue' # <<>>
    BY <1>9, AppendProperties DEF TimerFires, TypeOK, Reloads
  <2> QED
    BY <2>1 DEF Watched, Pending
<1>10. ASSUME NEW e \in Provider, Restart(e) PROVE Watched'
  BY <1>10 DEF Restart, Watched, Pending
<1>11. ASSUME NEW i \in Issuers, IssuerChanges(i) PROVE Watched'
  BY <1>11 DEF IssuerChanges, Watched, Pending, Serving, Effective
<1> QED
  BY <1>1, <1>2, <1>3, <1>4, <1>5, <1>6, <1>7, <1>8, <1>9, <1>10, <1>11 DEF Next, Reload

\* An instance that disagrees with the configured provider is always about to
\* be repaired, unless the last reload was lost to the database.
THEOREM MismatchesWatched == Spec => []MismatchWatched
<1>1. Init => Watched
  BY WatchedInit
<1>2. IInv /\ Watched /\ [Next]_vars => Watched'
  BY WatchedStep DEF IInv
<1>3. Watched => MismatchWatched
  BY DEF Watched, Pending, MismatchWatched
<1> QED
  BY <1>1, <1>2, <1>3, Invariance, PTL DEF Spec

\* While OIDC_* is set no provider is stored, nor is a request about to store one.
Managed ==
    env # NoIssuer => stored.oidc = NoIssuer /\ \A w \in Writers : writer[w].pc # "verified"

\* A provider stored before OIDC_* was set, or by a request meanwhile, is not
\* what the process finds when the variables are gone.
THEOREM NeverRevived == Spec => EnvNeverRevives
<1>1. Init => Managed
  BY DEF Init, Managed, Idle
<1>2. TypeOK /\ Managed /\ [Next]_vars => Managed'
  <2> SUFFICES ASSUME TypeOK, Managed, [Next]_vars PROVE Managed'
    OBVIOUS
  <2>1. CASE UNCHANGED vars
    BY <2>1 DEF vars, Managed
  <2>2. ASSUME NEW w \in Writers, NEW i \in Issuers, VerifyIssuer(w, i) PROVE Managed'
    BY <2>2 DEF VerifyIssuer, Managed
  <2>3. ASSUME NEW w \in Writers, PutOidc(w) \/ WriteSettings(w) PROVE Managed'
    <3>1. ASSUME NEW o, Commit(w, o), env # NoIssuer => o = NoIssuer PROVE Managed'
      BY <3>1 DEF Commit, Managed, TypeOK
    <3> QED
      BY <2>3, <3>1 DEF PutOidc, WriteSettings, Managed
  <2>4. ASSUME NEW w \in Writers, CallReload(w) PROVE Managed'
    BY <2>4 DEF CallReload, Managed, TypeOK
  <2>5. ASSUME NEW x \in Reloads, Reload(x) \/ LoadFails(x) PROVE Managed'
    <3>1. \A w \in Writers : writer'[w] = writer[w] \/ writer'[w].pc = "idle"
      BY <2>5 DEF Reload, ReadConfig, Resume, ProbeSucceeds, ProbeFails, Build, Install,
                  LoadFails, Idle, TypeOK
    <3>2. UNCHANGED <<env, stored>>
      BY <2>5 DEF Reload, ReadConfig, Resume, ProbeSucceeds, ProbeFails, Build, LoadFails
    <3> QED
      BY <3>1, <3>2 DEF Managed
  <2>6. CASE TimerFires
    BY <2>6 DEF TimerFires, Managed
  <2>7. ASSUME NEW e \in Provider, Restart(e) PROVE Managed'
    BY <2>7 DEF Restart, Managed, Idle
  <2>8. ASSUME NEW i \in Issuers, IssuerChanges(i) PROVE Managed'
    BY <2>8 DEF IssuerChanges, Managed
  <2> QED
    BY <2>1, <2>2, <2>3, <2>4, <2>5, <2>6, <2>7, <2>8 DEF Next
<1>3. TypeOK /\ Managed /\ [Next]_vars
        => [env # NoIssuer /\ env' = NoIssuer => stored'.oidc = NoIssuer]_vars
  <2> SUFFICES ASSUME TypeOK, Managed, Next, env # NoIssuer, env' = NoIssuer
               PROVE  stored'.oidc = NoIssuer
    BY DEF vars
  <2>1. UNCHANGED env \/ \E e \in Provider : Restart(e)
    BY DEF Next, VerifyIssuer, PutOidc, WriteSettings, Commit, CallReload, Reload, ReadConfig,
           Resume, ProbeSucceeds, ProbeFails, Build, LoadFails, TimerFires, IssuerChanges
  <2> QED
    BY <2>1 DEF Restart, Managed
<1> QED
  BY <1>1, <1>2, <1>3, TypeCorrect, PTL DEF Spec, EnvNeverRevives

\* Neither reloads nor the removal of the environment bring back what was there
\* before.
THEOREM NothingComesBack == Spec => NeverBackwards
  BY ReloadsInOrder, NeverRevived DEF NeverBackwards

=============================================================================
