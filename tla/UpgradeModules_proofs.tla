------------------------- MODULE UpgradeModules_proofs -------------------------
(***************************************************************************)
(* Proofs about the scheduler of upgrade_client, for every number of       *)
(* modules, every graph of dependencies and every outcome of the jobs.     *)
(***************************************************************************)
EXTENDS UpgradeModules, SequenceTheorems, TLAPS

(* An active call of upgrade_module. *)
Frame == [module : Module, todo : SUBSET Module, ready : BOOLEAN]
Jobs  == [made : BOOLEAN, done : BOOLEAN, success : BOOLEAN]

Typed ==
    /\ dependen_modules \in [Module -> SUBSET Module]
    /\ in_upgrading \in [Module -> BOOLEAN]
    /\ upgrade_done \in [Module -> BOOLEAN]
    /\ upgrade_success \in [Module -> BOOLEAN]
    /\ job \in [Module -> Jobs]
    /\ at \in {"visit", "check", "returned", "failed"}
    /\ i \in 1..N+1
    /\ calls \in Seq(Frame)
    /\ after_error \in BOOLEAN /\ all_done \in BOOLEAN /\ upgrade_error \in BOOLEAN

(* A call that still thinks its module is ready has looked only at         *)
(* dependencies that are done.                                             *)
Looked(f) ==
    f.ready => \A d \in dependen_modules[f.module] \ f.todo : upgrade_done[d]
CallsRight == \A k \in 1..Len(calls) : Looked(calls[k])

(* A module is done when its job is, and a job is waited for until then.   *)
Accounted(m) ==
    /\ upgrade_done[m] => /\ job[m].made /\ job[m].done /\ ~in_upgrading[m]
                          /\ upgrade_success[m] = job[m].success
    /\ job[m].made => in_upgrading[m] \/ upgrade_done[m]
JobsAccounted == \A m \in Module : Accounted(m)

(* A failure is remembered, and after it no module is visited any more.    *)
ErrorsKept ==
    /\ \A m \in Module : upgrade_success[m] \/ upgrade_error
    /\ after_error => upgrade_error
    /\ at = "visit" => ~upgrade_error

(* What all_done says of the modules that the round has checked.           *)
ChecksRight ==
    /\ at # "visit" /\ all_done =>
          \A m \in 1..i-1 : IF after_error THEN ~in_upgrading[m] ELSE upgrade_done[m]
    /\ Ended => i = N + 1 /\ all_done
    /\ at = "returned" => ~upgrade_error

IInv ==
    /\ Typed /\ CallsRight /\ JobsAccounted /\ ErrorsKept /\ ChecksRight
    /\ DependenciesFirst

-----------------------------------------------------------------------------
(***************************************************************************)
(* The stack of calls.                                                     *)
(***************************************************************************)
LEMMA Stack ==
    ASSUME calls \in Seq(Frame), calls # <<>>
    PROVE  /\ This \in Frame /\ Len(calls) \in Nat \ {0}
           /\ Callers \in Seq(Frame) /\ Len(Callers) = Len(calls) - 1
           /\ \A k \in 1..Len(Callers) : Callers[k] = calls[k]
<1>1. Len(calls) \in Nat \ {0} BY EmptySeq
<1>2. \A k \in 1..Len(calls) : calls[k] \in Frame BY ElementOfSeq
<1>3. \A k \in 1..Len(calls)-1 : calls[k] \in Frame BY <1>1, <1>2
<1>4. /\ Callers \in Seq(Frame)
      /\ Len(Callers) = Len(calls) - 1
      /\ \A k \in 1..Len(calls)-1 : Callers[k] = calls[k]
    <2> DEFINE n == Len(calls) - 1
    <2>1. n \in Nat BY <1>1
    <2>2. /\ SubSeq(calls, 1, n) \in Seq(Frame)
          /\ Len(SubSeq(calls, 1, n)) = IF 1 <= n THEN n - 1 + 1 ELSE 0
          /\ \A k \in 1..n-1+1 : SubSeq(calls, 1, n)[k] = calls[1 + k - 1]
        <3> HIDE DEF n
        <3> QED BY <1>3, <2>1, SubSeqProperties DEF n
    <2>3. \A k \in 1..n : 1 + k - 1 = k BY <2>1
    <2> HIDE DEF n
    <2>4. n - 1 + 1 = n /\ (IF 1 <= n THEN n - 1 + 1 ELSE 0) = n BY <2>1
    <2>5. /\ SubSeq(calls, 1, n) \in Seq(Frame)
          /\ Len(SubSeq(calls, 1, n)) = n
          /\ \A k \in 1..n : SubSeq(calls, 1, n)[k] = calls[k]
        BY <2>2, <2>3, <2>4
    <2> QED BY <2>5 DEF Callers, n
<1>5. This \in Frame BY <1>1, <1>2 DEF This
<1>6. \A k \in 1..Len(Callers) : Callers[k] = calls[k] BY <1>4
<1> QED BY <1>1, <1>4, <1>5, <1>6

(* Every call of a stack has looked rightly. *)
AllLooked(cs) == \A k \in 1..Len(cs) : Looked(cs[k])

LEMMA PushLooked ==
    ASSUME NEW cs \in Seq(Frame), AllLooked(cs), NEW f \in Frame, Looked(f)
    PROVE  Append(cs, f) \in Seq(Frame) /\ AllLooked(Append(cs, f))
<1>1. /\ Append(cs, f) \in Seq(Frame)
      /\ Len(Append(cs, f)) = Len(cs) + 1 /\ Len(cs) \in Nat
      /\ \A k \in 1..Len(cs) : Append(cs, f)[k] = cs[k]
      /\ Append(cs, f)[Len(cs) + 1] = f
    BY AppendProperties, LenProperties
<1>2. ASSUME NEW k \in 1..Len(Append(cs, f)) PROVE Looked(Append(cs, f)[k])
    <2>1. k \in 1..Len(cs) \/ k = Len(cs) + 1 BY <1>1
    <2> QED BY <2>1, <1>1 DEF AllLooked
<1> QED BY <1>1, <1>2 DEF AllLooked

(* A call has looked at nothing when it begins. *)
LEMMA CallLooked ==
    ASSUME Typed, NEW cs \in Seq(Frame), AllLooked(cs), NEW m \in Module, Call(m, cs)
    PROVE  calls' \in Seq(Frame) /\ AllLooked(calls')
<1> DEFINE f == [module |-> m, todo |-> dependen_modules[m], ready |-> TRUE]
<1>1. f \in Frame BY DEF Typed, Frame
<1>2. Looked(f) BY DEF Looked
<1>3. calls' = cs \/ calls' = Append(cs, f) BY DEF Call
<1> HIDE DEF f
<1> QED BY <1>1, <1>2, <1>3, PushLooked

(* While the graph and upgrade_done stay, calls that have looked rightly   *)
(* still have; more modules may be done.                                   *)
LEMMA LookedStays ==
    ASSUME Typed, UNCHANGED dependen_modules,
           \A m \in Module : upgrade_done[m] => upgrade_done'[m],
           calls' \in Seq(Frame), AllLooked(calls')
    PROVE  CallsRight'
<1>1. ASSUME NEW k \in 1..Len(calls'), calls'[k].ready,
             NEW d \in dependen_modules[calls'[k].module] \ calls'[k].todo
      PROVE  upgrade_done'[d]
    <2>1. calls'[k] \in Frame BY ElementOfSeq
    <2>2. calls'[k].module \in Module BY <2>1 DEF Frame
    <2>3. d \in Module BY <2>2 DEF Typed
    <2>4. upgrade_done[d] BY <1>1 DEF AllLooked, Looked
    <2> QED BY <2>3, <2>4
<1> QED BY <1>1 DEF CallsRight, Looked

(* No call is active. *)
LEMMA NoCalls ==
    ASSUME calls' = <<>>
    PROVE  calls' \in Seq(Frame) /\ CallsRight'
<1>1. <<>> \in Seq(Frame) /\ Len(<<>>) = 0 BY EmptySeq
<1> QED BY <1>1 DEF CallsRight

-----------------------------------------------------------------------------
(***************************************************************************)
(* The steps that visit modules.                                           *)
(***************************************************************************)
(* A visit without an exception: only the stack and i move. *)
Walks ==
    /\ UNCHANGED <<dependen_modules, modules, job, at, round>>
    /\ at = "visit" /\ i' \in 1..N+1
    /\ calls' \in Seq(Frame) /\ AllLooked(calls')

LEMMA WalkStep ==
    ASSUME IInv, Walks
    PROVE  IInv'
<1>1. Typed' BY DEF IInv, Typed, Walks, modules, round
<1>2. CallsRight' BY LookedStays DEF IInv, Walks, modules
<1>3. JobsAccounted' BY DEF IInv, JobsAccounted, Accounted, Walks, modules
<1>4. ErrorsKept' BY DEF IInv, ErrorsKept, Walks, modules, round
<1>5. ChecksRight' BY DEF IInv, ChecksRight, Walks, Ended, modules, round
<1>6. DependenciesFirst' BY DEF IInv, DependenciesFirst, Walks, modules
<1> QED BY <1>1, <1>2, <1>3, <1>4, <1>5, <1>6 DEF IInv

(* An exception: the round ends, and the next only checks. *)
LEMMA ExceptionStep ==
    ASSUME IInv, NextRound(TRUE), UNCHANGED <<dependen_modules, upgrade_done, upgrade_success, job>>,
           in_upgrading' \in [Module -> BOOLEAN],
           \A m \in Module : in_upgrading[m] => in_upgrading'[m],
           \A m \in Module : upgrade_done[m] => ~in_upgrading'[m]
    PROVE  IInv'
<1> USE SizeAssumption
<1>1. CallsRight' /\ calls' \in Seq(Frame) BY NoCalls DEF NextRound
<1>2. Typed' BY <1>1 DEF IInv, Typed, NextRound
<1>3. JobsAccounted' BY DEF IInv, JobsAccounted, Accounted
<1>4. ErrorsKept' BY DEF NextRound, ErrorsKept
<1>5. ChecksRight' BY DEF NextRound, ChecksRight, Ended
<1>6. DependenciesFirst' BY DEF IInv, DependenciesFirst
<1> QED BY <1>1, <1>2, <1>3, <1>4, <1>5, <1>6 DEF IInv

LEMMA VisitStep ==
    ASSUME IInv, VisitModule \/ VisitsEnd \/ Return
    PROVE  IInv'
<1> USE SizeAssumption DEF IInv
<1>1. CASE VisitModule
    <2>1. i \in Module /\ i' = i + 1 BY <1>1 DEF VisitModule, Typed, Module
    <2>2. <<>> \in Seq(Frame) /\ AllLooked(<<>>) BY EmptySeq DEF AllLooked
    <2>3. calls' \in Seq(Frame) /\ AllLooked(calls')
        BY <1>1, <2>1, <2>2, CallLooked DEF VisitModule
    <2>4. Walks BY <1>1, <2>1, <2>3 DEF VisitModule, Call, Walks, Module
    <2> QED BY <2>4, WalkStep
<1>2. CASE VisitsEnd
    <2>1. Typed' BY <1>2 DEF VisitsEnd, Typed, modules, round
    <2>2. CallsRight' BY <1>2 DEF VisitsEnd, CallsRight, Looked, modules
    <2>3. JobsAccounted' BY <1>2 DEF VisitsEnd, JobsAccounted, Accounted, modules
    <2>4. ErrorsKept' BY <1>2 DEF VisitsEnd, ErrorsKept, modules, round
    <2>5. ChecksRight' BY <1>2 DEF VisitsEnd, ChecksRight, Ended, round
    <2>6. DependenciesFirst' BY <1>2 DEF VisitsEnd, DependenciesFirst, modules
    <2> QED BY <2>1, <2>2, <2>3, <2>4, <2>5, <2>6
<1>3. CASE Return
    <2>1. calls # <<>> /\ calls' = Callers BY <1>3 DEF Return, InModule
    <2>2. /\ Callers \in Seq(Frame) /\ Len(Callers) = Len(calls) - 1
          /\ Len(calls) \in Nat
          /\ \A k \in 1..Len(Callers) : Callers[k] = calls[k]
        BY <2>1, Stack DEF Typed
    <2>3. AllLooked(Callers) BY <2>2 DEF AllLooked, CallsRight
    <2>4. Walks BY <1>3, <2>1, <2>2, <2>3 DEF Return, InModule, Walks, Typed
    <2> QED BY <2>4, WalkStep
<1> QED BY <1>1, <1>2, <1>3

LEMMA VisitDependencyStep ==
    ASSUME IInv, NEW d \in Module, VisitDependency(d)
    PROVE  IInv'
<1> USE DEF IInv
<1> DEFINE rest == [This EXCEPT !.todo = @ \ {d}]
           looked == [rest EXCEPT !.ready = @ /\ upgrade_done[d]]
<1>1. CASE NextRound(TRUE)
    <2>1. UNCHANGED <<dependen_modules, modules, job>> BY DEF VisitDependency
    <2> QED BY <1>1, <2>1, ExceptionStep DEF modules, Typed, JobsAccounted, Accounted
<1>2. CASE Call(d, Append(Callers, looked)) /\ UNCHANGED i
    <2>1. at = "visit" /\ calls # <<>> BY DEF VisitDependency, InModule
    <2>2. /\ This \in Frame /\ Len(calls) \in Nat \ {0}
          /\ Callers \in Seq(Frame) /\ Len(Callers) = Len(calls) - 1
          /\ \A k \in 1..Len(Callers) : Callers[k] = calls[k]
        BY <2>1, Stack DEF Typed
    <2>3. AllLooked(Callers) BY <2>2 DEF AllLooked, CallsRight
    <2>4. Looked(This) BY <2>2 DEF CallsRight, This
    <2>5. upgrade_done[d] \in BOOLEAN BY DEF Typed
    <2>6. /\ looked \in Frame /\ looked.module = This.module
          /\ looked.todo = This.todo \ {d}
          /\ looked.ready = (This.ready /\ upgrade_done[d])
        BY <2>2, <2>5 DEF Frame
    <2> HIDE DEF looked
    <2>7. Looked(looked) BY <2>4, <2>6 DEF Looked
    <2>8. Append(Callers, looked) \in Seq(Frame) /\ AllLooked(Append(Callers, looked))
        BY <2>2, <2>3, <2>6, <2>7, PushLooked
    <2>9. calls' \in Seq(Frame) /\ AllLooked(calls')
        BY <1>2, <2>8, CallLooked
    <2>10. Walks BY <1>2, <2>1, <2>9 DEF VisitDependency, Call, Walks, Typed
    <2> QED BY <2>10, WalkStep
<1> QED BY <1>1, <1>2 DEF VisitDependency

(* A job starts: all that its module depends on is done, and since visits  *)
(* stop with the first failure, done with success.                         *)
LEMMA StartJobStep ==
    ASSUME IInv, StartJob
    PROVE  IInv'
<1> USE DEF IInv
<1> DEFINE s == This.module
<1>1. at = "visit" /\ calls # <<>> BY DEF StartJob, InModule
<1>2. /\ This \in Frame /\ Len(calls) \in Nat \ {0}
      /\ Callers \in Seq(Frame) /\ Len(Callers) = Len(calls) - 1
      /\ \A k \in 1..Len(Callers) : Callers[k] = calls[k]
    BY <1>1, Stack DEF Typed
<1>3. s \in Module BY <1>2 DEF Frame
<1>4. AllLooked(Callers) BY <1>2 DEF AllLooked, CallsRight
<1>5. ~upgrade_done[s] /\ ~in_upgrading[s] BY DEF StartJob, Busy
<1>6. \A d \in dependen_modules[s] : upgrade_done[d]
    BY <1>2 DEF CallsRight, This, Looked, StartJob
<1>7. \A d \in dependen_modules[s] : d \in Module /\ upgrade_success[d]
    BY <1>1, <1>3 DEF Typed, ErrorsKept
<1>8. /\ in_upgrading' = [in_upgrading EXCEPT ![s] = TRUE]
      /\ UNCHANGED <<dependen_modules, upgrade_done, upgrade_success>>
    BY DEF StartJob
<1> HIDE DEF s
<1>9. CASE NextRound(TRUE) /\ UNCHANGED job
    BY <1>3, <1>5, <1>8, <1>9, ExceptionStep DEF Typed, JobsAccounted, Accounted
<1>10. ASSUME NEW found \in BOOLEAN, job' = [job EXCEPT ![s] = Job(~found, found)],
              calls' = Callers, UNCHANGED <<at, i, round>>
       PROVE  IInv'
    <2>1. Job(~found, found) \in Jobs BY DEF Job, Jobs
    <2>2. Typed' BY <1>2, <1>3, <1>8, <1>10, <2>1 DEF Typed, round
    <2>3. CallsRight' BY <1>2, <1>4, <1>8, <1>10, LookedStays
    <2>4. JobsAccounted' BY <1>3, <1>5, <1>8, <1>10, <2>1 DEF JobsAccounted, Accounted, Typed, Jobs, Job
    <2>5. ErrorsKept' BY <1>8, <1>10 DEF ErrorsKept, round
    <2>6. ChecksRight' BY <1>1, <1>10 DEF ChecksRight, Ended
    <2>7. DependenciesFirst'
        BY <1>3, <1>6, <1>7, <1>8, <1>10 DEF DependenciesFirst, Typed, Job
    <2> QED BY <2>2, <2>3, <2>4, <2>5, <2>6, <2>7
<1> QED BY <1>9, <1>10 DEF StartJob, s

-----------------------------------------------------------------------------
(***************************************************************************)
(* The steps that check modules.                                           *)
(***************************************************************************)
LEMMA CheckModuleStep ==
    ASSUME IInv, CheckModule
    PROVE  IInv'
<1> USE SizeAssumption DEF IInv
<1>1. at = "check" /\ i \in Module BY DEF CheckModule, Typed, Module
<1>2. UNCHANGED <<dependen_modules, job>> BY DEF CheckModule
<1>3. CASE NextRound(TRUE) /\ UNCHANGED modules
    BY <1>2, <1>3, ExceptionStep DEF modules, Typed, JobsAccounted, Accounted
<1>4. CASE /\ ~(in_upgrading[i] /\ IsRunningRaises(i))
           /\ CheckUpgradeDone(i)
           /\ all_done' = (all_done /\ ~StillToDo(i))
           /\ upgrade_error' = (upgrade_error \/ ~upgrade_success'[i])
           /\ i' = i + 1
           /\ UNCHANGED <<at, calls, after_error>>
    <2>1. /\ in_upgrading' \in [Module -> BOOLEAN] /\ upgrade_done' \in [Module -> BOOLEAN]
          /\ upgrade_success' \in [Module -> BOOLEAN]
          /\ \A m \in Module \ {i} : /\ in_upgrading'[m] = in_upgrading[m]
                                     /\ upgrade_done'[m] = upgrade_done[m]
                                     /\ upgrade_success'[m] = upgrade_success[m]
          /\ upgrade_done[i] => /\ upgrade_done'[i] /\ ~in_upgrading'[i]
                                /\ upgrade_success'[i] = upgrade_success[i]
          /\ \A m \in {i} : Accounted(m)'
        <3>1. CASE in_upgrading[i] /\ job[i].done
            <4>1. job[i].made /\ ~upgrade_done[i] /\ job[i].success \in BOOLEAN
                BY <1>1, <1>4, <3>1 DEF IsRunningRaises, JobsAccounted, Accounted, Typed, Jobs
            <4>2. /\ upgrade_done' = [upgrade_done EXCEPT ![i] = TRUE]
                  /\ in_upgrading' = [in_upgrading EXCEPT ![i] = FALSE]
                  /\ upgrade_success' = [upgrade_success EXCEPT ![i] = job[i].success]
                BY <1>4, <3>1 DEF CheckUpgradeDone
            <4>3. upgrade_done'[i] /\ ~in_upgrading'[i] /\ upgrade_success'[i] = job[i].success
                BY <1>1, <4>2 DEF Typed
            <4>4. \A m \in {i} : Accounted(m)' BY <1>2, <3>1, <4>1, <4>3 DEF Accounted
            <4> QED BY <1>1, <4>1, <4>2, <4>4 DEF Typed
        <3>2. CASE UNCHANGED modules
            BY <1>1, <1>2, <3>2 DEF modules, Typed, JobsAccounted, Accounted
        <3> QED BY <1>4, <3>1, <3>2 DEF CheckUpgradeDone
    <2>2. \A m \in Module : upgrade_done[m] => upgrade_done'[m] /\ upgrade_success'[m] = upgrade_success[m]
        BY <1>1, <2>1
    <2>3. Typed'
        <3>1. i' \in 1..N+1 BY <1>1, <1>4 DEF Module
        <3>2. all_done' \in BOOLEAN /\ upgrade_error' \in BOOLEAN BY <1>4 DEF Typed
        <3> QED BY <1>2, <1>4, <2>1, <3>1, <3>2 DEF Typed
    <2>4. CallsRight'
        <3>1. AllLooked(calls') BY <1>4 DEF AllLooked, CallsRight
        <3> QED BY <1>2, <1>4, <2>2, <3>1, LookedStays DEF Typed
    <2>5. JobsAccounted'
        BY <1>2, <2>1 DEF JobsAccounted, Accounted
    <2>6. ErrorsKept'
        BY <1>1, <1>4, <2>1 DEF ErrorsKept
    <2>7. ChecksRight'
        <3>1. ASSUME all_done', NEW m \in 1..i'-1
              PROVE  IF after_error' THEN ~in_upgrading'[m] ELSE upgrade_done'[m]
            <4>1. m \in 1..i-1 \/ m = i BY <1>1, <1>4 DEF Module
            <4>2. CASE m = i BY <1>4, <3>1, <4>2 DEF StillToDo
            <4>3. CASE m \in 1..i-1
                <5>1. m \in Module \ {i} BY <1>1, <4>3 DEF Module
                <5> QED BY <1>1, <1>4, <2>1, <3>1, <4>3, <5>1 DEF ChecksRight
            <4> QED BY <4>1, <4>2, <4>3
        <3> QED BY <1>1, <1>4, <3>1 DEF ChecksRight, Ended
    <2>8. DependenciesFirst'
        BY <1>2, <2>2 DEF DependenciesFirst, Typed
    <2> QED BY <2>3, <2>4, <2>5, <2>6, <2>7, <2>8
<1> QED BY <1>3, <1>4 DEF CheckModule

LEMMA ChecksEndStep ==
    ASSUME IInv, ChecksEnd
    PROVE  IInv'
<1> USE SizeAssumption DEF IInv
<1>1. /\ at = "check" /\ i = N + 1
      /\ UNCHANGED <<dependen_modules, modules, job>>
    BY DEF ChecksEnd, Typed
<1>2. JobsAccounted' BY <1>1 DEF modules, JobsAccounted, Accounted
<1>3. DependenciesFirst' BY <1>1 DEF modules, DependenciesFirst
<1>4. CASE /\ all_done /\ UNCHANGED <<i, calls, round>>
           /\ at' = IF upgrade_error THEN "failed" ELSE "returned"
    <2>1. Typed' BY <1>1, <1>4 DEF Typed, modules, round
    <2>2. CallsRight' BY <1>1, <1>4 DEF CallsRight, Looked, modules
    <2>3. ErrorsKept' BY <1>1, <1>4 DEF ErrorsKept, modules, round
    <2>4. ChecksRight' BY <1>1, <1>4 DEF ChecksRight, Ended, modules, round
    <2> QED BY <1>2, <1>3, <2>1, <2>2, <2>3, <2>4
<1>5. CASE NextRound(upgrade_error)
    <2>1. CallsRight' /\ calls' \in Seq(Frame) BY <1>5, NoCalls DEF NextRound
    <2>2. Typed' BY <1>1, <1>5, <2>1 DEF Typed, modules, NextRound
    <2>3. ErrorsKept' BY <1>1, <1>5 DEF ErrorsKept, Typed, modules, NextRound
    <2>4. ChecksRight' BY <1>5 DEF ChecksRight, Ended, NextRound
    <2> QED BY <1>2, <1>3, <2>1, <2>2, <2>3, <2>4
<1> QED BY <1>4, <1>5 DEF ChecksEnd

-----------------------------------------------------------------------------
(***************************************************************************)
(* The jobs, and the theorems.                                             *)
(***************************************************************************)
LEMMA JobStep ==
    ASSUME IInv, NEW m \in Module, JobFails(m) \/ JobEnds(m)
    PROVE  IInv'
<1> USE DEF IInv
<1>1. /\ UNCHANGED <<dependen_modules, modules, at, i, calls, round>>
      /\ job[m].made /\ ~job[m].done
    BY DEF JobFails, JobEnds, Job
<1>2. /\ job' \in [Module -> Jobs] /\ job'[m].made
      /\ \A k \in Module \ {m} : job'[k] = job[k]
    <2>1. CASE job' = [job EXCEPT ![m].success = FALSE]
        BY <1>1, <2>1 DEF Typed, Jobs
    <2>2. CASE job' = [job EXCEPT ![m].done = TRUE]
        BY <1>1, <2>2 DEF Typed, Jobs
    <2> QED BY <2>1, <2>2 DEF JobFails, JobEnds
<1>3. ~upgrade_done[m] /\ in_upgrading[m] BY <1>1 DEF JobsAccounted, Accounted
<1>4. Typed' BY <1>1, <1>2 DEF Typed, modules, round
<1>5. CallsRight' BY <1>1 DEF CallsRight, Looked, modules
<1>6. JobsAccounted' BY <1>1, <1>2, <1>3 DEF JobsAccounted, Accounted, modules
<1>7. ErrorsKept' BY <1>1 DEF ErrorsKept, modules, round
<1>8. ChecksRight' BY <1>1 DEF ChecksRight, Ended, modules, round
<1>9. DependenciesFirst' BY <1>1, <1>2 DEF DependenciesFirst, modules
<1> QED BY <1>4, <1>5, <1>6, <1>7, <1>8, <1>9

LEMMA InitIInv == Init => IInv
<1> SUFFICES ASSUME Init PROVE IInv
    OBVIOUS
<1> USE SizeAssumption
<1>1. <<>> \in Seq(Frame) /\ Len(<<>>) = 0 BY EmptySeq
<1>2. Typed
    <2>1. job \in [Module -> Jobs] BY DEF Init, Jobs, NoJob
    <2>2. dependen_modules \in [Module -> SUBSET Module] BY DEF Init
    <2>3. i \in 1..N+1 /\ calls \in Seq(Frame) BY <1>1 DEF Init
    <2> QED BY <2>1, <2>2, <2>3 DEF Init, Typed
<1>3. CallsRight BY <1>1 DEF Init, CallsRight
<1>4. JobsAccounted BY DEF Init, JobsAccounted, Accounted, NoJob
<1>5. ErrorsKept BY DEF Init, ErrorsKept
<1>6. ChecksRight BY DEF Init, ChecksRight, Ended
<1>7. DependenciesFirst BY DEF Init, DependenciesFirst, NoJob
<1> QED BY <1>2, <1>3, <1>4, <1>5, <1>6, <1>7 DEF IInv

LEMMA Invariant == Spec => []IInv
<1>1. IInv /\ [Next]_vars => IInv'
    <2> SUFFICES ASSUME IInv, [Next]_vars PROVE IInv'
        OBVIOUS
    <2>1. CASE VisitModule \/ VisitsEnd \/ Return BY <2>1, VisitStep
    <2>2. CASE \E d \in Module : VisitDependency(d) BY <2>2, VisitDependencyStep
    <2>3. CASE StartJob BY <2>3, StartJobStep
    <2>4. CASE CheckModule BY <2>4, CheckModuleStep
    <2>5. CASE ChecksEnd BY <2>5, ChecksEndStep
    <2>6. CASE \E m \in Module : JobFails(m) \/ JobEnds(m) BY <2>6, JobStep
    <2>7. CASE UNCHANGED vars
        BY <2>7 DEF IInv, Typed, CallsRight, Looked, JobsAccounted, Accounted, ErrorsKept,
           ChecksRight, Ended, DependenciesFirst, vars, modules, round
    <2> QED BY <2>1, <2>2, <2>3, <2>4, <2>5, <2>6, <2>7 DEF Next, Upgrade
<1> QED BY <1>1, InitIInv, PTL DEF Spec

(* No job starts before all that its module depends on has been upgraded   *)
(* with success, whatever the graph, the failures and the exceptions.      *)
THEOREM UpgradesInOrder == Spec => []DependenciesFirst
<1>1. IInv => DependenciesFirst BY DEF IInv
<1> QED BY <1>1, Invariant, PTL

(* Modules.upgrade does not report a success that is not one, and leaves   *)
(* no job behind.                                                          *)
THEOREM EndsHonestly == Spec => []HonestEnd
<1>1. IInv => HonestEnd
    <2> SUFFICES ASSUME IInv PROVE HonestEnd
        OBVIOUS
    <2> USE SizeAssumption DEF IInv
    <2>1. ASSUME Ended, NEW m \in Module
          PROVE  IF after_error THEN ~in_upgrading[m] ELSE upgrade_done[m]
        <3>1. m \in 1..i-1 BY <2>1 DEF ChecksRight, Module
        <3> QED BY <2>1, <3>1 DEF ChecksRight, Ended
    <2>2. ASSUME at = "returned", NEW m \in Module
          PROVE  upgrade_done[m] /\ job[m].made /\ job[m].success
        <3>1. ~after_error /\ upgrade_success[m] BY <2>2 DEF ChecksRight, ErrorsKept
        <3>2. upgrade_done[m] BY <2>1, <2>2, <3>1 DEF Ended
        <3> QED BY <3>1, <3>2 DEF JobsAccounted, Accounted
    <2>3. ASSUME Ended, NEW m \in Module, job[m].made PROVE job[m].done
        BY <2>1, <2>3 DEF JobsAccounted, Accounted
    <2> QED BY <2>2, <2>3 DEF HonestEnd
<1> QED BY <1>1, Invariant, PTL
=============================================================================
