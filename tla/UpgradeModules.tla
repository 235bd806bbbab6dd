--------------------------- MODULE UpgradeModules ---------------------------
(***************************************************************************)
(* The scheduler of upgrade_client: Modules.upgrade of ecu_modules.py      *)
(* starts a job per module when the modules it depends on are done, and    *)
(* waits for the jobs, threads of upgrade_job.py.  An exception ends a     *)
(* round of its loop, not the loop.                                        *)
(*                                                                         *)
(* The scheduler is modelled for every job that UpgradeJob could be, what  *)
(* it is included: with the dictionary Module.upgrade passes, the          *)
(* constructor raises KeyError ("raises"); and nothing starts the thread,  *)
(* or its exception kills it ("never").                                    *)
(***************************************************************************)
EXTENDS Naturals, Sequences

CONSTANTS
    N,              \* number of modules, 1..N in the order of config.json
    RecursionLimit  \* sys.getrecursionlimit(), in calls of upgrade_module

(* The limit is 1000: modules that do not depend on each other never reach *)
(* it.                                                                     *)
ASSUME SizeAssumption == N \in Nat /\ RecursionLimit \in Nat /\ N < RecursionLimit

Module == 1..N

VARIABLES
    dependen_modules,   \* of each module (a module's own name is left out)
    in_upgrading, upgrade_done, upgrade_success,    \* of each module
    job,                \* upgrade_job of each module
    fate,               \* whether the job ends, once it is made
    at,                 \* the loop: "visit", "check", or "returned", "failed"
    i,                  \* the module its for statement is at
    calls,              \* the calls of upgrade_module that are active
    after_error,        \* the round is one of the else branch
    all_done, upgrade_error

modules == <<in_upgrading, upgrade_done, upgrade_success>>
round   == <<after_error, all_done, upgrade_error>>
vars    == <<dependen_modules, modules, job, fate, at, i, calls, round>>

(* None; and what a job's fields say.                                      *)
NoJob == [made |-> FALSE, done |-> FALSE, success |-> TRUE]
Job(done, success) == [made |-> TRUE, done |-> done, success |-> success]

Ended == at \in {"returned", "failed"}

Init ==
    /\ dependen_modules \in {g \in [Module -> SUBSET Module] : \A m \in Module : m \notin g[m]}
    /\ in_upgrading = [m \in Module |-> FALSE]
    /\ upgrade_done = [m \in Module |-> FALSE]
    /\ upgrade_success = [m \in Module |-> TRUE]
    /\ job = [m \in Module |-> NoJob] /\ fate \in [Module -> {"ends", "never"}]
    /\ at = "visit" /\ i = 1 /\ calls = <<>>
    /\ after_error = FALSE /\ all_done = TRUE /\ upgrade_error = FALSE

-----------------------------------------------------------------------------
(* The next round of the loop.                                             *)
NextRound(error) ==
    /\ at' = IF error THEN "check" ELSE "visit"
    /\ i' = 1 /\ calls' = <<>>
    /\ after_error' = error /\ all_done' = TRUE /\ upgrade_error' = error

Busy(m) == upgrade_done[m] \/ in_upgrading[m]

(* upgrade_module is called, with the calls cs active; for a module that   *)
(* is done or being upgraded the call returns at once.                     *)
Call(m, cs) ==
    /\ calls' = IF Busy(m) THEN cs
                ELSE Append(cs, [module |-> m, todo |-> dependen_modules[m], ready |-> TRUE])
    /\ UNCHANGED <<at, round>>

VisitModule ==
    /\ at = "visit" /\ calls = <<>> /\ i <= N
    /\ Call(i, <<>>)
    /\ i' = i + 1
    /\ UNCHANGED <<dependen_modules, modules, job, fate>>

VisitsEnd ==
    /\ at = "visit" /\ calls = <<>> /\ i > N
    /\ at' = "check" /\ i' = 1
    /\ UNCHANGED <<dependen_modules, modules, job, fate, calls, round>>

InModule == at = "visit" /\ calls # <<>>
This == calls[Len(calls)]
Callers == SubSeq(calls, 1, Len(calls) - 1)

(* RecursionError: modules depend on each other.                           *)
TooDeep == Len(calls) = RecursionLimit

(* Mutant: a dependency whose job has started is as good as done.          *)
VisitDependencyStarted(d) ==
    /\ InModule /\ d \in This.todo
    /\ LET rest == [This EXCEPT !.todo = @ \ {d}] IN
       \/ TooDeep /\ NextRound(TRUE)
       \/ /\ ~TooDeep
          /\ Call(d, Append(Callers, [rest EXCEPT !.ready = @ /\ Busy(d)]))
          /\ UNCHANGED i
    /\ UNCHANGED <<dependen_modules, modules, job, fate>>

(* The next dependency; unless it is done it is visited in its turn, and   *)
(* the module has to wait.                                                 *)
VisitDependency(d) ==
    /\ InModule /\ d \in This.todo
    /\ LET rest == [This EXCEPT !.todo = @ \ {d}] IN
       \/ TooDeep /\ NextRound(TRUE)
       \/ /\ ~TooDeep
          /\ Call(d, Append(Callers, [rest EXCEPT !.ready = @ /\ upgrade_done[d]]))
          /\ UNCHANGED i
    /\ UNCHANGED <<dependen_modules, modules, job, fate>>

Return ==
    /\ InModule /\ This.todo = {} /\ (~This.ready \/ Busy(This.module))
    /\ calls' = Callers
    /\ UNCHANGED <<dependen_modules, modules, job, fate, at, i, round>>

(* Module.upgrade, then the call returns.  The constructor of UpgradeJob   *)
(* raises, finds its files or misses them.                                 *)
StartJob ==
    /\ InModule /\ This.todo = {} /\ This.ready /\ ~Busy(This.module)
    /\ in_upgrading' = [in_upgrading EXCEPT ![This.module] = TRUE]
    /\ \/ NextRound(TRUE) /\ UNCHANGED job
       \/ /\ \E found \in BOOLEAN :
                job' = [job EXCEPT ![This.module] = Job(~found, found)]
          /\ calls' = Callers
          /\ UNCHANGED <<at, i, round>>
    /\ UNCHANGED <<dependen_modules, upgrade_done, upgrade_success, fate>>

-----------------------------------------------------------------------------
(* is_running raises on upgrade_job None, and in the moment in which run   *)
(* has set the result of a job that failed but not upgrade_done.           *)
IsRunningRaises(m) == ~job[m].made \/ (~job[m].done /\ ~job[m].success)

(* Mutant: the job is over, in_upgrading stays.                            *)
CheckUpgradeDoneKeeps(m) ==
    IF in_upgrading[m] /\ job[m].done
    THEN /\ upgrade_done' = [upgrade_done EXCEPT ![m] = TRUE]
         /\ upgrade_success' = [upgrade_success EXCEPT ![m] = job[m].success]
         /\ UNCHANGED in_upgrading
    ELSE UNCHANGED modules

CheckUpgradeDone(m) ==
    IF in_upgrading[m] /\ job[m].done
    THEN /\ upgrade_done' = [upgrade_done EXCEPT ![m] = TRUE]
         /\ in_upgrading' = [in_upgrading EXCEPT ![m] = FALSE]
         /\ upgrade_success' = [upgrade_success EXCEPT ![m] = job[m].success]
    ELSE UNCHANGED modules

(* Mutant: after an error the jobs that still run are not waited for.      *)
StillToDoAny(m) == ~after_error /\ ~upgrade_done'[m]

(* What keeps the loop from ending.                                        *)
StillToDo(m) == IF after_error THEN in_upgrading'[m] ELSE ~upgrade_done'[m]

CheckModule ==
    /\ at = "check" /\ i <= N
    /\ IF in_upgrading[i] /\ IsRunningRaises(i)
       THEN NextRound(TRUE) /\ UNCHANGED modules
       ELSE /\ CheckUpgradeDone(i)
            /\ all_done' = (all_done /\ ~StillToDo(i))
            /\ upgrade_error' = (upgrade_error \/ ~upgrade_success'[i])
            /\ i' = i + 1
            /\ UNCHANGED <<at, calls, after_error>>
    /\ UNCHANGED <<dependen_modules, job, fate>>

ChecksEnd ==
    /\ at = "check" /\ i > N
    /\ IF all_done
       THEN /\ at' = IF upgrade_error THEN "failed" ELSE "returned"
            /\ UNCHANGED <<i, calls, round>>
       ELSE NextRound(upgrade_error)
    /\ UNCHANGED <<dependen_modules, modules, job, fate>>

(* UpgradeJob.run: ProgramSoc or ProgramEcu returns a result, which is     *)
(* assigned before upgrade_done.                                           *)
JobFails(m) ==
    /\ job[m] = Job(FALSE, TRUE) /\ fate[m] = "ends"
    /\ job' = [job EXCEPT ![m].success = FALSE]
    /\ UNCHANGED <<dependen_modules, modules, fate, at, i, calls, round>>

JobEnds(m) ==
    /\ job[m].made /\ ~job[m].done /\ fate[m] = "ends"
    /\ job' = [job EXCEPT ![m].done = TRUE]
    /\ UNCHANGED <<dependen_modules, modules, fate, at, i, calls, round>>

Upgrade ==
    \/ VisitModule \/ VisitsEnd
    \/ \E d \in Module : VisitDependency(d)
    \/ Return \/ StartJob
    \/ CheckModule \/ ChecksEnd

Next == Upgrade \/ \E m \in Module : JobFails(m) \/ JobEnds(m)

(* The loop goes on, and a job that ends, ends in time.                    *)
Fairness == WF_vars(Upgrade) /\ \A m \in Module : WF_vars(JobEnds(m))

Spec == Init /\ [][Next]_vars /\ Fairness

-----------------------------------------------------------------------------
(***************************************************************************)
(* Properties.                                                             *)
(***************************************************************************)
(* A module's job starts when every module it depends on has been upgraded *)
(* with success, whatever the graph, the failures and the exceptions.      *)
DependenciesFirst ==
    \A m \in Module : job[m].made =>
        \A d \in dependen_modules[m] : upgrade_done[d] /\ upgrade_success[d]

(* Modules.upgrade returns only when every module has been upgraded with   *)
(* success, and ends, also with an exception, only when no job runs.       *)
HonestEnd ==
    /\ at = "returned" => \A m \in Module : upgrade_done[m] /\ job[m].made /\ job[m].success
    /\ Ended => \A m \in Module : job[m].made => job[m].done

(* A job that check_upgrade_done waits for in vain: it was never made (the *)
(* constructor raised, upgrade_job is None), or nobody runs it to its end. *)
Lost(m) == in_upgrading[m] /\ (~job[m].made \/ (~job[m].done /\ fate[m] = "never"))

(* Modules.upgrade ends unless a job is lost: also when modules depend on  *)
(* each other, or a job fails in the middle of a check.                    *)
UpgradeEnds == <>(Ended \/ \E m \in Module : Lost(m))
=============================================================================
