----------------------------- MODULE DeployRelease -----------------------------
(***************************************************************************)
(* Deployment (deploy/deploy_release.py): stage a release next to the      *)
(* running one, switch the current symlink and the entry point, restart    *)
(* the service, check its health, and roll back when something fails.      *)
(*                                                                         *)
(* What must survive is on disk, and the service manager may restart the   *)
(* service from the disk at any moment.  A deployment can fail at every    *)
(* step, be cut off at every step, and meet another deployment.            *)
(***************************************************************************)
EXTENDS Naturals, FiniteSets

CONSTANTS
    Deployer,  \* runs of the deployment script
    Release,   \* release directories, one for each deployment
    Sound,     \* releases that pass verification, installation and checks
    Healthy,   \* sound releases that come up and answer in production
    None,      \* no release, no process
    Legacy     \* the application as it was before releases

ASSUME DeployParameters ==
    /\ Healthy \subseteq Sound /\ Sound \subseteq Release
    /\ None # Legacy /\ None \notin Release /\ Legacy \notin Release
    /\ None \notin Deployer

VARIABLES
    unit,      \* what the service unit executes: the entry point or current
    current,   \* target of the current symlink
    entry,     \* content of main.py in the application directory
    service,   \* what the service runs, "stopped" if it was stopped
    staged,    \* how many staging steps each release directory went through
    lock,      \* holder of .deploy.lock
    script,    \* where each deployment is
    proven,    \* history: releases that were deployed with success
    cut,       \* history: an activation was cut off or could not roll back
    result     \* how the last deployment that ended went

vars == <<unit, current, entry, service, staged, lock, script, proven, cut,
          result>>

disk == <<unit, current, entry, staged>>

-------------------------------------------------------------------------------
(* State *)

\* Staging: extract, verify and read the identity, install, check the runtime,
\* link configuration and logs, validate with the production configuration.
Steps == 6
Verify == 2
Entry == {"nothing", "legacy", "dispatcher"}

Step == {"staging", "switch", "entry", "restart", "health", "active",
         "undo switch", "undo entry", "undo restart", "undo health"}
Idle == [step |-> "idle"]
Script == [step: Step, release: Release, previous: Release \cup {None},
           old: Entry]

TypeOK ==
    /\ unit \in {"entry", "current"}
    /\ current \in Release \cup {None}
    /\ entry \in Entry
    /\ service \in Release \cup {None, Legacy, "stopped"}
    /\ staged \in [Release -> 0..Steps]
    /\ lock \in Deployer \cup {None}
    /\ script \in [Deployer -> Script \cup {Idle}]
    /\ proven \subseteq Release /\ cut \in BOOLEAN
    /\ result \in {"none", "deployed", "restored", "refused", "unrestored"}

At(d, step) == script[d].step = step
GoTo(d, step) == script' = [script EXCEPT ![d].step = step]

\* What the service manager starts: the dispatcher runs what is current.
Started ==
    IF unit = "current" \/ entry = "dispatcher" THEN current
    ELSE IF entry = "legacy" THEN Legacy ELSE None

\* Fault: a release is used once it is installed.
StagedOnceInstalled(r) == staged[r] >= 3
Staged(r) == staged[r] = Steps

-------------------------------------------------------------------------------
(* Staging *)

Free == lock = None

\* main, and deploy up to the new directory.  A second run cannot take the lock.
Begin(d) ==
    /\ script[d] = Idle /\ Free
    /\ lock' = d
    /\ \E r \in {r \in Release : staged[r] = 0} :
         /\ \A e \in Deployer : script[e] # Idle => script[e].release # r
         /\ script' = [script EXCEPT ![d] =
              [step |-> "staging", release |-> r, previous |-> current,
               old |-> entry]]
    /\ result' = "none"
    /\ UNCHANGED <<unit, current, entry, service, staged, proven, cut>>

Stage(d) ==
    /\ At(d, "staging")
    /\ LET r == script[d].release
       IN  /\ ~Staged(r)
           /\ staged[r] + 1 >= Verify => r \in Sound
           /\ staged' = [staged EXCEPT ![r] = @ + 1]
    /\ result' = "none"
    /\ UNCHANGED <<unit, current, entry, service, lock, script, proven, cut>>

\* The old entry point is read last.
Prepared(d) ==
    /\ At(d, "staging") /\ Staged(script[d].release)
    /\ script' = [script EXCEPT ![d].step = "switch", ![d].old = entry]
    /\ result' = "none"
    /\ UNCHANGED <<disk, service, lock, proven, cut>>

-------------------------------------------------------------------------------
(* Activation *)

\* activate: a new symlink replaces the old one in one step.
Activate(d, target) ==
    /\ current' = target
    /\ GoTo(d, IF At(d, "switch") THEN "entry" ELSE "undo entry")

Switch(d) ==
    /\ At(d, "switch")
    /\ Activate(d, script[d].release)
    /\ result' = "none"
    /\ UNCHANGED <<unit, entry, service, staged, lock, proven, cut>>

WriteEntry(d) ==
    /\ At(d, "entry")
    /\ entry' = "dispatcher"
    /\ GoTo(d, "restart")
    /\ result' = "none"
    /\ UNCHANGED <<unit, current, service, staged, lock, proven, cut>>

Restart(d) ==
    /\ At(d, "restart")
    /\ service' = Started
    /\ GoTo(d, "health")
    /\ result' = "none"
    /\ UNCHANGED <<disk, lock, proven, cut>>

\* Fault: the answer is not compared with the identity of the release.
AnswersAnyone(r) == service \notin {None, "stopped"}
\* smoke_check with an expected identity.
Answers(r) == service = r /\ r \in Healthy

CheckHealth(d) ==
    /\ At(d, "health") /\ Answers(script[d].release)
    /\ GoTo(d, "active")
    /\ result' = "none"
    /\ UNCHANGED <<disk, service, lock, proven, cut>>

End(d, how) ==
    /\ script' = [script EXCEPT ![d] = Idle]
    /\ lock' = IF lock = d THEN None ELSE lock
    /\ result' = how

\* systemctl is-active.
Succeed(d) ==
    /\ At(d, "active") /\ service \notin {None, "stopped"}
    /\ End(d, "deployed")
    /\ proven' = proven \cup {script[d].release}
    /\ UNCHANGED <<disk, service, cut>>

-------------------------------------------------------------------------------
(* Failure *)

\* Nothing was switched: what was staged stays, unused.
Refuse(d) ==
    /\ script[d].step \in {"staging", "switch"}
    /\ End(d, "refused")
    /\ UNCHANGED <<disk, service, proven, cut>>

\* Fault: activated is set when the restart is done.
ActivatedLate(d) == script[d].step \in {"health", "active"}
\* The flag of deploy.
Activated(d) == script[d].step \in {"entry", "restart", "health", "active"}

\* A step of the activation fails, or its check does.  A restart that fails may
\* have stopped or started something.
Fail(d) ==
    /\ script[d].step \in {"entry", "restart", "health", "active"}
    /\ service' \in IF At(d, "restart") THEN {service, Started, None} ELSE {service}
    /\ IF Activated(d) THEN GoTo(d, "undo switch") /\ result' = "none" /\ UNCHANGED lock
                       ELSE End(d, "refused")
    /\ UNCHANGED <<disk, proven, cut>>

UndoSwitch(d) ==
    /\ At(d, "undo switch")
    /\ Activate(d, script[d].previous)
    /\ result' = "none"
    /\ UNCHANGED <<unit, entry, service, staged, lock, proven, cut>>

\* Fault: the dispatcher is left in place.
OldEntryKept(d) == entry
OldEntry(d) == script[d].old

UndoEntry(d) ==
    /\ At(d, "undo entry")
    /\ entry' = OldEntry(d)
    /\ GoTo(d, "undo restart")
    /\ result' = "none"
    /\ UNCHANGED <<unit, current, service, staged, lock, proven, cut>>

\* Nothing to go back to: the service is stopped.
UndoRestart(d) ==
    /\ At(d, "undo restart")
    /\ IF script[d].previous = None /\ script[d].old = "nothing"
       THEN /\ service' = "stopped"
            /\ End(d, "restored")
       ELSE /\ service' = Started
            /\ GoTo(d, "undo health") /\ result' = "none" /\ UNCHANGED lock
    /\ UNCHANGED <<disk, proven, cut>>

\* A prior application without identity is checked for the protocol only.
UndoHealth(d) ==
    /\ At(d, "undo health")
    /\ IF script[d].previous = None THEN service \in Healthy \cup {Legacy}
                                     ELSE Answers(script[d].previous)
    /\ End(d, "restored")
    /\ UNCHANGED <<disk, service, proven, cut>>

\* A step of the rollback fails.
FailAgain(d) ==
    /\ script[d].step \in {"undo switch", "undo entry", "undo restart", "undo health"}
    /\ cut' = TRUE
    /\ End(d, "unrestored")
    /\ UNCHANGED <<disk, service, proven>>

\* The script is killed, or the host goes down: the lock goes with it.  An
\* interrupt between the replacement of the symlink and the flag ends like this.
Kill(d) ==
    /\ script[d] # Idle
    /\ LET untouched == script[d].step \in {"staging", "switch"}
       IN  /\ cut' = (cut \/ ~untouched)
           /\ End(d, IF untouched THEN "refused" ELSE "unrestored")
    /\ UNCHANGED <<disk, service, proven>>

\* Restart=always: a process that dies, or could not be started, is started.
ServiceRestarts ==
    /\ service = None /\ Started # None
    /\ service' = Started
    /\ result' = "none"
    /\ UNCHANGED <<disk, lock, script, proven, cut>>
ServiceDies ==
    /\ service \notin {"stopped", None}
    /\ service' = None
    /\ result' = "none"
    /\ UNCHANGED <<disk, lock, script, proven, cut>>

Init ==
    /\ unit \in {"entry", "current"}
    /\ current = None
    /\ entry \in {"nothing", "legacy"}
    /\ service = IF Started = None THEN "stopped" ELSE Started
    /\ staged = [r \in Release |-> 0]
    /\ lock = None
    /\ script = [d \in Deployer |-> Idle]
    /\ proven = {} /\ cut = FALSE /\ result = "none"

Forward(d) ==
    \/ Begin(d) \/ Stage(d) \/ Prepared(d)
    \/ Switch(d) \/ WriteEntry(d) \/ Restart(d) \/ CheckHealth(d) \/ Succeed(d)

Backward(d) ==
    \/ Refuse(d) \/ Fail(d)
    \/ UndoSwitch(d) \/ UndoEntry(d) \/ UndoRestart(d) \/ UndoHealth(d)
    \/ FailAgain(d) \/ Kill(d)

Next ==
    \/ \E d \in Deployer : Forward(d) \/ Backward(d)
    \/ ServiceRestarts \/ ServiceDies

Spec == Init /\ [][Next]_vars

-------------------------------------------------------------------------------
(* Properties *)

\* A deployment that reports success leaves its own release current, reachable
\* by either kind of unit, running, and seen to answer.
SuccessRuns ==
    [][result' = "deployed" =>
          /\ \E d \in Deployer : script[d] # Idle /\ script'[d] = Idle
                                   /\ current' = script[d].release
          /\ entry' = "dispatcher"
          /\ service' = current' /\ current' \in Healthy]_vars

\* A deployment that ends with its rollback done leaves symlink, entry point and
\* service as the deployment found them, also when the service manager restarted
\* the service halfway.
RollbackRestores ==
    [][result' = "restored" =>
          \E d \in Deployer :
              /\ script[d] # Idle /\ script'[d] = Idle
              /\ current' = script[d].previous
              /\ entry' = script[d].old
              /\ service' = IF script[d].previous = None /\ script[d].old = "nothing"
                            THEN "stopped" ELSE Started']_vars

\* After any number of failed and successful deployments the release left
\* current is one that was deployed with success, unless an activation was cut
\* off or its rollback failed too.
LeftProven ==
    ~cut /\ (\A d \in Deployer : script[d] = Idle) => current \in proven \cup {None}

\* Wherever deployments fail or are killed, a release the service manager would
\* start went through all of the staging, and from the first successful
\* deployment on there always is one to start.
AlwaysStartable ==
    /\ Started \in Release => Started \in Sound /\ staged[Started] = Steps
    /\ proven # {} => Started \in Release
===============================================================================
