-------------------------- MODULE DeployReleaseProofs --------------------------
(***************************************************************************)
(* What deployments leave on disk, for any number of deployments, whatever *)
(* fails and whenever they are killed.  None of the properties is          *)
(* inductive: they hold when a deployment ends because of what is on disk  *)
(* at each of its steps (OnDisk) and of what it found when it began        *)
(* (Found).                                                                *)
(***************************************************************************)
EXTENDS DeployRelease, TLAPS

Active(d) == script[d] # Idle

\* The lock lets one deployment through.
Alone == \A d \in Deployer : Active(d) => lock = d

\* Only the steps from the switch to its undoing see the new release.
Switched == {"entry", "restart", "health", "active", "undo switch"}
Untouched == {"staging", "switch", "entry", "undo restart", "undo health"}

\* Where a deployment stands is what is on disk, and what the service can run.
OnDisk ==
    \A d \in Deployer : Active(d) =>
        /\ current = IF script[d].step \in Switched THEN script[d].release
                                                    ELSE script[d].previous
        /\ script[d].step \in Untouched \ {"staging"} => entry = script[d].old
        /\ script[d].step \in {"restart", "health", "active"} => entry = "dispatcher"
        /\ script[d].step \in {"health", "active", "undo health"} =>
             service \in {None, Started}
        /\ script[d].step = "active" => script[d].release \in Healthy

\* What is switched to, or back to, went through all of the staging.
Complete ==
    /\ \A r \in Release : staged[r] >= Verify => r \in Sound
    /\ current \in Release => Staged(current)
    /\ \A d \in Deployer : Active(d) =>
         /\ script[d].step # "staging" => Staged(script[d].release)
         /\ script[d].previous \in Release => Staged(script[d].previous)

\* What a deployment found is what the one before it left.
Found ==
    /\ proven # {} => current \in Release /\ entry = "dispatcher"
    /\ \A d \in Deployer : Active(d) =>
         /\ ~cut => script[d].previous \in proven \cup {None}
         /\ proven # {} => script[d].previous \in Release /\ script[d].old = "dispatcher"

IInv == TypeOK /\ Alone /\ OnDisk /\ Complete /\ Found /\ LeftProven

-------------------------------------------------------------------------------
(* Scripts *)

\* A deployment that is over is known by its step.
LEMMA IdleStep ==
    ASSUME TypeOK, NEW d \in Deployer
    PROVE  /\ Active(d) <=> script[d].step # "idle"
           /\ Active(d) => script[d] \in Script
    <1>1. script[d] \in Script \cup {Idle}
      BY DEF TypeOK
    <1>2. Idle.step = "idle"
      BY DEF Idle
    <1>3. script[d] \in Script => script[d].step \in Step
      BY DEF Script
    <1>4. "idle" \notin Step
      BY DEF Step
    <1>5. QED
      BY <1>1, <1>2, <1>3, <1>4 DEF Active

\* The only script another one can meet is over.
LEMMA OneActive ==
    ASSUME Alone, NEW d \in Deployer, Active(d)
    PROVE  \A e \in Deployer : e # d => script[e] = Idle
    BY DEF Alone, Active

LEMMA NoneActive ==
    ASSUME Alone, Free
    PROVE  \A e \in Deployer : script[e] = Idle
    BY DeployParameters DEF Alone, Active, Free

\* A step of a script changes nothing else of it.
LEMMA Moves ==
    ASSUME TypeOK, NEW d \in Deployer, Active(d), NEW step \in Step, GoTo(d, step)
    PROVE  /\ script' \in [Deployer -> Script \cup {Idle}]
           /\ script'[d] \in Script
           /\ script'[d].step = step
           /\ script'[d].release = script[d].release
           /\ script'[d].previous = script[d].previous
           /\ script'[d].old = script[d].old
           /\ \A e \in Deployer : e # d => script'[e] = script[e]
    BY IdleStep DEF TypeOK, GoTo, Script, Step

LEMMA Ends ==
    ASSUME TypeOK, Alone, NEW d \in Deployer, Active(d), NEW how, End(d, how)
    PROVE  /\ script' \in [Deployer -> Script \cup {Idle}]
           /\ \A e \in Deployer : script'[e] = Idle
           /\ lock' = None
           /\ result' = how
    BY OneActive DEF TypeOK, End, Alone, Script

LEMMA StartedType == TypeOK => Started \in Release \cup {None, Legacy}
    BY DEF TypeOK, Started

-------------------------------------------------------------------------------
(* Steps of activation and rollback, and the end of a deployment            *)

\* A step of an activation, or of its rollback, that leaves on disk what the
\* next step expects.
LEMMA MoveKeeps ==
    ASSUME IInv, NEW d \in Deployer, Active(d), ~At(d, "staging"),
           NEW step \in Step \ {"staging"}, GoTo(d, step),
           UNCHANGED <<unit, staged, lock, proven, cut>>, result' = "none",
           service' \in Release \cup {None, Legacy, "stopped"},
           current' = IF step \in Switched THEN script[d].release
                                           ELSE script[d].previous,
           entry' \in {entry, "dispatcher", script[d].old},
           step \in Untouched => entry' = script[d].old,
           step \in {"restart", "health", "active"} => entry' = "dispatcher",
           step \in {"health", "active", "undo health"} => service' \in {None, Started'},
           step = "active" => script[d].release \in Healthy
    PROVE  IInv'
    <1>1. /\ script' \in [Deployer -> Script \cup {Idle}]
          /\ script'[d] \in Script /\ script'[d].step = step
          /\ script'[d].release = script[d].release
          /\ script'[d].previous = script[d].previous
          /\ script'[d].old = script[d].old
          /\ \A e \in Deployer : e # d => script'[e] = script[e]
      BY Moves DEF IInv
    <1>2. /\ script[d] \in Script
          /\ script[d].release \in Release
          /\ script[d].previous \in Release \cup {None}
          /\ script[d].old \in Entry
      BY IdleStep DEF IInv, Script
    <1>3. \A e \in Deployer : e # d => script[e] = Idle /\ script'[e] = Idle
      BY <1>1, OneActive DEF IInv
    <1>4. TypeOK'
      BY <1>1, <1>2 DEF IInv, TypeOK, Entry
    <1>5. \A e \in Deployer : script'[e] # Idle => e = d
      BY <1>3
    <1>6. script'[d] # Idle
      <2>1. Idle.step = "idle" /\ "idle" \notin Step
        BY DEF Idle, Step
      <2>2. QED
        BY <1>1, <2>1
    <1>7. Alone'
      BY <1>5 DEF IInv, Alone, Active
    <1>8. OnDisk'
      <2>1. SUFFICES
              /\ current' = IF script'[d].step \in Switched
                               THEN script'[d].release ELSE script'[d].previous
              /\ script'[d].step \in Untouched \ {"staging"} => entry' = script'[d].old
              /\ script'[d].step \in {"restart", "health", "active"} => entry' = "dispatcher"
              /\ script'[d].step \in {"health", "active", "undo health"} =>
                   service' \in {None, Started'}
              /\ script'[d].step = "active" => script'[d].release \in Healthy
        BY <1>5 DEF OnDisk, Active
      <2>2. QED
        BY <1>1
    <1>9. Complete'
      <2>1. script[d].previous \in Release => Staged(script[d].previous)
        BY DEF IInv, Complete, Active
      <2>2. Staged(script[d].release)
        BY DEF IInv, Complete, Active, At
      <2>3. \A r : Staged(r)' <=> Staged(r)
        BY DEF Staged
      <2>4. current' \in Release => Staged(current')
        BY <2>1, <2>2
      <2>5. \A e \in Deployer : script'[e] # Idle =>
              /\ Staged(script'[e].release)
              /\ script'[e].previous \in Release => Staged(script'[e].previous)
        BY <1>1, <1>5, <2>1, <2>2
      <2>6. QED
        BY <2>3, <2>4, <2>5 DEF IInv, Complete, Active, Staged
    <1>10. Found'
      <2>1. proven # {} => script[d].previous \in Release /\ script[d].old = "dispatcher"
        BY DEF IInv, Found, Active
      <2>2. ~cut => script[d].previous \in proven \cup {None}
        BY DEF IInv, Found, Active
      <2>3. proven # {} => current' \in Release /\ entry' = "dispatcher"
        BY <1>2, <2>1 DEF IInv, Found
      <2>4. QED
        BY <1>1, <1>5, <2>1, <2>2, <2>3 DEF Found, Active
    <1>11. LeftProven'
      BY <1>6 DEF LeftProven
    <1>12. QED
      BY <1>4, <1>7, <1>8, <1>9, <1>10, <1>11 DEF IInv

\* A deployment that ends and leaves current what was proven.
LEMMA EndKeeps ==
    ASSUME IInv, NEW d \in Deployer, Active(d),
           NEW how \in {"deployed", "restored", "refused", "unrestored"}, End(d, how),
           UNCHANGED disk,
           service' \in Release \cup {None, Legacy, "stopped"}, cut' \in BOOLEAN,
           proven' \subseteq Release,
           proven' # {} => current \in Release /\ entry = "dispatcher",
           ~cut' => current \in proven' \cup {None}
    PROVE  IInv'
    <1>1. /\ script' \in [Deployer -> Script \cup {Idle}]
          /\ \A e \in Deployer : script'[e] = Idle
          /\ lock' = None /\ result' = how
      BY Ends DEF IInv
    <1>2. TypeOK'
      BY <1>1 DEF IInv, TypeOK, disk
    <1>3. Alone' /\ OnDisk'
      BY <1>1 DEF Alone, OnDisk, Active
    <1>4. Complete'
      BY <1>1 DEF IInv, Complete, Active, disk, Staged
    <1>5. Found'
      BY <1>1 DEF Found, Active, disk
    <1>6. LeftProven'
      BY DEF LeftProven, disk
    <1>7. QED
      BY <1>2, <1>3, <1>4, <1>5, <1>6 DEF IInv

-------------------------------------------------------------------------------
(* Every action keeps the invariant                                         *)

\* Where a deployment stands, as a fact about one deployment.
LEMMA Here ==
    ASSUME IInv, NEW d \in Deployer, Active(d)
    PROVE  /\ current = IF script[d].step \in Switched THEN script[d].release
                                                      ELSE script[d].previous
           /\ script[d].step \in Untouched \ {"staging"} => entry = script[d].old
           /\ script[d].step \in {"restart", "health", "active"} => entry = "dispatcher"
           /\ script[d].step \in {"health", "active", "undo health"} =>
                service \in {None, Started}
           /\ script[d].step = "active" => script[d].release \in Healthy
           /\ ~cut => script[d].previous \in proven \cup {None}
           /\ script[d].release \in Release
           /\ service \in Release \cup {None, Legacy, "stopped"}
    <1>1. script[d].release \in Release
      BY IdleStep DEF IInv, Script
    <1>2. QED
      BY <1>1 DEF IInv, OnDisk, Found, TypeOK

LEMMA BeginKeeps == ASSUME IInv, NEW d \in Deployer, Begin(d) PROVE IInv'
    <1>1. PICK r \in Release :
            script' = [script EXCEPT ![d] =
              [step |-> "staging", release |-> r, previous |-> current, old |-> entry]]
      BY DEF Begin
    <1>2. \A e \in Deployer : script[e] = Idle
      BY NoneActive DEF IInv, Begin
    <1>3. /\ script'[d].step = "staging" /\ script'[d].previous = current
          /\ script'[d].old = entry /\ script'[d] \in Script
          /\ script' \in [Deployer -> Script \cup {Idle}]
          /\ \A e \in Deployer : e # d => script'[e] = Idle
      BY <1>1, <1>2 DEF IInv, TypeOK, Script, Step
    <1>4. UNCHANGED <<unit, current, entry, service, staged, proven, cut>> /\ lock' = d
          /\ result' = "none"
      BY DEF Begin
    <1>5. TypeOK'
      BY <1>3, <1>4 DEF IInv, TypeOK
    <1>6. \A e \in Deployer : Active(e)' => e = d
      BY <1>3 DEF Active
    <1>7. script'[d] # Idle
      <2>1. Idle.step = "idle"
        BY DEF Idle
      <2>2. QED
        BY <1>3, <2>1
    <1>8. Alone'
      BY <1>4, <1>6 DEF Alone
    <1>9. OnDisk'
      BY <1>3, <1>4, <1>6 DEF OnDisk, Switched, Untouched
    <1>10. Complete'
      BY <1>3, <1>4, <1>6 DEF IInv, Complete, Staged
    <1>11. Found'
      BY <1>2, <1>3, <1>4, <1>6 DEF IInv, Found, LeftProven
    <1>12. LeftProven'
      BY <1>7 DEF LeftProven
    <1>13. QED
      BY <1>5, <1>8, <1>9, <1>10, <1>11, <1>12 DEF IInv

\* What is current, or to go back to, is staged already: it is not r.
LEMMA StageKeeps == ASSUME IInv, NEW d \in Deployer, Stage(d) PROVE IInv'
    <1> DEFINE r == script[d].release
    <1>1. /\ At(d, "staging") /\ ~Staged(r) /\ (staged[r] + 1 >= Verify => r \in Sound)
          /\ staged' = [staged EXCEPT ![r] = @ + 1] /\ result' = "none"
          /\ UNCHANGED <<unit, current, entry, service, lock, script, proven, cut>>
      BY DEF Stage
    <1>2. Active(d)
      BY <1>1, IdleStep DEF IInv, At
    <1>3. r \in Release
      BY <1>2, IdleStep DEF IInv, Script
    <1>4. /\ staged \in [Release -> 0..Steps] /\ staged[r] # Steps
          /\ staged[r] \in 0..Steps
      BY <1>1, <1>3 DEF IInv, TypeOK, Staged
    <1>5. staged' \in [Release -> 0..Steps]
      BY <1>1, <1>3, <1>4 DEF Steps
    <1>6. TypeOK'
      BY <1>1, <1>5 DEF IInv, TypeOK
    <1>7. Started' = Started
      BY <1>1 DEF Started
    <1>8. Alone' /\ OnDisk' /\ Found' /\ LeftProven'
      BY <1>1, <1>7 DEF IInv, Alone, OnDisk, Found, LeftProven, Active
    <1>9. Complete'
      <2>1. \A q \in Release : Staged(q) => Staged(q)'
        BY <1>1, <1>3, <1>4 DEF Staged
      <2>2. \A q \in Release : staged'[q] >= Verify => q \in Sound
        BY <1>1, <1>3, <1>4 DEF IInv, Complete
      <2>3. \A e \in Deployer : Active(e) => script[e].release \in Release
        BY IdleStep DEF IInv, Script
      <2>4. QED
        BY <1>1, <2>1, <2>2, <2>3 DEF IInv, Complete, Active
    <1>10. QED
      BY <1>6, <1>8, <1>9 DEF IInv

LEMMA PreparedKeeps == ASSUME IInv, NEW d \in Deployer, Prepared(d) PROVE IInv'
    <1>1. /\ At(d, "staging") /\ Staged(script[d].release)
          /\ script' = [script EXCEPT ![d].step = "switch", ![d].old = entry]
          /\ UNCHANGED <<unit, current, entry, service, staged, lock, proven, cut>>
          /\ result' = "none"
      BY DEF Prepared, disk
    <1>2. Active(d)
      BY <1>1, IdleStep DEF IInv, At
    <1>3. /\ script[d] \in Script
          /\ \A e \in Deployer : e # d => script[e] = Idle
      BY <1>2, IdleStep, OneActive DEF IInv
    <1>4. /\ script'[d] \in Script /\ script'[d].step = "switch"
          /\ script'[d].release = script[d].release
          /\ script'[d].previous = script[d].previous /\ script'[d].old = entry
          /\ \A e \in Deployer : e # d => script'[e] = Idle
          /\ script' \in [Deployer -> Script \cup {Idle}]
      BY <1>1, <1>3 DEF IInv, TypeOK, Script, Step
    <1>5. TypeOK'
      BY <1>1, <1>4 DEF IInv, TypeOK
    <1>6. \A e \in Deployer : Active(e)' => e = d
      BY <1>4 DEF Active
    <1>7. Active(d)'
      <2>1. Idle.step = "idle"
        BY DEF Idle
      <2>2. QED
        BY <1>4, <2>1 DEF Active
    <1>8. Alone'
      BY <1>1, <1>2, <1>6 DEF IInv, Alone
    <1>9. OnDisk'
      BY <1>1, <1>2, <1>4, <1>6, Here DEF OnDisk, Switched, Untouched, At
    <1>10. Complete'
      BY <1>1, <1>2, <1>4, <1>6 DEF IInv, Complete, Staged
    <1>11. Found'
      BY <1>1, <1>2, <1>4, <1>6 DEF IInv, Found
    <1>12. LeftProven'
      BY <1>7 DEF LeftProven, Active
    <1>13. QED
      BY <1>5, <1>8, <1>9, <1>10, <1>11, <1>12 DEF IInv

LEMMA SwitchKeeps == ASSUME IInv, NEW d \in Deployer, Switch(d) PROVE IInv'
    <1>1. At(d, "switch") /\ Active(d)
      BY IdleStep DEF IInv, Switch, At
    <1>2. GoTo(d, "entry")
      BY <1>1 DEF Switch, Activate, At
    <1>3. QED
      BY <1>1, <1>2, Here, StartedType, MoveKeeps
         DEF IInv, Switch, At, Activate, Step, Switched, Untouched, Started, disk

LEMMA WriteEntryKeeps == ASSUME IInv, NEW d \in Deployer, WriteEntry(d) PROVE IInv'
    <1>1. At(d, "entry") /\ Active(d)
      BY IdleStep DEF IInv, WriteEntry, At
    <1>2. GoTo(d, "restart")
      BY <1>1 DEF WriteEntry, Activate, At
    <1>3. QED
      BY <1>1, <1>2, Here, StartedType, MoveKeeps
         DEF IInv, WriteEntry, At, Activate, Step, Switched, Untouched, Started, disk

LEMMA RestartKeeps == ASSUME IInv, NEW d \in Deployer, Restart(d) PROVE IInv'
    <1>1. At(d, "restart") /\ Active(d)
      BY IdleStep DEF IInv, Restart, At
    <1>2. GoTo(d, "health")
      BY <1>1 DEF Restart, Activate, At
    <1>3. QED
      BY <1>1, <1>2, Here, StartedType, MoveKeeps
         DEF IInv, Restart, At, Activate, Step, Switched, Untouched, Started, disk

LEMMA CheckHealthKeeps == ASSUME IInv, NEW d \in Deployer, CheckHealth(d) PROVE IInv'
    <1>1. At(d, "health") /\ Active(d)
      BY IdleStep DEF IInv, CheckHealth, At
    <1>2. GoTo(d, "active")
      BY <1>1 DEF CheckHealth, Activate, At
    <1>3. QED
      BY <1>1, <1>2, Here, StartedType, MoveKeeps
         DEF IInv, CheckHealth, At, Activate, Step, Switched, Untouched, Started, disk, Answers

LEMMA UndoSwitchKeeps == ASSUME IInv, NEW d \in Deployer, UndoSwitch(d) PROVE IInv'
    <1>1. At(d, "undo switch") /\ Active(d)
      BY IdleStep DEF IInv, UndoSwitch, At
    <1>2. GoTo(d, "undo entry")
      BY <1>1 DEF UndoSwitch, Activate, At
    <1>3. QED
      BY <1>1, <1>2, Here, StartedType, MoveKeeps
         DEF IInv, UndoSwitch, At, Activate, Step, Switched, Untouched, Started, disk

LEMMA UndoEntryKeeps == ASSUME IInv, NEW d \in Deployer, UndoEntry(d) PROVE IInv'
    <1>1. At(d, "undo entry") /\ Active(d)
      BY IdleStep DEF IInv, UndoEntry, At
    <1>2. GoTo(d, "undo restart")
      BY <1>1 DEF UndoEntry, Activate, At
    <1>3. QED
      BY <1>1, <1>2, Here, StartedType, MoveKeeps
         DEF IInv, UndoEntry, At, Activate, Step, Switched, Untouched, Started, OldEntry

LEMMA FailKeeps == ASSUME IInv, NEW d \in Deployer, Fail(d) PROVE IInv'
    <1>1. /\ script[d].step \in {"entry", "restart", "health", "active"}
          /\ Active(d) /\ ~At(d, "staging")
      BY IdleStep DEF IInv, Fail, At
    <1>2. GoTo(d, "undo switch") /\ result' = "none" /\ UNCHANGED <<disk, lock, proven, cut>>
      BY <1>1 DEF Fail, Activated
    <1>3. service' \in {service, Started, None}
      BY DEF Fail
    <1>4. QED
      BY <1>1, <1>2, <1>3, Here, StartedType, MoveKeeps
         DEF IInv, disk, Step, Switched, Untouched

\* The deployment was proven to be up, so it may be gone back to.
LEMMA SucceedKeeps == ASSUME IInv, NEW d \in Deployer, Succeed(d) PROVE IInv'
    <1>1. At(d, "active") /\ Active(d) /\ End(d, "deployed") /\ UNCHANGED <<disk, service, cut>>
          /\ proven' = proven \cup {script[d].release}
      BY IdleStep DEF IInv, Succeed, At
    <1>2. /\ current = script[d].release /\ entry = "dispatcher"
          /\ script[d].release \in Release
      BY <1>1, Here DEF At, Switched
    <1>3. QED
      BY <1>1, <1>2, EndKeeps DEF IInv, TypeOK

\* Nothing is switched before, or any longer: current is what was found.
LEMMA BackKeeps ==
    ASSUME IInv, NEW d \in Deployer, Active(d), script[d].step \notin Switched,
           NEW how \in {"restored", "refused", "unrestored"}, End(d, how),
           UNCHANGED <<disk, proven>>, cut' \in BOOLEAN, cut => cut',
           service' \in Release \cup {None, Legacy, "stopped"}
    PROVE  IInv'
    <1>1. current = script[d].previous /\ (~cut => current \in proven \cup {None})
      BY Here
    <1>2. QED
      BY <1>1, EndKeeps DEF IInv, TypeOK, Found

LEMMA CutKeeps ==
    ASSUME IInv, NEW d \in Deployer, Active(d), End(d, "unrestored"),
           UNCHANGED <<disk, service, proven>>, cut' = TRUE
    PROVE  IInv'
    BY EndKeeps DEF IInv, TypeOK, Found

LEMMA RefuseKeeps == ASSUME IInv, NEW d \in Deployer, Refuse(d) PROVE IInv'
    <1>1. Active(d)
      BY IdleStep DEF IInv, Refuse
    <1>2. QED
      BY <1>1, Here, BackKeeps DEF IInv, TypeOK, Refuse, Switched

LEMMA UndoRestartKeeps == ASSUME IInv, NEW d \in Deployer, UndoRestart(d) PROVE IInv'
    <1>1. At(d, "undo restart") /\ Active(d) /\ UNCHANGED <<disk, proven, cut>>
      BY IdleStep DEF IInv, UndoRestart, At
    <1>2. CASE script[d].previous = None /\ script[d].old = "nothing"
      <2>1. service' = "stopped" /\ End(d, "restored")
        BY <1>2 DEF UndoRestart
      <2>2. cut \in BOOLEAN /\ script[d].step \notin Switched
        BY <1>1 DEF IInv, TypeOK, At, Switched
      <2>3. QED
        BY <1>1, <2>1, <2>2, BackKeeps
    <1>3. CASE ~(script[d].previous = None /\ script[d].old = "nothing")
      <2>1. service' = Started /\ GoTo(d, "undo health") /\ result' = "none"
            /\ UNCHANGED lock
        BY <1>3 DEF UndoRestart
      <2>2. Started' = Started /\ Started \in Release \cup {None, Legacy}
        BY <1>1, StartedType DEF IInv, disk, Started
      <2>3. current = script[d].previous /\ entry = script[d].old
        BY <1>1, Here DEF At, Switched, Untouched
      <2>4. QED
        BY <1>1, <2>1, <2>2, <2>3, MoveKeeps DEF disk, Step, Switched, At
    <1>4. QED
      BY <1>2, <1>3

LEMMA UndoHealthKeeps == ASSUME IInv, NEW d \in Deployer, UndoHealth(d) PROVE IInv'
    <1>1. At(d, "undo health") /\ Active(d)
      BY IdleStep DEF IInv, UndoHealth, At
    <1>2. QED
      BY <1>1, Here, BackKeeps DEF IInv, TypeOK, UndoHealth, Switched, At

LEMMA FailAgainKeeps == ASSUME IInv, NEW d \in Deployer, FailAgain(d) PROVE IInv'
    <1>1. Active(d)
      BY IdleStep DEF IInv, FailAgain
    <1>2. QED
      BY <1>1, CutKeeps DEF FailAgain

LEMMA KillKeeps == ASSUME IInv, NEW d \in Deployer, Kill(d) PROVE IInv'
    <1>1. Active(d)
      BY DEF Kill, Active
    <1>2. CASE script[d].step \in {"staging", "switch"}
      BY <1>1, <1>2, Here, BackKeeps DEF IInv, TypeOK, Kill, Switched
    <1>3. CASE script[d].step \notin {"staging", "switch"}
      BY <1>1, <1>3, CutKeeps DEF IInv, TypeOK, Kill
    <1>4. QED
      BY <1>2, <1>3

\* A service that dies, or is started again, is what a deployment expects.
LEMMA ServiceKeeps ==
    ASSUME IInv, UNCHANGED <<disk, lock, script, proven, cut>>, result' = "none",
           service' \in {None, Started}
    PROVE  IInv'
    <1>1. Started' = Started
      BY DEF Started, disk
    <1>2. TypeOK'
      BY StartedType DEF IInv, TypeOK, disk
    <1>3. Alone' /\ OnDisk' /\ Complete' /\ Found' /\ LeftProven'
      BY <1>1 DEF IInv, Alone, OnDisk, Complete, Found, LeftProven, Active, Staged, disk
    <1>4. QED
      BY <1>2, <1>3 DEF IInv

LEMMA InitInv == Init => IInv
    <1> SUFFICES ASSUME Init PROVE IInv
      OBVIOUS
    <1>1. Started \in {None, Legacy}
      BY DEF Init, Started
    <1>2. TypeOK
      <2>1. service \in {Legacy, "stopped"}
        BY <1>1 DEF Init
      <2>2. staged \in [Release -> 0..Steps]
        BY DEF Init, Steps
      <2>3. script \in [Deployer -> Script \cup {Idle}]
        BY DEF Init
      <2>4. QED
        BY <2>1, <2>2, <2>3 DEF Init, TypeOK, Entry
    <1>3. Alone /\ OnDisk /\ Found /\ LeftProven
      BY DEF Init, Alone, OnDisk, Found, LeftProven, Active
    <1>4. Complete
      BY DeployParameters DEF Init, Complete, Active, Verify, Staged
    <1>5. QED
      BY <1>2, <1>3, <1>4 DEF IInv

LEMMA NextKeeps == IInv /\ [Next]_vars => IInv'
    <1> SUFFICES ASSUME IInv, [Next]_vars PROVE IInv'
      OBVIOUS
    <1>1. ASSUME NEW d \in Deployer, Forward(d) PROVE IInv'
      BY <1>1, BeginKeeps, StageKeeps, PreparedKeeps, SwitchKeeps, WriteEntryKeeps,
         RestartKeeps, CheckHealthKeeps, SucceedKeeps DEF Forward
    <1>2. ASSUME NEW d \in Deployer, Backward(d) PROVE IInv'
      BY <1>2, RefuseKeeps, FailKeeps, UndoSwitchKeeps, UndoEntryKeeps, UndoRestartKeeps,
         UndoHealthKeeps, FailAgainKeeps, KillKeeps DEF Backward
    <1>3. CASE ServiceRestarts
      BY <1>3, ServiceKeeps DEF ServiceRestarts
    <1>4. CASE ServiceDies
      BY <1>4, ServiceKeeps DEF ServiceDies
    <1>5. CASE UNCHANGED vars
      <2>1. Started' = Started
        BY <1>5 DEF vars, Started
      <2>2. QED
        BY <1>5, <2>1 DEF vars, IInv, TypeOK, Alone, OnDisk, Complete, Found, LeftProven,
           Active, Staged
    <1>6. QED
      BY <1>1, <1>2, <1>3, <1>4, <1>5 DEF Next

THEOREM Invariance == Spec => []IInv
    BY InitInv, NextKeeps, PTL DEF Spec

-------------------------------------------------------------------------------
(* What holds of every deployment                                           *)

\* Whatever deployments fail, the release left current was deployed with success.
THEOREM LeavesProven == Spec => []LeftProven
    <1>1. IInv => LeftProven
      BY DEF IInv
    <1>2. QED
      BY Invariance, <1>1, PTL

\* Wherever deployments fail or are killed, what would be started was staged to
\* the end, and from the first success on there is a release to start.
THEOREM StaysStartable == Spec => []AlwaysStartable
    <1>1. ASSUME IInv PROVE AlwaysStartable
      <2>1. Started \in Release => Started = current
        BY <1>1, DeployParameters DEF IInv, TypeOK, Started, Entry
      <2>2. Started \in Release => Started \in Sound /\ staged[Started] = Steps
        BY <1>1, <2>1 DEF IInv, Complete, Staged, Verify, Steps
      <2>3. proven # {} => Started \in Release
        BY <1>1 DEF IInv, Found, Started
      <2>4. QED
        BY <2>2, <2>3 DEF AlwaysStartable
    <1>2. QED
      BY Invariance, <1>1, PTL

\* Only the actions that end a deployment report how it went.
LEMMA Reports ==
    ASSUME Next, result' \in {"deployed", "restored"}
    PROVE  \E d \in Deployer : Succeed(d) \/ UndoRestart(d) \/ UndoHealth(d)
    <1>1. ~ServiceRestarts /\ ~ServiceDies
      BY DEF ServiceRestarts, ServiceDies
    <1>2. PICK d \in Deployer : Forward(d) \/ Backward(d)
      BY <1>1 DEF Next
    <1>3. ~Begin(d) /\ ~Stage(d) /\ ~Prepared(d) /\ ~Switch(d) /\ ~WriteEntry(d)
            /\ ~Restart(d) /\ ~CheckHealth(d)
      BY DEF Begin, Stage, Prepared, Switch, WriteEntry, Restart, CheckHealth
    <1>4. ~Refuse(d) /\ ~Fail(d) /\ ~UndoSwitch(d) /\ ~UndoEntry(d) /\ ~FailAgain(d)
            /\ ~Kill(d)
      BY DEF Refuse, Fail, UndoSwitch, UndoEntry, FailAgain, Kill, End
    <1>5. QED
      BY <1>2, <1>3, <1>4 DEF Forward, Backward

\* A deployment that reports success runs its own release, which answered.
THEOREM SuccessIsReal == Spec => SuccessRuns
    <1> DEFINE Real == result' = "deployed" =>
                 /\ \E d \in Deployer : script[d] # Idle /\ script'[d] = Idle
                                          /\ current' = script[d].release
                 /\ entry' = "dispatcher"
                 /\ service' = current' /\ current' \in Healthy
    <1>1. ASSUME IInv, Next PROVE Real
      <2>1. SUFFICES ASSUME result' = "deployed"
                     PROVE  /\ \E d \in Deployer : script[d] # Idle /\ script'[d] = Idle
                                                     /\ current' = script[d].release
                            /\ entry' = "dispatcher"
                            /\ service' = current' /\ current' \in Healthy
        OBVIOUS
      <2>2. PICK d \in Deployer : Succeed(d)
        BY <1>1, <2>1, Reports DEF UndoRestart, UndoHealth, End
      <2>3. At(d, "active") /\ Active(d) /\ End(d, "deployed") /\ UNCHANGED <<disk, service>>
            /\ service \notin {None, "stopped"}
        BY <1>1, <2>2, IdleStep DEF IInv, Succeed, At
      <2>4. /\ current = script[d].release /\ entry = "dispatcher"
            /\ service \in {None, Started} /\ script[d].release \in Healthy
        BY <1>1, <2>3, Here DEF At, Switched
      <2>5. Started = current
        BY <2>4 DEF Started
      <2>6. script'[d] = Idle
        BY <1>1, <2>3, Ends DEF IInv
      <2>7. QED
        BY <2>3, <2>4, <2>5, <2>6 DEF disk, Active
    <1>2. IInv /\ [Next]_vars => [Real]_vars
      BY <1>1
    <1>3. QED
      BY <1>2, Invariance, PTL DEF Spec, SuccessRuns

\* A rollback that is done leaves symlink, entry point and service as they were.
THEOREM RollbackIsWhole == Spec => RollbackRestores
    <1> DEFINE Whole(d) ==
                 /\ script[d] # Idle /\ script'[d] = Idle
                 /\ current' = script[d].previous
                 /\ entry' = script[d].old
                 /\ service' = IF script[d].previous = None /\ script[d].old = "nothing"
                               THEN "stopped" ELSE Started'
               Real == result' = "restored" => \E d \in Deployer : Whole(d)
    <1>1. ASSUME IInv, Next PROVE Real
      <2>1. SUFFICES ASSUME result' = "restored" PROVE \E d \in Deployer : Whole(d)
        OBVIOUS
      <2>2. PICK d \in Deployer : UndoRestart(d) \/ UndoHealth(d)
        BY <1>1, <2>1, Reports DEF Succeed, End
      <2>3. /\ script[d].step \in {"undo restart", "undo health"} /\ Active(d)
            /\ UNCHANGED disk
        BY <1>1, <2>2, IdleStep DEF IInv, UndoRestart, UndoHealth, At
      <2>4. current = script[d].previous /\ entry = script[d].old
        BY <1>1, <2>3, Here DEF Switched, Untouched
      <2>5. Started' = Started
        BY <2>3 DEF disk, Started
      <2>6. CASE UndoRestart(d)
        <3>1. /\ script[d].previous = None /\ script[d].old = "nothing"
              /\ service' = "stopped" /\ End(d, "restored")
          BY <2>1, <2>6 DEF UndoRestart
        <3>2. script'[d] = Idle
          BY <1>1, <2>3, <3>1, Ends DEF IInv
        <3>3. QED
          BY <2>3, <2>4, <3>1, <3>2 DEF disk, Active
      <2>7. CASE UndoHealth(d)
        <3>1. /\ service' = service /\ End(d, "restored") /\ At(d, "undo health")
              /\ service # None
          BY <2>7, DeployParameters DEF UndoHealth, Answers
        <3>2. service = Started
          BY <1>1, <2>3, <3>1, Here DEF At
        <3>3. script'[d] = Idle
          BY <1>1, <2>3, <3>1, Ends DEF IInv
        <3>4. ~(script[d].previous = None /\ script[d].old = "nothing")
          BY <2>4, <3>1, <3>2 DEF Started
        <3>5. Whole(d)
          BY <2>3, <2>4, <2>5, <3>1, <3>2, <3>3, <3>4 DEF disk, Active
        <3>6. QED
          BY <3>5
      <2>8. QED
        BY <2>2, <2>6, <2>7
    <1>2. IInv /\ [Next]_vars => [Real]_vars
      BY <1>1
    <1>3. QED
      BY <1>2, Invariance, PTL DEF Spec, RollbackRestores

===============================================================================
