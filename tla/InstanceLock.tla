------------------------------ MODULE InstanceLock ------------------------------
(***************************************************************************)
(* The instance lock of main.py: PIDLock and its use by main().  A process *)
(* opens the lock file, creating it if there is none, locks it without     *)
(* waiting, writes its PID into it and serves; one that finds it locked    *)
(* reads the file to name the other process and gives up.                  *)
(*                                                                         *)
(* Processes interleave between any two system calls, any of which can     *)
(* fail, and a process can be killed at any time: the kernel then closes   *)
(* its descriptors, and closing the descriptor that holds a lock frees it. *)
(* The lock belongs to an inode, not to a path, which is why the file is   *)
(* never removed.                                                          *)
(***************************************************************************)
EXTENDS Integers, Sequences

CONSTANTS
    Process,
    Inode,      \* bound: files ever created at the path
    Nobody,     \* no process holds the lock
    NoFile,     \* no file at the path, no open descriptor
    PID         \* the PID of each process, as a sequence of digits

Digit == 0..9
NewLine == 10

ASSUME LockParameters ==
    /\ Nobody \notin Process /\ NoFile \notin Inode
    /\ PID \in [Process -> Seq(Digit)]
    /\ \A p \in Process : PID[p] # <<>>

VARIABLES
    file,     \* the inode at LOCK_FILE_PATH
    content,  \* of each inode, a sequence of digits and newlines
    holder,   \* who holds the lock of each inode
    phase,    \* where each process is
    fd,       \* the inode it has open
    servers,  \* history: who has held the lock
    said      \* the PID the last step named, if it was a refusal

vars == <<file, content, holder, phase, fd, servers, said>>

\* "opened": between open and flock; "refused": flock failed, the file is not
\* read yet; "locked", "written": before and after the write of the PID;
\* "closing": unlocked, not yet closed.
Phase == {"off", "opened", "refused", "locked", "written", "serving", "closing"}
Holding == {"locked", "written", "serving"}

Silent == {}     \* the step was no refusal
Unnamed == <<>>  \* a refusal that names no PID

TypeOK ==
    /\ file \in Inode \cup {NoFile}
    /\ content \in [Inode -> Seq(Digit \cup {NewLine})]
    /\ holder \in [Inode -> Process \cup {Nobody}]
    /\ phase \in [Process -> Phase]
    /\ fd \in [Process -> Inode \cup {NoFile}]
    /\ servers \subseteq Process
    /\ said \subseteq Seq(Digit)

-------------------------------------------------------------------------------
(* The text in the file *)

Text(p) == Append(PID[p], NewLine)

\* A write at offset 0 leaves what lies behind its end.
Written(old, new) == new \o SubSeq(old, Len(new) + 1, Len(old))

\* Fault: the file is not truncated.
Untruncated(text, n) == text
Truncated(text, n) == SubSeq(text, 1, n)

\* int(text.strip()): digits, then nothing but white space.
Parses(text, n) ==
    /\ \A i \in 1..n : text[i] \in Digit
    /\ \A i \in (n + 1)..Len(text) : text[i] = NewLine
Named(text) ==
    IF \E n \in 1..Len(text) : Parses(text, n)
    THEN SubSeq(text, 1, CHOOSE n \in 1..Len(text) : Parses(text, n))
    ELSE Unnamed

-------------------------------------------------------------------------------
(* Steps of one process *)

At(p, from, to) ==
    /\ phase[p] = from
    /\ phase' = [phase EXCEPT ![p] = to]

\* os.open with O_CREAT: the file at the path, or a new one.
Open(p) ==
    /\ At(p, "off", "opened")
    /\ \E i \in Inode :
          /\ file # NoFile => i = file
          /\ file = NoFile => holder[i] = Nobody /\ \A q \in Process : fd[q] # i
          /\ file' = i
          /\ fd' = [fd EXCEPT ![p] = i]
          /\ content' = IF file = NoFile THEN [content EXCEPT ![i] = <<>>]
                                         ELSE content
    /\ said' = Silent
    /\ UNCHANGED <<holder, servers>>

\* flock(LOCK_EX | LOCK_NB) on an inode nobody has locked ...
Lock(p) ==
    /\ At(p, "opened", "locked")
    /\ holder[fd[p]] = Nobody
    /\ holder' = [holder EXCEPT ![fd[p]] = p]
    /\ servers' = servers \cup {p}
    /\ said' = Silent
    /\ UNCHANGED <<file, content, fd>>

\* ... and on one that is locked.
Refuse(p) ==
    /\ At(p, "opened", "refused")
    /\ holder[fd[p]] # Nobody
    /\ said' = Silent
    /\ UNCHANGED <<file, content, holder, fd, servers>>

\* The refused process reads the file, closes it and raises.
Tell(p) ==
    /\ At(p, "refused", "off")
    /\ said' = {Named(content[fd[p]])}
    /\ fd' = [fd EXCEPT ![p] = NoFile]
    /\ UNCHANGED <<file, content, holder, servers>>

WritePid(p) ==
    /\ At(p, "locked", "written")
    /\ content' = [content EXCEPT ![fd[p]] = Written(@, Text(p))]
    /\ said' = Silent
    /\ UNCHANGED <<file, holder, fd, servers>>

Truncate(p) ==
    /\ At(p, "written", "serving")
    /\ content' = [content EXCEPT ![fd[p]] = Truncated(@, Len(Text(p)))]
    /\ said' = Silent
    /\ UNCHANGED <<file, holder, fd, servers>>

\* release, from atexit: unlock ...
Unlock(p) ==
    /\ At(p, "serving", "closing")
    /\ holder' = [holder EXCEPT ![fd[p]] = Nobody]
    /\ said' = Silent
    /\ UNCHANGED <<file, content, fd, servers>>

\* Fault: ... and remove the file.
UnlinkingClose(p) ==
    /\ At(p, "closing", "off")
    /\ fd' = [fd EXCEPT ![p] = NoFile]
    /\ file' = NoFile
    /\ said' = Silent
    /\ UNCHANGED <<content, holder, servers>>

\* ... and close.  The file stays.
Close(p) ==
    /\ At(p, "closing", "off")
    /\ fd' = [fd EXCEPT ![p] = NoFile]
    /\ said' = Silent
    /\ UNCHANGED <<file, content, holder, servers>>

\* A system call of acquire fails, or the process is killed: the descriptor is
\* closed, and with it goes the lock.  A read that fails names nobody.
Die(p) ==
    /\ phase[p] # "off"
    /\ phase' = [phase EXCEPT ![p] = "off"]
    /\ holder' = IF phase[p] \in Holding
                 THEN [holder EXCEPT ![fd[p]] = Nobody] ELSE holder
    /\ fd' = [fd EXCEPT ![p] = NoFile]
    /\ said' = Silent
    /\ UNCHANGED <<file, content, servers>>

-------------------------------------------------------------------------------

Init ==
    /\ file = NoFile
    /\ content = [i \in Inode |-> <<>>]
    /\ holder = [i \in Inode |-> Nobody]
    /\ phase = [p \in Process |-> "off"]
    /\ fd = [p \in Process |-> NoFile]
    /\ servers = {}
    /\ said = Silent

Step(p) ==
    \/ Open(p) \/ Lock(p) \/ Refuse(p) \/ Tell(p) \/ WritePid(p)
    \/ Truncate(p) \/ Unlock(p) \/ Close(p) \/ Die(p)

Next == \E p \in Process : Step(p)

Spec == Init /\ [][Next]_vars

-------------------------------------------------------------------------------
(* Properties *)

\* At most one process holds the lock, hence serves, however starts, exits and
\* deaths interleave (main.py, PIDLock.acquire and release).
OneServer ==
    \A p, q \in Process :
        phase[p] \in Holding /\ phase[q] \in Holding => p = q

\* A refusal names the process that serves, if one does by then, and never a
\* PID that did not hold the lock: an overwritten file must not read as a mix
\* of two PIDs, whatever their lengths and wherever a writer was stopped.
NamesServer ==
    [][\A pid \in said' :
         /\ \A p \in Process : phase[p] = "serving" => pid = PID[p]
         /\ pid = Unnamed \/ \E p \in servers : pid = PID[p]]_vars

===============================================================================
