--------------------------- MODULE InstanceLockProofs ---------------------------
(***************************************************************************)
(* One server at a time, and refusals that name it, for any number of      *)
(* processes and any PIDs.                                                 *)
(*                                                                         *)
(* The argument for the lock: as the file is never removed, every open     *)
(* descriptor is on the same inode, so all processes that hold a lock hold *)
(* the same one.  The argument for the text: what the file starts with is  *)
(* always the line of a process that has held the lock, and whatever is    *)
(* left of older lines behind it can only make it unreadable.              *)
(***************************************************************************)
EXTENDS InstanceLock, SequenceTheorems, TLAPS

\* Every open descriptor is on the file at the path.
Descriptors ==
    \A p \in Process :
        /\ phase[p] = "off" => fd[p] = NoFile
        /\ phase[p] # "off" => fd[p] = file /\ file \in Inode

\* A process that holds a lock is the holder of its inode.
Held == \A p \in Process : phase[p] \in Holding => holder[file] = p

\* The text starts with the line of process p.
StartsWith(text, p) ==
    /\ Len(text) >= Len(Text(p))
    /\ \A i \in 1..Len(Text(p)) : text[i] = Text(p)[i]

\* The file is new, or starts with the line of a process that held the lock;
\* the one that is writing has its own line there, the one that serves nothing else.
Lines ==
    /\ \A i \in Inode :
          content[i] = <<>> \/ \E p \in servers : StartsWith(content[i], p)
    /\ \A p \in Process :
          /\ phase[p] \in Holding => p \in servers
          /\ phase[p] = "written" => StartsWith(content[file], p)
          /\ phase[p] = "serving" => content[file] = Text(p)

IInv == TypeOK /\ Descriptors /\ Held /\ Lines

-------------------------------------------------------------------------------
(* The text *)

LEMMA PidFacts ==
    ASSUME NEW p \in Process
    PROVE  /\ PID[p] \in Seq(Digit) /\ Len(PID[p]) \in Nat /\ Len(PID[p]) > 0
           /\ Text(p) \in Seq(Digit \cup {NewLine})
           /\ Len(Text(p)) = Len(PID[p]) + 1
           /\ \A i \in 1..Len(PID[p]) :
                 Text(p)[i] = PID[p][i] /\ PID[p][i] \in Digit
           /\ Text(p)[Len(PID[p]) + 1] = NewLine
  <1>1. PID[p] \in Seq(Digit) /\ PID[p] # <<>>
    BY LockParameters
  <1>2. Len(PID[p]) \in Nat /\ Len(PID[p]) > 0
    BY <1>1, EmptySeq, LenProperties
  <1>3. PID[p] \in Seq(Digit \cup {NewLine})
    BY <1>1, SMTT(30) DEF Digit, NewLine
  <1>4. \A i \in 1..Len(PID[p]) : PID[p][i] \in Digit
    BY <1>1, ElementOfSeq
  <1>. QED
    BY <1>1, <1>2, <1>3, <1>4, AppendProperties DEF Text

\* A text that starts with a line reads as that PID or as none.
LEMMA StartRead ==
    ASSUME NEW p \in Process, NEW text \in Seq(Digit \cup {NewLine}),
           StartsWith(text, p)
    PROVE  Named(text) \in {Unnamed, PID[p]}
  <1>. DEFINE L == Len(PID[p])
  <1>1. /\ L \in Nat /\ Len(text) \in Nat /\ Len(text) >= L + 1
        /\ \A i \in 1..L : text[i] = PID[p][i] /\ text[i] \in Digit
        /\ text[L + 1] = NewLine
    <2>1. L + 1 \in 1..(L + 1) /\ \A i \in 1..L : i \in 1..(L + 1)
      BY PidFacts
    <2>. QED
      BY <2>1, PidFacts, LenProperties DEF StartsWith
  <1>2. \A n \in 1..Len(text) : Parses(text, n) => n = L
    <2>1. NewLine \notin Digit
      BY DEF NewLine, Digit
    <2>2. SUFFICES ASSUME NEW n \in 1..Len(text), Parses(text, n) PROVE n = L
      OBVIOUS
    <2>3. ~(n > L)
      BY <1>1, <2>1, <2>2 DEF Parses
    <2>4. ~(n < L)
      <3>1. SUFFICES ASSUME n < L PROVE FALSE
        OBVIOUS
      <3>2. L \in (n + 1)..Len(text) /\ L \in 1..L
        BY <1>1, <3>1
      <3>. QED
        BY <1>1, <2>1, <2>2, <3>2 DEF Parses
    <2>. QED
      BY <1>1, <2>3, <2>4
  <1>3. CASE \E n \in 1..Len(text) : Parses(text, n)
    <2>1. (CHOOSE n \in 1..Len(text) : Parses(text, n)) = L
      BY <1>2, <1>3
    <2>2. Named(text) = SubSeq(text, 1, L)
      BY <1>3, <2>1 DEF Named
    <2>3. SubSeq(text, 1, L) = PID[p]
      <3>1. SubSeq(text, 1, L) \in Seq(Digit \cup {NewLine})
            /\ Len(SubSeq(text, 1, L)) = L
            /\ \A i \in 1..L : SubSeq(text, 1, L)[i] = text[i]
        BY <1>1, SubSeqProperties
      <3>2. PID[p] \in Seq(Digit)
        BY PidFacts
      <3>. QED
        BY <1>1, <3>1, <3>2, SeqEqual
    <2>. QED
      BY <2>2, <2>3
  <1>4. CASE ~ \E n \in 1..Len(text) : Parses(text, n)
    BY <1>4 DEF Named
  <1>. QED
    BY <1>3, <1>4

\* The line of a process reads as its PID.
LEMMA LineRead ==
    ASSUME NEW p \in Process
    PROVE  Named(Text(p)) = PID[p]
  <1>1. StartsWith(Text(p), p)
    BY PidFacts DEF StartsWith
  <1>2. Named(Text(p)) \in {Unnamed, PID[p]}
    BY <1>1, PidFacts, StartRead
  <1>3. Parses(Text(p), Len(PID[p])) /\ Len(PID[p]) \in 1..Len(Text(p))
    BY PidFacts DEF Parses
  <1>4. Named(Text(p)) # Unnamed
    <2>. DEFINE m == CHOOSE n \in 1..Len(Text(p)) : Parses(Text(p), n)
    <2>1. m \in 1..Len(Text(p))
      BY <1>3
    <2>2. Named(Text(p)) = SubSeq(Text(p), 1, m)
      BY <1>3 DEF Named
    <2>. HIDE DEF m
    <2>3. m \in Int /\ m > 0 /\ \A i \in 1..m : Text(p)[i] \in Digit \cup {NewLine}
      BY <2>1, PidFacts
    <2>4. Len(SubSeq(Text(p), 1, m)) = m
      BY <2>3, SubSeqProperties
    <2>5. Len(Unnamed) = 0
      BY EmptySeq DEF Unnamed
    <2>. QED
      BY <2>2, <2>3, <2>4, <2>5
  <1>. QED
    BY <1>2, <1>4

\* Writing a line puts it at the start.
LEMMA WriteStarts ==
    ASSUME NEW p \in Process, NEW old \in Seq(Digit \cup {NewLine})
    PROVE  /\ Written(old, Text(p)) \in Seq(Digit \cup {NewLine})
           /\ StartsWith(Written(old, Text(p)), p)
  <1>. DEFINE rest == SubSeq(old, Len(Text(p)) + 1, Len(old))
  <1>1. Text(p) \in Seq(Digit \cup {NewLine}) /\ Len(Text(p)) \in Nat
    BY PidFacts
  <1>2. rest \in Seq(Digit \cup {NewLine})
    BY <1>1, LenProperties, SubSeqProperties
  <1>. QED
    BY <1>1, <1>2, ConcatProperties, LenProperties DEF Written, StartsWith

\* Truncating behind the line leaves the line.
LEMMA TruncateLeavesLine ==
    ASSUME NEW p \in Process, NEW text \in Seq(Digit \cup {NewLine}),
           StartsWith(text, p)
    PROVE  Truncated(text, Len(Text(p))) = Text(p)
  <1>1. Text(p) \in Seq(Digit \cup {NewLine}) /\ Len(Text(p)) \in Nat
    BY PidFacts
  <1>2. Len(text) \in Nat /\ Len(Text(p)) <= Len(text)
    BY <1>1, LenProperties DEF StartsWith
  <1>. DEFINE t == SubSeq(text, 1, Len(Text(p)))
  <1>3. /\ t \in Seq(Digit \cup {NewLine}) /\ Len(t) = Len(Text(p))
        /\ \A i \in 1..Len(Text(p)) : t[i] = text[i]
    BY <1>1, <1>2, SubSeqProperties
  <1>4. t = Text(p)
    BY <1>1, <1>3, SeqEqual DEF StartsWith
  <1>. QED
    BY <1>4 DEF Truncated

-------------------------------------------------------------------------------
(* Invariance *)

LEMMA InitInv == Init => IInv
  BY EmptySeq DEF Init, IInv, TypeOK, Descriptors, Held, Lines, Phase, Holding,
                  Silent

LEMMA TypeStep == IInv /\ Next => TypeOK'
  <1>. SUFFICES ASSUME TypeOK, Descriptors, Lines, NEW p \in Process, Step(p)
                PROVE  TypeOK'
    BY DEF Next, IInv
  <1>. USE DEF TypeOK, Phase, At, Silent
  <1>1. CASE Open(p) BY <1>1, EmptySeq DEF Open
  <1>2. CASE Lock(p) BY <1>2 DEF Lock
  <1>3. CASE Refuse(p) BY <1>3 DEF Refuse
  <1>4. CASE Tell(p)
    <2>1. fd[p] = file /\ file \in Inode
      BY <1>4 DEF Tell, Descriptors
    <2>2. \A text \in Seq(Digit \cup {NewLine}) : Named(text) \in Seq(Digit)
      <3>. SUFFICES ASSUME NEW text \in Seq(Digit \cup {NewLine})
                    PROVE  Named(text) \in Seq(Digit)
        OBVIOUS
      <3>. DEFINE m == CHOOSE n \in 1..Len(text) : Parses(text, n)
      <3>1. CASE \E n \in 1..Len(text) : Parses(text, n)
        <4>1. m \in 1..Len(text) /\ Parses(text, m)
          BY <3>1
        <4>2. SubSeq(text, 1, m) \in Seq(Digit)
          <5>. HIDE DEF m
          <5>1. m \in Int /\ \A i \in 1..m : text[i] \in Digit
            BY <4>1, LenProperties DEF Parses
          <5>. QED
            BY <5>1, SubSeqProperties
        <4>. QED
          BY <3>1, <4>2 DEF Named
      <3>2. CASE ~ \E n \in 1..Len(text) : Parses(text, n)
        BY <3>2, EmptySeq DEF Named, Unnamed
      <3>. QED
        BY <3>1, <3>2
    <2>. QED
      BY <1>4, <2>1, <2>2 DEF Tell
  <1>5. CASE WritePid(p)
    <2>1. fd[p] \in Inode /\ content[fd[p]] \in Seq(Digit \cup {NewLine})
      BY <1>5 DEF WritePid, Descriptors
    <2>. QED
      BY <1>5, <2>1, WriteStarts DEF WritePid
  <1>6. CASE Truncate(p)
    <2>1. fd[p] \in Inode /\ content[fd[p]] \in Seq(Digit \cup {NewLine})
      BY <1>6 DEF Truncate, Descriptors
    <2>2. Truncated(content[fd[p]], Len(Text(p))) = Text(p)
      <3>1. fd[p] = file /\ StartsWith(content[file], p)
        BY <1>6 DEF Truncate, Descriptors, Lines
      <3>. QED
        BY <2>1, <3>1, TruncateLeavesLine
    <2>. QED
      BY <1>6, <2>1, <2>2, PidFacts DEF Truncate
  <1>7. CASE Unlock(p) BY <1>7 DEF Unlock
  <1>8. CASE Close(p) BY <1>8 DEF Close
  <1>9. CASE Die(p) BY <1>9 DEF Die
  <1>. QED
    BY <1>1, <1>2, <1>3, <1>4, <1>5, <1>6, <1>7, <1>8, <1>9 DEF Step

LEMMA DescriptorsStep == TypeOK /\ Descriptors /\ Next => Descriptors'
  <1>. SUFFICES ASSUME TypeOK, Descriptors, NEW p \in Process, Step(p)
                PROVE  Descriptors'
    BY DEF Next
  <1>. USE DEF TypeOK, Descriptors, Phase, At
  <1>1. CASE Open(p)
    <2>1. file = NoFile => \A q \in Process : phase[q] = "off"
      BY LockParameters
    <2>. QED
      BY <1>1, <2>1 DEF Open
  <1>2. CASE Lock(p) BY <1>2 DEF Lock
  <1>3. CASE Refuse(p) BY <1>3 DEF Refuse
  <1>4. CASE Tell(p) BY <1>4 DEF Tell
  <1>5. CASE WritePid(p) BY <1>5 DEF WritePid
  <1>6. CASE Truncate(p) BY <1>6 DEF Truncate
  <1>7. CASE Unlock(p) BY <1>7 DEF Unlock
  <1>8. CASE Close(p) BY <1>8 DEF Close
  <1>9. CASE Die(p) BY <1>9 DEF Die
  <1>. QED
    BY <1>1, <1>2, <1>3, <1>4, <1>5, <1>6, <1>7, <1>8, <1>9 DEF Step

LEMMA HeldStep == TypeOK /\ Descriptors /\ Held /\ Next => Held'
  <1>. SUFFICES ASSUME TypeOK, Descriptors, Held, NEW p \in Process, Step(p)
                PROVE  Held'
    BY DEF Next
  <1>. USE LockParameters DEF TypeOK, Descriptors, Held, Phase, Holding, At
  <1>1. CASE Open(p)
    <2>1. file = NoFile => \A q \in Process : phase[q] = "off"
      OBVIOUS
    <2>. QED
      BY <1>1, <2>1 DEF Open
  <1>2. CASE Lock(p) BY <1>2 DEF Lock
  <1>3. CASE Refuse(p) BY <1>3 DEF Refuse
  <1>4. CASE Tell(p) BY <1>4 DEF Tell
  <1>5. CASE WritePid(p) BY <1>5 DEF WritePid
  <1>6. CASE Truncate(p) BY <1>6 DEF Truncate
  <1>7. CASE Unlock(p) BY <1>7 DEF Unlock
  <1>8. CASE Close(p) BY <1>8 DEF Close
  <1>9. CASE Die(p) BY <1>9 DEF Die
  <1>. QED
    BY <1>1, <1>2, <1>3, <1>4, <1>5, <1>6, <1>7, <1>8, <1>9 DEF Step

LEMMA LinesStep == IInv /\ Next => Lines'
  <1>. SUFFICES ASSUME IInv, NEW p \in Process, Step(p)
                PROVE  Lines'
    BY DEF Next
  <1>. USE LockParameters DEF IInv, TypeOK, Descriptors, Lines, Phase, Holding, At
  <1>1. CASE Open(p)
    <2>1. file = NoFile => \A q \in Process : phase[q] = "off"
      OBVIOUS
    <2>. QED
      BY <1>1, <2>1 DEF Open
  <1>2. CASE Lock(p) BY <1>2 DEF Lock
  <1>3. CASE Refuse(p) BY <1>3 DEF Refuse
  <1>4. CASE Tell(p) BY <1>4 DEF Tell
  <1>5. CASE WritePid(p)
    <2>1. /\ fd[p] = file /\ file \in Inode /\ p \in servers
          /\ content[file] \in Seq(Digit \cup {NewLine})
      BY <1>5 DEF WritePid
    <2>2. StartsWith(Written(content[file], Text(p)), p)
      BY <2>1, WriteStarts
    <2>3. \A q \in Process \ {p} : phase[q] \notin Holding
      BY <1>5, <2>1 DEF WritePid, Held
    <2>. QED
      BY <1>5, <2>1, <2>2, <2>3 DEF WritePid
  <1>6. CASE Truncate(p)
    <2>1. /\ fd[p] = file /\ file \in Inode /\ p \in servers
          /\ content[file] \in Seq(Digit \cup {NewLine})
          /\ StartsWith(content[file], p)
      BY <1>6 DEF Truncate
    <2>2. Truncated(content[file], Len(Text(p))) = Text(p)
      BY <2>1, TruncateLeavesLine
    <2>3. StartsWith(Text(p), p)
      BY PidFacts DEF StartsWith
    <2>4. \A q \in Process \ {p} : phase[q] \notin Holding
      BY <1>6, <2>1 DEF Truncate, Held
    <2>. QED
      BY <1>6, <2>1, <2>2, <2>3, <2>4 DEF Truncate
  <1>7. CASE Unlock(p) BY <1>7 DEF Unlock
  <1>8. CASE Close(p) BY <1>8 DEF Close
  <1>9. CASE Die(p) BY <1>9 DEF Die
  <1>. QED
    BY <1>1, <1>2, <1>3, <1>4, <1>5, <1>6, <1>7, <1>8, <1>9 DEF Step

LEMMA Invariance == Spec => []IInv
  <1>1. IInv /\ [Next]_vars => IInv'
    <2>1. CASE Next
      BY <2>1, TypeStep, DescriptorsStep, HeldStep, LinesStep DEF IInv
    <2>2. CASE UNCHANGED vars
      BY <2>2 DEF vars, IInv, TypeOK, Descriptors, Held, Lines
    <2>. QED
      BY <2>1, <2>2
  <1>. QED
    BY InitInv, <1>1, PTL DEF Spec

-------------------------------------------------------------------------------
(* Results *)

\* However many processes start, exit and die, at most one of them holds the
\* lock (main.py, PIDLock).
THEOREM OneServerHolds == Spec => []OneServer
  <1>1. IInv => OneServer
    BY DEF IInv, Held, OneServer
  <1>. QED
    BY Invariance, <1>1, PTL

\* A refusal names the process that serves, and never a PID that did not hold
\* the lock, whatever the PIDs are.
THEOREM NamesServerHolds == Spec => NamesServer
  <1>. DEFINE Right == \A pid \in said' :
           /\ \A p \in Process : phase[p] = "serving" => pid = PID[p]
           /\ pid = Unnamed \/ \E p \in servers : pid = PID[p]
  <1>1. ASSUME IInv, Next PROVE Right
    <2>1. PICK p \in Process : Step(p)
      BY <1>1 DEF Next
    <2>2. CASE Tell(p)
      <3>1. /\ fd[p] = file /\ file \in Inode
            /\ content[file] \in Seq(Digit \cup {NewLine})
            /\ said' = {Named(content[file])}
        BY <1>1, <2>2 DEF Tell, At, IInv, TypeOK, Descriptors
      <3>2. ASSUME NEW q \in Process, phase[q] = "serving"
            PROVE  Named(content[file]) = PID[q]
        BY <1>1, <3>2, LineRead DEF IInv, Lines
      <3>3. Named(content[file]) = Unnamed
              \/ \E q \in servers : Named(content[file]) = PID[q]
        <4>1. CASE content[file] = <<>>
          BY <4>1, EmptySeq DEF Named
        <4>2. CASE \E q \in servers : StartsWith(content[file], q)
          <5>1. servers \subseteq Process
            BY <1>1 DEF IInv, TypeOK
          <5>. QED
            BY <3>1, <4>2, <5>1, StartRead
        <4>. QED
          BY <1>1, <3>1, <4>1, <4>2 DEF IInv, Lines
      <3>. QED
        BY <3>1, <3>2, <3>3
    <2>3. CASE ~ Tell(p)
      <3>1. said' = Silent
        BY <2>1, <2>3 DEF Step, Open, Lock, Refuse, WritePid, Truncate, Unlock,
                          Close, Die
      <3>. QED
        BY <3>1 DEF Silent
    <2>. QED
      BY <2>2, <2>3
  <1>2. IInv /\ [Next]_vars => [Right]_vars
    BY <1>1
  <1>. QED
    BY Invariance, <1>2, PTL DEF Spec, NamesServer

===============================================================================
