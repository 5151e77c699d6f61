-------------------------- MODULE AuditLedgerProofs --------------------------
(***************************************************************************)
(* Proofs about AuditLedger for any set of append() calls and any number   *)
(* of crashes.                                                             *)
(***************************************************************************)
EXTENDS AuditLedger, TLAPS

\* The entry that a write puts at the end of the file.
Written(a, w, e) == [rec |-> rec[a], whole |-> w, eol |-> e]

\* A step leaves the file alone or appends one entry of a call that writes.
GrowsBy(a) ==
    \E w, e \in BOOLEAN :
        /\ pc[a] = "writing"
        /\ file' = Append(file, Written(a, w, e))

\* Hashes are sequences of events: hashing one more event stays in Hash.
LEMMA ComputeHashType ==
    ASSUME NEW a \in Appends, NEW h \in Hash
    PROVE  ComputeHash(a, h) \in Record
  BY DEF ComputeHash, Record, Hash

\* What readFile returns is in the snapshot domain.
LEMMA LastLineType == TypeOK => LastLine \in Snapshot
<1> SUFFICES ASSUME TypeOK PROVE LastLine \in Snapshot OBVIOUS
<1>1. <<>> \in Hash BY DEF Hash
<1>2. CASE file = <<>> BY <1>1, <1>2 DEF LastLine, NoLine, Snapshot
<1>3. CASE file # <<>>
  <2>1. Len(file) \in 1..Len(file) BY <1>3 DEF TypeOK
  <2>2. file[Len(file)] \in Entry BY <2>1 DEF TypeOK
  <2>3. file[Len(file)].rec \in Record BY <2>2 DEF Entry
  <2>4. file[Len(file)].rec.hash \in Hash BY <2>3 DEF Record
  <2> QED BY <1>1, <1>3, <2>4 DEF LastLine, BadLine, HashLine, Snapshot
<1> QED BY <1>2, <1>3

\* Every step writes the file as one call's write, or not at all.
LEMMA FileSteps ==
    ASSUME Next
    PROVE  file' = file \/ \E a \in Appends : GrowsBy(a)
  BY DEF Next, Step, AppendCall, ReadFile, ReadError, FinishInit, InitThrows,
         Compute, WriteLine, WriteError, UpdateHash, Crash, Torn, GrowsBy,
         Written

\* The type invariant is inductive.
LEMMA TypeStep ==
    ASSUME TypeOK, [Next]_vars
    PROVE  TypeOK'
<1> USE DEF TypeOK
<1>f. file' \in Seq(Entry)
  <2>1. CASE Next
    <3>1. CASE \E a \in Appends : GrowsBy(a)
      <4> PICK a \in Appends : GrowsBy(a) BY <3>1
      <4> PICK w, e \in BOOLEAN : file' = Append(file, Written(a, w, e))
          BY DEF GrowsBy
      <4>1. Written(a, w, e) \in Entry BY DEF Written, Entry
      <4> QED BY <4>1
    <3> QED BY <2>1, <3>1, FileSteps
  <2> QED BY <2>1 DEF vars
<1>1. ASSUME NEW a \in Appends, AppendCall(a) PROVE TypeOK'
  BY <1>1, <1>f DEF AppendCall, States
<1>2. ASSUME NEW a \in Appends, ReadFile(a) PROVE TypeOK'
  BY <1>2, <1>f, LastLineType DEF ReadFile, States
<1>3. ASSUME NEW a \in Appends, ReadError(a) PROVE TypeOK'
  BY <1>3, <1>f DEF ReadError, States
<1>4. ASSUME NEW a \in Appends, FinishInit(a) PROVE TypeOK'
  BY <1>4, <1>f DEF FinishInit, States, Snapshot
<1>5. ASSUME NEW a \in Appends, InitThrows(a) PROVE TypeOK'
  BY <1>5, <1>f DEF InitThrows, States
<1>6. ASSUME NEW a \in Appends, Compute(a) PROVE TypeOK'
  BY <1>6, <1>f, ComputeHashType DEF Compute, States
<1>7. ASSUME NEW a \in Appends, WriteLine(a) PROVE TypeOK'
  BY <1>7, <1>f DEF WriteLine, States
<1>8. ASSUME NEW a \in Appends, WriteError(a) PROVE TypeOK'
  BY <1>8, <1>f DEF WriteError, States
<1>9. ASSUME NEW a \in Appends, UpdateHash(a) PROVE TypeOK'
  BY <1>9, <1>f DEF UpdateHash, States, Record
<1>10. ASSUME Crash PROVE TypeOK'
  <2>1. lastHash' \in Hash BY <1>10 DEF Crash, Hash
  <2>2. pc' \in [Appends -> States] BY <1>10 DEF Crash, States
  <2>0. crashes' = crashes + 1 BY <1>10 DEF Crash
  <2>3. crashes' \in Nat BY <2>0
  <2>5. initialized' \in BOOLEAN BY <1>10 DEF Crash
  <2>4. UNCHANGED <<snap, rec, ioFailed>> BY <1>10 DEF Crash
  <2> QED BY <1>f, <2>1, <2>2, <2>3, <2>4, <2>5
<1>11. CASE UNCHANGED vars BY <1>11 DEF vars
<1> QED BY <1>1, <1>2, <1>3, <1>4, <1>5, <1>6, <1>7, <1>8, <1>9, <1>10,
           <1>11 DEF Next, Step

LEMMA TypeInit == Init => TypeOK
<1> SUFFICES ASSUME Init PROVE TypeOK OBVIOUS
<1>1. <<>> \in Hash BY DEF Hash
<1>2. \A a \in Appends : ComputeHash(a, <<>>) \in Record
  BY <1>1, ComputeHashType
<1>3. snap \in [Appends -> Snapshot] BY <1>1 DEF Init, Snapshot, NoLine
<1>4. rec \in [Appends -> Record] BY <1>2 DEF Init
<1>5. file \in Seq(Entry) BY DEF Init
<1> QED BY <1>1, <1>3, <1>4, <1>5 DEF Init, TypeOK, States

\* TypeOK, for any set of calls: the suspension points of append() never mix
\* up their data.
THEOREM TypeCorrect == Spec => []TypeOK
<1> QED BY TypeInit, TypeStep, PTL DEF Spec

-----------------------------------------------------------------------------
\* What makes NoDanglingPrev inductive: every hash the ledger holds, in
\* lastHash, in a snapshot or in a record under way, is already in the file.
HeldHashes ==
    /\ OnFile(lastHash, Len(file))
    /\ \A a \in Appends :
          /\ pc[a] = "read" => OnFile(snap[a].hash, Len(file))
          /\ pc[a] = "writing" => OnFile(rec[a].prev, Len(file))
          /\ pc[a] = "written" => OnFile(rec[a].hash, Len(file))

LinkInv == TypeOK /\ HeldHashes /\ NoDanglingPrev

\* Files only grow.
LEMMA FileGrows ==
    ASSUME TypeOK, Next
    PROVE  /\ Len(file) \in Nat /\ Len(file') \in Nat
           /\ Len(file) <= Len(file')
           /\ \A i \in 1..Len(file) : file'[i] = file[i]
<1>1. CASE file' = file BY <1>1 DEF TypeOK
<1>2. CASE \E a \in Appends : GrowsBy(a)
  BY <1>2 DEF GrowsBy, TypeOK
<1> QED BY <1>1, <1>2, FileSteps

LEMMA LinkStep ==
    ASSUME LinkInv, [Next]_vars
    PROVE  LinkInv'
<1> USE DEF LinkInv
<1>t. TypeOK' BY TypeStep
<1>u. CASE UNCHANGED vars
  BY <1>u DEF vars, TypeOK, HeldHashes, NoDanglingPrev, OnFile
<1>n. CASE Next
  <2> USE <1>n
  <2>g. /\ Len(file) \in Nat /\ Len(file') \in Nat
        /\ Len(file) <= Len(file')
        /\ \A i \in 1..Len(file) : file'[i] = file[i]
    BY FileGrows
  <2>s. \A h : OnFile(h, Len(file)) => OnFile(h, Len(file))'
    <3> SUFFICES ASSUME NEW h, OnFile(h, Len(file))
                 PROVE  OnFile(h, Len(file))'
      OBVIOUS
    <3>1. \A j \in 1..Len(file) : j \in 1..Len(file') BY <2>g
    <3> QED BY <2>g, <3>1 DEF OnFile
  <2>1. NoDanglingPrev'
    <3> SUFFICES ASSUME NEW i \in 1..Len(file')
                 PROVE  OnFile(file[i].rec.prev, i - 1)'
      BY DEF NoDanglingPrev
    <3>1. CASE i \in 1..Len(file)
      <4>1. file'[i] = file[i] BY <2>g, <3>1
      <4>2. OnFile(file[i].rec.prev, i - 1) BY <3>1 DEF NoDanglingPrev
      <4>3. \A j \in 1..(i - 1) : file'[j] = file[j] BY <2>g, <3>1
      <4> QED BY <4>1, <4>2, <4>3 DEF OnFile
    <3>2. CASE i \notin 1..Len(file)
      <4>1. PICK a \in Appends : GrowsBy(a) BY <3>2, FileSteps
      <4>2. /\ pc[a] = "writing" /\ i = Len(file) + 1
            /\ file'[i].rec = rec[a]
        BY <2>g, <3>2, <4>1 DEF GrowsBy, Written, TypeOK
      <4>3. OnFile(rec[a].prev, Len(file)) BY <4>2 DEF HeldHashes
      <4>4. \A j \in 1..(i - 1) : file'[j] = file[j] BY <2>g, <4>2
      <4> QED BY <2>g, <4>2, <4>3, <4>4 DEF OnFile
    <3> QED BY <3>1, <3>2
  <2>2. HeldHashes'
    <3> USE <2>s DEF HeldHashes
    <3>e. \A n : OnFile(<<>>, n)' BY DEF OnFile
    <3>1. ASSUME NEW a \in Appends, AppendCall(a) PROVE HeldHashes'
      BY <3>1 DEF AppendCall, TypeOK
    <3>2. ASSUME NEW a \in Appends, ReadFile(a) PROVE HeldHashes'
      <4>1. OnFile(LastLine.hash, Len(file))
        BY <2>g DEF LastLine, NoLine, BadLine, HashLine, OnFile, Parses
      <4>2. snap'[a] = LastLine /\ file' = file BY <3>2 DEF ReadFile, TypeOK
      <4>3. OnFile(snap[a].hash, Len(file))' BY <4>1, <4>2 DEF OnFile
      <4> QED BY <3>2, <4>3 DEF ReadFile, TypeOK
    <3>3. ASSUME NEW a \in Appends, ReadError(a) PROVE HeldHashes'
      BY <3>3 DEF ReadError, TypeOK
    <3>4. ASSUME NEW a \in Appends, FinishInit(a) PROVE HeldHashes'
      BY <3>4 DEF FinishInit, TypeOK
    <3>5. ASSUME NEW a \in Appends, InitThrows(a) PROVE HeldHashes'
      BY <3>5 DEF InitThrows, TypeOK
    <3>6. ASSUME NEW a \in Appends, Compute(a) PROVE HeldHashes'
      BY <3>6 DEF Compute, TypeOK, ComputeHash
    <3>7. ASSUME NEW a \in Appends, WriteLine(a) PROVE HeldHashes'
      <4>1. OnFile(rec[a].hash, Len(file))'
        BY <2>g, <3>7 DEF WriteLine, OnFile, TypeOK
      <4> QED BY <3>7, <4>1 DEF WriteLine, TypeOK
    <3>8. ASSUME NEW a \in Appends, WriteError(a) PROVE HeldHashes'
      BY <3>8 DEF WriteError, TypeOK
    <3>9. ASSUME NEW a \in Appends, UpdateHash(a) PROVE HeldHashes'
      BY <3>9 DEF UpdateHash, TypeOK
    <3>10. CASE Crash
      BY <3>10, <3>e DEF Crash, InFlight, TypeOK
    <3> QED BY <3>1, <3>2, <3>3, <3>4, <3>5, <3>6, <3>7, <3>8, <3>9, <3>10
            DEF Next, Step
  <2> QED BY <1>t, <2>1, <2>2
<1> QED BY <1>u, <1>n

\* NoDanglingPrev for any set of calls, serialized or not, and any number of
\* crashes: a record's prevHash is empty or the hash of an earlier record.
THEOREM NoDangling == Spec => []NoDanglingPrev
<1>1. Init => LinkInv
  BY TypeInit DEF Init, LinkInv, HeldHashes, NoDanglingPrev, OnFile
<1>2. LinkInv /\ [Next]_vars => LinkInv' BY LinkStep
<1>3. LinkInv => NoDanglingPrev BY DEF LinkInv
<1> QED BY <1>1, <1>2, <1>3, PTL DEF Spec

-----------------------------------------------------------------------------
(***************************************************************************)
(* Serialized appends.  A file is Sound when all its lines parse and the   *)
(* next record starts a line of its own; only then must lastHash name the  *)
(* record at the Tip of the file.  A torn line makes the file unsound for  *)
(* good, which is why the invariant can ignore it.                         *)
(***************************************************************************)
Tip == IF file = <<>> THEN <<>> ELSE file[Len(file)].rec.hash

Sound == AllLinesParse /\ (file = <<>> \/ file[Len(file)].eol)

OneInFlight == \A a, b \in Appends : InFlight(a) /\ InFlight(b) => a = b

CallState(a) ==
    /\ pc[a] = "init" => ~initialized
    /\ pc[a] = "read" => ~initialized /\ snap[a] = LastLine
    /\ pc[a] \in {"ready", "writing", "written"} => initialized
    /\ pc[a] = "writing" => rec[a] = ComputeHash(a, lastHash)
    /\ pc[a] = "written" => file # <<>> /\ file[Len(file)].rec = rec[a]

HashState ==
    /\ ~initialized => lastHash = <<>>
    /\ Sound /\ initialized /\ (\A a \in Appends : pc[a] # "written")
          => lastHash = Tip

SerialInv ==
    /\ TypeOK
    /\ OneInFlight
    /\ \A a \in Appends : CallState(a)
    /\ HashState
    /\ NoFalseTamper

\* A record that joins a file whose lines then all parse was appended to a
\* sound file, and the chain verifies up to it when it continues the Tip.
LEMMA AppendToSound ==
    ASSUME TypeOK, NEW x \in Entry, file' = Append(file, x), AllLinesParse',
           NoFalseTamper
    PROVE  /\ Sound
           /\ x.rec = ComputeHash(x.rec.event, Tip) => ChainVerifies'
<1>l. /\ Len(file) \in Nat /\ Len(file') = Len(file) + 1
      /\ file'[Len(file) + 1] = x
      /\ \A i \in 1..Len(file) : file'[i] = file[i]
  BY DEF TypeOK
<1>1. \A i \in 1..Len(file) : file[i].whole /\ file[i].eol
                               /\ (i = 1 \/ file[i-1].eol)
  <2> SUFFICES ASSUME NEW i \in 1..Len(file)
               PROVE  file[i].whole /\ file[i].eol
                      /\ (i = 1 \/ file[i-1].eol)
    OBVIOUS
  <2>1. i \in 1..Len(file') /\ i + 1 \in 1..Len(file') BY <1>l
  <2>2. Parses(i)' /\ Parses(i + 1)' BY <2>1 DEF AllLinesParse
  <2>3. i # 1 => i - 1 \in 1..Len(file) BY <1>l
  <2> QED BY <1>l, <2>2, <2>3 DEF Parses
<1>2. AllLinesParse BY <1>1 DEF AllLinesParse, Parses
<1>3. Sound BY <1>1, <1>2, <1>l DEF Sound, TypeOK
<1>4. ASSUME x.rec = ComputeHash(x.rec.event, Tip) PROVE ChainVerifies'
  <2>1. ChainVerifies BY <1>2 DEF NoFalseTamper
  <2> SUFFICES ASSUME NEW i \in 1..Len(file')
               PROVE  file'[i].rec = ComputeHash(file'[i].rec.event,
                         IF i = 1 THEN <<>> ELSE file'[i-1].rec.hash)
    BY DEF ChainVerifies, ComputeHash
  <2>2. CASE i \in 1..Len(file)
    <3>1. i # 1 => i - 1 \in 1..Len(file) BY <1>l, <2>2
    <3> QED BY <1>l, <2>1, <2>2, <3>1 DEF ChainVerifies
  <2>3. CASE i = Len(file) + 1
    <3>1. Tip = IF i = 1 THEN <<>> ELSE file'[i-1].rec.hash
      BY <1>l, <2>3 DEF Tip, TypeOK
    <3> QED BY <1>l, <1>4, <2>3, <3>1
  <2> QED BY <1>l, <2>2, <2>3
<1> QED BY <1>3, <1>4

\* The write of a call keeps the chain verifiable.
LEMMA WriteKeepsChain ==
    ASSUME SerialInv, NEW a \in Appends, GrowsBy(a)
    PROVE  NoFalseTamper'
<1> SUFFICES ASSUME AllLinesParse' PROVE ChainVerifies' BY DEF NoFalseTamper
<1>1. PICK w, e \in BOOLEAN : file' = Append(file, Written(a, w, e))
  BY DEF GrowsBy
<1>2. Written(a, w, e) \in Entry BY DEF Written, Entry, SerialInv, TypeOK
<1>3. Sound BY <1>1, <1>2, AppendToSound DEF SerialInv
<1>4. /\ pc[a] = "writing" /\ initialized
      /\ rec[a] = ComputeHash(a, lastHash)
  BY DEF GrowsBy, SerialInv, CallState
<1>5. \A b \in Appends : pc[b] # "written"
  BY <1>4 DEF SerialInv, OneInFlight, InFlight
<1>6. lastHash = Tip BY <1>3, <1>4, <1>5 DEF SerialInv, HashState
<1>7. rec[a] = ComputeHash(rec[a].event, Tip) BY <1>4, <1>6 DEF ComputeHash
<1> QED BY <1>1, <1>2, <1>7, AppendToSound DEF SerialInv, Written

LEMMA SerialStep ==
    ASSUME SerialInv, [Next]_vars,
           \A a, b \in Appends : AppendCall(a) => ~InFlight(b)
    PROVE  SerialInv'
<1> USE DEF SerialInv
<1>t. TypeOK' BY TypeStep
<1>u. CASE UNCHANGED vars
  BY <1>u DEF vars, TypeOK, OneInFlight, InFlight, CallState, HashState, Sound,
              Tip, NoFalseTamper, AllLinesParse, ChainVerifies, Parses, LastLine
<1>n. CASE Next
  <2>f. NoFalseTamper'
    <3>1. CASE file' = file
      BY <3>1 DEF NoFalseTamper, AllLinesParse, ChainVerifies, Parses
    <3> QED BY <1>n, <3>1, WriteKeepsChain, FileSteps
  <2>i. ASSUME file' = file
        PROVE  /\ LastLine' = LastLine /\ Tip' = Tip /\ Sound' = Sound
    BY <2>i DEF LastLine, Tip, Sound, AllLinesParse, Parses
  <2>1. ASSUME NEW a \in Appends, AppendCall(a) PROVE SerialInv'
    <3>1. OneInFlight' BY <2>1 DEF AppendCall, OneInFlight, InFlight, TypeOK
    <3>2. \A b \in Appends : CallState(b)'
      BY <2>1, <2>i DEF AppendCall, CallState, InFlight, TypeOK
    <3>3. HashState' BY <2>1, <2>i DEF AppendCall, HashState, TypeOK
    <3> QED BY <1>t, <2>f, <3>1, <3>2, <3>3
  <2>2. ASSUME NEW a \in Appends, ReadFile(a) PROVE SerialInv'
    <3>1. OneInFlight' BY <2>2 DEF ReadFile, OneInFlight, InFlight, TypeOK
    <3>2. \A b \in Appends : CallState(b)'
      BY <2>2, <2>i DEF ReadFile, CallState, TypeOK
    <3>3. HashState' BY <2>2, <2>i DEF ReadFile, HashState, TypeOK
    <3> QED BY <1>t, <2>f, <3>1, <3>2, <3>3
  <2>3. ASSUME NEW a \in Appends, ReadError(a) \/ InitThrows(a)
        PROVE  SerialInv'
    <3> USE DEF ReadError, InitThrows
    <3>1. OneInFlight' BY <2>3 DEF OneInFlight, InFlight, TypeOK
    <3>2. \A b \in Appends : CallState(b)'
      BY <2>3, <2>i DEF CallState, TypeOK
    <3>3. HashState' BY <2>3, <2>i DEF HashState, TypeOK
    <3> QED BY <1>t, <2>f, <3>1, <3>2, <3>3
  <2>4. ASSUME NEW a \in Appends, FinishInit(a) PROVE SerialInv'
    <3>1. OneInFlight' BY <2>4 DEF FinishInit, OneInFlight, InFlight, TypeOK
    <3>a. ~initialized /\ snap[a] = LastLine BY <2>4 DEF FinishInit, CallState
    <3>o. \A b \in Appends : InFlight(b) => b = a
      BY <2>4 DEF FinishInit, OneInFlight, InFlight
    <3>2. \A b \in Appends : CallState(b)'
      BY <2>4, <2>i, <3>o DEF FinishInit, CallState, InFlight, TypeOK
    <3>3. Sound => lastHash' = Tip
      <4>1. CASE file = <<>>
        BY <2>4, <3>a, <4>1
           DEF FinishInit, LastLine, NoLine, Tip, HashState
      <4>2. CASE file # <<>> /\ Sound
        <5>1. Parses(Len(file)) BY <4>2 DEF Sound, AllLinesParse, TypeOK
        <5> QED BY <2>4, <3>a, <4>2, <5>1
                DEF FinishInit, LastLine, HashLine, Tip
      <4> QED BY <4>1, <4>2
    <3>4. HashState' BY <2>4, <2>i, <3>3 DEF FinishInit, HashState
    <3> QED BY <1>t, <2>f, <3>1, <3>2, <3>4
  <2>5. ASSUME NEW a \in Appends, Compute(a) PROVE SerialInv'
    <3>1. OneInFlight' BY <2>5 DEF Compute, OneInFlight, InFlight, TypeOK
    <3>2. \A b \in Appends : CallState(b)'
      BY <2>5, <2>i DEF Compute, CallState, ComputeHash, TypeOK
    <3>3. HashState' BY <2>5, <2>i DEF Compute, HashState, TypeOK
    <3> QED BY <1>t, <2>f, <3>1, <3>2, <3>3
  <2>6. ASSUME NEW a \in Appends, WriteLine(a) PROVE SerialInv'
    <3>o. \A b \in Appends : InFlight(b) => b = a
      BY <2>6 DEF WriteLine, OneInFlight, InFlight
    <3>1. OneInFlight' BY <2>6 DEF WriteLine, OneInFlight, InFlight, TypeOK
    <3>e. file' # <<>> /\ file'[Len(file')].rec = rec[a]
      BY <2>6 DEF WriteLine, TypeOK
    <3>2. \A b \in Appends : CallState(b)'
      BY <2>6, <3>o, <3>e DEF WriteLine, CallState, InFlight, TypeOK
    <3>w. pc'[a] = "written" BY <2>6 DEF WriteLine, TypeOK
    <3>3. HashState' BY <2>6, <3>w DEF WriteLine, HashState
    <3> QED BY <1>t, <2>f, <3>1, <3>2, <3>3
  <2>7. ASSUME NEW a \in Appends, WriteError(a) PROVE SerialInv'
    <3>o. \A b \in Appends : InFlight(b) => b = a
      BY <2>7 DEF WriteError, OneInFlight, InFlight
    <3>1. OneInFlight' BY <2>7 DEF WriteError, OneInFlight, InFlight, TypeOK
    <3>2. \A b \in Appends : CallState(b)'
      BY <2>7, <3>o DEF WriteError, CallState, InFlight, TypeOK
    <3>3. HashState'
      <4>1. CASE file' = file
        BY <2>7, <2>i, <4>1, <3>o DEF WriteError, HashState, InFlight, TypeOK
      <4>2. CASE file' # file
        <5>1. PICK w \in BOOLEAN : file' = Append(file, Written(a, w, FALSE))
          BY <2>7, <4>2 DEF WriteError, Torn, Written
        <5>2. ~Sound' BY <5>1 DEF Sound, Written, TypeOK
        <5> QED BY <2>7, <5>2 DEF WriteError, HashState, CallState
      <4> QED BY <4>1, <4>2
    <3> QED BY <1>t, <2>f, <3>1, <3>2, <3>3
  <2>8. ASSUME NEW a \in Appends, UpdateHash(a) PROVE SerialInv'
    <3>o. \A b \in Appends : InFlight(b) => b = a
      BY <2>8 DEF UpdateHash, OneInFlight, InFlight
    <3>1. OneInFlight' BY <2>8 DEF UpdateHash, OneInFlight, InFlight, TypeOK
    <3>2. \A b \in Appends : CallState(b)'
      BY <2>8, <3>o DEF UpdateHash, CallState, InFlight, TypeOK
    <3>3. HashState'
      BY <2>8, <2>i DEF UpdateHash, HashState, CallState, Tip
    <3> QED BY <1>t, <2>f, <3>1, <3>2, <3>3
  <2>9. CASE Crash
    <3>p. \A a \in Appends :
            pc'[a] \notin {"init", "read", "ready", "writing", "written"}
      BY <2>9 DEF Crash, InFlight
    <3>1. OneInFlight' BY <3>p DEF OneInFlight, InFlight
    <3>2. \A b \in Appends : CallState(b)' BY <3>p DEF CallState
    <3>3. HashState' BY <2>9 DEF Crash, HashState
    <3> QED BY <1>t, <2>f, <3>1, <3>2, <3>3
  <2> QED BY <1>n, <2>1, <2>2, <2>3, <2>4, <2>5, <2>6, <2>7, <2>8, <2>9
          DEF Next, Step
<1> QED BY <1>u, <1>n

LEMMA SerialInitially == Init => SerialInv
  BY TypeInit DEF Init, SerialInv, OneInFlight, InFlight, CallState, HashState,
                  Tip, NoFalseTamper, ChainVerifies

\* NoFalseTamper for any set of calls that are awaited one after the other:
\* crashes, torn lines and I/O errors never make an untouched file whose
\* lines parse fail verification.
THEOREM SerialChain ==
    ASSUME Serialized
    PROVE  Spec => []NoFalseTamper
<1>1. Init => SerialInv BY SerialInitially
<1>2. SerialInv /\ [Next]_vars => SerialInv' BY SerialStep DEF AppendCall
<1>3. SerialInv => NoFalseTamper BY DEF SerialInv
<1> QED BY <1>1, <1>2, <1>3, PTL DEF Spec

-----------------------------------------------------------------------------
(***************************************************************************)
(* Acknowledged events.  A call that has not written yet has no entry in   *)
(* the file; once it wrote, it never writes again.                         *)
(***************************************************************************)
RecordedOnce(a) ==
    \E i \in 1..Len(file) :
        /\ file[i].whole
        /\ \A j \in 1..Len(file) : file[j].rec.event = a <=> j = i

Unrecorded(a) == \A j \in 1..Len(file) : file[j].rec.event # a

EntryState(a) ==
    /\ rec[a].event = a
    /\ pc[a] \in {"idle", "init", "read", "ready", "writing"} => Unrecorded(a)
    /\ pc[a] \in {"written", "done"} => RecordedOnce(a)

RecordedInv == TypeOK /\ \A a \in Appends : EntryState(a)

\* One call's write concerns no other call.
LEMMA OthersKept ==
    ASSUME TypeOK, NEW a \in Appends, NEW b \in Appends, a # b,
           rec[a].event = a, file' = file \/ GrowsBy(a)
    PROVE  /\ Unrecorded(b) => Unrecorded(b)'
           /\ RecordedOnce(b) => RecordedOnce(b)'
<1>1. CASE file' = file BY <1>1 DEF Unrecorded, RecordedOnce
<1>2. CASE GrowsBy(a)
  <2>1. /\ Len(file) \in Nat /\ Len(file') = Len(file) + 1
        /\ file'[Len(file) + 1].rec = rec[a]
        /\ \A i \in 1..Len(file) : file'[i] = file[i]
    BY <1>2 DEF GrowsBy, Written, TypeOK
  <2>2. \A j \in 1..Len(file') :
           file'[j].rec.event = b => j \in 1..Len(file) /\ file[j].rec.event = b
    BY <2>1
  <2>3. Unrecorded(b) => Unrecorded(b)' BY <2>2 DEF Unrecorded
  <2>4. ASSUME RecordedOnce(b) PROVE RecordedOnce(b)'
    <3>1. PICK i \in 1..Len(file) :
             /\ file[i].whole
             /\ \A j \in 1..Len(file) : file[j].rec.event = b <=> j = i
      BY <2>4 DEF RecordedOnce
    <3>2. i \in 1..Len(file') /\ file'[i].whole /\ file'[i].rec.event = b
      BY <2>1, <3>1
    <3>3. \A j \in 1..Len(file') : file'[j].rec.event = b <=> j = i
      BY <2>2, <3>1, <3>2
    <3> QED BY <3>2, <3>3 DEF RecordedOnce
  <2> QED BY <2>3, <2>4
<1> QED BY <1>1, <1>2

LEMMA RecordedStep ==
    ASSUME RecordedInv, [Next]_vars
    PROVE  RecordedInv'
<1> USE DEF RecordedInv
<1>t. TypeOK' BY TypeStep
<1>u. CASE UNCHANGED vars
  BY <1>t, <1>u DEF vars, EntryState, Unrecorded, RecordedOnce
<1>1. ASSUME NEW a \in Appends, AppendCall(a) \/ Step(a) PROVE RecordedInv'
  <2>1. file' = file \/ GrowsBy(a)
    BY <1>1 DEF Step, AppendCall, ReadFile, ReadError, FinishInit, InitThrows,
                Compute, WriteLine, WriteError, UpdateHash, Torn, GrowsBy, Written
  <2>2. ASSUME NEW b \in Appends, a # b PROVE EntryState(b)'
    <3>1. pc'[b] = pc[b] /\ rec'[b] = rec[b]
      BY <1>1, <2>2 DEF Step, AppendCall, ReadFile, ReadError, FinishInit, InitThrows,
                 Compute, WriteLine, WriteError, UpdateHash, TypeOK
    <3>2. rec[a].event = a /\ EntryState(b) BY DEF EntryState
    <3> QED BY <2>1, <2>2, <3>1, <3>2, OthersKept DEF EntryState
  <2>3. EntryState(a)'
    <3> USE DEF EntryState
    <3>1. CASE WriteLine(a)
      <4>1. /\ Len(file) \in Nat /\ Len(file') = Len(file) + 1
            /\ file'[Len(file) + 1].rec = rec[a]
            /\ file'[Len(file) + 1].whole
            /\ \A i \in 1..Len(file) : file'[i] = file[i]
        BY <3>1 DEF WriteLine, TypeOK
      <4>2. Unrecorded(a) /\ rec[a].event = a /\ rec' = rec
        BY <3>1 DEF WriteLine
      <4>3. Len(file) + 1 \in 1..Len(file') BY <4>1
      <4>4. \A j \in 1..Len(file') :
               file'[j].rec.event = a <=> j = Len(file) + 1
        BY <4>1, <4>2 DEF Unrecorded
      <4>5. RecordedOnce(a)' BY <4>1, <4>3, <4>4 DEF RecordedOnce
      <4>6. pc'[a] = "written" BY <3>1 DEF WriteLine, TypeOK
      <4> QED BY <4>2, <4>5, <4>6
    <3>2. CASE WriteError(a) BY <3>2 DEF WriteError, TypeOK
    <3>3. CASE UpdateHash(a)
      BY <3>3 DEF UpdateHash, TypeOK, RecordedOnce
    <3>4. CASE Compute(a)
      BY <3>4 DEF Compute, TypeOK, ComputeHash, Unrecorded
    <3>5. CASE AppendCall(a) \/ ReadFile(a) \/ ReadError(a) \/ FinishInit(a)
               \/ InitThrows(a)
      BY <3>5 DEF AppendCall, ReadFile, ReadError, FinishInit, InitThrows, TypeOK,
                  Unrecorded
    <3> QED BY <1>1, <3>1, <3>2, <3>3, <3>4, <3>5 DEF Step
  <2> QED BY <1>t, <2>2, <2>3
<1>2. CASE Crash
  <2>2. ASSUME NEW b \in Appends PROVE EntryState(b)'
    <3>0. PICK a \in Appends : file' = file \/ GrowsBy(a)
      BY <1>2, FileSteps DEF Next
    <3>1. /\ pc'[b] = IF InFlight(b) THEN "lost" ELSE pc[b]
          /\ rec'[b] = rec[b] /\ rec[a].event = a
      BY <1>2 DEF Crash, TypeOK, EntryState
    <3>2. CASE InFlight(b) BY <3>1, <3>2 DEF EntryState
    <3>3. CASE ~InFlight(b)
      <4>1. file' = file \/ a # b
        BY <3>0, <3>3 DEF GrowsBy, InFlight
      <4>2. CASE a # b
        BY <3>0, <3>1, <3>3, <4>2, OthersKept DEF EntryState, InFlight
      <4>3. CASE file' = file
        BY <3>1, <3>3, <4>3 DEF EntryState, InFlight, Unrecorded, RecordedOnce
      <4> QED BY <4>1, <4>2, <4>3
    <3> QED BY <3>2, <3>3
  <2> QED BY <1>t, <2>2
<1> QED BY <1>u, <1>1, <1>2 DEF Next

\* AcknowledgedRecorded for any set of calls, overlapping or not, and any
\* number of crashes: a resolved append() is in the file exactly once, for good.
THEOREM Acknowledged == Spec => []AcknowledgedRecorded
<1>1. Init => RecordedInv
  BY TypeInit DEF Init, RecordedInv, EntryState, Unrecorded, ComputeHash
<1>2. RecordedInv /\ [Next]_vars => RecordedInv' BY RecordedStep
<1>3. RecordedInv => AcknowledgedRecorded
  BY DEF RecordedInv, EntryState, RecordedOnce, AcknowledgedRecorded
<1> QED BY <1>1, <1>2, <1>3, PTL DEF Spec
=============================================================================
