----------------------------- MODULE AuditLedger -----------------------------
(***************************************************************************)
(* The file-backed audit ledger of packages/core/src/audit: every event    *)
(* carries the hash of the record before it (hashChain.ts), so that        *)
(* "/audit verify" can tell whether the file was changed afterwards.       *)
(*                                                                         *)
(* One ledger object per process appends JSON lines to one file; the       *)
(* process may crash, and the same file is opened again when a task of the *)
(* same id is loaded.  append() suspends at mkdir/readFile and at          *)
(* appendFile, so that several un-awaited calls interleave there.          *)
(*                                                                         *)
(* SHA-256 is taken to be free of collisions: a hash is represented by the *)
(* sequence of events it was computed from, the empty string by <<>>.      *)
(***************************************************************************)
EXTENDS Naturals, Sequences

CONSTANTS
    Appends,      \* the append() calls; each stands for the event it records
    Serialized,   \* TRUE: a caller awaits one append() before the next
    MaxCrashes    \* bound on process crashes (for TLC)

ASSUME LedgerAssumption ==
    /\ Serialized \in BOOLEAN
    /\ MaxCrashes \in Nat

VARIABLES
    file,         \* the ledger file: whole and torn records, in file order
    lastHash,     \* FileAuditLedger.lastHash
    initialized,  \* FileAuditLedger.initialized
    pc,           \* where each append() call is suspended
    snap,         \* what readFile returned to each initialising call
    rec,          \* the record each call is writing
    ioFailed,     \* history: calls that met an I/O error
    crashes

vars == <<file, lastHash, initialized, pc, snap, rec, ioFailed, crashes>>

Hash == Seq(Appends)

Record == [event : Appends, prev : Hash, hash : Hash]

\* A record as it lies in the file: whole or cut off, with or without its '\n'.
Entry == [rec : Record, whole : BOOLEAN, eol : BOOLEAN]

States == {"idle", "init", "read", "ready", "writing", "written",
           "done", "rejected", "lost"}

\* A readFile result: no line at all, a last line JSON.parse rejects, or a
\* last line with this hash.
NoLine   == [kind |-> "empty", hash |-> <<>>]
BadLine  == [kind |-> "bad", hash |-> <<>>]
HashLine(h) == [kind |-> "hash", hash |-> h]
Snapshot == [kind : {"empty", "bad", "hash"}, hash : Hash]

\* computeHash: the record of event e after a record whose hash is h.
ComputeHash(e, h) == [event |-> e, prev |-> h, hash |-> Append(h, e)]

\* An entry is a line of its own that parses: it starts a line, is complete,
\* and nothing was appended behind it on the same line.
Parses(i) ==
    /\ file[i].whole
    /\ i = 1 \/ file[i-1].eol
    /\ i = Len(file) \/ file[i].eol

LastLine ==
    IF file = <<>> THEN NoLine
    ELSE IF Parses(Len(file)) THEN HashLine(file[Len(file)].rec.hash)
    ELSE BadLine

\* What an interrupted appendFile leaves of a record: nothing, a prefix of it,
\* or all of it but the newline.
Torn(a, f) ==
    \/ f = file
    \/ \E w \in BOOLEAN :
          f = Append(file, [rec |-> rec[a], whole |-> w, eol |-> FALSE])

InFlight(a) == pc[a] \in {"init", "read", "ready", "writing", "written"}

-----------------------------------------------------------------------------

(***************************************************************************)
(* Faults: plausible bugs in the actions below, used only to test that the *)
(* properties notice them.                                                 *)
(***************************************************************************)

\* The hash is advanced when the write is issued, not when it completed.
BugEarlyHash(a) ==
    /\ pc[a] = "ready"
    /\ rec' = [rec EXCEPT ![a] = ComputeHash(a, lastHash)]
    /\ lastHash' = Append(lastHash, a)
    /\ pc' = [pc EXCEPT ![a] = "writing"]
    /\ UNCHANGED <<file, initialized, snap, ioFailed, crashes>>

\* A write that failed is reported as done.
BugErrorSwallowed(a) ==
    /\ pc[a] = "writing"
    /\ Torn(a, file')
    /\ pc' = [pc EXCEPT ![a] = "done"]
    /\ ioFailed' = ioFailed \cup {a}
    /\ UNCHANGED <<lastHash, initialized, snap, rec, crashes>>

\* A reader of a torn last line waits for it to be repaired.
BugInitWaits(a) ==
    /\ pc[a] = "read"
    /\ snap[a].kind = "bad"
    /\ UNCHANGED vars

\* The restarted process forgets to read the hash of the last line.
BugInitSkipsLastLine(a) ==
    /\ pc[a] = "read"
    /\ snap[a].kind # "bad"
    /\ initialized' = TRUE
    /\ pc' = [pc EXCEPT ![a] = "ready"]
    /\ UNCHANGED <<file, lastHash, snap, rec, ioFailed, crashes>>

-----------------------------------------------------------------------------

Init ==
    /\ file = <<>>
    /\ lastHash = <<>>
    /\ initialized = FALSE
    /\ pc = [a \in Appends |-> "idle"]
    /\ snap = [a \in Appends |-> NoLine]
    /\ rec = [a \in Appends |-> ComputeHash(a, <<>>)]
    /\ ioFailed = {}
    /\ crashes = 0

\* append(event): the call runs up to the first await, which is mkdir/readFile
\* the first time and only a promise turn once the ledger is initialised.
AppendCall(a) ==
    /\ pc[a] = "idle"
    /\ Serialized => \A b \in Appends : ~InFlight(b)
    /\ pc' = [pc EXCEPT ![a] = IF initialized THEN "ready" ELSE "init"]
    /\ UNCHANGED <<file, lastHash, initialized, snap, rec, ioFailed, crashes>>

\* The operating system serves the readFile of ensureInitialized.
ReadFile(a) ==
    /\ pc[a] = "init"
    /\ pc' = [pc EXCEPT ![a] = "read"]
    /\ snap' = [snap EXCEPT ![a] = LastLine]
    /\ UNCHANGED <<file, lastHash, initialized, rec, ioFailed, crashes>>

\* mkdir or readFile fails with anything but ENOENT: append() rejects.
ReadError(a) ==
    /\ pc[a] = "init"
    /\ pc' = [pc EXCEPT ![a] = "rejected"]
    /\ ioFailed' = ioFailed \cup {a}
    /\ UNCHANGED <<file, lastHash, initialized, snap, rec, crashes>>

\* The continuation of readFile: the last line gives lastHash, an empty file
\* leaves it alone.  An initialiser that read before another call appended
\* overwrites the newer lastHash here.
FinishInit(a) ==
    /\ pc[a] = "read"
    /\ snap[a].kind # "bad"
    /\ lastHash' = IF snap[a].kind = "hash" THEN snap[a].hash ELSE lastHash
    /\ initialized' = TRUE
    /\ pc' = [pc EXCEPT ![a] = "ready"]
    /\ UNCHANGED <<file, snap, rec, ioFailed, crashes>>

\* JSON.parse throws on a torn last line: append() rejects and the ledger
\* stays uninitialised.
InitThrows(a) ==
    /\ pc[a] = "read"
    /\ snap[a].kind = "bad"
    /\ pc' = [pc EXCEPT ![a] = "rejected"]
    /\ UNCHANGED <<file, lastHash, initialized, snap, rec, ioFailed, crashes>>

\* The record is hashed from lastHash and appendFile is called.
Compute(a) ==
    /\ pc[a] = "ready"
    /\ rec' = [rec EXCEPT ![a] = ComputeHash(a, lastHash)]
    /\ pc' = [pc EXCEPT ![a] = "writing"]
    /\ UNCHANGED <<file, lastHash, initialized, snap, ioFailed, crashes>>

\* appendFile puts the whole line in the file.
WriteLine(a) ==
    /\ pc[a] = "writing"
    /\ file' = Append(file, [rec |-> rec[a], whole |-> TRUE, eol |-> TRUE])
    /\ pc' = [pc EXCEPT ![a] = "written"]
    /\ UNCHANGED <<lastHash, initialized, snap, rec, ioFailed, crashes>>

\* appendFile fails (disk full, EIO): append() rejects, lastHash is not set.
WriteError(a) ==
    /\ pc[a] = "writing"
    /\ Torn(a, file')
    /\ pc' = [pc EXCEPT ![a] = "rejected"]
    /\ ioFailed' = ioFailed \cup {a}
    /\ UNCHANGED <<lastHash, initialized, snap, rec, crashes>>

\* The continuation of appendFile.
UpdateHash(a) ==
    /\ pc[a] = "written"
    /\ lastHash' = rec[a].hash
    /\ pc' = [pc EXCEPT ![a] = "done"]
    /\ UNCHANGED <<file, initialized, snap, rec, ioFailed, crashes>>

\* The process dies and a new one opens the same file; one write under way may
\* be left torn.
Crash ==
    /\ crashes < MaxCrashes
    /\ crashes' = crashes + 1
    /\ \/ file' = file
       \/ \E a \in Appends : pc[a] = "writing" /\ Torn(a, file')
    /\ lastHash' = <<>>
    /\ initialized' = FALSE
    /\ pc' = [a \in Appends |-> IF InFlight(a) THEN "lost" ELSE pc[a]]
    /\ UNCHANGED <<snap, rec, ioFailed>>

Step(a) ==
    \/ ReadFile(a) \/ ReadError(a) \/ FinishInit(a) \/ InitThrows(a)
    \/ Compute(a) \/ WriteLine(a) \/ WriteError(a) \/ UpdateHash(a)

Next == (\E a \in Appends : AppendCall(a) \/ Step(a)) \/ Crash

Spec == Init /\ [][Next]_vars

\* Node completes every I/O request and runs every continuation; nothing
\* obliges a caller to append or the process to crash.
FairSpec == Spec /\ \A a \in Appends : WF_vars(Step(a))

-----------------------------------------------------------------------------

\* Every variable stays in its domain.
TypeOK ==
    /\ file \in Seq(Entry)
    /\ lastHash \in Hash
    /\ initialized \in BOOLEAN
    /\ pc \in [Appends -> States]
    /\ snap \in [Appends -> Snapshot]
    /\ rec \in [Appends -> Record]
    /\ ioFailed \in SUBSET Appends
    /\ crashes \in Nat

\* verifyHashChain (hashChain.ts) over the parsed lines: hashing each event
\* after the hash of the line before gives the prevHash and hash it carries.
ChainVerifies ==
    \A i \in 1..Len(file) :
        file[i].rec = ComputeHash(file[i].rec.event,
                                  IF i = 1 THEN <<>> ELSE file[i-1].rec.hash)

AllLinesParse == \A i \in 1..Len(file) : Parses(i)

\* "/audit verify" never reports a broken chain in a file nobody but the ledger
\* wrote: when every line parses, the chain verifies.
NoFalseTamper == AllLinesParse => ChainVerifies

\* The hash h is the empty string or that of a whole record in the file.
OnFile(h, n) == h = <<>> \/ \E j \in 1..n : file[j].whole /\ file[j].rec.hash = h

\* Whatever the interleaving of appends, crashes and I/O errors, a record
\* names the empty string or a record that lies before it in the file.
NoDanglingPrev == \A i \in 1..Len(file) : OnFile(file[i].rec.prev, i - 1)

\* An append() that resolved left exactly one whole record of its event in the
\* file, and it is still there after any later crash or failure.
AcknowledgedRecorded ==
    \A a \in Appends :
        pc[a] = "done" =>
            \E i \in 1..Len(file) :
                /\ file[i].whole
                /\ \A j \in 1..Len(file) : file[j].rec.event = a <=> j = i

\* Every append() settles, by resolving, rejecting or dying with its process: a call
\* is made once, so from any time on there comes one when none is under way.
EveryAppendSettles ==
    (\E a \in Appends : InFlight(a)) ~> (\A a \in Appends : ~InFlight(a))
=============================================================================
