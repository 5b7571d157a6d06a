------------------------------- MODULE ByteStore -------------------------------
(***************************************************************************)
(* The filesystem byte store, src/storage/filesystem-byte-store.ts.  An    *)
(* identity is the digest of the bytes it addresses, so a content stands   *)
(* for its identity and for its file here.  A file is a sequence of        *)
(* chunks; since every writer of a file writes the same content, a chunk   *)
(* is either there or a hole the file system fills with zeros.             *)
(*                                                                         *)
(* writeFile opens with O_TRUNC and writes chunk after chunk at its own    *)
(* offset; readFile asks for the size and reads chunk after chunk.  Calls  *)
(* interleave at every one of those steps.  A step may fail (a full or     *)
(* broken volume), and the process may stop: what was written stays        *)
(* written, whatever was under way.  Losing the page cache is not          *)
(* modelled.                                                               *)
(***************************************************************************)
EXTENDS Naturals, Sequences

CONSTANTS
    Callers,        \* concurrent calls of put and get
    Contents,       \* the byte strings callers put, each for its identity
    Forged,         \* identities the store could not have issued
    ChunksOf,       \* content -> the number of chunks it takes to write
    Absent,         \* no file; what get answers for one
    Anything        \* ghost: nothing is promised of an answer

Chunk == {"data", "hole"}

ASSUME ChunksAssumption == ChunksOf \in [Contents -> Nat]
ASSUME AbsentAssumption == Absent \notin Seq(Chunk) /\ Anything \notin Seq(Chunk) \cup {Absent}
ASSUME ForgedAssumption == Forged \cap Contents = {}

VARIABLES
    file,           \* content -> its chunks, Absent before the first put
    opener,         \* ghost: content -> who truncated the file last, and how it went
    op              \* caller -> its call

vars == <<file, opener, op>>

(* ghost values of opener besides the caller still writing *)
Nobody == [put |-> "none"]
Completed == [put |-> "completed"]
Abandoned == [put |-> "abandoned"]
By(c) == [put |-> "running", caller |-> c]

Idle == [stage |-> "idle"]
Putting(x, next) == [stage |-> "writing", content |-> x, next |-> next]
Getting(x, limit, got, due) ==
    [stage |-> "reading", content |-> x, limit |-> limit, got |-> got, due |-> due]
Got(x, answer, due) == [stage |-> "read", content |-> x, answer |-> answer, due |-> due]

Writing(c, x) == op[c].stage = "writing" /\ op[c].content = x
Quiet(x) == opener[x] \in {Nobody, Completed} /\ \A c \in Callers : ~Writing(c, x)
Whole(x) == [i \in 1..ChunksOf[x] |-> "data"]

(* ghost: what a get of x beginning now must answer if no put of x overlaps it *)
Due(x) == IF ~Quiet(x) THEN Anything
          ELSE IF opener[x] = Completed THEN Whole(x) ELSE Absent

Init ==
    /\ file = [x \in Contents |-> Absent]
    /\ opener = [x \in Contents |-> Nobody]
    /\ op = [c \in Callers |-> Idle]

Do(c, call) == op' = [op EXCEPT ![c] = call]
CanCall(c) == op[c].stage \in {"idle", "stored", "read", "failed"}

-------------------------------------------------------------------------------
(* put: digest, mkdir -p, writeFile. *)
Put(c, x) ==
    /\ CanCall(c)
    /\ Do(c, [stage |-> "opening", content |-> x])
    /\ UNCHANGED <<file, opener>>

(* open(path, "w"): the file is there and empty.  Whoever is reading it    *)
(* no longer reads it undisturbed.                                         *)
OpenTruncating(c) ==
    LET x == op[c].content IN
    /\ op[c].stage = "opening"
    /\ file' = [file EXCEPT ![x] = <<>>]
    /\ opener' = [opener EXCEPT ![x] = By(c)]
    /\ op' = [d \in Callers |->
                IF d = c THEN Putting(x, 1)
                ELSE IF op[d].stage = "reading" /\ op[d].content = x
                THEN Getting(x, op[d].limit, op[d].got, Anything)
                ELSE op[d]]

(* A write at chunk i: beyond the end of the file it leaves a hole before  *)
(* it.                                                                     *)
WrittenAt(chunks, i) ==
    [k \in 1..(IF i > Len(chunks) THEN i ELSE Len(chunks)) |->
        IF k = i THEN "data" ELSE IF k <= Len(chunks) THEN chunks[k] ELSE "hole"]

\* What put awaits; mutant: the write is not awaited.
NotAwaited(c) == TRUE
AllWritten(c) == op[c].next > ChunksOf[op[c].content]

WriteChunk(c) ==
    LET x == op[c].content IN
    /\ op[c].stage = "writing" /\ ~AllWritten(c)
    /\ file' = [file EXCEPT ![x] = WrittenAt(file[x], op[c].next)]
    /\ Do(c, Putting(x, op[c].next + 1))
    /\ UNCHANGED opener

FinishPut(c) ==
    LET x == op[c].content IN
    /\ op[c].stage = "writing" /\ AllWritten(c)
    /\ Do(c, [stage |-> "stored", content |-> x])
    /\ opener' = [opener EXCEPT ![x] = IF @ = By(c) THEN Completed ELSE @]
    /\ UNCHANGED file

-------------------------------------------------------------------------------
(* get: an identity that is not one of ours names nothing. *)
GetForged(c) ==
    /\ CanCall(c)
    /\ \E x \in Forged : Do(c, Got(x, Absent, Absent))
    /\ UNCHANGED <<file, opener>>

Get(c, x) ==
    /\ CanCall(c)
    /\ Do(c, [stage |-> "finding", content |-> x])
    /\ UNCHANGED <<file, opener>>

\* The answer for a file that is not there; mutant: no bytes.
NoBytes == <<>>
ForNoFile == Absent

\* readFile's open and fstat
OpenReading(c) ==
    LET x == op[c].content IN
    /\ op[c].stage = "finding"
    /\ Do(c, IF file[x] = Absent
             THEN Got(x, ForNoFile, Due(x))
             ELSE Getting(x, Len(file[x]), <<>>, Due(x)))
    /\ UNCHANGED <<file, opener>>

(* A file of size 0 is read to its end; another to the size it had.        *)
Enough(got, limit) == limit # 0 /\ Len(got) >= limit
AtEnd(c) == Enough(op[c].got, op[c].limit) \/ Len(op[c].got) >= Len(file[op[c].content])

ReadChunk(c) ==
    LET x == op[c].content IN
    /\ op[c].stage = "reading" /\ ~AtEnd(c)
    /\ Do(c, Getting(x, op[c].limit, Append(op[c].got, file[x][Len(op[c].got) + 1]), op[c].due))
    /\ UNCHANGED <<file, opener>>

FinishGet(c) ==
    /\ op[c].stage = "reading" /\ AtEnd(c)
    /\ Do(c, Got(op[c].content, op[c].got, op[c].due))
    /\ UNCHANGED <<file, opener>>

-------------------------------------------------------------------------------
(* EIO, ENOSPC, EMFILE...: the call rejects and nothing is cleaned up. *)
InFlight(c) == op[c].stage \in {"opening", "writing", "finding", "reading"}

Fail(c) ==
    /\ InFlight(c)
    /\ Do(c, [stage |-> "failed"])
    /\ opener' = [x \in Contents |-> IF opener[x] = By(c) THEN Abandoned ELSE opener[x]]
    /\ UNCHANGED file

Crash ==
    /\ op' = [c \in Callers |-> Idle]
    /\ opener' = [x \in Contents |->
                    IF opener[x] \in {Nobody, Completed} THEN opener[x] ELSE Abandoned]
    /\ UNCHANGED file

Next ==
    \/ \E c \in Callers :
          \/ \E x \in Contents : Put(c, x) \/ Get(c, x)
          \/ OpenTruncating(c) \/ WriteChunk(c) \/ FinishPut(c)
          \/ GetForged(c) \/ OpenReading(c) \/ ReadChunk(c) \/ FinishGet(c)
          \/ Fail(c)
    \/ Crash

Spec == Init /\ [][Next]_vars

-------------------------------------------------------------------------------
(* Types: no file ever grows past its content. *)
FilesTyped ==
    /\ file = [x \in Contents |-> file[x]]
    /\ \A x \in Contents :
          file[x] # Absent => file[x] \in Seq(Chunk) /\ Len(file[x]) <= ChunksOf[x]
OpenersTyped ==
    /\ opener = [x \in Contents |-> opener[x]]
    /\ \A x \in Contents :
          opener[x] \in {Nobody, Completed, Abandoned} \cup {By(c) : c \in Callers}
CallsTyped ==
    /\ op = [c \in Callers |-> op[c]]
    /\ \A c \in Callers :
          /\ op[c].stage \in {"idle", "opening", "writing", "stored",
                              "finding", "reading", "read", "failed"}
          /\ InFlight(c) => op[c].content \in Contents
          /\ op[c].stage = "writing" => op[c].next \in 1..(ChunksOf[op[c].content] + 1)
TypeOK == FilesTyped /\ OpenersTyped /\ CallsTyped

(* A file whose last truncating put ran to its end is whole - a slower     *)
(* put of the same bytes that overlapped it included - and a file whose    *)
(* last put is still writing is whole up to where that put is.             *)
CompletedFilesWhole ==
    \A x \in Contents :
        /\ opener[x] = Completed => file[x] = Whole(x)
        /\ opener[x] = Nobody => file[x] = Absent
        /\ \A c \in Callers : opener[x] = By(c) /\ Writing(c, x) =>
              \A k \in 1..(op[c].next - 1) : k \in DOMAIN file[x] /\ file[x][k] = "data"

(* A get that no put of the same content overlapped answers the content,   *)
(* whole, if the last put ran to its end, and undefined if there was none. *)
CalmGetsAnswerWhatIsDue ==
    \A c \in Callers : op[c].stage = "read" /\ op[c].due # Anything => op[c].answer = op[c].due

(* The strengthening: the last to truncate a file is writing it until its  *)
(* put is over, a file being written is there, and a reader still owed an  *)
(* answer is reading a whole file nobody writes.                           *)
OpenersWrite ==
    \A x \in Contents : \A c \in Callers : opener[x] = By(c) => Writing(c, x)
WrittenFilesExist ==
    \A x \in Contents : \A c \in Callers :
        Writing(c, x) => file[x] # Absent /\ opener[x] # Nobody
CalmReaders ==
    \A c \in Callers : op[c].stage = "reading" /\ op[c].due # Anything =>
        LET x == op[c].content IN
        /\ op[c].due = Whole(x) /\ op[c].limit = ChunksOf[x]
        /\ opener[x] = Completed /\ \A d \in Callers : ~Writing(d, x)
        /\ op[c].got \in Seq(Chunk) /\ Len(op[c].got) <= ChunksOf[x]
        /\ \A k \in 1..Len(op[c].got) : op[c].got[k] = "data"

IInv ==
    /\ TypeOK
    /\ CompletedFilesWhole /\ OpenersWrite /\ WrittenFilesExist
    /\ CalmReaders /\ CalmGetsAnswerWhatIsDue

-------------------------------------------------------------------------------
(* filesystem-byte-store.ts: "writing the same bytes to the same location  *)
(* is a deterministic no-op rewrite".  If it were, a file a completed put  *)
(* has left would be whole in every state without a put of it under way.   *)
StoredOnce(c, x) == op[c].stage = "stored" /\ op[c].content = x
RewriteIsNoOp ==
    \A x \in Contents : \A c \in Callers :
        StoredOnce(c, x) /\ (\A d \in Callers : ~Writing(d, x)) => file[x] = Whole(x)
===============================================================================
