---------------------------- MODULE ByteStoreProofs ----------------------------
(***************************************************************************)
(* Theorems about ByteStore, for every set of callers and every content,   *)
(* however many chunks it takes.  The inductive invariant is IInv; writes  *)
(* are the interesting steps, and there the point is that a second writer  *)
(* of a file writes the very chunks the first one wrote.                   *)
(***************************************************************************)
EXTENDS ByteStore, TLAPS

LEMMA WholeTyped ==
    ASSUME NEW x \in Contents
    PROVE  Whole(x) \in Seq(Chunk) /\ Len(Whole(x)) = ChunksOf[x] /\ Whole(x) # Absent
  BY ChunksAssumption, AbsentAssumption DEF Whole, Chunk

(* A full-length file without a hole is the content. *)
LEMMA FullIsWhole ==
    ASSUME NEW x \in Contents, NEW f \in Seq(Chunk), Len(f) <= ChunksOf[x],
           \A k \in 1..ChunksOf[x] : k \in DOMAIN f /\ f[k] = "data"
    PROVE  f = Whole(x)
<1>1. Len(f) = ChunksOf[x]
  BY ChunksAssumption
<1> QED
  BY <1>1, ChunksAssumption DEF Whole

(* What a write at chunk i does to a file. *)
LEMMA WriteEffect ==
    ASSUME NEW f \in Seq(Chunk), NEW n \in Nat, Len(f) <= n, NEW i \in 1..n
    PROVE  /\ WrittenAt(f, i) \in Seq(Chunk)
           /\ Len(WrittenAt(f, i)) <= n
           /\ i \in DOMAIN WrittenAt(f, i) /\ WrittenAt(f, i)[i] = "data"
           /\ \A k \in DOMAIN f : /\ k \in DOMAIN WrittenAt(f, i)
                                  /\ f[k] = "data" => WrittenAt(f, i)[k] = "data"
<1> DEFINE m == IF i > Len(f) THEN i ELSE Len(f)
<1>1. m \in Nat /\ m <= n /\ i \in 1..m /\ DOMAIN f \subseteq 1..m
  OBVIOUS
<1>2. WrittenAt(f, i) = [k \in 1..m |-> IF k = i THEN "data"
                                       ELSE IF k <= Len(f) THEN f[k] ELSE "hole"]
  BY DEF WrittenAt
<1>3. \A k \in 1..m : WrittenAt(f, i)[k] = IF k = i THEN "data"
                                            ELSE IF k <= Len(f) THEN f[k] ELSE "hole"
  BY <1>2
<1>4. \A k \in 1..m : WrittenAt(f, i)[k] \in Chunk
  BY <1>3 DEF Chunk
<1>5. WrittenAt(f, i) \in Seq(Chunk) /\ Len(WrittenAt(f, i)) = m
  BY <1>1, <1>2, <1>4
<1> QED
  BY <1>1, <1>2, <1>3, <1>5

-------------------------------------------------------------------------------
LEMMA InitIInv == Init => IInv
  BY DEF Init, IInv, TypeOK, FilesTyped, OpenersTyped, CallsTyped, CompletedFilesWhole,
         OpenersWrite, WrittenFilesExist, CalmReaders, CalmGetsAnswerWhatIsDue, Idle, Nobody,
         Completed, By, Writing, InFlight

(* A caller whose call is neither writing nor reading, before nor after,   *)
(* and is not handed an answer, disturbs nothing.                          *)
LEMMA IdleStep ==
    ASSUME IInv, NEW c \in Callers, NEW call, Do(c, call), UNCHANGED <<file, opener>>,
           op[c].stage # "writing",
           call.stage \in {"opening", "finding", "failed"},
           call.stage \in {"opening", "finding"} => call.content \in Contents
    PROVE  IInv'
<1>1. op'[c] = call /\ \A d \in Callers \ {c} : op'[d] = op[d]
  BY DEF Do, IInv, TypeOK, CallsTyped
<1>2. TypeOK'
  BY <1>1 DEF IInv, TypeOK, FilesTyped, OpenersTyped, CallsTyped, Do, InFlight
<1>3. \A x \in Contents : \A d \in Callers : Writing(d, x)' <=> Writing(d, x)
  BY <1>1 DEF Writing
<1>4. CompletedFilesWhole' /\ OpenersWrite' /\ WrittenFilesExist'
  BY <1>1, <1>3 DEF IInv, CompletedFilesWhole, OpenersWrite, WrittenFilesExist, Writing
<1>5. CalmReaders' /\ CalmGetsAnswerWhatIsDue'
  BY <1>1, <1>3 DEF IInv, CalmReaders, CalmGetsAnswerWhatIsDue, Writing
<1> QED
  BY <1>2, <1>4, <1>5 DEF IInv

LEMMA OpenTruncatingStep ==
    ASSUME IInv, NEW c \in Callers, OpenTruncating(c)
    PROVE  IInv'
<1> USE DEF IInv
<1>1. PICK x \in Contents : x = op[c].content /\ op[c].stage = "opening"
  BY DEF OpenTruncating, TypeOK, CallsTyped, InFlight
<1>2. /\ file' = [file EXCEPT ![x] = <<>>]
      /\ opener' = [opener EXCEPT ![x] = By(c)]
      /\ op'[c] = Putting(x, 1)
      /\ \A d \in Callers \ {c} :
            op'[d] = IF op[d].stage = "reading" /\ op[d].content = x
                     THEN Getting(x, op[d].limit, op[d].got, Anything)
                     ELSE op[d]
      /\ op' = [d \in Callers |-> op'[d]]
  BY <1>1 DEF OpenTruncating
<1>3. \A d \in Callers \ {c} :
         \/ op'[d] = op[d] /\ ~(op[d].stage = "reading" /\ op[d].content = x)
         \/ op[d].stage = "reading" /\ op'[d].stage = "reading" /\ op'[d].content = x
              /\ op'[d].due = Anything
  BY <1>2 DEF Getting
<1>4. op'[c].stage = "writing" /\ op'[c].content = x /\ op'[c].next = 1
  BY <1>2 DEF Putting
<1>5. TypeOK'
  <2>0. <<>> \in Seq(Chunk) /\ Len(<<>>) = 0
    OBVIOUS
  <2>1. FilesTyped' /\ OpenersTyped'
    <3>1. FilesTyped'
      BY <1>2, <2>0, ChunksAssumption DEF TypeOK, FilesTyped
    <3>2. OpenersTyped'
      BY <1>2 DEF TypeOK, OpenersTyped
    <3> QED
      BY <3>1, <3>2
  <2>2. CallsTyped'
    BY <1>2, <1>3, <1>4, ChunksAssumption DEF TypeOK, CallsTyped, InFlight
  <2> QED
    BY <2>1, <2>2 DEF TypeOK
<1>6. \A y \in Contents \ {x} : /\ file'[y] = file[y] /\ opener'[y] = opener[y]
                                /\ \A d \in Callers : Writing(d, y)' => Writing(d, y)
  BY <1>2, <1>3, <1>4 DEF TypeOK, FilesTyped, OpenersTyped, Writing
<1>7. file'[x] = <<>> /\ opener'[x] = By(c) /\ Writing(c, x)'
  BY <1>2, <1>4 DEF TypeOK, FilesTyped, OpenersTyped, Writing
<1>8. OpenersWrite'
  <2> SUFFICES ASSUME NEW y \in Contents, NEW d \in Callers, opener'[y] = By(d)
               PROVE  Writing(d, y)'
    BY DEF OpenersWrite, By
  <2>1. CASE y = x
    BY <2>1, <1>7 DEF By
  <2>2. CASE y # x
    <3>1. Writing(d, y)
      BY <2>2, <1>6 DEF OpenersWrite
    <3> QED
      BY <3>1, <1>1, <1>3, <2>2 DEF Writing
  <2> QED
    BY <2>1, <2>2
<1>9. CompletedFilesWhole'
  <2>1. \A k \in 1..(op'[c].next - 1) : FALSE
    BY <1>4
  <2>2. By(c) # Completed /\ By(c) # Nobody /\ \A d : By(d) = By(c) => d = c
    BY DEF By, Completed, Nobody
  <2> SUFFICES ASSUME NEW y \in Contents
               PROVE  /\ opener'[y] = Completed => file'[y] = Whole(y)
                      /\ opener'[y] = Nobody => file'[y] = Absent
                      /\ \A d \in Callers : opener'[y] = By(d) /\ Writing(d, y)' =>
                           \A k \in 1..(op'[d].next - 1) : k \in DOMAIN file'[y] /\ file'[y][k] = "data"
    BY DEF CompletedFilesWhole, Whole, By, Completed, Nobody
  <2>3. CASE y = x
    BY <2>1, <2>2, <2>3, <1>7
  <2>4. CASE y # x
    BY <2>4, <1>3, <1>4, <1>6 DEF CompletedFilesWhole, Writing
  <2> QED
    BY <2>3, <2>4
<1>10. WrittenFilesExist'
  <2> SUFFICES ASSUME NEW y \in Contents, NEW d \in Callers, Writing(d, y)'
               PROVE  file'[y] # Absent /\ opener'[y] # Nobody
    BY DEF WrittenFilesExist, Nobody, Writing
  <2>1. <<>> # Absent
    <3>1. <<>> \in Seq(Chunk)
      OBVIOUS
    <3> QED
      BY <3>1, AbsentAssumption
  <2>2. CASE y = x
    BY <1>7, <2>1, <2>2 DEF By, Nobody
  <2>3. CASE y # x
    BY <1>6, <2>3 DEF WrittenFilesExist
  <2> QED
    BY <2>2, <2>3
<1>11. CalmReaders'
  <2> SUFFICES ASSUME NEW d \in Callers, op'[d].stage = "reading", op'[d].due # Anything
               PROVE  /\ op'[d] = op[d] /\ op[d].content \in Contents \ {x}
    BY <1>6 DEF CalmReaders, Whole, Completed
  <2> QED
    BY <1>3, <1>4 DEF TypeOK, CallsTyped, InFlight
<1>12. CalmGetsAnswerWhatIsDue'
  BY <1>3, <1>4 DEF CalmGetsAnswerWhatIsDue
<1> QED
  BY <1>5, <1>8, <1>9, <1>10, <1>11, <1>12

(* A write leaves every chunk that was there, and a whole file whole.      *)
LEMMA WriteChunkStep ==
    ASSUME IInv, NEW c \in Callers, WriteChunk(c)
    PROVE  IInv'
<1> USE DEF IInv
<1>0. PICK x \in Contents, i \in Nat :
         /\ x = op[c].content /\ i = op[c].next /\ i \in 1..ChunksOf[x]
         /\ op[c].stage = "writing" /\ Writing(c, x)
  <2>1. op[c].stage = "writing" /\ ~(op[c].next > ChunksOf[op[c].content])
    BY DEF WriteChunk, AllWritten
  <2>2. op[c].content \in Contents /\ op[c].next \in 1..(ChunksOf[op[c].content] + 1)
    BY <2>1 DEF TypeOK, CallsTyped, InFlight
  <2>3. op[c].next \in 1..ChunksOf[op[c].content]
    BY <2>1, <2>2, ChunksAssumption
  <2>4. PICK x \in Contents : x = op[c].content
    BY <2>2
  <2>5. op[c].next \in Nat /\ op[c].next \in 1..ChunksOf[x] /\ Writing(c, x)
    BY <2>1, <2>2, <2>3, <2>4 DEF Writing
  <2> QED
    BY <2>1, <2>4, <2>5
<1>1. i \in 1..ChunksOf[x] /\ x = op[c].content /\ i = op[c].next /\ op[c].stage = "writing" /\ Writing(c, x)
  BY <1>0
<1>2. /\ file' = [file EXCEPT ![x] = WrittenAt(file[x], i)]
      /\ opener' = opener
      /\ op' = [op EXCEPT ![c] = Putting(x, i + 1)]
  BY <1>1 DEF WriteChunk, Do
<1>3. /\ file[x] \in Seq(Chunk) /\ Len(file[x]) <= ChunksOf[x] /\ ChunksOf[x] \in Nat
      /\ opener[x] # Nobody
  BY <1>1, ChunksAssumption DEF WrittenFilesExist, TypeOK, FilesTyped
<1>4. /\ WrittenAt(file[x], i) \in Seq(Chunk)
      /\ Len(WrittenAt(file[x], i)) <= ChunksOf[x]
      /\ i \in DOMAIN WrittenAt(file[x], i) /\ WrittenAt(file[x], i)[i] = "data"
      /\ \A k \in DOMAIN file[x] : /\ k \in DOMAIN WrittenAt(file[x], i)
                                   /\ file[x][k] = "data" => WrittenAt(file[x], i)[k] = "data"
  BY <1>1, <1>3, WriteEffect
<1>5. op'[c].stage = "writing" /\ op'[c].content = x /\ op'[c].next = i + 1
  BY <1>2 DEF Putting, TypeOK, CallsTyped
<1>6. \A d \in Callers \ {c} : op'[d] = op[d]
  BY <1>2 DEF TypeOK, CallsTyped
<1>7. file'[x] = WrittenAt(file[x], i) /\ \A y \in Contents \ {x} : file'[y] = file[y]
  BY <1>2 DEF TypeOK, FilesTyped
<1>8. \A y : \A d \in Callers : Writing(d, y)' <=> Writing(d, y)
  BY <1>1, <1>5, <1>6 DEF Writing
<1>9. TypeOK'
  <2>1. FilesTyped'
    BY <1>2, <1>4, <1>7 DEF TypeOK, FilesTyped
  <2>2. OpenersTyped'
    BY <1>2 DEF TypeOK, OpenersTyped
  <2>3. i + 1 \in 1..(ChunksOf[x] + 1)
    BY <1>1, <1>3
  <2>4. CallsTyped'
    BY <1>2, <1>5, <1>6, <2>3 DEF TypeOK, CallsTyped, InFlight
  <2> QED
    BY <2>1, <2>2, <2>4 DEF TypeOK
<1>10. WrittenAt(file[x], i) # Absent
  BY <1>4, AbsentAssumption
<1>11. OpenersWrite' /\ WrittenFilesExist'
  BY <1>2, <1>7, <1>8, <1>10 DEF OpenersWrite, WrittenFilesExist
<1>12. CompletedFilesWhole'
  <2> SUFFICES ASSUME NEW y \in Contents
               PROVE  /\ opener[y] = Completed => file'[y] = Whole(y)
                      /\ opener[y] = Nobody => file'[y] = Absent
                      /\ \A d \in Callers : opener[y] = By(d) /\ Writing(d, y) =>
                           \A k \in 1..(op'[d].next - 1) : k \in DOMAIN file'[y] /\ file'[y][k] = "data"
    BY <1>2, <1>8 DEF CompletedFilesWhole, Whole
  <2>1. CASE y # x
    BY <1>1, <1>6, <1>7, <2>1 DEF CompletedFilesWhole, Writing
  <2>2. CASE y = x
    <3>1. opener[x] = Completed => file'[x] = Whole(x)
      <4> SUFFICES ASSUME opener[x] = Completed PROVE WrittenAt(file[x], i) = Whole(x)
        BY <1>7
      <4>1. file[x] = Whole(x)
        BY DEF CompletedFilesWhole
      <4>2. \A k \in 1..ChunksOf[x] : k \in DOMAIN file[x] /\ file[x][k] = "data"
        BY <4>1 DEF Whole
      <4> QED
        BY <1>4, <4>2, FullIsWhole
    <3>2. \A d \in Callers : opener[x] = By(d) /\ Writing(d, x) =>
             \A k \in 1..(op'[d].next - 1) : k \in DOMAIN file'[x] /\ file'[x][k] = "data"
      <4> SUFFICES ASSUME NEW d \in Callers, opener[x] = By(d), Writing(d, x),
                          NEW k \in 1..(op'[d].next - 1)
                   PROVE  k \in DOMAIN file'[x] /\ file'[x][k] = "data"
        OBVIOUS
      <4>1. \A j \in 1..(op[d].next - 1) : j \in DOMAIN file[x] /\ file[x][j] = "data"
        BY DEF CompletedFilesWhole
      <4>2. CASE k = i
        BY <1>4, <1>7, <4>2
      <4>3. CASE k # i
        <5>1. k \in 1..(op[d].next - 1)
          BY <1>1, <1>5, <1>6, <4>3
        <5> QED
          BY <1>4, <1>7, <4>1, <5>1
      <4> QED
        BY <4>2, <4>3
    <3> QED
      BY <1>3, <2>2, <3>1, <3>2
  <2> QED
    BY <2>1, <2>2
<1>13. CalmReaders'
  <2>1. \A d \in Callers : op'[d].stage = "reading" /\ op'[d].due # Anything =>
           /\ op'[d] = op[d] /\ d # c
           /\ op[d].due = Whole(op[d].content) /\ op[d].limit = ChunksOf[op[d].content]
           /\ opener[op[d].content] = Completed
           /\ \A e \in Callers : ~Writing(e, op[d].content)
           /\ op[d].got \in Seq(Chunk) /\ Len(op[d].got) <= ChunksOf[op[d].content]
           /\ \A k \in 1..Len(op[d].got) : op[d].got[k] = "data"
    BY <1>5, <1>6 DEF CalmReaders
  <2>2. \A d \in Callers : op'[d].stage = "reading" /\ op'[d].due # Anything =>
           /\ op'[d].due = Whole(op'[d].content) /\ op'[d].limit = ChunksOf[op'[d].content]
           /\ opener'[op'[d].content] = Completed
           /\ \A e \in Callers : ~(op'[e].stage = "writing" /\ op'[e].content = op'[d].content)
           /\ op'[d].got \in Seq(Chunk) /\ Len(op'[d].got) <= ChunksOf[op'[d].content]
           /\ \A k \in 1..Len(op'[d].got) : op'[d].got[k] = "data"
    BY <1>1, <1>2, <1>5, <1>6, <2>1 DEF Writing
  <2> QED
    BY <2>2 DEF CalmReaders, Whole, Writing
<1>14. CalmGetsAnswerWhatIsDue'
  BY <1>5, <1>6 DEF CalmGetsAnswerWhatIsDue
<1> QED
  BY <1>9, <1>11, <1>12, <1>13, <1>14

(* The last to have truncated a file leaves it whole; anybody else's end   *)
(* of a put says nothing.                                                  *)
LEMMA FinishPutStep ==
    ASSUME IInv, NEW c \in Callers, FinishPut(c)
    PROVE  IInv'
<1> USE DEF IInv
<1>1. PICK x \in Contents :
         x = op[c].content /\ op[c].stage = "writing" /\ op[c].next = ChunksOf[x] + 1
  <2>1. op[c].stage = "writing" /\ op[c].next > ChunksOf[op[c].content]
    BY DEF FinishPut, AllWritten
  <2>2. op[c].content \in Contents /\ op[c].next \in 1..(ChunksOf[op[c].content] + 1)
    BY <2>1 DEF TypeOK, CallsTyped, InFlight
  <2> QED
    BY <2>1, <2>2, ChunksAssumption
<1>2. /\ file' = file
      /\ op' = [op EXCEPT ![c] = [stage |-> "stored", content |-> x]]
      /\ opener' = [opener EXCEPT ![x] = IF opener[x] = By(c) THEN Completed ELSE opener[x]]
  BY <1>1 DEF FinishPut, Do
<1>3. op'[c].stage = "stored" /\ \A d \in Callers \ {c} : op'[d] = op[d]
  BY <1>2 DEF TypeOK, CallsTyped
<1>4. /\ opener'[x] = IF opener[x] = By(c) THEN Completed ELSE opener[x]
      /\ \A y \in Contents \ {x} : opener'[y] = opener[y]
  BY <1>2 DEF TypeOK, OpenersTyped
<1>5. By(c) # Completed /\ By(c) # Nobody /\ Completed # Nobody /\ \A d : By(d) = By(c) => d = c
  BY DEF By, Completed, Nobody
<1>6. opener[x] = By(c) => file[x] = Whole(x)
  <2> SUFFICES ASSUME opener[x] = By(c) PROVE file[x] = Whole(x)
    OBVIOUS
  <2>1. Writing(c, x)
    BY <1>1 DEF Writing
  <2>2. \A k \in 1..ChunksOf[x] : k \in DOMAIN file[x] /\ file[x][k] = "data"
    BY <1>1, <2>1, ChunksAssumption DEF CompletedFilesWhole
  <2>3. file[x] \in Seq(Chunk) /\ Len(file[x]) <= ChunksOf[x]
    BY <2>1 DEF WrittenFilesExist, TypeOK, FilesTyped
  <2> QED
    BY <2>2, <2>3, FullIsWhole
<1>7. TypeOK'
  <2>1. FilesTyped' /\ OpenersTyped'
    BY <1>2, <1>4 DEF TypeOK, FilesTyped, OpenersTyped
  <2>2. CallsTyped'
    BY <1>2, <1>3 DEF TypeOK, CallsTyped, InFlight
  <2> QED
    BY <2>1, <2>2 DEF TypeOK
<1>8. \A y : \A d \in Callers :
         /\ Writing(d, y)' <=> (Writing(d, y) /\ d # c)
         /\ Writing(c, y) => y = x
  BY <1>1, <1>3 DEF Writing
<1>9. OpenersWrite'
  <2> SUFFICES ASSUME NEW y \in Contents, NEW d \in Callers, opener'[y] = By(d)
               PROVE  Writing(d, y)'
    BY DEF OpenersWrite, By
  <2>1. By(d) # Completed
    BY DEF By, Completed
  <2>2. opener[y] = By(d) /\ ~(y = x /\ opener[x] = By(c))
    BY <1>4, <2>1
  <2>3. Writing(d, y)
    BY <2>2 DEF OpenersWrite
  <2>4. d # c
    BY <1>8, <2>2, <2>3
  <2> QED
    BY <1>8, <2>3, <2>4
<1>10. CompletedFilesWhole'
  <2> SUFFICES ASSUME NEW y \in Contents
               PROVE  /\ opener'[y] = Completed => file[y] = Whole(y)
                      /\ opener'[y] = Nobody => file[y] = Absent
                      /\ \A d \in Callers : opener'[y] = By(d) /\ Writing(d, y)' =>
                           \A k \in 1..(op'[d].next - 1) : k \in DOMAIN file[y] /\ file[y][k] = "data"
    BY <1>2 DEF CompletedFilesWhole, Whole, By, Completed, Nobody
  <2>1. opener'[y] = opener[y] \/ (y = x /\ opener[x] = By(c) /\ opener'[x] = Completed)
    BY <1>4
  <2>2. opener'[y] = Completed => file[y] = Whole(y)
    BY <1>6, <2>1 DEF CompletedFilesWhole
  <2>3. opener'[y] = Nobody => file[y] = Absent
    BY <1>5, <2>1 DEF CompletedFilesWhole
  <2>4. ASSUME NEW d \in Callers, opener'[y] = By(d), Writing(d, y)'
        PROVE  \A k \in 1..(op'[d].next - 1) : k \in DOMAIN file[y] /\ file[y][k] = "data"
    <3>1. By(d) # Completed
      BY DEF By, Completed
    <3>2. opener[y] = By(d) /\ Writing(d, y) /\ op'[d] = op[d]
      BY <1>3, <1>8, <2>1, <2>4, <3>1
    <3> QED
      BY <3>2 DEF CompletedFilesWhole
  <2> QED
    BY <2>2, <2>3, <2>4
<1>11. WrittenFilesExist'
  BY <1>2, <1>4, <1>5, <1>8 DEF WrittenFilesExist, Nobody
<1>12. CalmReaders'
  <2> SUFFICES ASSUME NEW d \in Callers, op'[d].stage = "reading", op'[d].due # Anything
               PROVE  /\ op'[d] = op[d] /\ op[d].stage = "reading" /\ op[d].due # Anything
                      /\ op[d].content # x
    BY <1>4, <1>8 DEF CalmReaders, Whole, Completed, TypeOK, CallsTyped, InFlight
  <2> QED
    BY <1>1, <1>3 DEF CalmReaders, Writing
<1>13. CalmGetsAnswerWhatIsDue'
  BY <1>3 DEF CalmGetsAnswerWhatIsDue
<1> QED
  BY <1>7, <1>9, <1>10, <1>11, <1>12, <1>13

(* A reader or a caller that gets its answer touches no file: what must be  *)
(* shown is that what it holds, if anything is owed to it, is what is due. *)
LEMMA ReadStep ==
    ASSUME IInv, NEW c \in Callers, NEW call, Do(c, call), UNCHANGED <<file, opener>>,
           op[c].stage # "writing",
           call.stage \in {"reading", "read"},
           call.stage = "reading" => call.content \in Contents,
           call.stage = "read" /\ call.due # Anything => call.answer = call.due,
           call.stage = "reading" /\ call.due # Anything =>
              /\ call.due = Whole(call.content) /\ call.limit = ChunksOf[call.content]
              /\ opener[call.content] = Completed
              /\ \A d \in Callers : ~Writing(d, call.content)
              /\ call.got \in Seq(Chunk) /\ Len(call.got) <= ChunksOf[call.content]
              /\ \A k \in 1..Len(call.got) : call.got[k] = "data"
    PROVE  IInv'
<1>1. op'[c] = call /\ \A d \in Callers \ {c} : op'[d] = op[d]
  BY DEF Do, IInv, TypeOK, CallsTyped
<1>2. TypeOK'
  BY <1>1 DEF IInv, TypeOK, FilesTyped, OpenersTyped, CallsTyped, Do, InFlight
<1>3. \A x : \A d \in Callers : Writing(d, x)' <=> Writing(d, x)
  BY <1>1 DEF Writing
<1>4. CompletedFilesWhole' /\ OpenersWrite' /\ WrittenFilesExist'
  BY <1>1, <1>3 DEF IInv, CompletedFilesWhole, OpenersWrite, WrittenFilesExist, Writing, Whole
<1>5. CalmReaders'
  <2> SUFFICES ASSUME NEW d \in Callers, op'[d].stage = "reading", op'[d].due # Anything
               PROVE  LET x == op'[d].content IN
                      /\ op'[d].due = Whole(x) /\ op'[d].limit = ChunksOf[x]
                      /\ opener[x] = Completed /\ \A e \in Callers : ~Writing(e, x)
                      /\ op'[d].got \in Seq(Chunk) /\ Len(op'[d].got) <= ChunksOf[x]
                      /\ \A k \in 1..Len(op'[d].got) : op'[d].got[k] = "data"
    BY <1>3 DEF CalmReaders, Whole
  <2>1. CASE d = c
    BY <1>1, <2>1
  <2>2. CASE d # c
    BY <1>1, <2>2 DEF IInv, CalmReaders
  <2> QED
    BY <2>1, <2>2
<1>6. CalmGetsAnswerWhatIsDue'
  BY <1>1 DEF IInv, CalmGetsAnswerWhatIsDue
<1> QED
  BY <1>2, <1>4, <1>5, <1>6 DEF IInv

LEMMA GetForgedStep ==
    ASSUME IInv, NEW c \in Callers, GetForged(c)
    PROVE  IInv'
<1>1. PICK x \in Forged : Do(c, Got(x, Absent, Absent))
  BY DEF GetForged
<1>2. UNCHANGED <<file, opener>> /\ op[c].stage # "writing"
  BY DEF GetForged, CanCall
<1>3. /\ Got(x, Absent, Absent).stage = "read"
      /\ Got(x, Absent, Absent).answer = Got(x, Absent, Absent).due
  BY DEF Got
<1> QED
  BY <1>1, <1>2, <1>3, ReadStep

LEMMA OpenReadingStep ==
    ASSUME IInv, NEW c \in Callers, OpenReading(c)
    PROVE  IInv'
<1>1. PICK x \in Contents : x = op[c].content
  BY DEF OpenReading, IInv, TypeOK, CallsTyped, InFlight
<1>2. UNCHANGED <<file, opener>> /\ op[c].stage # "writing"
  BY DEF OpenReading
<1>3. Due(x) # Anything => Quiet(x)
  BY DEF Due
<1>4. CASE file[x] = Absent
  <2>1. Do(c, Got(x, Absent, Due(x)))
    BY <1>1, <1>4 DEF OpenReading, ForNoFile
  <2>2. Due(x) # Anything => Due(x) = Absent
    BY <1>3, <1>4, WholeTyped DEF Due, IInv, CompletedFilesWhole
  <2>3. /\ Got(x, Absent, Due(x)).stage = "read"
        /\ Got(x, Absent, Due(x)).answer = Absent /\ Got(x, Absent, Due(x)).due = Due(x)
    BY DEF Got
  <2> QED
    BY <1>2, <2>1, <2>2, <2>3, ReadStep
<1>5. CASE file[x] # Absent
  <2> DEFINE call == Getting(x, Len(file[x]), <<>>, Due(x))
  <2>1. Do(c, call)
    BY <1>1, <1>5 DEF OpenReading
  <2>2. /\ call.stage = "reading" /\ call.content = x /\ call.limit = Len(file[x])
        /\ call.got = <<>> /\ call.due = Due(x)
    BY DEF Getting
  <2>3. ASSUME Due(x) # Anything
        PROVE  /\ Due(x) = Whole(x) /\ Len(file[x]) = ChunksOf[x] /\ opener[x] = Completed
               /\ \A d \in Callers : ~Writing(d, x)
    <3>1. opener[x] = Completed /\ \A d \in Callers : ~Writing(d, x)
      BY <1>3, <1>5, <2>3 DEF Quiet, IInv, CompletedFilesWhole
    <3>2. file[x] = Whole(x) /\ Due(x) = Whole(x)
      BY <1>3, <2>3, <3>1 DEF Due, IInv, CompletedFilesWhole
    <3> QED
      BY <3>1, <3>2, WholeTyped
  <2>4. <<>> \in Seq(Chunk) /\ Len(<<>>) = 0 /\ Len(<<>>) <= ChunksOf[x]
    BY ChunksAssumption
  <2> HIDE DEF call
  <2>5. call.due # Anything =>
          /\ call.due = Whole(call.content) /\ call.limit = ChunksOf[call.content]
          /\ opener[call.content] = Completed
          /\ \A d \in Callers : ~Writing(d, call.content)
          /\ call.got \in Seq(Chunk) /\ Len(call.got) <= ChunksOf[call.content]
          /\ \A k \in 1..Len(call.got) : call.got[k] = "data"
    BY <2>2, <2>3, <2>4
  <2> QED
    BY <1>2, <2>1, <2>2, <2>5, ReadStep
<1> QED
  BY <1>4, <1>5

(* An undisturbed reader finds data at every chunk of a whole file.        *)
LEMMA ReadChunkStep ==
    ASSUME IInv, NEW c \in Callers, ReadChunk(c)
    PROVE  IInv'
<1>1. PICK x \in Contents : x = op[c].content /\ op[c].stage = "reading"
  BY DEF ReadChunk, IInv, TypeOK, CallsTyped, InFlight
<1> DEFINE got == Append(op[c].got, file[x][Len(op[c].got) + 1])
           call == Getting(x, op[c].limit, got, op[c].due)
<1>2. UNCHANGED <<file, opener>> /\ Do(c, call)
  BY <1>1 DEF ReadChunk
<1>3. /\ call.stage = "reading" /\ call.content = x /\ call.limit = op[c].limit
      /\ call.got = got /\ call.due = op[c].due
  BY DEF Getting
<1>4. ASSUME op[c].due # Anything
      PROVE  /\ op[c].due = Whole(x) /\ op[c].limit = ChunksOf[x] /\ opener[x] = Completed
             /\ \A d \in Callers : ~Writing(d, x)
             /\ got \in Seq(Chunk) /\ Len(got) <= ChunksOf[x]
             /\ \A k \in 1..Len(got) : got[k] = "data"
  <2>1. /\ op[c].due = Whole(x) /\ op[c].limit = ChunksOf[x] /\ opener[x] = Completed
        /\ \A d \in Callers : ~Writing(d, x)
        /\ op[c].got \in Seq(Chunk) /\ Len(op[c].got) <= ChunksOf[x]
        /\ \A k \in 1..Len(op[c].got) : op[c].got[k] = "data"
    BY <1>1, <1>4 DEF IInv, CalmReaders
  <2>2. file[x] = Whole(x)
    BY <2>1 DEF IInv, CompletedFilesWhole
  <2>3. Len(op[c].got) < Len(file[x])
    <3>1. ~(Len(op[c].got) >= Len(file[x]))
      BY <1>1 DEF ReadChunk, AtEnd
    <3> QED
      BY <2>1, <2>2, <3>1, WholeTyped, ChunksAssumption
  <2>4. Len(op[c].got) + 1 \in 1..ChunksOf[x]
    BY <2>1, <2>2, <2>3, WholeTyped, ChunksAssumption
  <2>5. file[x][Len(op[c].got) + 1] = "data"
    BY <2>2, <2>4 DEF Whole
  <2>6. got = Append(op[c].got, "data") /\ "data" \in Chunk
    BY <2>5 DEF Chunk
  <2>7. got \in Seq(Chunk) /\ Len(got) = Len(op[c].got) + 1
    BY <2>1, <2>6
  <2>8. \A k \in 1..Len(got) : got[k] = "data"
    BY <2>1, <2>6, <2>7
  <2>9. Len(got) <= ChunksOf[x]
    BY <2>4, <2>7
  <2> QED
    BY <2>1, <2>7, <2>8, <2>9
<1> HIDE DEF call, got
<1>5. call.due # Anything =>
        /\ call.due = Whole(call.content) /\ call.limit = ChunksOf[call.content]
        /\ opener[call.content] = Completed
        /\ \A d \in Callers : ~Writing(d, call.content)
        /\ call.got \in Seq(Chunk) /\ Len(call.got) <= ChunksOf[call.content]
        /\ \A k \in 1..Len(call.got) : call.got[k] = "data"
  BY <1>3, <1>4
<1> QED
  BY <1>1, <1>2, <1>3, <1>5, ReadStep

(* An undisturbed reader at the end of the file holds all of it.           *)
LEMMA FinishGetStep ==
    ASSUME IInv, NEW c \in Callers, FinishGet(c)
    PROVE  IInv'
<1>1. PICK x \in Contents : x = op[c].content /\ op[c].stage = "reading"
  BY DEF FinishGet, IInv, TypeOK, CallsTyped, InFlight
<1> DEFINE call == Got(x, op[c].got, op[c].due)
<1>2. UNCHANGED <<file, opener>> /\ Do(c, call)
  BY <1>1 DEF FinishGet
<1>3. call.stage = "read" /\ call.answer = op[c].got /\ call.due = op[c].due
  BY DEF Got
<1>4. ASSUME op[c].due # Anything PROVE op[c].got = op[c].due
  <2>1. /\ op[c].due = Whole(x) /\ op[c].limit = ChunksOf[x] /\ opener[x] = Completed
        /\ op[c].got \in Seq(Chunk) /\ Len(op[c].got) <= ChunksOf[x]
        /\ \A k \in 1..Len(op[c].got) : op[c].got[k] = "data"
    BY <1>1, <1>4 DEF IInv, CalmReaders
  <2>2. Len(file[x]) = ChunksOf[x]
    BY <2>1, WholeTyped DEF IInv, CompletedFilesWhole
  <2>3. Len(op[c].got) >= ChunksOf[x]
    BY <1>1, <2>1, <2>2 DEF FinishGet, AtEnd, Enough
  <2>4. Len(op[c].got) = ChunksOf[x]
    BY <2>1, <2>3, ChunksAssumption
  <2>5. \A k \in 1..ChunksOf[x] : k \in DOMAIN op[c].got /\ op[c].got[k] = "data"
    BY <2>1, <2>4
  <2> QED
    BY <2>1, <2>5, FullIsWhole
<1> HIDE DEF call
<1> QED
  BY <1>1, <1>2, <1>3, <1>4, ReadStep

-------------------------------------------------------------------------------
(* A failed or lost put never counts as completed: the file it was the     *)
(* last to truncate is nobody's any more.                                  *)
LEMMA FailStep ==
    ASSUME IInv, NEW c \in Callers, Fail(c)
    PROVE  IInv'
<1> USE DEF IInv
<1>1. op'[c].stage = "failed" /\ \A d \in Callers \ {c} : op'[d] = op[d]
  BY DEF Fail, Do, TypeOK, CallsTyped
<1>2. file' = file
  BY DEF Fail
<1>3. \A x \in Contents : opener'[x] = IF opener[x] = By(c) THEN Abandoned ELSE opener[x]
  BY DEF Fail
<1>4. /\ Abandoned # Completed /\ Abandoned # Nobody /\ By(c) # Completed /\ By(c) # Nobody
      /\ \A d : By(d) # Abandoned /\ (By(d) = By(c) => d = c)
  BY DEF By, Completed, Nobody, Abandoned
<1>5. TypeOK'
  <2>1. FilesTyped' /\ OpenersTyped'
    BY <1>2, <1>3 DEF Fail, TypeOK, FilesTyped, OpenersTyped
  <2>2. CallsTyped'
    BY <1>1 DEF Fail, Do, TypeOK, CallsTyped, InFlight
  <2> QED
    BY <2>1, <2>2 DEF TypeOK
<1>6. \A x : \A d \in Callers : Writing(d, x)' <=> (Writing(d, x) /\ d # c)
  BY <1>1 DEF Writing
<1>7. OpenersWrite' /\ WrittenFilesExist'
  BY <1>2, <1>3, <1>4, <1>6 DEF OpenersWrite, WrittenFilesExist, By, Nobody
<1>8. CompletedFilesWhole'
  BY <1>1, <1>2, <1>3, <1>4, <1>6 DEF CompletedFilesWhole, Whole, By, Completed, Nobody, Abandoned
<1>9. CalmReaders'
  <2> SUFFICES ASSUME NEW d \in Callers, op'[d].stage = "reading", op'[d].due # Anything
               PROVE  /\ op'[d] = op[d] /\ op[d].stage = "reading" /\ op[d].due # Anything
                      /\ opener'[op[d].content] = Completed
    BY <1>6 DEF CalmReaders, Whole, Completed
  <2>1. op'[d] = op[d] /\ op[d].content \in Contents
    BY <1>1 DEF TypeOK, CallsTyped, InFlight
  <2>2. opener[op[d].content] = Completed
    BY <2>1 DEF CalmReaders
  <2> QED
    BY <1>3, <1>4, <2>1, <2>2
<1>10. CalmGetsAnswerWhatIsDue'
  BY <1>1 DEF CalmGetsAnswerWhatIsDue
<1> QED
  BY <1>5, <1>7, <1>8, <1>9, <1>10

LEMMA CrashStep ==
    ASSUME IInv, Crash
    PROVE  IInv'
<1> USE DEF IInv
<1>1. op' = [c \in Callers |-> Idle] /\ \A c \in Callers : op'[c].stage = "idle"
  BY DEF Crash, Idle
<1>2. file' = file
  BY DEF Crash
<1>3. \A x \in Contents :
         opener'[x] = IF opener[x] \in {Nobody, Completed} THEN opener[x] ELSE Abandoned
  BY DEF Crash
<1>4. /\ Abandoned # Completed /\ Abandoned # Nobody
      /\ \A d : By(d) # Abandoned /\ By(d) # Completed /\ By(d) # Nobody
  BY DEF By, Completed, Nobody, Abandoned
<1>5. TypeOK'
  <2>1. FilesTyped' /\ OpenersTyped'
    BY <1>2, <1>3 DEF Crash, TypeOK, FilesTyped, OpenersTyped
  <2>2. CallsTyped'
    BY <1>1 DEF TypeOK, CallsTyped, InFlight, Idle
  <2> QED
    BY <2>1, <2>2 DEF TypeOK
<1>6. \A x : \A d \in Callers : ~Writing(d, x)'
  BY <1>1 DEF Writing
<1>7. OpenersWrite' /\ WrittenFilesExist'
  BY <1>3, <1>4, <1>6 DEF OpenersWrite, WrittenFilesExist, By, Nobody
<1>8. CompletedFilesWhole'
  BY <1>2, <1>3, <1>4, <1>6 DEF CompletedFilesWhole, Whole, By, Completed, Nobody, Abandoned
<1>9. CalmReaders' /\ CalmGetsAnswerWhatIsDue'
  BY <1>1 DEF CalmReaders, CalmGetsAnswerWhatIsDue
<1> QED
  BY <1>5, <1>7, <1>8, <1>9

LEMMA StutterStep ==
    ASSUME IInv, UNCHANGED vars
    PROVE  IInv'
  BY DEF vars, IInv, TypeOK, FilesTyped, OpenersTyped, CallsTyped, CompletedFilesWhole,
         OpenersWrite, WrittenFilesExist, CalmReaders, CalmGetsAnswerWhatIsDue, InFlight,
         Writing, Whole

LEMMA NextIInv ==
    ASSUME IInv, [Next]_vars
    PROVE  IInv'
<1>1. ASSUME NEW c \in Callers, NEW x \in Contents, Put(c, x) PROVE IInv'
  BY <1>1, IdleStep DEF Put, CanCall
<1>2. ASSUME NEW c \in Callers, NEW x \in Contents, Get(c, x) PROVE IInv'
  BY <1>2, IdleStep DEF Get, CanCall
<1> QED
  BY <1>1, <1>2, OpenTruncatingStep, WriteChunkStep, FinishPutStep, GetForgedStep,
     OpenReadingStep, ReadChunkStep, FinishGetStep, FailStep, CrashStep, StutterStep DEF Next

(* The inductive invariant holds in every reachable state.                 *)
THEOREM StoreInvariant == Spec => []IInv
<1>1. IInv /\ [Next]_vars => IInv'
  BY NextIInv
<1> QED
  BY InitIInv, <1>1, PTL DEF Spec

(* A photo whose last put ran to its end is whole, whoever else was        *)
(* writing the same photo meanwhile (filesystem-byte-store.ts, put).       *)
THEOREM CompletedPutsLeaveWholeFiles == Spec => []CompletedFilesWhole
<1>1. IInv => CompletedFilesWhole
  BY DEF IInv
<1> QED
  BY StoreInvariant, <1>1, PTL

(* A get no put of the same content overlapped answers what is stored      *)
(* (filesystem-byte-store.ts, get).                                        *)
THEOREM CalmGetsAreRight == Spec => []CalmGetsAnswerWhatIsDue
<1>1. IInv => CalmGetsAnswerWhatIsDue
  BY DEF IInv
<1> QED
  BY StoreInvariant, <1>1, PTL

===============================================================================
