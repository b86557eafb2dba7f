------------------------- MODULE GoPipelineProofs --------------------------
(***************************************************************************)
(* Proofs about GoPipeline that hold for every set of responses, slots,    *)
(* uploads and workers, every capacity of the channel and every bound on   *)
(* stops and faults: the facts about the channel, the types, the           *)
(* refinement of WorkQueue, where the work for a response is, how often a  *)
(* job is run, and which recording a row leads to in the end.              *)
(***************************************************************************)
EXTENDS GoPipeline, SequenceTheorems, FiniteSetTheorems, TLAPS

-----------------------------------------------------------------------------
(* Facts about the channel.                                                *)

\* Sending a job keeps the channel well-typed and queues that job only.
LEMMA SendFacts ==
  ASSUME ch \in Seq(Job), Len(ch) < QueueCap, NEW job \in Job,
         ch' = Append(ch, job)
  PROVE  /\ ch' \in Seq(Job)
         /\ Len(ch') <= QueueCap
         /\ Len(ch') = Len(ch) + 1
         /\ DOMAIN ch = 1 .. Len(ch) /\ DOMAIN ch' = 1 .. (Len(ch) + 1)
         /\ \A i \in 1 .. Len(ch) : ch'[i] = ch[i]
         /\ ch'[Len(ch) + 1] = job
         /\ \A q \in Responses : Queued(q)' <=> Queued(q) \/ q = job.resp
<1>1. /\ ch' \in Seq(Job)
      /\ Len(ch') = Len(ch) + 1
      /\ \A i \in 1 .. Len(ch) : ch'[i] = ch[i]
      /\ ch'[Len(ch) + 1] = job
  OBVIOUS
<1>2. Len(ch) \in Nat
  OBVIOUS
<1>3. DOMAIN ch = 1 .. Len(ch) /\ DOMAIN ch' = 1 .. (Len(ch) + 1)
  BY <1>1
<1>4. Len(ch') <= QueueCap
  BY <1>1, <1>2, GoQueueAssumption
<1>5. \A q \in Responses : Queued(q) => Queued(q)'
  BY <1>1, <1>2, <1>3 DEF Queued
<1>6. \A q \in Responses : Queued(q)' => Queued(q) \/ q = job.resp
  BY <1>1, <1>2, <1>3 DEF Queued
<1>7. \A q \in Responses : q = job.resp => Queued(q)'
  BY <1>1, <1>2, <1>3 DEF Queued
<1> QED
  BY <1>1, <1>3, <1>4, <1>5, <1>6, <1>7

\* Enqueue() keeps the channel well-typed and within its capacity, and makes
\* a difference to the response it is called with only.
LEMMA EnqueueFacts ==
  ASSUME ch \in Seq(Job), Len(ch) <= QueueCap, NEW r \in Responses, Enqueue(r)
  PROVE  /\ ch' \in Seq(Job)
         /\ Len(ch') <= QueueCap
         /\ \A q \in Responses : Queued(q) => Queued(q)'
         /\ \A q \in Responses : Queued(q)' => Queued(q) \/ q = r
         /\ r \in lost' \/ Queued(r)'
         /\ \A q \in Responses : q # r => (q \in lost' <=> q \in lost)
         /\ \A q \in Responses : q \in settled' => q \in settled
         /\ r \in settled' => UNCHANGED ch
<1>1. CASE /\ Len(ch) < QueueCap
           /\ ch' = Append(ch, [resp |-> r, attempts |-> 0])
           /\ lost' = lost \ {r} /\ settled' = settled \ {r}
  <2>1. [resp |-> r, attempts |-> 0] \in Job
    BY DEF Job
  <2> QED
    BY <1>1, <2>1, SendFacts
<1>2. CASE lost' = lost \cup {r} /\ UNCHANGED <<ch, settled>>
  BY <1>2 DEF Queued
<1> QED
  BY <1>1, <1>2 DEF Enqueue

\* Receiving takes the head out of a well-typed channel and nothing else.
LEMMA ReceiveFacts ==
  ASSUME ch \in Seq(Job), Len(ch) <= QueueCap, ch # <<>>, ch' = Tail(ch)
  PROVE  /\ ch' \in Seq(Job)
         /\ Len(ch') <= QueueCap
         /\ Len(ch) \in Nat \ {0}
         /\ DOMAIN ch = 1 .. Len(ch) /\ DOMAIN ch' = 1 .. (Len(ch) - 1)
         /\ Head(ch) = ch[1]
         /\ \A i \in 1 .. (Len(ch) - 1) : ch'[i] = ch[i + 1]
         /\ Head(ch) \in Job
         /\ Queued(Head(ch).resp)
         /\ \A q \in Responses : Queued(q)' => Queued(q)
         /\ \A q \in Responses : Queued(q) => Queued(q)' \/ q = Head(ch).resp
<1>1. /\ Len(ch) \in Nat \ {0}
      /\ Head(ch) = ch[1]
      /\ ch' \in Seq(Job)
      /\ Len(ch') = Len(ch) - 1
      /\ \A i \in 1 .. Len(ch') : ch'[i] = ch[i + 1]
  BY HeadTailProperties
<1>2. DOMAIN ch = 1 .. Len(ch) /\ DOMAIN ch' = 1 .. (Len(ch) - 1)
  BY <1>1
<1>3. Head(ch) \in Job
  BY <1>1
<1>4. Queued(Head(ch).resp)
  BY <1>1, <1>2 DEF Queued
<1>5. \A q \in Responses : Queued(q)' => Queued(q)
  BY <1>1, <1>2 DEF Queued
<1>6. ASSUME NEW q \in Responses, Queued(q)
      PROVE  Queued(q)' \/ q = Head(ch).resp
  <2>1. PICK i \in 1 .. Len(ch) : ch[i].resp = q
    BY <1>6, <1>2 DEF Queued
  <2>2. CASE i = 1
    BY <2>1, <2>2, <1>1
  <2>3. CASE i # 1
    <3>1. i - 1 \in 1 .. Len(ch') /\ ch'[i - 1] = ch[i]
      BY <2>3, <1>1
    <3> QED
      BY <3>1, <2>1, <1>1, <1>2 DEF Queued
  <2> QED
    BY <2>2, <2>3
<1>7. Len(ch') <= QueueCap
  BY <1>1, GoQueueAssumption
<1> QED
  BY <1>1, <1>2, <1>3, <1>4, <1>5, <1>6, <1>7

-----------------------------------------------------------------------------
(* Types: one lemma per kind of step, then the theorem.                    *)

\* A statement of the pipeline other than the one that saves a path: executed
\* or skipped.
Statement(w) ==
    \/ \E st \in MidStatus \cup {"COMPLETE"} : Exec(w, SetJobStatus(held[w], st))
    \/ \E u \in Uploads : \/ Exec(w, SetTranscript(held[w], u))
                          \/ Exec(w, SetAnswer(held[w], u))
    \/ UNCHANGED <<storeVars, requestVars, runVars>>

\* A statement keeps the tables and the handlers' variables well-typed, and
\* no row goes away.
LEMMA StatementTypes ==
  ASSUME StoreTypeOK, GoRequestTypeOK, NEW w \in Workers, held[w] \in Responses,
         jobStatus[held[w]] # "ABSENT", Statement(w)
  PROVE  /\ StoreTypeOK' /\ GoRequestTypeOK'
         /\ \A q \in Responses : jobStatus[q] # "ABSENT" => jobStatus'[q] # "ABSENT"
         /\ UNCHANGED <<fileVars, runVars>>
<1> DEFINE r == held[w]
<1> USE DEF StoreTypeOK, GoRequestTypeOK, JobStatus, MidStatus, RespStatus, Verdicts,
            fileVars, tableVars, storeVars, requestVars, runVars
<1>1. ASSUME NEW st \in MidStatus \cup {"COMPLETE"}, SetJobStatus(r, st),
             UNCHANGED <<isWav, faults, skipped, newest, fileVars, slotPc, slotFor, upPc,
                         upFor, upSlot, runVars>>
      PROVE  /\ StoreTypeOK' /\ GoRequestTypeOK'
             /\ \A q \in Responses : jobStatus[q] # "ABSENT" => jobStatus'[q] # "ABSENT"
  BY <1>1 DEF SetJobStatus
<1>2. ASSUME NEW u \in Uploads, SetTranscript(r, u) \/ SetAnswer(r, u),
             UNCHANGED <<isWav, faults, skipped, newest, fileVars, slotPc, slotFor, upPc,
                         upFor, upSlot, runVars>>
      PROVE  /\ StoreTypeOK' /\ GoRequestTypeOK'
             /\ \A q \in Responses : jobStatus[q] # "ABSENT" => jobStatus'[q] # "ABSENT"
  BY <1>2 DEF SetTranscript, SetAnswer
<1>3. ASSUME Skip(r),
             UNCHANGED <<fileVars, slotPc, slotFor, upPc, upFor, upSlot, runVars>>
      PROVE  /\ StoreTypeOK' /\ GoRequestTypeOK'
             /\ \A q \in Responses : jobStatus[q] # "ABSENT" => jobStatus'[q] # "ABSENT"
  BY <1>3, GoFaultAssumption DEF Skip, DbFault
<1>4. ASSUME UNCHANGED <<storeVars, requestVars, runVars>>
      PROVE  /\ StoreTypeOK' /\ GoRequestTypeOK'
             /\ \A q \in Responses : jobStatus[q] # "ABSENT" => jobStatus'[q] # "ABSENT"
  BY <1>4
<1>5. UNCHANGED <<fileVars, runVars>>
  BY DEF Statement, Exec
<1> QED
  BY <1>1, <1>2, <1>3, <1>4, <1>5 DEF Statement, Exec, Done

\* A worker's step keeps the queue's variables well-typed.
LEMMA WorkerTypes ==
  ASSUME GoQueueTypeOK, NEW w \in Workers,
         \/ /\ pc[w] \notin {"idle", "gone"}
            /\ \/ \E to \in WorkerPc \ {"idle", "gone"} : Advance(w, to)
               \/ Release(w)
               \/ RunFails(w)
         \/ Get(w)
         \/ Leave(w)
  PROVE  GoQueueTypeOK'
<1> USE DEF GoQueueTypeOK
<1>a. pc[w] \notin {"idle", "gone"} => held[w] \in Responses
  OBVIOUS
<1>1. CASE pc[w] \notin {"idle", "gone"} /\ \E to \in WorkerPc \ {"idle", "gone"} : Advance(w, to)
  BY <1>1 DEF Advance
<1>2. CASE Release(w)
  BY <1>2 DEF Release, WorkerPc
<1>3. CASE pc[w] \notin {"idle", "gone"} /\ RunFails(w)
  <2> DEFINE job == [resp |-> held[w], attempts |-> attempts[w] + 1]
  <2>1. held[w] \in Responses /\ attempts[w] \in 0 .. 2
    BY <1>3, <1>a
  <2>2. sleeping' \in [Retries -> Nat] /\ lost' \subseteq Responses
    <3>1. \/ /\ job.attempts < 3
             /\ sleeping' = [sleeping EXCEPT ![job] = sleeping[job] + 1]
             /\ UNCHANGED lost
          \/ lost' = lost \cup {held[w]} /\ UNCHANGED sleeping
      BY <1>3 DEF RunFails
    <3>2. job.attempts < 3 => job \in Retries
      BY <2>1 DEF Retries
    <3> HIDE DEF job
    <3>3. CASE /\ job.attempts < 3
               /\ sleeping' = [sleeping EXCEPT ![job] = sleeping[job] + 1]
               /\ UNCHANGED lost
      BY <3>3, <3>2
    <3>4. CASE lost' = lost \cup {held[w]} /\ UNCHANGED sleeping
      BY <3>4, <2>1
    <3> QED
      BY <3>1, <3>3, <3>4
  <2>3. /\ pc' = [pc EXCEPT ![w] = "idle"] /\ held' = [held EXCEPT ![w] = None]
        /\ UNCHANGED <<ch, attempts, server, recovering, stops, settled, jobs, runs>>
    BY <1>3 DEF RunFails
  <2> HIDE DEF job
  <2> QED
    BY <2>2, <2>3 DEF WorkerPc
<1>4. CASE Get(w)
  <2>1. ch' \in Seq(Job) /\ Len(ch') <= QueueCap /\ Head(ch) \in Job
    BY <1>4, ReceiveFacts DEF Get
  <2>2. Head(ch).resp \in Responses /\ Head(ch).attempts \in 0 .. 2
    BY <2>1 DEF Job
  <2>3. Head(ch).resp # None
    BY <2>2, StorageAssumption
  <2> QED
    BY <1>4, <2>1, <2>2, <2>3 DEF Get, WorkerPc
<1>5. CASE Leave(w)
  BY <1>5 DEF Leave, WorkerPc
<1> QED
  BY <1>1, <1>2, <1>3, <1>4, <1>5

\* Steps of others leave the locals of the runs as they need them: rows and
\* copies do not go away.
LEMMA RunsUndisturbed ==
  ASSUME GoRunTypeOK, GoQueueTypeOK, UNCHANGED <<runVars, pc, held>>,
         \A s \in Slots : wavCopy[s] # None => wavCopy'[s] # None,
         \A q \in Responses : jobStatus[q] # "ABSENT" => jobStatus'[q] # "ABSENT"
  PROVE  GoRunTypeOK'
  BY DEF GoRunTypeOK, GoQueueTypeOK, runVars

\* What GoRunTypeOK says of one worker.
RunOK(w) ==
    /\ pc[w] \notin {"idle", "gone", "load"} =>
          src[w] # None /\ jobStatus[held[w]] # "ABSENT"
    /\ pc[w] = "save" => useCopy[w]
    /\ useCopy[w] => src[w] # None /\ wavCopy[src[w]] # None
    /\ pc[w] \in {"scribe", "extracting", "extract"} => heard[w] # None

\* A step of w leaves the other runs as they are: rows and copies do not go
\* away.
LEMMA OthersUndisturbed ==
  ASSUME GoRunTypeOK, GoQueueTypeOK, NEW w \in Workers,
         \A x \in Workers \ {w} : /\ pc'[x] = pc[x] /\ held'[x] = held[x]
                                  /\ src'[x] = src[x] /\ heard'[x] = heard[x]
                                  /\ useCopy'[x] = useCopy[x],
         \A s \in Slots : wavCopy[s] # None => wavCopy'[s] # None,
         \A q \in Responses : jobStatus[q] # "ABSENT" => jobStatus'[q] # "ABSENT"
  PROVE  \A x \in Workers \ {w} : RunOK(x)'
<1> SUFFICES ASSUME NEW x \in Workers \ {w}
             PROVE  RunOK(x)'
  OBVIOUS
<1>1. RunOK(x)
  BY DEF GoRunTypeOK, RunOK
<1>2. /\ pc[x] \notin {"idle", "gone"} => held[x] \in Responses
      /\ src[x] # None => src[x] \in Slots
  BY DEF GoQueueTypeOK, GoRunTypeOK
<1> QED
  BY <1>1, <1>2 DEF RunOK

\* A statement, and the run moves on.
LEMMA StatementStepTypes ==
  ASSUME TypeOK, NEW w \in Workers, pc[w] \notin {"idle", "gone", "load"},
         NEW to \in WorkerPc \ {"idle", "gone", "load", "save"},
         to \in {"scribe", "extracting", "extract"} => heard[w] # None,
         Statement(w), Advance(w, to)
  PROVE  TypeOK'
<1>1. held[w] \in Responses /\ jobStatus[held[w]] # "ABSENT"
  BY DEF TypeOK, GoQueueTypeOK, GoRunTypeOK
<1>2. /\ StoreTypeOK' /\ GoRequestTypeOK'
      /\ \A q \in Responses : jobStatus[q] # "ABSENT" => jobStatus'[q] # "ABSENT"
      /\ UNCHANGED <<fileVars, runVars>>
  BY <1>1, StatementTypes DEF TypeOK
<1>3. GoQueueTypeOK'
  BY WorkerTypes DEF TypeOK
<1>4. /\ pc'[w] = to
      /\ \A x \in Workers \ {w} : pc'[x] = pc[x]
      /\ held' = held
  BY DEF Advance, TypeOK, GoQueueTypeOK
<1>5. UNCHANGED <<src, useCopy, heard, wavCopy>>
  BY <1>2 DEF fileVars, runVars
<1>6. \A x \in Workers \ {w} : RunOK(x)'
  BY <1>2, <1>4, <1>5, OthersUndisturbed DEF TypeOK
<1>7. RunOK(w)'
  BY <1>1, <1>2, <1>4, <1>5 DEF TypeOK, GoRunTypeOK, GoQueueTypeOK, RunOK
<1>8. GoRunTypeOK'
  BY <1>5, <1>6, <1>7 DEF TypeOK, GoRunTypeOK, RunOK
<1> QED
  BY <1>2, <1>3, <1>8 DEF TypeOK

-----------------------------------------------------------------------------

\* Every reachable state has the types of TypeOK: in particular the channel
\* never exceeds its capacity, a busy worker always holds a response whose row
\* exists and a path, and what a run takes for a converted copy is one.
THEOREM TypeCorrect == Spec => []TypeOK
<1>1. Init => TypeOK
  <2>1. ASSUME Init PROVE StoreTypeOK /\ GoRunTypeOK
    BY <2>1 DEF Init, StoreInit, GoQueueInit, StoreTypeOK, GoRunTypeOK, JobStatus, RespStatus
  <2>2. ASSUME Init PROVE GoQueueTypeOK
    BY <2>2, GoQueueAssumption, StorageAssumption DEF Init, GoQueueInit, GoQueueTypeOK, WorkerPc
  <2>3. ASSUME Init PROVE GoRequestTypeOK
    BY <2>3, GoFaultAssumption DEF Init, GoRequestInit, GoRequestTypeOK, SlotPc, UpPc
  <2> QED
    BY <2>1, <2>2, <2>3 DEF TypeOK
<1>2. TypeOK /\ [Next]_vars => TypeOK'
  <2> SUFFICES ASSUME TypeOK, [Next]_vars
               PROVE  TypeOK'
    OBVIOUS
  <2>0. StoreTypeOK /\ GoQueueTypeOK /\ GoRequestTypeOK /\ GoRunTypeOK
    BY DEF TypeOK
  <2>a. UNCHANGED storeVars => StoreTypeOK'
    BY <2>0 DEF StoreTypeOK, storeVars
  <2>b. UNCHANGED goQueueVars => GoQueueTypeOK'
    BY <2>0 DEF GoQueueTypeOK, goQueueVars
  <2>c. UNCHANGED <<storeVars, requestVars>> => GoRequestTypeOK'
    BY <2>0 DEF GoRequestTypeOK, requestVars, storeVars
  <2>1. ASSUME NEW w \in Workers, MarkPassed(w)
        PROVE  TypeOK'
    <3>1. Statement(w)
      BY <2>1 DEF MarkPassed, Statement, MidStatus
    <3> QED
      BY <2>1, <3>1, StatementStepTypes DEF MarkPassed, WorkerPc
  <2>2. ASSUME NEW w \in Workers, MarkTranscribing(w)
        PROVE  TypeOK'
    <3>1. Statement(w)
      BY <2>2 DEF MarkTranscribing, Statement, MidStatus
    <3> QED
      BY <2>2, <3>1, StatementStepTypes DEF MarkTranscribing, WorkerPc
  <2>3. ASSUME NEW w \in Workers, StoreTranscript(w)
        PROVE  TypeOK'
    <3>1. heard[w] \in Uploads
      BY <2>3, <2>0 DEF StoreTranscript, GoRunTypeOK
    <3>2. Statement(w)
      BY <2>3, <3>1 DEF StoreTranscript, Statement
    <3>3. PICK to \in {"extracting", "complete"} : Advance(w, to)
      BY <2>3 DEF StoreTranscript
    <3> QED
      BY <2>3, <3>1, <3>2, <3>3, StorageAssumption, StatementStepTypes
         DEF StoreTranscript, WorkerPc
  <2>4. ASSUME NEW w \in Workers, MarkExtracting(w)
        PROVE  TypeOK'
    <3>1. Statement(w)
      BY <2>4 DEF MarkExtracting, Statement, MidStatus
    <3>2. heard[w] # None
      BY <2>4, <2>0 DEF MarkExtracting, GoRunTypeOK
    <3> QED
      BY <2>4, <3>1, <3>2, StatementStepTypes DEF MarkExtracting, WorkerPc
  <2>5. ASSUME NEW w \in Workers, Extract(w)
        PROVE  TypeOK'
    <3>1. heard[w] \in Uploads
      BY <2>5, <2>0 DEF Extract, GoRunTypeOK
    <3>2. Statement(w)
      BY <2>5, <3>1 DEF Extract, Statement
    <3> QED
      BY <2>5, <3>2, StatementStepTypes DEF Extract, WorkerPc
  <2>6. ASSUME NEW w \in Workers, MarkComplete(w)
        PROVE  TypeOK'
    <3>1. Statement(w)
      BY <2>6 DEF MarkComplete, Statement
    <3> QED
      BY <2>6, <3>1, StatementStepTypes DEF MarkComplete, WorkerPc
  <2>7. ASSUME NEW w \in Workers, Load(w)
        PROVE  TypeOK'
    <3>1. held[w] \in Responses
      BY <2>7, <2>0 DEF Load, GoQueueTypeOK
    <3>2. GoQueueTypeOK'
      BY <2>7, <2>0, WorkerTypes DEF Load, WorkerPc
    <3>3. /\ wavPath[held[w]] \in Slots
          /\ isWav[held[w]] \in BOOLEAN
          /\ isWav[held[w]] => wavCopy[wavPath[held[w]]] # None
      BY <2>7, <2>0, <3>1 DEF Load, StoreTypeOK, GoRequestTypeOK
    <3>4. /\ src' \in [Workers -> Slots \cup {None}]
          /\ src'[w] = wavPath[held[w]]
          /\ \A x \in Workers \ {w} : src'[x] = src[x] /\ useCopy'[x] = useCopy[x] /\ pc'[x] = pc[x]
          /\ pc'[w] = "passed"
      BY <2>7, <2>0, <3>3 DEF Load, Advance, GoRunTypeOK, GoQueueTypeOK
    <3>5. /\ useCopy' \in [Workers -> BOOLEAN]
          /\ useCopy'[w] = isWav[held[w]]
      BY <2>7, <2>0, <3>3 DEF Load, GoRunTypeOK
    <3>6. UNCHANGED <<held, heard, jobStatus, wavCopy>>
      BY <2>7 DEF Load, Advance, storeVars
    <3>7. GoRunTypeOK'
      BY <2>7, <2>0, <3>1, <3>3, <3>4, <3>5, <3>6, StorageAssumption DEF Load, GoRunTypeOK
    <3> QED
      BY <2>7, <2>a, <2>c, <3>2, <3>7 DEF Load, TypeOK
  <2>8. ASSUME NEW w \in Workers, LoadFails(w)
        PROVE  TypeOK'
    <3>1. held[w] \in Responses
      BY <2>8, <2>0 DEF LoadFails, GoQueueTypeOK
    <3>2. GoQueueTypeOK'
      BY <2>8, <2>0, WorkerTypes DEF LoadFails
    <3>3. GoRequestTypeOK'
      BY <2>8, <2>0, GoFaultAssumption DEF LoadFails, DbFault, GoRequestTypeOK, storeVars
    <3>4. GoRunTypeOK'
      BY <2>8, <2>0 DEF LoadFails, RunFails, GoRunTypeOK, GoQueueTypeOK, storeVars, runVars
    <3> QED
      BY <2>8, <2>a, <3>2, <3>3, <3>4 DEF LoadFails, TypeOK
  <2>9. ASSUME NEW w \in Workers, Convert(w)
        PROVE  TypeOK'
    <3>1. /\ held[w] \in Responses /\ src[w] \in Slots
          /\ jobStatus[held[w]] # "ABSENT"
      BY <2>9, <2>0 DEF Convert, GoQueueTypeOK, GoRunTypeOK
    <3>2. PICK to \in {"save", "transcribing", "complete"} : Advance(w, to)
      BY <2>9 DEF Convert, AfterConvert
    <3>3. GoQueueTypeOK'
      BY <2>9, <2>0, <3>2, WorkerTypes DEF Convert, WorkerPc
    <3>4. /\ wavCopy' \in [Slots -> Uploads \cup {None}]
          /\ \A s \in Slots : wavCopy[s] # None => wavCopy'[s] # None
          /\ useCopy' \in [Workers -> BOOLEAN]
          /\ \A x \in Workers \ {w} : useCopy'[x] = useCopy[x]
          /\ useCopy'[w] => wavCopy'[src[w]] # None
          /\ pc'[w] = "save" => useCopy'[w]
      <4>1. CASE /\ file[src[w]] # None
                 /\ wavCopy' = [wavCopy EXCEPT ![src[w]] = file[src[w]]]
                 /\ useCopy' = [useCopy EXCEPT ![w] = TRUE]
        BY <4>1, <2>0, <3>1 DEF StoreTypeOK, GoRunTypeOK
      <4>2. CASE Advance(w, AfterConvert) /\ UNCHANGED <<wavCopy, useCopy>>
        BY <4>2, <2>0, <3>1 DEF StoreTypeOK, GoRunTypeOK, GoQueueTypeOK, Advance, AfterConvert
      <4> QED
        BY <2>9, <4>1, <4>2 DEF Convert
    <3>5. /\ pc' = [pc EXCEPT ![w] = to]
          /\ UNCHANGED <<held, src, heard, tableVars, file, requestVars>>
      BY <2>9, <3>2 DEF Convert, Advance
    <3>6. StoreTypeOK'
      BY <2>0, <3>4, <3>5 DEF StoreTypeOK, tableVars
    <3>7. GoRequestTypeOK'
      BY <2>0, <3>4, <3>5 DEF GoRequestTypeOK, StoreTypeOK, requestVars, tableVars
    <3>8. /\ pc'[w] = to
          /\ \A x \in Workers \ {w} : pc'[x] = pc[x]
          /\ UNCHANGED <<held, src, heard, jobStatus>>
      BY <2>0, <3>5 DEF GoQueueTypeOK, tableVars
    <3>9. GoRunTypeOK'
      <4>1. \A x \in Workers \ {w} : RunOK(x)'
        BY <2>0, <3>4, <3>8, OthersUndisturbed
      <4>2. RunOK(w)'
        BY <2>0, <3>1, <3>4, <3>8, StorageAssumption DEF RunOK
      <4> QED
        BY <2>0, <3>4, <3>8, <4>1, <4>2 DEF GoRunTypeOK, RunOK
    <3> QED
      BY <3>3, <3>6, <3>7, <3>9 DEF TypeOK
  <2>10. ASSUME NEW w \in Workers, SavePath(w)
        PROVE  TypeOK'
    <3>1. /\ held[w] \in Responses /\ src[w] \in Slots
          /\ jobStatus[held[w]] # "ABSENT" /\ wavCopy[src[w]] # None
      BY <2>10, <2>0 DEF SavePath, GoQueueTypeOK, GoRunTypeOK
    <3>2. PICK to \in {"transcribing", "complete"} : Advance(w, to)
      BY <2>10 DEF SavePath, AfterConvert
    <3>3. GoQueueTypeOK'
      BY <2>10, <2>0, <3>2, WorkerTypes DEF SavePath, WorkerPc
    <3>4. /\ StoreTypeOK' /\ GoRequestTypeOK'
          /\ \A q \in Responses : jobStatus[q] # "ABSENT" => jobStatus'[q] # "ABSENT"
      <4>1. CASE /\ SetJobPath(held[w], jobStatus[held[w]], src[w])
                 /\ isWav' = [isWav EXCEPT ![held[w]] = TRUE]
                 /\ UNCHANGED <<faults, skipped, newest>>
        BY <4>1, <2>10, <2>0, <3>1
           DEF SavePath, SetJobPath, StoreTypeOK, GoRequestTypeOK, fileVars
      <4>2. CASE Skip(held[w])
        BY <4>2, <2>10, <2>0, <3>1, GoFaultAssumption
           DEF SavePath, Skip, DbFault, StoreTypeOK, GoRequestTypeOK, fileVars, tableVars
      <4> QED
        BY <2>10, <4>1, <4>2 DEF SavePath
    <3>5. GoRunTypeOK'
      BY <2>10, <2>0, <3>1, <3>2, <3>4
         DEF SavePath, Advance, GoRunTypeOK, GoQueueTypeOK, fileVars, runVars
    <3> QED
      BY <3>3, <3>4, <3>5 DEF TypeOK
  <2>11. ASSUME NEW w \in Workers, Transcribe(w)
        PROVE  TypeOK'
    <3>1. /\ held[w] \in Responses /\ src[w] \in Slots
          /\ jobStatus[held[w]] # "ABSENT"
      BY <2>11, <2>0 DEF Transcribe, GoQueueTypeOK, GoRunTypeOK
    <3>2. GoQueueTypeOK'
      BY <2>11, <2>0, WorkerTypes DEF Transcribe, WorkerPc
    <3>3. Recording(w) \in Uploads \cup {None}
      BY <2>0, <3>1 DEF Recording, StoreTypeOK
    <3>4. /\ heard' \in [Workers -> Uploads \cup {None}]
          /\ pc'[w] = "scribe" => heard'[w] # None
          /\ pc'[w] \in {"scribe", "complete"}
          /\ \A x \in Workers \ {w} : pc'[x] = pc[x] /\ heard'[x] = heard[x]
      <4>1. CASE /\ Recording(w) # None
                 /\ heard' = [heard EXCEPT ![w] = Recording(w)]
                 /\ Advance(w, "scribe")
        BY <4>1, <2>0, <3>3 DEF Advance, GoRunTypeOK, GoQueueTypeOK
      <4>2. CASE Advance(w, "complete") /\ UNCHANGED heard
        BY <4>2, <2>0 DEF Advance, GoRunTypeOK, GoQueueTypeOK
      <4> QED
        BY <2>11, <4>1, <4>2 DEF Transcribe
    <3>5. UNCHANGED <<held, src, useCopy, jobStatus, wavCopy>>
      BY <2>11 DEF Transcribe, Advance, storeVars
    <3>6. GoRunTypeOK'
      <4>1. \A x \in Workers \ {w} : RunOK(x)'
        BY <2>0, <3>4, <3>5, OthersUndisturbed
      <4>2. RunOK(w)'
        BY <2>0, <3>1, <3>4, <3>5, StorageAssumption DEF RunOK, GoRunTypeOK
      <4> QED
        BY <2>0, <3>4, <3>5, <4>1, <4>2 DEF GoRunTypeOK, RunOK
    <3> QED
      BY <2>11, <2>a, <2>c, <3>2, <3>6 DEF Transcribe, TypeOK
  <2>12. ASSUME NEW w \in Workers, Finish(w)
        PROVE  TypeOK'
    <3>1. held[w] \in Responses
      BY <2>12, <2>0 DEF Finish, GoQueueTypeOK
    <3>2. GoQueueTypeOK'
      BY <2>12, <2>0, WorkerTypes DEF Finish
    <3>3. StoreTypeOK'
      BY <2>12, <2>0, <3>1
         DEF Finish, Done, Skip, ResubmitIfProcessing, StoreTypeOK, RespStatus, fileVars,
             tableVars
    <3>4. GoRequestTypeOK'
      BY <2>12, <2>0, <3>1, GoFaultAssumption
         DEF Finish, Done, Skip, DbFault, ResubmitIfProcessing, GoRequestTypeOK,
             fileVars, tableVars
    <3>5. \A q \in Responses : jobStatus'[q] = jobStatus[q]
      BY <2>12 DEF Finish, Done, Skip, ResubmitIfProcessing, tableVars
    <3>6. GoRunTypeOK'
      BY <2>12, <2>0, <3>1, <3>5
         DEF Finish, Release, ClearRun, GoRunTypeOK, GoQueueTypeOK, fileVars
    <3> QED
      BY <3>2, <3>3, <3>4, <3>6 DEF TypeOK
  <2>13. ASSUME NEW w \in Workers, Get(w), UNCHANGED <<storeVars, requestVars, runVars>>
        PROVE  TypeOK'
    <3>1. GoQueueTypeOK'
      BY <2>13, <2>0, WorkerTypes
    <3>2. GoRunTypeOK'
      BY <2>13, <2>0 DEF Get, GoRunTypeOK, GoQueueTypeOK, storeVars, runVars
    <3> QED
      BY <2>13, <2>a, <2>c, <3>1, <3>2 DEF TypeOK
  <2>14. ASSUME NEW job \in Retries, WakeUp(job)
        PROVE  TypeOK'
    <3>1. job \in Job /\ job.resp \in Responses
      BY DEF Retries, Job
    <3>2. ch' \in Seq(Job) /\ Len(ch') <= QueueCap /\ lost' \subseteq Responses
      BY <2>14, <2>0, <3>1, SendFacts DEF WakeUp, Wake, GoQueueTypeOK
    <3>3. sleeping' \in [Retries -> Nat]
      BY <2>14, <2>0 DEF WakeUp, Wake, GoQueueTypeOK
    <3>4. GoQueueTypeOK'
      BY <2>14, <2>0, <3>2, <3>3 DEF WakeUp, Wake, GoQueueTypeOK
    <3>5. GoRunTypeOK'
      BY <2>14, <2>0, RunsUndisturbed DEF WakeUp, Wake, storeVars
    <3> QED
      BY <2>14, <2>a, <2>c, <3>4, <3>5 DEF WakeUp, TypeOK
  <2>15. ASSUME NEW s \in Slots, NEW r \in Responses, SlotLookup(s, r), UNCHANGED runVars
        PROVE  TypeOK'
    <3>1. GoRequestTypeOK'
      BY <2>15, <2>0, GoFaultAssumption
         DEF SlotLookup, DbFault, GoRequestTypeOK, SlotPc, storeVars
    <3>2. GoRunTypeOK'
      BY <2>15, <2>0, RunsUndisturbed DEF SlotLookup, storeVars, goQueueVars
    <3> QED
      BY <2>15, <2>a, <2>b, <3>1, <3>2 DEF SlotLookup, TypeOK
  <2>16. ASSUME NEW s \in Slots, SlotStore(s), UNCHANGED runVars
        PROVE  TypeOK'
    <3>1. slotFor[s] \in Responses
      BY <2>16, <2>0 DEF SlotStore, GoRequestTypeOK
    <3>2. slotPc' \in [Slots -> SlotPc] /\ \A t \in Slots : slotPc'[t] # "new" => slotPc[t] # "new"
      BY <2>16, <2>0 DEF SlotStore, GoRequestTypeOK, SlotPc
    <3>3. /\ StoreTypeOK' /\ GoRequestTypeOK'
          /\ \A q \in Responses : jobStatus[q] # "ABSENT" => jobStatus'[q] # "ABSENT"
      <4>1. CASE /\ SetJobPath(slotFor[s], "UPLOADING", s)
                 /\ isWav' = [isWav EXCEPT ![slotFor[s]] = FALSE]
                 /\ UNCHANGED <<faults, skipped, newest>>
        BY <4>1, <2>16, <2>0, <3>1, <3>2
           DEF SlotStore, SetJobPath, StoreTypeOK, GoRequestTypeOK, JobStatus, fileVars
      <4>2. CASE /\ skipped' = skipped \cup {slotFor[s]}
                 /\ UNCHANGED <<tableVars, isWav, faults, newest>>
        BY <4>2, <2>16, <2>0, <3>1, <3>2
           DEF SlotStore, StoreTypeOK, GoRequestTypeOK, fileVars, tableVars
      <4>3. CASE Skip(slotFor[s])
        BY <4>3, <2>16, <2>0, <3>1, <3>2, GoFaultAssumption
           DEF SlotStore, Skip, DbFault, StoreTypeOK, GoRequestTypeOK, fileVars, tableVars
      <4> QED
        BY <2>16, <4>1, <4>2, <4>3 DEF SlotStore
    <3>4. GoRunTypeOK'
      BY <2>16, <2>0, <3>3, RunsUndisturbed DEF SlotStore, goQueueVars, fileVars
    <3> QED
      BY <2>16, <2>b, <3>3, <3>4 DEF SlotStore, TypeOK
  <2>17. ASSUME NEW u \in Uploads, NEW s \in Slots, UploadWrite(u, s), UNCHANGED runVars
        PROVE  TypeOK'
    <3>1. slotFor[s] \in Responses
      BY <2>17, <2>0 DEF UploadWrite, GoRequestTypeOK
    <3>2. StoreTypeOK'
      BY <2>17, <2>0 DEF UploadWrite, StoreTypeOK, tableVars
    <3>3. GoRequestTypeOK'
      BY <2>17, <2>0, <3>1 DEF UploadWrite, GoRequestTypeOK, UpPc, tableVars
    <3>4. GoRunTypeOK'
      BY <2>17, <2>0, RunsUndisturbed DEF UploadWrite, goQueueVars, tableVars
    <3> QED
      BY <2>17, <2>b, <3>2, <3>3, <3>4 DEF UploadWrite, TypeOK
  <2>18. ASSUME NEW u \in Uploads, UploadMark(u), UNCHANGED runVars
        PROVE  TypeOK'
    <3>1. upFor[u] \in Responses /\ upSlot[u] \in Slots
      BY <2>18, <2>0 DEF UploadMark, GoRequestTypeOK
    <3>2. upPc' \in [Uploads -> UpPc] /\ \A v \in Uploads : upPc'[v] # "new" => upPc[v] # "new"
      BY <2>18, <2>0 DEF UploadMark, GoRequestTypeOK, UpPc
    <3>3. /\ StoreTypeOK' /\ GoRequestTypeOK'
          /\ \A q \in Responses : jobStatus[q] # "ABSENT" => jobStatus'[q] # "ABSENT"
      <4>1. CASE /\ SetJobPath(upFor[u], "QC_PENDING", upSlot[u])
                 /\ isWav' = [isWav EXCEPT ![upFor[u]] = FALSE]
                 /\ newest' = [newest EXCEPT ![upFor[u]] = u]
                 /\ UNCHANGED <<faults, skipped>>
        BY <4>1, <2>18, <2>0, <3>1, <3>2
           DEF UploadMark, SetJobPath, StoreTypeOK, GoRequestTypeOK, JobStatus, MidStatus,
               fileVars
      <4>2. CASE UNCHANGED <<tableVars, isWav, newest, faults, skipped>>
        BY <4>2, <2>18, <2>0, <3>1, <3>2
           DEF UploadMark, StoreTypeOK, GoRequestTypeOK, fileVars, tableVars
      <4>3. CASE Skip(upFor[u])
        BY <4>3, <2>18, <2>0, <3>1, <3>2, GoFaultAssumption
           DEF UploadMark, Skip, DbFault, StoreTypeOK, GoRequestTypeOK, fileVars, tableVars
      <4> QED
        BY <2>18, <4>1, <4>2, <4>3 DEF UploadMark
    <3>4. GoRunTypeOK'
      BY <2>18, <2>0, <3>3, RunsUndisturbed DEF UploadMark, goQueueVars, fileVars
    <3> QED
      BY <2>18, <2>b, <3>3, <3>4 DEF UploadMark, TypeOK
  <2>19. ASSUME NEW u \in Uploads, UploadEnqueue(u), UNCHANGED runVars
        PROVE  TypeOK'
    <3>1. upFor[u] \in Responses
      BY <2>19, <2>0 DEF UploadEnqueue, GoRequestTypeOK
    <3>2. ch' \in Seq(Job) /\ Len(ch') <= QueueCap
      BY <2>19, <2>0, <3>1, EnqueueFacts DEF UploadEnqueue, GoQueueTypeOK
    <3>3. GoQueueTypeOK'
      BY <2>19, <2>0, <3>1, <3>2 DEF UploadEnqueue, Enqueue, GoQueueTypeOK
    <3>4. GoRequestTypeOK'
      BY <2>19, <2>0 DEF UploadEnqueue, GoRequestTypeOK, UpPc, storeVars
    <3>5. GoRunTypeOK'
      BY <2>19, <2>0, RunsUndisturbed DEF UploadEnqueue, storeVars
    <3> QED
      BY <2>19, <2>a, <3>3, <3>4, <3>5 DEF UploadEnqueue, TypeOK
  <2>20. ASSUME NEW r \in Responses, NEW v \in Verdicts, Review(r, v), UNCHANGED runVars
        PROVE  TypeOK'
    <3>1. StoreTypeOK'
      BY <2>20, <2>0 DEF Review, SetVerdict, StoreTypeOK, RespStatus, fileVars
    <3>2. GoQueueTypeOK'
      BY <2>20, <2>0 DEF Review, GoQueueTypeOK
    <3>3. GoRequestTypeOK'
      BY <2>20, <2>0 DEF Review, SetVerdict, GoRequestTypeOK, requestVars, fileVars
    <3>4. GoRunTypeOK'
      BY <2>20, <2>0, RunsUndisturbed DEF Review, SetVerdict, fileVars
    <3> QED
      BY <3>1, <3>2, <3>3, <3>4 DEF TypeOK
  <2>21. ASSUME Life, UNCHANGED <<storeVars, requestVars, runVars>>
        PROVE  TypeOK'
    <3>1. CASE Restart \/ Serve \/ Shutdown
      <4>1. GoQueueTypeOK'
        BY <3>1, <2>0 DEF Restart, StartWith, Serve, Shutdown, GoQueueTypeOK
      <4>2. UNCHANGED <<pc, held>>
        BY <3>1 DEF Restart, StartWith, Serve, Shutdown
      <4> QED
        BY <2>21, <2>0, <2>a, <2>c, <4>1, <4>2, RunsUndisturbed DEF TypeOK, storeVars
    <3>2. ASSUME NEW r \in Responses, Recover(r)
          PROVE  TypeOK'
      <4>1. ch' \in Seq(Job) /\ Len(ch') <= QueueCap
        BY <3>2, <2>0, EnqueueFacts DEF Recover, GoQueueTypeOK
      <4>2. /\ lost' \subseteq Responses /\ settled' \subseteq Responses
            /\ jobs' \in [Responses -> Nat]
        BY <3>2, <2>0 DEF Recover, Enqueue, GoQueueTypeOK
      <4>3. recovering' \subseteq Responses
        BY <3>2, <2>0 DEF Recover, GoQueueTypeOK
      <4>4. GoQueueTypeOK'
        BY <3>2, <2>0, <4>1, <4>2, <4>3 DEF Recover, GoQueueTypeOK
      <4>5. GoRunTypeOK'
        BY <2>21, <3>2, <2>0, RunsUndisturbed DEF Recover, storeVars
      <4> QED
        BY <2>21, <2>a, <2>c, <4>4, <4>5 DEF TypeOK
    <3>3. ASSUME NEW w \in Workers, Leave(w)
          PROVE  TypeOK'
      <4>1. GoQueueTypeOK'
        BY <3>3, <2>0, WorkerTypes
      <4>2. GoRunTypeOK'
        BY <2>21, <3>3, <2>0 DEF Leave, GoRunTypeOK, GoQueueTypeOK, storeVars, runVars
      <4> QED
        BY <2>21, <2>a, <2>c, <4>1, <4>2 DEF TypeOK
    <3> QED
      BY <2>21, <3>1, <3>2, <3>3 DEF Life
  <2>22. CASE RestartBlind
    <3>1. GoQueueTypeOK'
      BY <2>22, <2>0 DEF RestartBlind, StartWith, GoQueueTypeOK
    <3>2. GoRequestTypeOK'
      BY <2>22, <2>0, GoFaultAssumption DEF RestartBlind, DbFault, GoRequestTypeOK, storeVars
    <3>3. GoRunTypeOK'
      BY <2>22, <2>0, RunsUndisturbed DEF RestartBlind, StartWith, storeVars
    <3> QED
      BY <2>22, <2>a, <3>1, <3>2, <3>3 DEF RestartBlind, TypeOK
  <2>23. CASE Killed
    <3>1. GoQueueTypeOK'
      <4>1. PICK orphans \in SUBSET Responses : QueueDies(orphans)
        BY <2>23 DEF Killed
      <4>2. ch' = <<>> /\ Len(<<>>) = 0 /\ ch' \in Seq(Job)
        BY <4>1 DEF QueueDies
      <4>3. /\ pc' \in [Workers -> WorkerPc] /\ held' \in [Workers -> Responses \cup {None}]
            /\ \A w \in Workers : pc'[w] = "idle" /\ held'[w] = None
            /\ attempts' \in [Workers -> 0 .. 2]
        BY <4>1 DEF QueueDies, WorkerPc
      <4>4. sleeping' \in [Retries -> Nat]
        BY <4>1 DEF QueueDies
      <4>5. /\ server' = "down" /\ recovering' = {} /\ lost' = lost \cup orphans
            /\ stops' = stops + 1 /\ stops < MaxStops
            /\ UNCHANGED <<settled, jobs, runs>>
        BY <4>1 DEF QueueDies
      <4>6. Len(ch') <= QueueCap /\ stops' \in 0 .. MaxStops
        BY <4>2, <4>5, <2>0, GoQueueAssumption DEF GoQueueTypeOK
      <4>7. /\ lost' \subseteq Responses /\ settled' \subseteq Responses
            /\ jobs' \in [Responses -> Nat] /\ runs' \in [Responses -> Nat]
            /\ server' = "down" /\ recovering' \subseteq Responses
        BY <4>5, <2>0 DEF GoQueueTypeOK
      <4>8. /\ \A w \in Workers : held'[w] = None <=> pc'[w] \in {"idle", "gone"}
            /\ \A w \in Workers : pc'[w] = "gone" => server' = "stopping"
        BY <4>3
      <4> QED
        BY <4>2, <4>3, <4>4, <4>6, <4>7, <4>8 DEF GoQueueTypeOK
    <3>2. GoRequestTypeOK'
      BY <2>23, <2>0 DEF Killed, GoRequestTypeOK, SlotPc, UpPc, storeVars
    <3>3. GoRunTypeOK'
      BY <2>23, <2>0 DEF Killed, QueueDies, GoRunTypeOK
    <3> QED
      BY <2>23, <2>a, <3>1, <3>2, <3>3 DEF Killed, TypeOK
  <2>24. CASE UNCHANGED vars
    BY <2>24, <2>0, <2>a, <2>b, <2>c, RunsUndisturbed
       DEF vars, TypeOK, storeVars, goQueueVars
  <2> QED
    BY <2>1, <2>2, <2>3, <2>4, <2>5, <2>6, <2>7, <2>8, <2>9, <2>10, <2>11, <2>12,
       <2>13, <2>14, <2>15, <2>16, <2>17, <2>18, <2>19, <2>20, <2>21, <2>22, <2>23,
       <2>24 DEF Next, Work, Run, Handle
<1> QED
  BY <1>1, <1>2, PTL DEF Spec

-----------------------------------------------------------------------------
(* Refinement of WorkQueue: the line is the channel's responses, in order, *)
(* and what a worker runs is what it holds.                                *)

\* The responses of a sequence of jobs: what GoPipeline substitutes for line.
RespsOf(s) == [i \in DOMAIN s |-> s[i].resp]

\* It is a sequence of responses as long as the sequence of jobs.
LEMMA RespsOfSeq ==
  ASSUME NEW s \in Seq(Job)
  PROVE  /\ RespsOf(s) \in Seq(Responses)
         /\ Len(RespsOf(s)) = Len(s)
         /\ \A i \in 1 .. Len(s) : RespsOf(s)[i] = s[i].resp
<1>1. Len(s) \in Nat /\ DOMAIN s = 1 .. Len(s)
  OBVIOUS
<1>2. \A job \in Job : job.resp \in Responses
  BY DEF Job
<1>3. \A i \in 1 .. Len(s) : s[i] \in Job
  BY ElementOfSeq
<1>4. RespsOf(s) \in [1 .. Len(s) -> Responses]
  BY <1>1, <1>2, <1>3 DEF RespsOf
<1>5. RespsOf(s) \in Seq(Responses)
  BY <1>1, <1>4, SeqDef
<1> QED
  BY <1>1, <1>4, <1>5 DEF RespsOf

\* Forgetting the attempts of jobs commutes with sending and receiving.
LEMMA RespsOfFacts ==
  ASSUME NEW s \in Seq(Job)
  PROVE  /\ \A job \in Job : RespsOf(Append(s, job)) = Append(RespsOf(s), job.resp)
         /\ s # <<>> => /\ RespsOf(s) # <<>>
                        /\ Head(RespsOf(s)) = Head(s).resp
                        /\ RespsOf(Tail(s)) = Tail(RespsOf(s))
<1>1. Len(s) \in Nat
  OBVIOUS
<1>2. ASSUME NEW job \in Job
      PROVE  RespsOf(Append(s, job)) = Append(RespsOf(s), job.resp)
  <2>1. /\ Append(s, job) \in Seq(Job) /\ Len(Append(s, job)) = Len(s) + 1
        /\ \A i \in 1 .. Len(s) : Append(s, job)[i] = s[i]
        /\ Append(s, job)[Len(s) + 1] = job
    OBVIOUS
  <2>2. job.resp \in Responses
    BY DEF Job
  <2>3. /\ Append(RespsOf(s), job.resp) \in Seq(Responses)
        /\ Len(Append(RespsOf(s), job.resp)) = Len(s) + 1
        /\ \A i \in 1 .. Len(s) : Append(RespsOf(s), job.resp)[i] = s[i].resp
        /\ Append(RespsOf(s), job.resp)[Len(s) + 1] = job.resp
    BY <1>1, <2>2, RespsOfSeq
  <2>4. /\ RespsOf(Append(s, job)) \in Seq(Responses)
        /\ Len(RespsOf(Append(s, job))) = Len(s) + 1
        /\ \A i \in 1 .. Len(s) + 1 : RespsOf(Append(s, job))[i] = Append(s, job)[i].resp
    BY <2>1, RespsOfSeq
  <2>5. \A i \in 1 .. Len(s) + 1 :
            RespsOf(Append(s, job))[i] = Append(RespsOf(s), job.resp)[i]
    BY <1>1, <2>1, <2>3, <2>4
  <2> QED
    BY <2>3, <2>4, <2>5, SeqEqual
<1>3. ASSUME s # <<>>
      PROVE  /\ RespsOf(s) # <<>>
             /\ Head(RespsOf(s)) = Head(s).resp
             /\ RespsOf(Tail(s)) = Tail(RespsOf(s))
  <2>1. /\ Len(s) \in Nat \ {0} /\ Head(s) = s[1]
        /\ Tail(s) \in Seq(Job) /\ Len(Tail(s)) = Len(s) - 1
        /\ \A i \in 1 .. Len(s) - 1 : Tail(s)[i] = s[i + 1]
    BY <1>3, HeadTailProperties
  <2>2. RespsOf(s) # <<>> /\ Head(RespsOf(s)) = Head(s).resp
    BY <2>1, RespsOfSeq
  <2>3. /\ Tail(RespsOf(s)) \in Seq(Responses)
        /\ Len(Tail(RespsOf(s))) = Len(s) - 1
        /\ \A i \in 1 .. Len(s) - 1 : Tail(RespsOf(s))[i] = RespsOf(s)[i + 1]
    BY <2>2, RespsOfSeq, HeadTailProperties
  <2>4. /\ RespsOf(Tail(s)) \in Seq(Responses)
        /\ Len(RespsOf(Tail(s))) = Len(s) - 1
        /\ \A i \in 1 .. Len(s) - 1 : RespsOf(Tail(s))[i] = Tail(s)[i].resp
    BY <2>1, RespsOfSeq
  <2>5. \A i \in 1 .. Len(s) - 1 : RespsOf(s)[i + 1] = s[i + 1].resp
    BY <1>1, RespsOfSeq
  <2>6. \A i \in 1 .. Len(s) - 1 : RespsOf(Tail(s))[i] = Tail(RespsOf(s))[i]
    BY <2>1, <2>3, <2>4, <2>5
  <2> QED
    BY <2>2, <2>3, <2>4, <2>6, SeqEqual
<1> QED
  BY <1>2, <1>3

\* The lines and runners of a step that touches neither.
LEMMA IdleLine ==
  UNCHANGED <<ch, held>> => UNCHANGED WQ!wqVars
  BY DEF WQ!wqVars

\* The channel refines the line: an upload's, a recovery's and a repeated job
\* join at the end or not at all, a worker takes the head, gives a response up
\* only at the end of its run, and only the death of the process empties the
\* channel -- for any number of workers and any capacity.
THEOREM ChannelIsWorkQueue == Spec => ImplementsWorkQueue
<1> USE DEF RespsOf
<1>1. Init => WQ!Init
  BY DEF Init, GoQueueInit, WQ!Init
<1>2. TypeOK /\ [Next]_vars => [WQ!Next]_(WQ!wqVars)
  <2> SUFFICES ASSUME TypeOK, [Next]_vars
               PROVE  WQ!Next \/ UNCHANGED WQ!wqVars
    OBVIOUS
  <2>0. /\ ch \in Seq(Job)
        /\ \A w \in Workers : pc[w] \notin {"idle", "gone"} => held[w] # None
        /\ \A w \in Workers : pc[w] = "idle" => held[w] = None
    BY DEF TypeOK, GoQueueTypeOK
  <2>1. ASSUME NEW job \in Job, Len(ch) < QueueCap, ch' = Append(ch, job), UNCHANGED held
        PROVE  WQ!Accept(job.resp)
    <3>1. RespsOf(ch') = Append(RespsOf(ch), job.resp)
      BY <2>0, <2>1, RespsOfFacts
    <3>2. Len(RespsOf(ch)) < QueueCap
      BY <2>0, <2>1, RespsOfSeq
    <3> QED
      BY <2>1, <3>1, <3>2 DEF WQ!Accept
  <2>2. ASSUME NEW r \in Responses, Enqueue(r), UNCHANGED held
        PROVE  WQ!Next \/ UNCHANGED WQ!wqVars
    <3>1. [resp |-> r, attempts |-> 0] \in Job /\ [resp |-> r, attempts |-> 0].resp = r
      BY DEF Job
    <3>2. CASE Len(ch) < QueueCap /\ ch' = Append(ch, [resp |-> r, attempts |-> 0])
      BY <3>1, <3>2, <2>1, <2>2 DEF WQ!Next
    <3>3. CASE UNCHANGED ch
      BY <3>3, <2>2, IdleLine
    <3> QED
      BY <2>2, <3>2, <3>3 DEF Enqueue
  <2>3. ASSUME NEW w \in Workers, pc[w] \notin {"idle", "gone"}, UNCHANGED ch,
               held' = [held EXCEPT ![w] = None]
        PROVE  WQ!Next
    BY <2>0, <2>3 DEF WQ!Next, WQ!Done
  <2>4. ASSUME NEW w \in Workers, Run(w)
        PROVE  WQ!Next \/ UNCHANGED WQ!wqVars
    <3>1. CASE LoadFails(w)
      BY <3>1, <2>3 DEF LoadFails, RunFails
    <3>2. CASE Finish(w)
      BY <3>2, <2>3 DEF Finish, Release
    <3>3. CASE ~LoadFails(w) /\ ~Finish(w)
      <4>1. UNCHANGED <<ch, held>>
        BY <2>4, <3>3
           DEF Run, Load, MarkPassed, Convert, SavePath, Transcribe, MarkTranscribing,
               StoreTranscript, Extract, MarkExtracting, MarkComplete, Advance
      <4> QED
        BY <4>1, IdleLine
    <3> QED
      BY <3>1, <3>2, <3>3
  <2>5. ASSUME NEW w \in Workers, Get(w)
        PROVE  WQ!Next
    <3>1. /\ RespsOf(ch) # <<>>
          /\ Head(RespsOf(ch)) = Head(ch).resp
          /\ RespsOf(ch') = Tail(RespsOf(ch))
      BY <2>0, <2>5, RespsOfFacts DEF Get
    <3>2. WQ!Take(w)
      BY <2>0, <2>5, <3>1 DEF Get, WQ!Take
    <3> QED
      BY <3>2 DEF WQ!Next
  <2>6. ASSUME NEW job \in Retries, WakeUp(job)
        PROVE  WQ!Next \/ UNCHANGED WQ!wqVars
    <3>1. job \in Job /\ job.resp \in Responses
      BY DEF Retries, Job
    <3>2. CASE Len(ch) < QueueCap /\ ch' = Append(ch, job)
      <4>1. UNCHANGED held
        BY <2>6 DEF WakeUp, Wake
      <4> QED
        BY <3>1, <3>2, <4>1, <2>1 DEF WQ!Next
    <3>3. CASE UNCHANGED ch
      BY <3>3, <2>6, IdleLine DEF WakeUp, Wake
    <3> QED
      BY <2>6, <3>2, <3>3 DEF WakeUp, Wake
  <2>7. ASSUME Handle
        PROVE  WQ!Next \/ UNCHANGED WQ!wqVars
    <3>1. ASSUME NEW u \in Uploads, UploadEnqueue(u)
          PROVE  WQ!Next \/ UNCHANGED WQ!wqVars
      <4>1. upFor[u] \in Responses
        BY <3>1 DEF UploadEnqueue, TypeOK, GoRequestTypeOK, UpPc
      <4> QED
        BY <3>1, <4>1, <2>2 DEF UploadEnqueue
    <3>2. CASE ~ \E u \in Uploads : UploadEnqueue(u)
      <4>1. UNCHANGED <<ch, held>>
        BY <2>7, <3>2
           DEF Handle, SlotLookup, SlotStore, UploadWrite, UploadMark, Review, goQueueVars
      <4> QED
        BY <4>1, IdleLine
    <3> QED
      BY <3>1, <3>2
  <2>8. ASSUME Life
        PROVE  WQ!Next \/ UNCHANGED WQ!wqVars
    <3>1. ASSUME NEW r \in Responses, Recover(r)
          PROVE  WQ!Next \/ UNCHANGED WQ!wqVars
      BY <3>1, <2>2 DEF Recover
    <3>2. CASE ~ \E r \in Responses : Recover(r)
      <4>1. UNCHANGED <<ch, held>>
        BY <2>8, <3>2 DEF Life, Restart, StartWith, Serve, Shutdown, Leave
      <4> QED
        BY <4>1, IdleLine
    <3> QED
      BY <3>1, <3>2
  <2>9. CASE RestartBlind
    BY <2>9, IdleLine DEF RestartBlind, StartWith
  <2>10. CASE Killed
    <3>1. RespsOf(ch') = <<>>
      BY <2>10 DEF Killed, QueueDies
    <3>2. WQ!Die
      BY <2>10, <3>1 DEF Killed, QueueDies, WQ!Die
    <3> QED
      BY <3>2 DEF WQ!Next
  <2>11. CASE UNCHANGED vars
    BY <2>11, IdleLine DEF vars, goQueueVars
  <2> QED
    BY <2>4, <2>5, <2>6, <2>7, <2>8, <2>9, <2>10, <2>11 DEF Next, Work
<1> QED
  BY <1>1, <1>2, TypeCorrect, PTL DEF Spec, ImplementsWorkQueue, WQ!Spec

-----------------------------------------------------------------------------
(* Where the work for a response is.                                       *)

\* Somebody is still going to write COMPLETE over the row of r.
Covered(r) ==
    \/ r \in lost \cup skipped
    \/ Queued(r) \/ Sleeping(r) \/ HandingOver(r)
    \/ \E w \in Workers : held[w] = r /\ pc[w] # "reset"

\* A job for r is in the channel, asleep or with a worker.
InHand(r) == Queued(r) \/ Sleeping(r) \/ Held(r)

\* The inductive invariant behind the three properties about work.
WorkInvAt(r) ==
    /\ Mid(r) => Covered(r)
    /\ respStatus[r] = "PROCESSING" => r \in lost \cup skipped \/ InHand(r)
    /\ r \in settled => respStatus[r] \in Verdicts /\ ~InHand(r)

WorkInv == \A r \in Responses : WorkInvAt(r)

\* A run moves on inside Process(), whatever it does to the row of the
\* response it works for: the work stays where it is.
LEMMA AdvanceKeepsWork ==
  ASSUME GoQueueTypeOK, NEW w \in Workers, NEW to \in WorkerPc \ {"idle", "gone"},
         pc[w] \notin {"idle", "gone"}, Advance(w, to), UNCHANGED <<upPc, upFor>>,
         skipped \subseteq skipped',
         \A q \in Responses \ {held[w]} : /\ jobStatus'[q] = jobStatus[q]
                                          /\ respStatus'[q] = respStatus[q],
         to = "reset" => ~Mid(held[w])' \/ held[w] \in skipped',
         NEW r \in Responses, WorkInvAt(r)
  PROVE  WorkInvAt(r)'
<1>1. /\ pc'[w] = to /\ \A x \in Workers \ {w} : pc'[x] = pc[x]
      /\ UNCHANGED <<held, ch, sleeping, lost, settled>>
  BY DEF Advance, GoQueueTypeOK
<1>2. InHand(r)' <=> InHand(r)
  BY <1>1 DEF InHand, Queued, Sleeping, Held
<1>3. CASE held[w] = r
  <2>1. InHand(r)
    BY <1>3 DEF InHand, Held
  <2>2. to # "reset" => Covered(r)'
    BY <1>1, <1>3 DEF Covered
  <2> QED
    BY <1>1, <1>2, <1>3, <2>1, <2>2 DEF WorkInvAt, Covered
<1>4. CASE held[w] # r
  <2>1. Covered(r) => Covered(r)'
    BY <1>1, <1>4 DEF Covered, Queued, Sleeping, HandingOver
  <2>2. Mid(r)' <=> Mid(r)
    BY <1>4 DEF Mid
  <2> QED
    BY <1>1, <1>2, <1>4, <2>1, <2>2 DEF WorkInvAt
<1> QED
  BY <1>3, <1>4

\* A step that leaves the channel, the workers, the sleepers and both statuses
\* alone moves no work.
LEMMA StillKeepsWork ==
  ASSUME NEW r \in Responses, WorkInvAt(r),
         UNCHANGED <<ch, held, sleeping, lost, settled, skipped, jobStatus, respStatus>>,
         \A w \in Workers : held[w] = r => pc'[w] = pc[w],
         HandingOver(r) => HandingOver(r)'
  PROVE  WorkInvAt(r)'
<1>1. (InHand(r)' <=> InHand(r)) /\ (Mid(r)' <=> Mid(r))
  BY DEF InHand, Queued, Sleeping, Held, Mid
<1>2. Covered(r) => Covered(r)'
  BY DEF Covered, Queued, Sleeping
<1> QED
  BY <1>1, <1>2 DEF WorkInvAt

\* Handing a job to the channel or dropping it, by an upload or the recovery.
LEMMA EnqueueKeepsWork ==
  ASSUME GoQueueTypeOK, NEW q \in Responses, Enqueue(q),
         UNCHANGED <<pc, held, sleeping, skipped, jobStatus, respStatus>>,
         NEW r \in Responses, WorkInvAt(r),
         HandingOver(r) => HandingOver(r)' \/ r = q
  PROVE  WorkInvAt(r)'
<1>1. /\ Queued(r) => Queued(r)'
      /\ Queued(r)' => Queued(r) \/ r = q
      /\ q \in lost' \/ Queued(q)'
      /\ r # q => (r \in lost' <=> r \in lost)
      /\ r \in settled' => r \in settled
      /\ q \in settled' => UNCHANGED ch
  BY EnqueueFacts DEF GoQueueTypeOK
<1>2. /\ Held(r)' <=> Held(r)
      /\ Sleeping(r)' <=> Sleeping(r)
      /\ Mid(r)' <=> Mid(r)
  BY DEF Held, Sleeping, Mid
<1>3. Covered(r) => Covered(r)'
  BY <1>1, <1>2 DEF Covered
<1>4. r \in settled' => (InHand(r)' <=> InHand(r))
  BY <1>1, <1>2 DEF InHand, Queued
<1>5. r \in lost \/ InHand(r) => r \in lost' \/ InHand(r)'
  BY <1>1, <1>2 DEF InHand
<1> QED
  BY <1>1, <1>2, <1>3, <1>4, <1>5 DEF WorkInvAt

\* Every step of a run, a sleeper, a handler and of the life of the process
\* keeps WorkInv.
LEMMA WorkInvStep ==
  ASSUME TypeOK, WorkInv, [Next]_vars
  PROVE  WorkInv'
<1> SUFFICES ASSUME NEW r \in Responses
             PROVE  WorkInvAt(r)'
  BY DEF WorkInv
<1>0. /\ WorkInvAt(r) /\ StoreTypeOK /\ GoQueueTypeOK /\ GoRequestTypeOK
  BY DEF WorkInv, TypeOK
<1>1. ASSUME NEW w \in Workers, Run(w)
      PROVE  WorkInvAt(r)'
  <2>0. pc[w] \notin {"idle", "gone"} /\ held[w] \in Responses
    BY <1>1, <1>0
       DEF Run, Load, LoadFails, MarkPassed, Convert, SavePath, Transcribe,
           MarkTranscribing, StoreTranscript, Extract, MarkExtracting, MarkComplete,
           Finish, GoQueueTypeOK
  <2>1. ASSUME MarkPassed(w) \/ MarkTranscribing(w) \/ MarkExtracting(w) \/ MarkComplete(w)
        PROVE  WorkInvAt(r)'
    <3>1. PICK st \in MidStatus \cup {"COMPLETE"}, to \in WorkerPc \ {"idle", "gone"} :
              /\ Exec(w, SetJobStatus(held[w], st)) /\ Advance(w, to)
              /\ to = "reset" => st = "COMPLETE"
      BY <2>1
         DEF MarkPassed, MarkTranscribing, MarkExtracting, MarkComplete, MidStatus, WorkerPc
    <3>2. /\ UNCHANGED <<upPc, upFor>> /\ skipped \subseteq skipped'
          /\ \A q \in Responses \ {held[w]} : /\ jobStatus'[q] = jobStatus[q]
                                              /\ respStatus'[q] = respStatus[q]
          /\ jobStatus'[held[w]] = st \/ held[w] \in skipped'
      BY <3>1, <1>0, <2>0 DEF Exec, Done, Skip, SetJobStatus, StoreTypeOK, tableVars
    <3>3. to = "reset" => ~Mid(held[w])' \/ held[w] \in skipped'
      BY <3>1, <3>2, <1>0, <2>0 DEF Mid, MidStatus, Advance
    <3> QED
      BY <1>0, <2>0, <3>1, <3>2, <3>3, AdvanceKeepsWork
  <2>2. ASSUME StoreTranscript(w) \/ Extract(w)
        PROVE  WorkInvAt(r)'
    <3>1. PICK to \in {"extracting", "complete"} : Advance(w, to)
      BY <2>2 DEF StoreTranscript, Extract
    <3>2. /\ UNCHANGED <<upPc, upFor>> /\ skipped \subseteq skipped'
          /\ \A q \in Responses \ {held[w]} : /\ jobStatus'[q] = jobStatus[q]
                                              /\ respStatus'[q] = respStatus[q]
      BY <2>2, <1>0, <2>0
         DEF StoreTranscript, Extract, Exec, Done, Skip, SetTranscript, SetAnswer,
             StoreTypeOK, tableVars, storeVars, requestVars
    <3> QED
      BY <1>0, <2>0, <3>1, <3>2, AdvanceKeepsWork DEF WorkerPc
  <2>3. ASSUME Load(w) \/ Convert(w) \/ SavePath(w) \/ Transcribe(w)
        PROVE  WorkInvAt(r)'
    <3>1. PICK to \in {"passed", "save", "transcribing", "complete", "scribe"} : Advance(w, to)
      BY <2>3 DEF Load, Convert, SavePath, Transcribe, AfterConvert
    <3>2. /\ UNCHANGED <<upPc, upFor>> /\ skipped \subseteq skipped'
          /\ \A q \in Responses : /\ jobStatus'[q] = jobStatus[q]
                                  /\ respStatus'[q] = respStatus[q]
      BY <2>3, <1>0, <2>0
         DEF Load, Convert, SavePath, Transcribe, Skip, SetJobPath, StoreTypeOK,
             tableVars, storeVars, requestVars
    <3> QED
      BY <1>0, <2>0, <3>1, <3>2, AdvanceKeepsWork DEF WorkerPc
  <2>4. ASSUME LoadFails(w)
        PROVE  WorkInvAt(r)'
    <3> DEFINE job == [resp |-> held[w], attempts |-> attempts[w] + 1]
    <3>1. /\ held' = [held EXCEPT ![w] = None] /\ pc' = [pc EXCEPT ![w] = "idle"]
          /\ UNCHANGED <<ch, settled, skipped, jobStatus, respStatus, upPc, upFor>>
          /\ lost \subseteq lost'
      BY <2>4 DEF LoadFails, RunFails, storeVars
    <3>2. /\ \A j \in Retries : sleeping[j] > 0 => sleeping'[j] > 0
          /\ \A j \in Retries : sleeping'[j] > 0 => sleeping[j] > 0 \/ j.resp = held[w]
          /\ held[w] \in lost' \/ \E j \in Retries : j.resp = held[w] /\ sleeping'[j] > 0
      <4>1. attempts[w] \in 0 .. 2
        BY <1>0 DEF GoQueueTypeOK
      <4>2. CASE attempts[w] + 1 >= 3
        <5>1. lost' = lost \cup {held[w]} /\ UNCHANGED sleeping
          BY <2>4, <4>1, <4>2 DEF LoadFails, RunFails
        <5> QED
          BY <5>1
      <4>3. CASE attempts[w] + 1 < 3
        <5>1. sleeping' = [sleeping EXCEPT ![job] = sleeping[job] + 1]
          BY <2>4, <4>1, <4>3 DEF LoadFails, RunFails
        <5>2. job \in Retries /\ job.resp = held[w]
          BY <4>1, <4>3, <2>0 DEF Retries
        <5> HIDE DEF job
        <5>3. /\ sleeping \in [Retries -> Nat]
              /\ sleeping'[job] = sleeping[job] + 1
              /\ \A j \in Retries \ {job} : sleeping'[j] = sleeping[j]
          BY <5>1, <5>2, <1>0 DEF GoQueueTypeOK
        <5>4. \A j \in Retries : sleeping[j] \in Nat
          BY <5>3
        <5>5. sleeping'[job] > 0
          BY <5>2, <5>3, <5>4
        <5>6. \A j \in Retries : sleeping[j] > 0 => sleeping'[j] > 0
          BY <5>3, <5>5
        <5>7. \A j \in Retries : sleeping'[j] > 0 => sleeping[j] > 0 \/ j.resp = held[w]
          BY <5>2, <5>3
        <5> QED
          BY <5>2, <5>5, <5>6, <5>7
      <4> QED
        BY <4>1, <4>2, <4>3
    <3>3. Sleeping(r) => Sleeping(r)'
      BY <3>2 DEF Sleeping
    <3>4. /\ \A x \in Workers \ {w} : held'[x] = held[x] /\ pc'[x] = pc[x]
          /\ held'[w] = None
      BY <3>1, <1>0 DEF GoQueueTypeOK
    <3>5. CASE held[w] = r
      <4>1. InHand(r)
        BY <3>5 DEF InHand, Held
      <4>2. r \notin settled'
        BY <1>0, <3>1, <4>1 DEF WorkInvAt
      <4>3. r \in lost' \/ Sleeping(r)'
        BY <3>2, <3>5 DEF Sleeping
      <4>4. Covered(r)' /\ (r \in lost' \cup skipped' \/ InHand(r)')
        BY <4>3 DEF Covered, InHand
      <4> QED
        BY <4>2, <4>4 DEF WorkInvAt
    <3>6. CASE held[w] # r
      <4>1. Held(r)' <=> Held(r)
        BY <3>4, <3>6, StorageAssumption DEF Held
      <4>2. Sleeping(r)' => Sleeping(r)
        BY <3>2, <3>6 DEF Sleeping
      <4>3. (Queued(r)' <=> Queued(r)) /\ (HandingOver(r)' <=> HandingOver(r))
        BY <3>1 DEF Queued, HandingOver
      <4>4. Covered(r) => Covered(r)'
        BY <3>1, <3>3, <3>4, <3>6, <4>3 DEF Covered
      <4>5. InHand(r)' <=> InHand(r)
        BY <3>3, <4>1, <4>2, <4>3 DEF InHand
      <4> QED
        BY <1>0, <3>1, <4>4, <4>5 DEF WorkInvAt, Mid
    <3> QED
      BY <3>5, <3>6
  <2>5. ASSUME Finish(w)
        PROVE  WorkInvAt(r)'
    <3>1. /\ \A x \in Workers \ {w} : held'[x] = held[x] /\ pc'[x] = pc[x]
          /\ held'[w] = None /\ pc[w] = "reset"
          /\ UNCHANGED <<ch, sleeping, lost, settled, upPc, upFor, jobStatus>>
          /\ skipped \subseteq skipped'
      BY <2>5, <1>0
         DEF Finish, Release, Done, Skip, ResubmitIfProcessing, GoQueueTypeOK, tableVars
    <3>2. /\ Queued(r)' <=> Queued(r)
          /\ Sleeping(r)' <=> Sleeping(r)
          /\ HandingOver(r)' <=> HandingOver(r)
          /\ Mid(r)' <=> Mid(r)
      BY <3>1 DEF Queued, Sleeping, HandingOver, Mid
    <3>3. Covered(r) => Covered(r)'
      BY <3>1, <3>2 DEF Covered
    <3>4. CASE held[w] = r
      <4>1. InHand(r)
        BY <3>4 DEF InHand, Held
      <4>2. respStatus'[r] # "PROCESSING" \/ r \in skipped'
        BY <2>5, <1>0, <3>4 DEF Finish, Done, Skip, ResubmitIfProcessing, StoreTypeOK
      <4> QED
        BY <1>0, <3>1, <3>2, <3>3, <4>1, <4>2 DEF WorkInvAt
    <3>5. CASE held[w] # r
      <4>1. Held(r)' <=> Held(r)
        BY <3>1, <3>5, StorageAssumption DEF Held
      <4>2. respStatus'[r] = respStatus[r]
        BY <2>5, <1>0, <2>0, <3>5
           DEF Finish, Done, Skip, ResubmitIfProcessing, StoreTypeOK, tableVars
      <4>3. InHand(r)' <=> InHand(r)
        BY <3>2, <4>1 DEF InHand
      <4> QED
        BY <1>0, <3>1, <3>2, <3>3, <4>2, <4>3 DEF WorkInvAt
    <3> QED
      BY <3>4, <3>5
  <2> QED
    BY <1>1, <2>1, <2>2, <2>3, <2>4, <2>5 DEF Run
<1>2. ASSUME NEW w \in Workers, Get(w), UNCHANGED <<storeVars, requestVars, runVars>>
      PROVE  WorkInvAt(r)'
  <2>1. /\ Head(ch) \in Job
        /\ Queued(Head(ch).resp)
        /\ Queued(r)' => Queued(r)
        /\ Queued(r) => Queued(r)' \/ r = Head(ch).resp
    BY <1>0, <1>2, ReceiveFacts DEF Get, GoQueueTypeOK
  <2>2. /\ pc[w] = "idle" /\ held[w] = None
        /\ pc'[w] = "load" /\ held'[w] = Head(ch).resp
        /\ \A x \in Workers \ {w} : pc'[x] = pc[x] /\ held'[x] = held[x]
        /\ UNCHANGED <<sleeping, lost, settled, skipped, jobStatus, respStatus, upPc, upFor>>
    BY <1>0, <1>2 DEF Get, GoQueueTypeOK, storeVars, requestVars
  <2>3. r = Head(ch).resp => Held(r)' /\ \E x \in Workers : held'[x] = r /\ pc'[x] # "reset"
    BY <2>2 DEF Held
  <2>4. r # Head(ch).resp => (Held(r)' <=> Held(r))
    BY <2>2, StorageAssumption DEF Held
  <2>5. Held(r) => Held(r)'
    BY <2>2, StorageAssumption DEF Held
  <2>6. (\E x \in Workers : held[x] = r /\ pc[x] # "reset")
          => \E x \in Workers : held'[x] = r /\ pc'[x] # "reset"
    BY <2>2, StorageAssumption
  <2>7. (Sleeping(r)' <=> Sleeping(r)) /\ (HandingOver(r)' <=> HandingOver(r))
        /\ (Mid(r)' <=> Mid(r))
    BY <2>2 DEF Sleeping, HandingOver, Mid
  <2>8. InHand(r)' <=> InHand(r)
    BY <2>1, <2>3, <2>4, <2>5, <2>7 DEF InHand
  <2>9. Covered(r) => Covered(r)'
    BY <2>1, <2>2, <2>3, <2>6, <2>7 DEF Covered
  <2> QED
    BY <1>0, <2>2, <2>7, <2>8, <2>9 DEF WorkInvAt
<1>3. ASSUME NEW job \in Retries, WakeUp(job)
      PROVE  WorkInvAt(r)'
  <2>1. job \in Job /\ job.resp \in Responses
    BY DEF Retries, Job
  <2>2. /\ sleeping[job] > 0 /\ sleeping' = [sleeping EXCEPT ![job] = sleeping[job] - 1]
        /\ UNCHANGED <<pc, held, settled, skipped, jobStatus, respStatus, upPc, upFor>>
    BY <1>3 DEF WakeUp, Wake, storeVars, requestVars
  <2>3. /\ Queued(r) => Queued(r)'
        /\ Queued(r)' => Queued(r) \/ r = job.resp
        /\ job.resp \in lost' \/ Queued(job.resp)'
        /\ lost \subseteq lost'
    <3>1. CASE Len(ch) < QueueCap /\ ch' = Append(ch, job) /\ UNCHANGED lost
      BY <1>0, <2>1, <3>1, SendFacts DEF GoQueueTypeOK
    <3>2. CASE lost' = lost \cup {job.resp} /\ UNCHANGED ch
      BY <3>2 DEF Queued
    <3> QED
      BY <1>3, <3>1, <3>2 DEF WakeUp, Wake
  <2>4. /\ \A j \in Retries \ {job} : sleeping'[j] = sleeping[j]
        /\ sleeping'[job] > 0 => sleeping[job] > 0
    BY <2>2, <1>0 DEF GoQueueTypeOK
  <2>5. Sleeping(job.resp)
    BY <2>2 DEF Sleeping
  <2>6. /\ Sleeping(r)' => Sleeping(r)
        /\ Sleeping(r) => Sleeping(r)' \/ r = job.resp
    BY <2>4 DEF Sleeping
  <2>7. (Held(r)' <=> Held(r)) /\ (HandingOver(r)' <=> HandingOver(r)) /\ (Mid(r)' <=> Mid(r))
    BY <2>2 DEF Held, HandingOver, Mid
  <2>8. Covered(r) => Covered(r)'
    BY <2>2, <2>3, <2>6, <2>7 DEF Covered
  <2>9. /\ InHand(r)' => InHand(r)
        /\ r \in lost \/ InHand(r) => r \in lost' \/ InHand(r)'
    BY <2>3, <2>5, <2>6, <2>7 DEF InHand
  <2> QED
    BY <1>0, <2>2, <2>3, <2>7, <2>8, <2>9 DEF WorkInvAt
<1>4. ASSUME NEW s \in Slots, NEW q \in Responses, SlotLookup(s, q)
      PROVE  WorkInvAt(r)'
  BY <1>0, <1>4, StillKeepsWork DEF SlotLookup, HandingOver, storeVars, goQueueVars
<1>5. ASSUME NEW s \in Slots, SlotStore(s)
      PROVE  WorkInvAt(r)'
  <2>1. slotFor[s] \in Responses
    BY <1>0, <1>5 DEF SlotStore, GoRequestTypeOK
  <2>2. /\ UNCHANGED <<ch, pc, held, sleeping, lost, settled, upPc, upFor, respStatus>>
        /\ skipped \subseteq skipped'
        /\ jobStatus'[r] = jobStatus[r] \/ jobStatus'[r] = "UPLOADING"
    BY <1>0, <1>5, <2>1
       DEF SlotStore, SetJobPath, Skip, StoreTypeOK, goQueueVars, tableVars
  <2>3. (InHand(r)' <=> InHand(r)) /\ (Covered(r) => Covered(r)') /\ (Mid(r)' => Mid(r))
    BY <2>2 DEF InHand, Covered, Queued, Sleeping, Held, HandingOver, Mid, MidStatus
  <2> QED
    BY <1>0, <2>2, <2>3 DEF WorkInvAt
<1>6. ASSUME NEW u \in Uploads, NEW s \in Slots, UploadWrite(u, s)
      PROVE  WorkInvAt(r)'
  <2>1. /\ UNCHANGED <<ch, pc, held, sleeping, lost, settled, skipped, jobStatus, respStatus>>
        /\ upPc[u] = "new" /\ \A v \in Uploads \ {u} : upPc'[v] = upPc[v] /\ upFor'[v] = upFor[v]
    BY <1>0, <1>6 DEF UploadWrite, GoRequestTypeOK, goQueueVars, tableVars
  <2>2. HandingOver(r) => HandingOver(r)'
    BY <2>1 DEF HandingOver
  <2> QED
    BY <1>0, <2>1, <2>2, StillKeepsWork
<1>7. ASSUME NEW u \in Uploads, UploadMark(u)
      PROVE  WorkInvAt(r)'
  <2>1. /\ upFor[u] \in Responses /\ upPc[u] = "mark"
        /\ upPc'[u] = "enqueue" /\ upFor' = upFor
        /\ \A v \in Uploads \ {u} : upPc'[v] = upPc[v]
    BY <1>0, <1>7 DEF UploadMark, GoRequestTypeOK
  <2>2. /\ UNCHANGED <<ch, pc, held, sleeping, lost, settled, respStatus>>
        /\ skipped \subseteq skipped'
        /\ upFor[u] # r => jobStatus'[r] = jobStatus[r]
    BY <1>0, <1>7, <2>1
       DEF UploadMark, SetJobPath, Skip, StoreTypeOK, goQueueVars, tableVars
  <2>3. InHand(r)' <=> InHand(r)
    BY <2>2 DEF InHand, Queued, Sleeping, Held
  <2>4. upFor[u] = r => Covered(r)'
    BY <2>1 DEF Covered, HandingOver
  <2>5. Covered(r) => Covered(r)'
    BY <2>1, <2>2 DEF Covered, Queued, Sleeping, HandingOver
  <2> QED
    BY <1>0, <2>2, <2>3, <2>4, <2>5 DEF WorkInvAt, Mid
<1>8. ASSUME NEW u \in Uploads, UploadEnqueue(u)
      PROVE  WorkInvAt(r)'
  <2>1. /\ upFor[u] \in Responses /\ upPc[u] = "enqueue" /\ upFor' = upFor
        /\ \A v \in Uploads \ {u} : upPc'[v] = upPc[v]
    BY <1>0, <1>8 DEF UploadEnqueue, GoRequestTypeOK, UpPc
  <2>2. HandingOver(r) => HandingOver(r)' \/ r = upFor[u]
    BY <2>1 DEF HandingOver
  <2> QED
    BY <1>0, <1>8, <2>1, <2>2, EnqueueKeepsWork DEF UploadEnqueue, storeVars
<1>9. ASSUME NEW q \in Responses, NEW v \in Verdicts, Review(q, v)
      PROVE  WorkInvAt(r)'
  <2>1. /\ UNCHANGED <<ch, pc, held, sleeping, lost, skipped, upPc, upFor, jobStatus>>
        /\ respStatus' = [respStatus EXCEPT ![q] = v]
        /\ settled' = IF Outstanding(q) THEN settled \ {q} ELSE settled \cup {q}
    BY <1>9 DEF Review, SetVerdict, requestVars
  <2>2. /\ InHand(r)' <=> InHand(r)
        /\ Covered(r)' <=> Covered(r)
        /\ Mid(r)' <=> Mid(r)
    BY <2>1 DEF InHand, Covered, Queued, Sleeping, Held, HandingOver, Mid
  <2>3. respStatus'[r] = IF q = r THEN v ELSE respStatus[r]
    BY <1>0, <2>1 DEF StoreTypeOK
  <2>4. v # "PROCESSING" /\ v \in Verdicts
    BY DEF Verdicts
  <2>5. CASE Outstanding(q)
    BY <1>0, <2>1, <2>2, <2>3, <2>4, <2>5 DEF WorkInvAt
  <2>6. CASE ~Outstanding(q)
    <3>1. ~InHand(q)
      BY <2>6 DEF Outstanding, InHand
    <3> QED
      BY <1>0, <2>1, <2>2, <2>3, <2>4, <2>6, <3>1 DEF WorkInvAt
  <2> QED
    BY <2>5, <2>6
<1>10. ASSUME Life, UNCHANGED <<storeVars, requestVars, runVars>>
       PROVE  WorkInvAt(r)'
  <2>1. HandingOver(r)' <=> HandingOver(r)
    BY <1>10 DEF HandingOver, requestVars
  <2>2. CASE Restart \/ Serve \/ Shutdown
    BY <1>0, <1>10, <2>1, <2>2, StillKeepsWork
       DEF Restart, StartWith, Serve, Shutdown, storeVars, requestVars
  <2>3. ASSUME NEW q \in Responses, Recover(q)
        PROVE  WorkInvAt(r)'
    BY <1>0, <1>10, <2>1, <2>3, EnqueueKeepsWork DEF Recover, storeVars, requestVars
  <2>4. ASSUME NEW w \in Workers, Leave(w)
        PROVE  WorkInvAt(r)'
    <3>1. \A x \in Workers : held[x] = r => pc'[x] = pc[x]
      BY <1>0, <2>4, StorageAssumption DEF Leave, GoQueueTypeOK
    <3> QED
      BY <1>0, <1>10, <2>1, <2>4, <3>1, StillKeepsWork DEF Leave, storeVars, requestVars
  <2> QED
    BY <1>10, <2>2, <2>3, <2>4 DEF Life
<1>11. CASE RestartBlind
  BY <1>0, <1>11, StillKeepsWork DEF RestartBlind, StartWith, HandingOver, storeVars
<1>12. CASE Killed
  <2>1. /\ lost' = lost \cup {q \in Responses : Outstanding(q)}
        /\ UNCHANGED <<settled, skipped, jobStatus, respStatus>>
    BY <1>12 DEF Killed, QueueDies, storeVars
  <2>2. ~InHand(r)'
    BY <1>12, StorageAssumption
       DEF Killed, QueueDies, InHand, Queued, Sleeping, Held
  <2>3. Covered(r) \/ InHand(r) => r \in lost' \cup skipped'
    BY <2>1 DEF Covered, InHand, Outstanding, Held
  <2> QED
    BY <1>0, <2>1, <2>2, <2>3 DEF WorkInvAt, Covered, Mid
<1>13. CASE UNCHANGED vars
  BY <1>0, <1>13, StillKeepsWork
     DEF vars, storeVars, goQueueVars, requestVars, HandingOver
<1> QED
  BY <1>1, <1>2, <1>3, <1>4, <1>5, <1>6, <1>7, <1>8, <1>9, <1>10, <1>11, <1>12, <1>13
     DEF Next, Work, Handle

LEMMA WorkInvHolds == Spec => []WorkInv
<1>1. Init => WorkInv
  BY DEF Init, StoreInit, GoQueueInit, WorkInv, WorkInvAt, Mid, MidStatus
<1>2. TypeOK /\ WorkInv /\ [Next]_vars => WorkInv'
  BY WorkInvStep
<1> QED
  BY <1>1, <1>2, TypeCorrect, PTL DEF Spec

\* No announced recording is forgotten: a row between QC_PENDING and COMPLETE
\* has a job, in the channel, asleep, with a worker or about to be sent, unless
\* it is lost or a statement was skipped.
THEOREM NoForgottenJob == Spec => []MidJobHasWork
<1>1. WorkInv => MidJobHasWork
  BY DEF WorkInv, WorkInvAt, Covered, MidJobHasWork
<1> QED
  BY <1>1, WorkInvHolds, PTL

\* A response that is PROCESSING has a job that will end that, with the same
\* exceptions.
THEOREM NoStrayProcessing == Spec => []ProcessingHasWork
<1>1. WorkInv => ProcessingHasWork
  BY DEF WorkInv, WorkInvAt, InHand, ProcessingHasWork
<1> QED
  BY <1>1, WorkInvHolds, PTL

\* A verdict given when no job for the response existed, sleeping ones
\* included, is not overwritten before a new job is queued.
THEOREM SettledVerdictSafe == Spec => []SettledVerdictStands
<1>1. TypeOK /\ WorkInv => SettledVerdictStands
  BY DEF WorkInv, WorkInvAt, SettledVerdictStands, TypeOK, GoQueueTypeOK
<1> QED
  BY <1>1, WorkInvHolds, TypeCorrect, PTL

-----------------------------------------------------------------------------
(* How often a job is run.                                                 *)

\* The places of a sequence of jobs that hold this job.
PlacesOf(s, job) == {i \in DOMAIN s : s[i] = job}

\* Counting the places of a job: a send adds one, a receive takes one away.
LEMMA PlacesFinite ==
  ASSUME NEW s \in Seq(Job), NEW job
  PROVE  /\ IsFiniteSet(PlacesOf(s, job))
         /\ Cardinality(PlacesOf(s, job)) \in Nat
<1>1. PlacesOf(s, job) \in SUBSET (1 .. Len(s)) /\ Len(s) \in Nat
  BY DEF PlacesOf
<1>2. IsFiniteSet(1 .. Len(s))
  BY <1>1, FS_Interval
<1>3. IsFiniteSet(PlacesOf(s, job))
  BY <1>1, <1>2, FS_Subset
<1> QED
  BY <1>3, FS_CardinalityType

LEMMA PlacesAfterSend ==
  ASSUME NEW s \in Seq(Job), NEW job \in Job, NEW sent \in Job
  PROVE  Cardinality(PlacesOf(Append(s, sent), job)) =
           Cardinality(PlacesOf(s, job)) + (IF sent = job THEN 1 ELSE 0)
<1>1. /\ Len(s) \in Nat /\ DOMAIN s = 1 .. Len(s)
      /\ DOMAIN Append(s, sent) = 1 .. Len(s) + 1
      /\ \A i \in 1 .. Len(s) : Append(s, sent)[i] = s[i]
      /\ Append(s, sent)[Len(s) + 1] = sent
  OBVIOUS
<1>2. /\ IsFiniteSet(PlacesOf(s, job)) /\ Cardinality(PlacesOf(s, job)) \in Nat
  BY PlacesFinite
<1>3. CASE sent = job
  <2>1. PlacesOf(Append(s, sent), job) = PlacesOf(s, job) \cup {Len(s) + 1}
    BY <1>1, <1>3 DEF PlacesOf
  <2>2. Len(s) + 1 \notin PlacesOf(s, job)
    BY <1>1 DEF PlacesOf
  <2> QED
    BY <1>2, <1>3, <2>1, <2>2, FS_AddElement
<1>4. CASE sent # job
  <2>1. PlacesOf(Append(s, sent), job) = PlacesOf(s, job)
    BY <1>1, <1>4 DEF PlacesOf
  <2> QED
    BY <1>2, <1>4, <2>1
<1> QED
  BY <1>3, <1>4

LEMMA PlacesAfterReceive ==
  ASSUME NEW s \in Seq(Job), s # <<>>, NEW job \in Job
  PROVE  Cardinality(PlacesOf(s, job)) =
           Cardinality(PlacesOf(Tail(s), job)) + (IF Head(s) = job THEN 1 ELSE 0)
<1> DEFINE Old == PlacesOf(s, job)
           New == PlacesOf(Tail(s), job)
           shift == [i \in New |-> i + 1]
<1>1. /\ Len(s) \in Nat \ {0} /\ DOMAIN s = 1 .. Len(s) /\ Head(s) = s[1]
      /\ Tail(s) \in Seq(Job) /\ DOMAIN Tail(s) = 1 .. Len(s) - 1
      /\ \A i \in 1 .. Len(s) - 1 : Tail(s)[i] = s[i + 1]
  BY HeadTailProperties
<1>2. IsFiniteSet(New) /\ Cardinality(New) \in Nat
  BY <1>1, PlacesFinite
<1>3. shift \in Bijection(New, Old \ {1})
  <2>1. New \subseteq 1 .. Len(s) - 1 /\ Old \subseteq 1 .. Len(s)
    BY <1>1 DEF PlacesOf
  <2>2. \A i \in 1 .. Len(s) - 1 : i \in New <=> i + 1 \in Old
    BY <1>1 DEF PlacesOf
  <2> HIDE DEF New, Old
  <2>3. shift \in [New -> Old \ {1}]
    BY <1>1, <2>1, <2>2
  <2>4. \A i, j \in New : shift[i] = shift[j] => i = j
    BY <2>1
  <2>5. ASSUME NEW k \in Old \ {1} PROVE \E i \in New : shift[i] = k
    <3>1. k - 1 \in 1 .. Len(s) - 1 /\ (k - 1) + 1 = k
      BY <1>1, <2>1
    <3>2. k - 1 \in New
      BY <2>2, <3>1
    <3> QED
      BY <3>1, <3>2
  <2> QED
    BY <2>3, <2>4, <2>5 DEF Bijection, Injection, Surjection, IsInjective
<1>4. ExistsBijection(New, Old \ {1})
  BY <1>3 DEF ExistsBijection
<1>5. Cardinality(Old \ {1}) = Cardinality(New)
  BY <1>2, <1>4, FS_Bijection
<1>6. IsFiniteSet(Old) /\ Cardinality(Old) \in Nat
  BY PlacesFinite
<1>7. 1 \in Old <=> Head(s) = job
  BY <1>1 DEF PlacesOf
<1> HIDE DEF New, Old
<1>8. Cardinality(Old \ {1}) = IF 1 \in Old THEN Cardinality(Old) - 1 ELSE Cardinality(Old)
  BY <1>6, FS_RemoveElement
<1>9. Cardinality(Old) = Cardinality(New) + (IF Head(s) = job THEN 1 ELSE 0)
  BY <1>2, <1>5, <1>6, <1>7, <1>8
<1> QED
  BY <1>9 DEF New, Old

\* The job of r that has failed a times, and the workers that run it.
JobOf(r, a) == [resp |-> r, attempts |-> a]

WithWorkers(r, a) == {w \in Workers : held[w] = r /\ attempts[w] = a}

\* How many runs the jobs of r have left: three for one that has not failed
\* yet, less one for each failure, and one more for each that has begun.
RunsLeft(r) ==
      3 * Cardinality(PlacesOf(ch, JobOf(r, 0)))
    + 2 * Cardinality(PlacesOf(ch, JobOf(r, 1)))
    +     Cardinality(PlacesOf(ch, JobOf(r, 2)))
    + 2 * sleeping[JobOf(r, 1)]
    +     sleeping[JobOf(r, 2)]
    + 2 * Cardinality(WithWorkers(r, 0))
    +     Cardinality(WithWorkers(r, 1))

\* The inductive invariant behind AtMostThreeRuns: the runs begun and the runs
\* left never exceed three for each job.
AccountAt(r) ==
    /\ \A a \in 0 .. 2 : IsFiniteSet(WithWorkers(r, a))
    /\ runs[r] + RunsLeft(r) <= 3 * jobs[r]

Account == \A r \in Responses : AccountAt(r)

\* The terms of RunsLeft are natural numbers.
LEMMA AccountTypes ==
  ASSUME GoQueueTypeOK, NEW r \in Responses, AccountAt(r)
  PROVE  /\ \A a \in 0 .. 2 : /\ JobOf(r, a) \in Job
                              /\ Cardinality(PlacesOf(ch, JobOf(r, a))) \in Nat
                              /\ IsFiniteSet(WithWorkers(r, a))
                              /\ Cardinality(WithWorkers(r, a)) \in Nat
         /\ \A a \in 1 .. 2 : JobOf(r, a) \in Retries /\ sleeping[JobOf(r, a)] \in Nat
         /\ runs[r] \in Nat /\ jobs[r] \in Nat /\ RunsLeft(r) \in Nat
<1>1. \A a \in 0 .. 2 : JobOf(r, a) \in Job
  BY DEF JobOf, Job
<1>2. \A a \in 1 .. 2 : JobOf(r, a) \in Retries
  BY DEF JobOf, Retries
<1>3. ch \in Seq(Job) /\ runs[r] \in Nat /\ jobs[r] \in Nat
  BY DEF GoQueueTypeOK
<1>4. \A a \in 1 .. 2 : sleeping[JobOf(r, a)] \in Nat
  BY <1>2 DEF GoQueueTypeOK
<1>5. \A a \in 0 .. 2 : Cardinality(PlacesOf(ch, JobOf(r, a))) \in Nat
  BY <1>3, PlacesFinite
<1>6. \A a \in 0 .. 2 : /\ IsFiniteSet(WithWorkers(r, a))
                        /\ Cardinality(WithWorkers(r, a)) \in Nat
  BY FS_CardinalityType DEF AccountAt
<1>7. RunsLeft(r) \in Nat
  BY <1>4, <1>5, <1>6 DEF RunsLeft
<1> QED
  BY <1>1, <1>2, <1>3, <1>4, <1>5, <1>6, <1>7

\* A step that touches neither the channel nor who holds what keeps the account.
LEMMA StillKeepsAccount ==
  ASSUME NEW r \in Responses, AccountAt(r),
         UNCHANGED <<ch, held, attempts, sleeping, jobs, runs>>
  PROVE  AccountAt(r)'
  BY DEF AccountAt, RunsLeft, WithWorkers

\* A new job brings three runs.
LEMMA EnqueueKeepsAccount ==
  ASSUME GoQueueTypeOK, NEW q \in Responses, Enqueue(q),
         UNCHANGED <<held, attempts, sleeping, runs>>,
         NEW r \in Responses, AccountAt(r)
  PROVE  AccountAt(r)'
<1>1. CASE UNCHANGED <<ch, jobs>>
  BY <1>1, StillKeepsAccount
<1>2. CASE ch' = Append(ch, JobOf(q, 0)) /\ jobs' = [jobs EXCEPT ![q] = jobs[q] + 1]
  <2>1. JobOf(q, 0) \in Job /\ \A a \in 0 .. 2 : JobOf(r, a) \in Job
    BY DEF JobOf, Job
  <2>2. \A a \in 0 .. 2 : (JobOf(q, 0) = JobOf(r, a)) <=> (q = r /\ a = 0)
    BY DEF JobOf
  <2>3. \A a \in 0 .. 2 : Cardinality(PlacesOf(ch', JobOf(r, a))) =
            Cardinality(PlacesOf(ch, JobOf(r, a))) + (IF JobOf(q, 0) = JobOf(r, a) THEN 1 ELSE 0)
    <3>1. ch \in Seq(Job)
      BY DEF GoQueueTypeOK
    <3> QED
      BY <1>2, <2>1, <3>1, PlacesAfterSend
  <2>4. \A a \in 0 .. 2 : WithWorkers(r, a)' = WithWorkers(r, a)
    BY DEF WithWorkers
  <2>5. jobs'[r] = jobs[r] + (IF q = r THEN 1 ELSE 0)
    BY <1>2 DEF GoQueueTypeOK
  <2>6. \A a \in 1 .. 2 : sleeping[JobOf(r, a)]' = sleeping[JobOf(r, a)]
    BY DEF JobOf
  <2>7. RunsLeft(r)' = RunsLeft(r) + (IF q = r THEN 3 ELSE 0)
    BY <2>2, <2>3, <2>4, <2>6, AccountTypes DEF RunsLeft
  <2>8. (\A a \in 0 .. 2 : IsFiniteSet(WithWorkers(r, a)))'
    BY <2>4, AccountTypes
  <2> QED
    BY <2>5, <2>7, <2>8, AccountTypes DEF AccountAt
<1> QED
  BY <1>1, <1>2 DEF Enqueue, JobOf

\* A worker that takes a job, and one that lets go of it.
LEMMA HoldCounts ==
  ASSUME GoQueueTypeOK, NEW r \in Responses, AccountAt(r), NEW w \in Workers,
         \A x \in Workers \ {w} : held'[x] = held[x] /\ attempts'[x] = attempts[x],
         NEW a \in 0 .. 2
  PROVE  /\ held[w] = None =>
               /\ IsFiniteSet(WithWorkers(r, a))'
               /\ Cardinality(WithWorkers(r, a))' = Cardinality(WithWorkers(r, a))
                    + (IF held'[w] = r /\ attempts'[w] = a THEN 1 ELSE 0)
         /\ held'[w] = None =>
               /\ IsFiniteSet(WithWorkers(r, a))'
               /\ Cardinality(WithWorkers(r, a))' = Cardinality(WithWorkers(r, a))
                    - (IF held[w] = r /\ attempts[w] = a THEN 1 ELSE 0)
<1>1. IsFiniteSet(WithWorkers(r, a)) /\ Cardinality(WithWorkers(r, a)) \in Nat
  BY AccountTypes
<1>2. ASSUME held[w] = None
      PROVE  /\ IsFiniteSet(WithWorkers(r, a))'
             /\ Cardinality(WithWorkers(r, a))' = Cardinality(WithWorkers(r, a))
                  + (IF held'[w] = r /\ attempts'[w] = a THEN 1 ELSE 0)
  <2>1. w \notin WithWorkers(r, a)
    BY <1>2, StorageAssumption DEF WithWorkers
  <2>2. CASE held'[w] = r /\ attempts'[w] = a
    <3>1. WithWorkers(r, a)' = WithWorkers(r, a) \cup {w}
      BY <2>2 DEF WithWorkers
    <3> QED
      BY <1>1, <2>1, <2>2, <3>1, FS_AddElement
  <2>3. CASE ~(held'[w] = r /\ attempts'[w] = a)
    <3>1. WithWorkers(r, a)' = WithWorkers(r, a)
      BY <2>1, <2>3 DEF WithWorkers
    <3> QED
      BY <1>1, <2>3, <3>1
  <2> QED
    BY <2>2, <2>3
<1>3. ASSUME held'[w] = None
      PROVE  /\ IsFiniteSet(WithWorkers(r, a))'
             /\ Cardinality(WithWorkers(r, a))' = Cardinality(WithWorkers(r, a))
                  - (IF held[w] = r /\ attempts[w] = a THEN 1 ELSE 0)
  <2>1. WithWorkers(r, a)' = WithWorkers(r, a) \ {w}
    BY <1>3, StorageAssumption DEF WithWorkers
  <2>2. w \in WithWorkers(r, a) <=> held[w] = r /\ attempts[w] = a
    BY DEF WithWorkers
  <2> QED
    BY <1>1, <2>1, <2>2, FS_RemoveElement
<1> QED
  BY <1>2, <1>3

\* A run begins: the channel has a place less, the worker one run fewer left.
LEMMA GetKeepsAccount ==
  ASSUME GoQueueTypeOK, NEW w \in Workers, Get(w), NEW r \in Responses, AccountAt(r)
  PROVE  AccountAt(r)'
<1> DEFINE q == Head(ch).resp
           b == Head(ch).attempts
<1>1. /\ ch \in Seq(Job) /\ ch # <<>> /\ ch' = Tail(ch)
      /\ Head(ch) \in Job /\ Head(ch) = JobOf(q, b) /\ q \in Responses /\ b \in 0 .. 2
  <2>1. Head(ch) \in Job
    BY ReceiveFacts DEF Get, GoQueueTypeOK
  <2>2. \A job \in Job : job = JobOf(job.resp, job.attempts) /\ job.resp \in Responses
                         /\ job.attempts \in 0 .. 2
    BY DEF Job, JobOf
  <2> QED
    BY <2>1, <2>2 DEF Get, GoQueueTypeOK
<1>2. /\ held[w] = None /\ held'[w] = q /\ attempts'[w] = b
      /\ \A x \in Workers \ {w} : held'[x] = held[x] /\ attempts'[x] = attempts[x]
      /\ runs'[r] = runs[r] + (IF q = r THEN 1 ELSE 0)
      /\ UNCHANGED <<sleeping, jobs>>
  BY <1>1 DEF Get, GoQueueTypeOK
<1> HIDE DEF q, b
<1>3. \A a \in 0 .. 2 : (Head(ch) = JobOf(r, a)) <=> (q = r /\ b = a)
  BY <1>1 DEF JobOf
<1>4. \A a \in 0 .. 2 : Cardinality(PlacesOf(ch, JobOf(r, a))) =
          Cardinality(PlacesOf(ch', JobOf(r, a))) + (IF q = r /\ b = a THEN 1 ELSE 0)
  BY <1>1, <1>3, PlacesAfterReceive, AccountTypes
<1>5. \A a \in 0 .. 2 :
          /\ IsFiniteSet(WithWorkers(r, a))'
          /\ Cardinality(WithWorkers(r, a))' =
               Cardinality(WithWorkers(r, a)) + (IF q = r /\ b = a THEN 1 ELSE 0)
  BY <1>2, HoldCounts
<1>6. \A a \in 0 .. 2 : Cardinality(PlacesOf(ch', JobOf(r, a))) \in Nat
  <2>1. ch' \in Seq(Job)
    BY <1>1
  <2> QED
    BY <2>1, PlacesFinite
<1>7. \A a \in 1 .. 2 : sleeping'[JobOf(r, a)] = sleeping[JobOf(r, a)]
  BY <1>2
<1>8. RunsLeft(r)' + (IF q = r THEN 1 ELSE 0) = RunsLeft(r)
  <2>1. CASE q # r
    BY <1>4, <1>5, <1>6, <1>7, <2>1, AccountTypes DEF RunsLeft
  <2>2. CASE q = r /\ b = 0
    BY <1>4, <1>5, <1>6, <1>7, <2>2, AccountTypes DEF RunsLeft
  <2>3. CASE q = r /\ b = 1
    BY <1>4, <1>5, <1>6, <1>7, <2>3, AccountTypes DEF RunsLeft
  <2>4. CASE q = r /\ b = 2
    BY <1>4, <1>5, <1>6, <1>7, <2>4, AccountTypes DEF RunsLeft
  <2> QED
    BY <1>1, <2>1, <2>2, <2>3, <2>4
<1>9. RunsLeft(r)' \in Nat
  <2>1. \A a \in 0 .. 2 : Cardinality(WithWorkers(r, a))' \in Nat
    BY <1>5, AccountTypes
  <2>2. \A a \in 1 .. 2 : sleeping'[JobOf(r, a)] \in Nat
    BY <1>7, AccountTypes
  <2> QED
    BY <1>6, <2>1, <2>2 DEF RunsLeft
<1> QED
  BY <1>2, <1>5, <1>8, <1>9, AccountTypes DEF AccountAt

\* A run is over, its worker free: as many runs left as before, or fewer.
LEMMA ReleaseKeepsAccount ==
  ASSUME GoQueueTypeOK, NEW w \in Workers, Release(w), NEW r \in Responses, AccountAt(r)
  PROVE  AccountAt(r)'
<1>1. /\ held'[w] = None
      /\ \A x \in Workers \ {w} : held'[x] = held[x] /\ attempts'[x] = attempts[x]
      /\ UNCHANGED <<ch, sleeping, jobs, runs>>
  BY DEF Release, GoQueueTypeOK
<1>2. \A a \in 0 .. 2 : /\ IsFiniteSet(WithWorkers(r, a))'
                        /\ Cardinality(WithWorkers(r, a))' \in Nat
                        /\ Cardinality(WithWorkers(r, a))' <= Cardinality(WithWorkers(r, a))
  BY <1>1, HoldCounts, AccountTypes, FS_CardinalityType
<1>3. RunsLeft(r)' <= RunsLeft(r) /\ RunsLeft(r)' \in Int
  BY <1>1, <1>2, AccountTypes DEF RunsLeft
<1> QED
  BY <1>1, <1>2, <1>3, AccountTypes DEF AccountAt

\* A failed run: its job sleeps with one attempt more, or is given up.
LEMMA FailKeepsAccount ==
  ASSUME GoQueueTypeOK, NEW w \in Workers, held[w] \in Responses, RunFails(w),
         NEW r \in Responses, AccountAt(r)
  PROVE  AccountAt(r)'
<1> DEFINE q == held[w]
           b == attempts[w]
<1>1. /\ held'[w] = None /\ q \in Responses /\ b \in 0 .. 2
      /\ \A x \in Workers \ {w} : held'[x] = held[x] /\ attempts'[x] = attempts[x]
      /\ UNCHANGED <<ch, jobs, runs>>
  BY DEF RunFails, GoQueueTypeOK
<1>2. \A a \in 1 .. 2 : sleeping'[JobOf(r, a)] =
          sleeping[JobOf(r, a)] + (IF q = r /\ b + 1 = a THEN 1 ELSE 0)
  <2>1. CASE b + 1 < 3 /\ sleeping' = [sleeping EXCEPT ![JobOf(q, b + 1)] =
                                         sleeping[JobOf(q, b + 1)] + 1]
    <3>1. JobOf(q, b + 1) \in Retries
      BY <1>1, <2>1 DEF JobOf, Retries
    <3>2. \A a \in 1 .. 2 : (JobOf(q, b + 1) = JobOf(r, a)) <=> (q = r /\ b + 1 = a)
      BY DEF JobOf
    <3>3. \A a \in 1 .. 2 : JobOf(r, a) \in Retries /\ sleeping[JobOf(r, a)] \in Nat
      BY AccountTypes
    <3>4. sleeping \in [Retries -> Nat]
      BY DEF GoQueueTypeOK
    <3> HIDE DEF q, b
    <3> QED
      BY <2>1, <3>1, <3>2, <3>3, <3>4
  <2>2. CASE b + 1 >= 3 /\ UNCHANGED sleeping
    BY <1>1, <2>2, AccountTypes
  <2> QED
    BY <2>1, <2>2 DEF RunFails, JobOf
<1>3. \A a \in 0 .. 2 :
          /\ IsFiniteSet(WithWorkers(r, a))'
          /\ Cardinality(WithWorkers(r, a))' =
               Cardinality(WithWorkers(r, a)) - (IF q = r /\ b = a THEN 1 ELSE 0)
  BY <1>1, HoldCounts
<1> HIDE DEF q, b
<1>4. \A a \in 0 .. 2 : Cardinality(WithWorkers(r, a))' \in Nat
  BY <1>3, FS_CardinalityType
<1>5. \A a \in 1 .. 2 : sleeping'[JobOf(r, a)] \in Nat
  BY <1>2, AccountTypes
<1>6. RunsLeft(r)' \in Nat
  BY <1>1, <1>4, <1>5, AccountTypes DEF RunsLeft
<1>7. RunsLeft(r)' <= RunsLeft(r)
  <2>1. CASE q # r
    BY <1>1, <1>2, <1>3, <1>4, <2>1, AccountTypes DEF RunsLeft
  <2>2. CASE q = r /\ b = 0
    BY <1>1, <1>2, <1>3, <1>4, <2>2, AccountTypes DEF RunsLeft
  <2>3. CASE q = r /\ b = 1
    BY <1>1, <1>2, <1>3, <1>4, <2>3, AccountTypes DEF RunsLeft
  <2>4. CASE q = r /\ b = 2
    BY <1>1, <1>2, <1>3, <1>4, <2>4, AccountTypes DEF RunsLeft
  <2> QED
    BY <1>1, <2>1, <2>2, <2>3, <2>4
<1> QED
  BY <1>1, <1>3, <1>6, <1>7, AccountTypes DEF AccountAt

\* A sleeper sends its job, with its count of attempts, or drops it.
LEMMA WakeKeepsAccount ==
  ASSUME GoQueueTypeOK, NEW job \in Retries, Wake(job), NEW r \in Responses, AccountAt(r)
  PROVE  AccountAt(r)'
<1> DEFINE q == job.resp
           b == job.attempts
<1>1. job \in Job /\ job = JobOf(q, b) /\ q \in Responses /\ b \in 1 .. 2
  BY DEF Retries, Job, JobOf
<1>2. /\ sleeping[job] > 0 /\ sleeping' = [sleeping EXCEPT ![job] = sleeping[job] - 1]
      /\ UNCHANGED <<held, attempts, jobs, runs>>
  BY DEF Wake
<1> HIDE DEF q, b
<1>3. \A a \in 0 .. 2 : (job = JobOf(r, a)) <=> (q = r /\ b = a)
  BY <1>1 DEF JobOf
<1>4. \A a \in 1 .. 2 :
          /\ sleeping'[JobOf(r, a)] = sleeping[JobOf(r, a)] - (IF q = r /\ b = a THEN 1 ELSE 0)
          /\ sleeping'[JobOf(r, a)] \in Nat
  <2>1. sleeping \in [Retries -> Nat] /\ \A a \in 1 .. 2 : JobOf(r, a) \in Retries
    BY AccountTypes DEF GoQueueTypeOK
  <2>2. /\ sleeping'[job] = sleeping[job] - 1 /\ sleeping'[job] \in Nat
        /\ \A j \in Retries \ {job} : sleeping'[j] = sleeping[j]
    BY <1>2, <2>1
  <2> QED
    BY <1>3, <2>1, <2>2
<1>5. \A a \in 0 .. 2 :
          /\ Cardinality(PlacesOf(ch', JobOf(r, a))) <=
               Cardinality(PlacesOf(ch, JobOf(r, a))) + (IF q = r /\ b = a THEN 1 ELSE 0)
          /\ Cardinality(PlacesOf(ch', JobOf(r, a))) \in Nat
  <2>1. CASE UNCHANGED ch
    BY <2>1, AccountTypes
  <2>2. CASE ch' = Append(ch, job)
    <3>1. ch \in Seq(Job)
      BY DEF GoQueueTypeOK
    <3>2. \A a \in 0 .. 2 : Cardinality(PlacesOf(ch', JobOf(r, a))) =
              Cardinality(PlacesOf(ch, JobOf(r, a))) + (IF job = JobOf(r, a) THEN 1 ELSE 0)
      BY <1>1, <2>2, <3>1, PlacesAfterSend, AccountTypes
    <3> QED
      BY <1>3, <3>2, AccountTypes
  <2> QED
    BY <2>1, <2>2 DEF Wake
<1>6. \A a \in 0 .. 2 : WithWorkers(r, a)' = WithWorkers(r, a)
  BY <1>2 DEF WithWorkers
<1>7. RunsLeft(r)' \in Nat
  BY <1>4, <1>5, <1>6, AccountTypes DEF RunsLeft
<1>8. RunsLeft(r)' <= RunsLeft(r)
  <2>1. CASE q # r
    BY <1>4, <1>5, <1>6, <2>1, AccountTypes DEF RunsLeft
  <2>2. CASE q = r /\ b = 1
    BY <1>4, <1>5, <1>6, <2>2, AccountTypes DEF RunsLeft
  <2>3. CASE q = r /\ b = 2
    BY <1>4, <1>5, <1>6, <2>3, AccountTypes DEF RunsLeft
  <2> QED
    BY <1>1, <2>1, <2>2, <2>3
<1>9. (\A a \in 0 .. 2 : IsFiniteSet(WithWorkers(r, a)))'
  BY <1>6, AccountTypes
<1> QED
  BY <1>2, <1>7, <1>8, <1>9, AccountTypes DEF AccountAt

\* With the process die all jobs, and the runs they had left.
LEMMA DeathKeepsAccount ==
  ASSUME GoQueueTypeOK, NEW orphans, QueueDies(orphans), NEW r \in Responses, AccountAt(r)
  PROVE  AccountAt(r)'
<1>1. /\ ch' = <<>> /\ UNCHANGED <<jobs, runs>>
      /\ \A w \in Workers : held'[w] = None
      /\ \A j \in Retries : sleeping'[j] = 0
  BY DEF QueueDies
<1>2. \A a \in 0 .. 2 : PlacesOf(ch', JobOf(r, a)) = {}
  BY <1>1 DEF PlacesOf
<1>3. \A a \in 0 .. 2 : WithWorkers(r, a)' = {}
  BY <1>1, StorageAssumption DEF WithWorkers
<1>4. \A a \in 1 .. 2 : sleeping'[JobOf(r, a)] = 0
  BY <1>1, AccountTypes
<1>5. RunsLeft(r)' = 0
  BY <1>2, <1>3, <1>4, FS_EmptySet DEF RunsLeft
<1>6. (\A a \in 0 .. 2 : IsFiniteSet(WithWorkers(r, a)))'
  BY <1>3, FS_EmptySet
<1> QED
  BY <1>1, <1>5, <1>6, AccountTypes DEF AccountAt

\* A job is run three times at most, through all its sleeps and returns to the
\* channel, however many workers, sleepers and deaths of the process there are.
THEOREM NoFourthRun == Spec => []AtMostThreeRuns
<1>1. Init => Account
  <2> SUFFICES ASSUME Init, NEW r \in Responses
               PROVE  AccountAt(r)
    BY DEF Account
  <2>1. \A a \in 0 .. 2 : PlacesOf(ch, JobOf(r, a)) = {}
    BY DEF Init, GoQueueInit, PlacesOf
  <2>2. \A a \in 0 .. 2 : WithWorkers(r, a) = {}
    BY StorageAssumption DEF Init, GoQueueInit, WithWorkers
  <2>3. \A a \in 1 .. 2 : sleeping[JobOf(r, a)] = 0
    BY DEF Init, GoQueueInit, JobOf, Retries
  <2>4. RunsLeft(r) = 0
    BY <2>1, <2>2, <2>3, FS_EmptySet DEF RunsLeft
  <2>5. runs[r] = 0 /\ jobs[r] = 0
    BY DEF Init, GoQueueInit
  <2>6. \A a \in 0 .. 2 : IsFiniteSet(WithWorkers(r, a))
    BY <2>2, FS_EmptySet
  <2> QED
    BY <2>4, <2>5, <2>6 DEF AccountAt
<1>2. TypeOK /\ Account /\ [Next]_vars => Account'
  <2> SUFFICES ASSUME TypeOK, [Next]_vars, NEW r \in Responses, AccountAt(r)
               PROVE  AccountAt(r)'
    BY DEF Account
  <2>0. GoQueueTypeOK
    BY DEF TypeOK
  <2>1. ASSUME NEW w \in Workers, Run(w)
        PROVE  AccountAt(r)'
    <3>1. CASE LoadFails(w)
      <4>1. held[w] \in Responses
        BY <2>0, <3>1 DEF LoadFails, GoQueueTypeOK
      <4> QED
        BY <2>0, <3>1, <4>1, FailKeepsAccount DEF LoadFails
    <3>2. CASE Finish(w)
      BY <2>0, <3>2, ReleaseKeepsAccount DEF Finish
    <3>3. CASE ~LoadFails(w) /\ ~Finish(w)
      <4>1. UNCHANGED <<ch, held, attempts, sleeping, jobs, runs>>
        BY <2>1, <3>3
           DEF Run, Load, MarkPassed, Convert, SavePath, Transcribe, MarkTranscribing,
               StoreTranscript, Extract, MarkExtracting, MarkComplete, Advance
      <4> QED
        BY <4>1, StillKeepsAccount
    <3> QED
      BY <3>1, <3>2, <3>3
  <2>2. ASSUME NEW w \in Workers, Get(w)
        PROVE  AccountAt(r)'
    BY <2>0, <2>2, GetKeepsAccount
  <2>3. ASSUME NEW job \in Retries, WakeUp(job)
        PROVE  AccountAt(r)'
    BY <2>0, <2>3, WakeKeepsAccount DEF WakeUp
  <2>4. ASSUME Handle
        PROVE  AccountAt(r)'
    <3>1. ASSUME NEW u \in Uploads, UploadEnqueue(u)
          PROVE  AccountAt(r)'
      <4>1. upFor[u] \in Responses
        BY <3>1 DEF UploadEnqueue, TypeOK, GoRequestTypeOK, UpPc
      <4> QED
        BY <2>0, <3>1, <4>1, EnqueueKeepsAccount DEF UploadEnqueue
    <3>2. CASE ~ \E u \in Uploads : UploadEnqueue(u)
      <4>1. UNCHANGED <<ch, held, attempts, sleeping, jobs, runs>>
        BY <2>4, <3>2
           DEF Handle, SlotLookup, SlotStore, UploadWrite, UploadMark, Review, goQueueVars
      <4> QED
        BY <4>1, StillKeepsAccount
    <3> QED
      BY <3>1, <3>2
  <2>5. ASSUME Life
        PROVE  AccountAt(r)'
    <3>1. ASSUME NEW q \in Responses, Recover(q)
          PROVE  AccountAt(r)'
      BY <2>0, <3>1, EnqueueKeepsAccount DEF Recover
    <3>2. CASE ~ \E q \in Responses : Recover(q)
      <4>1. UNCHANGED <<ch, held, attempts, sleeping, jobs, runs>>
        BY <2>5, <3>2 DEF Life, Restart, StartWith, Serve, Shutdown, Leave
      <4> QED
        BY <4>1, StillKeepsAccount
    <3> QED
      BY <3>1, <3>2
  <2>6. CASE RestartBlind
    BY <2>6, StillKeepsAccount DEF RestartBlind, StartWith
  <2>7. CASE Killed
    <3>1. PICK orphans : QueueDies(orphans)
      BY <2>7 DEF Killed
    <3> QED
      BY <2>0, <3>1, DeathKeepsAccount
  <2>8. CASE UNCHANGED vars
    BY <2>8, StillKeepsAccount DEF vars, goQueueVars
  <2> QED
    BY <2>1, <2>2, <2>3, <2>4, <2>5, <2>6, <2>7, <2>8 DEF Next, Work
<1>3. TypeOK /\ Account => AtMostThreeRuns
  <2> SUFFICES ASSUME TypeOK, NEW r \in Responses, AccountAt(r)
               PROVE  runs[r] <= 3 * jobs[r]
    BY DEF Account, AtMostThreeRuns
  <2>1. runs[r] \in Nat /\ jobs[r] \in Nat /\ RunsLeft(r) \in Nat
    BY AccountTypes DEF TypeOK
  <2> QED
    BY <2>1 DEF AccountAt
<1> QED
  BY <1>1, <1>2, <1>3, TypeCorrect, PTL DEF Spec

-----------------------------------------------------------------------------
(* Which recording a row leads to in the end.                              *)

Unrun == {"idle", "gone", "load"}

\* Slots and uploads belong to nobody before they are used; an upload belongs
\* to the response of its slot, which then has a file.
UploadsOwned ==
    /\ \A s \in Slots : slotPc[s] = "new" => slotFor[s] = None
    /\ \A u \in Uploads : upPc[u] = "new" => upFor[u] = None /\ upSlot[u] = None
    /\ \A u \in Uploads : upSlot[u] # None =>
          /\ upFor[u] # None /\ slotFor[upSlot[u]] = upFor[u]
          /\ slotPc[upSlot[u]] = "done" /\ file[upSlot[u]] # None

\* What lies at a slot's path, the copy included, was uploaded to that slot.
FilesOwned ==
    \A s \in Slots : /\ file[s] # None => upSlot[file[s]] = s
                     /\ wavCopy[s] # None => upSlot[wavCopy[s]] = s

\* A row's path is that of a slot of its response, and so is a run's.
PathsOwned ==
    /\ \A r \in Responses : wavPath[r] # None => slotFor[wavPath[r]] = r
    /\ \A w \in Workers : /\ pc[w] \in Unrun => src[w] = None
                          /\ src[w] # None => slotFor[src[w]] = held[w]

\* A slot that was answered has a row, and a row that was announced is UPLOADING
\* again only because of another slot, unless a statement was skipped.
RowsAnnounced ==
    /\ \A s \in Slots : slotPc[s] = "done" =>
          slotFor[s] \in skipped \/ jobStatus[slotFor[s]] # "ABSENT"
    /\ \A u \in Uploads : upPc[u] \in {"enqueue", "done"} =>
          \/ upFor[u] \in skipped
          \/ jobStatus[upFor[u]] # "UPLOADING"
          \/ \E t \in Slots : t # upSlot[u] /\ slotFor[t] = upFor[u]

OwnInv == UploadsOwned /\ FilesOwned /\ PathsOwned /\ RowsAnnounced

\* A step that assigns no slot, upload, path or file and takes no row back.
Quiet ==
    /\ UNCHANGED <<slotFor, upFor, upSlot, file, wavCopy, wavPath>>
    /\ skipped \subseteq skipped'
    /\ \A r \in Responses : /\ jobStatus'[r] = "ABSENT" => jobStatus[r] = "ABSENT"
                            /\ jobStatus'[r] = "UPLOADING" => jobStatus[r] = "UPLOADING"
    /\ \A s \in Slots : /\ slotPc'[s] = "done" <=> slotPc[s] = "done"
                        /\ slotPc'[s] = "new" => slotPc[s] = "new"
    /\ \A u \in Uploads : /\ upPc'[u] = "new" => upPc[u] = "new"
                          /\ upPc'[u] \in {"enqueue", "done"} => upPc[u] \in {"enqueue", "done"}

\* A step after which each run has the path it had, or none.
RunsKept ==
    \A w \in Workers :
        \/ src'[w] = None
        \/ src'[w] = src[w] /\ held'[w] = held[w] /\ (pc'[w] \in Unrun => pc[w] \in Unrun)

LEMMA QuietKeepsOwn ==
  ASSUME TypeOK, OwnInv, Quiet, RunsKept
  PROVE  OwnInv'
<1>0. StoreTypeOK /\ GoRequestTypeOK /\ GoRunTypeOK
  BY DEF TypeOK
<1>1. UploadsOwned'
  <2>1. \A u \in Uploads : upSlot[u] # None => upSlot[u] \in Slots
    BY <1>0 DEF GoRequestTypeOK
  <2> QED
    BY <2>1 DEF OwnInv, UploadsOwned, Quiet
<1>2. FilesOwned'
  BY DEF OwnInv, FilesOwned, Quiet
<1>3. PathsOwned'
  BY DEF OwnInv, PathsOwned, Quiet, RunsKept
<1>4. RowsAnnounced'
  <2>1. ASSUME NEW s \in Slots, slotPc'[s] = "done"
        PROVE  slotFor'[s] \in skipped' \/ jobStatus'[slotFor'[s]] # "ABSENT"
    <3>1. slotFor[s] \in Responses /\ slotFor'[s] = slotFor[s]
      BY <1>0, <2>1 DEF GoRequestTypeOK, Quiet
    <3> QED
      BY <2>1, <3>1 DEF OwnInv, RowsAnnounced, Quiet
  <2>2. ASSUME NEW u \in Uploads, upPc'[u] \in {"enqueue", "done"}
        PROVE  \/ upFor'[u] \in skipped'
               \/ jobStatus'[upFor'[u]] # "UPLOADING"
               \/ \E t \in Slots : t # upSlot'[u] /\ slotFor'[t] = upFor'[u]
    <3>1. upFor[u] \in Responses /\ upPc[u] \in {"enqueue", "done"}
      BY <1>0, <2>2 DEF GoRequestTypeOK, Quiet
    <3>2. UNCHANGED <<slotFor, upFor, upSlot>>
      BY DEF Quiet
    <3> QED
      BY <3>1, <3>2 DEF OwnInv, RowsAnnounced, Quiet
  <2> QED
    BY <2>1, <2>2 DEF RowsAnnounced
<1> QED
  BY <1>1, <1>2, <1>3, <1>4 DEF OwnInv

\* The steps of a run.
LEMMA RunKeepsOwn ==
  ASSUME TypeOK, OwnInv, NEW w \in Workers, Run(w)
  PROVE  OwnInv'
<1>0. /\ StoreTypeOK /\ GoQueueTypeOK /\ GoRequestTypeOK /\ GoRunTypeOK
      /\ UploadsOwned /\ FilesOwned /\ PathsOwned /\ RowsAnnounced
  BY DEF TypeOK, OwnInv
<1>a. pc[w] \notin {"idle", "gone"} /\ held[w] \in Responses
  BY <1>0
     DEF Run, Load, LoadFails, MarkPassed, Convert, SavePath, Transcribe,
         MarkTranscribing, StoreTranscript, Extract, MarkExtracting, MarkComplete,
         Finish, GoQueueTypeOK
<1>1. ASSUME MarkPassed(w) \/ MarkTranscribing(w) \/ MarkExtracting(w) \/ MarkComplete(w)
      PROVE  OwnInv'
  <2>1. PICK st \in MidStatus \cup {"COMPLETE"}, to \in WorkerPc \ Unrun :
            Exec(w, SetJobStatus(held[w], st)) /\ Advance(w, to)
    BY <1>1
       DEF MarkPassed, MarkTranscribing, MarkExtracting, MarkComplete, MidStatus, WorkerPc,
           Unrun
  <2>2. /\ UNCHANGED <<slotFor, upFor, upSlot, upPc, slotPc, file, wavCopy, wavPath>>
        /\ skipped \subseteq skipped'
        /\ \A q \in Responses : \/ jobStatus'[q] = jobStatus[q]
                                \/ jobStatus'[q] \notin {"ABSENT", "UPLOADING"}
    BY <2>1, <1>0, <1>a
       DEF Exec, Done, Skip, SetJobStatus, StoreTypeOK, MidStatus, tableVars, fileVars
  <2>3. Quiet
    BY <2>2 DEF Quiet
  <2>4. UNCHANGED src /\ RunsKept
    BY <2>1, <1>0 DEF Exec, Advance, RunsKept, runVars, GoQueueTypeOK
  <2> QED
    BY <2>3, <2>4, QuietKeepsOwn
<1>2. ASSUME StoreTranscript(w) \/ Extract(w) \/ Transcribe(w)
      PROVE  OwnInv'
  <2>1. PICK to \in WorkerPc \ Unrun : Advance(w, to)
    BY <1>2 DEF StoreTranscript, Extract, Transcribe, WorkerPc, Unrun
  <2>2. Quiet /\ UNCHANGED src
    BY <1>2
       DEF StoreTranscript, Extract, Transcribe, Exec, Done, Skip, SetTranscript, SetAnswer,
           Quiet, tableVars, fileVars, storeVars, requestVars, runVars
  <2>3. RunsKept
    BY <2>1, <2>2, <1>0 DEF Advance, RunsKept, GoQueueTypeOK
  <2> QED
    BY <2>2, <2>3, QuietKeepsOwn
<1>3. ASSUME LoadFails(w) \/ Finish(w)
      PROVE  OwnInv'
  <2>1. Quiet
    BY <1>3
       DEF LoadFails, Finish, Done, Skip, ResubmitIfProcessing, Quiet, tableVars, fileVars,
           storeVars
  <2>2. /\ \A x \in Workers \ {w} : pc'[x] = pc[x] /\ held'[x] = held[x] /\ src'[x] = src[x]
        /\ src'[w] = None
    <3>1. CASE LoadFails(w)
      <4>1. src[w] = None
        BY <3>1, <1>0 DEF LoadFails, PathsOwned, Unrun
      <4> QED
        BY <3>1, <4>1, <1>0 DEF LoadFails, RunFails, runVars, GoQueueTypeOK
    <3>2. CASE Finish(w)
      BY <3>2, <1>0 DEF Finish, Release, ClearRun, GoQueueTypeOK, GoRunTypeOK
    <3> QED
      BY <1>3, <3>1, <3>2
  <2>3. RunsKept
    BY <2>2 DEF RunsKept
  <2> QED
    BY <2>1, <2>3, QuietKeepsOwn
<1>4. CASE Load(w)
  <2>1. /\ UNCHANGED <<slotFor, upFor, upSlot, upPc, slotPc, file, wavCopy, wavPath>>
        /\ UNCHANGED <<skipped, jobStatus, held>>
        /\ src'[w] = wavPath[held[w]] /\ pc'[w] = "passed"
        /\ \A x \in Workers \ {w} : pc'[x] = pc[x] /\ src'[x] = src[x]
    BY <1>4, <1>0 DEF Load, Advance, storeVars, requestVars, GoQueueTypeOK, GoRunTypeOK
  <2>2. UploadsOwned' /\ FilesOwned' /\ RowsAnnounced'
    BY <2>1, <1>0 DEF UploadsOwned, FilesOwned, RowsAnnounced
  <2>3. PathsOwned'
    BY <2>1, <1>0, <1>a DEF PathsOwned, Unrun
  <2> QED
    BY <2>2, <2>3 DEF OwnInv
<1>5. CASE Convert(w)
  <2>1. /\ UNCHANGED <<slotFor, upFor, upSlot, upPc, slotPc, file, wavPath, skipped>>
        /\ UNCHANGED <<jobStatus, held, src>>
        /\ pc'[w] \notin Unrun /\ \A x \in Workers \ {w} : pc'[x] = pc[x]
    BY <1>5, <1>0
       DEF Convert, AfterConvert, Advance, tableVars, requestVars, GoQueueTypeOK, Unrun
  <2>2. UploadsOwned' /\ RowsAnnounced'
    BY <2>1, <1>0 DEF UploadsOwned, RowsAnnounced
  <2>3. PathsOwned'
    BY <2>1, <1>0 DEF PathsOwned
  <2>4. \A s \in Slots : wavCopy'[s] = wavCopy[s] \/ wavCopy'[s] = file[s]
    BY <1>5, <1>0 DEF Convert, StoreTypeOK
  <2>5. FilesOwned'
    BY <2>1, <2>4, <1>0 DEF FilesOwned
  <2> QED
    BY <2>2, <2>3, <2>5 DEF OwnInv
<1>6. CASE SavePath(w)
  <2>1. /\ UNCHANGED <<slotFor, upFor, upSlot, upPc, slotPc, file, wavCopy, jobStatus>>
        /\ UNCHANGED <<held, src>> /\ skipped \subseteq skipped'
        /\ pc'[w] \notin Unrun /\ \A x \in Workers \ {w} : pc'[x] = pc[x]
    BY <1>6, <1>0, <1>a
       DEF SavePath, SetJobPath, Skip, AfterConvert, Advance, fileVars, tableVars, runVars,
           GoQueueTypeOK, StoreTypeOK, Unrun
  <2>2. UploadsOwned' /\ FilesOwned'
    BY <2>1, <1>0 DEF UploadsOwned, FilesOwned
  <2>3. RowsAnnounced'
    BY <2>1, <1>0 DEF RowsAnnounced
  <2>4. \A q \in Responses : \/ wavPath'[q] = wavPath[q]
                             \/ q = held[w] /\ wavPath'[q] = src[w]
    BY <1>6, <1>0, <1>a DEF SavePath, SetJobPath, Skip, tableVars, StoreTypeOK
  <2>5. PathsOwned'
    BY <2>1, <2>4, <1>0 DEF PathsOwned
  <2> QED
    BY <2>2, <2>3, <2>5 DEF OwnInv
<1> QED
  BY <1>1, <1>2, <1>3, <1>4, <1>5, <1>6 DEF Run

\* The steps of the handlers.
LEMMA HandleKeepsOwn ==
  ASSUME TypeOK, OwnInv, Handle, UNCHANGED runVars
  PROVE  OwnInv'
<1>0. /\ StoreTypeOK /\ GoQueueTypeOK /\ GoRequestTypeOK /\ GoRunTypeOK
      /\ UploadsOwned /\ FilesOwned /\ PathsOwned /\ RowsAnnounced
      /\ UNCHANGED <<src, useCopy, heard>>
  BY DEF TypeOK, OwnInv, runVars
<1>a. /\ \A s \in Slots : slotPc[s] # "new" => slotFor[s] \in Responses
      /\ \A u \in Uploads : upPc[u] # "new" => upFor[u] \in Responses /\ upSlot[u] \in Slots
      /\ \A u \in Uploads : upSlot[u] # None => upSlot[u] \in Slots
      /\ \A r \in Responses : wavPath[r] # None => wavPath[r] \in Slots
      /\ \A w \in Workers : src[w] # None => src[w] \in Slots
  BY <1>0 DEF GoRequestTypeOK, StoreTypeOK, GoRunTypeOK
<1>1. ASSUME NEW s \in Slots, NEW r \in Responses, SlotLookup(s, r)
      PROVE  OwnInv'
  <2>1. /\ UNCHANGED <<upFor, upSlot, upPc, file, wavCopy, wavPath, jobStatus, skipped>>
        /\ UNCHANGED <<pc, held>>
        /\ slotPc[s] = "new" /\ slotFor[s] = None
        /\ slotPc'[s] \notin {"new", "done"} /\ slotFor'[s] = r
        /\ \A t \in Slots \ {s} : slotPc'[t] = slotPc[t] /\ slotFor'[t] = slotFor[t]
    BY <1>1, <1>0 DEF SlotLookup, storeVars, goQueueVars, GoRequestTypeOK, UploadsOwned
  <2>2. \A t \in Slots : slotFor[t] # None => slotFor'[t] = slotFor[t] /\ slotPc'[t] = slotPc[t]
    BY <2>1
  <2>3. UploadsOwned'
    BY <2>1, <2>2, <1>0, <1>a DEF UploadsOwned
  <2>4. FilesOwned'
    BY <2>1, <1>0 DEF FilesOwned
  <2>5. PathsOwned'
    <3>1. \A q \in Responses : wavPath[q] # None => slotFor'[wavPath[q]] = q
      BY <2>2, <1>0, <1>a, StorageAssumption DEF PathsOwned
    <3>2. ASSUME NEW w \in Workers, src[w] # None
          PROVE  slotFor'[src[w]] = held[w]
      <4>1. held[w] # None
        BY <3>2, <1>0 DEF PathsOwned, Unrun, GoQueueTypeOK
      <4> QED
        BY <2>2, <3>2, <4>1, <1>0, <1>a DEF PathsOwned
    <3> QED
      BY <2>1, <3>1, <3>2, <1>0 DEF PathsOwned
  <2>6. RowsAnnounced'
    <3>1. ASSUME NEW t \in Slots, slotPc'[t] = "done"
          PROVE  slotFor'[t] \in skipped' \/ jobStatus'[slotFor'[t]] # "ABSENT"
      BY <2>1, <3>1, <1>0 DEF RowsAnnounced
    <3>2. ASSUME NEW u \in Uploads, upPc'[u] \in {"enqueue", "done"}
          PROVE  \/ upFor'[u] \in skipped'
                 \/ jobStatus'[upFor'[u]] # "UPLOADING"
                 \/ \E t \in Slots : t # upSlot'[u] /\ slotFor'[t] = upFor'[u]
      <4>1. upFor[u] # None
        BY <3>2, <2>1, <1>a, StorageAssumption
      <4> QED
        BY <2>1, <2>2, <3>2, <4>1, <1>0 DEF RowsAnnounced
    <3> QED
      BY <3>1, <3>2 DEF RowsAnnounced
  <2> QED
    BY <2>3, <2>4, <2>5, <2>6 DEF OwnInv
<1>2. ASSUME NEW s \in Slots, SlotStore(s)
      PROVE  OwnInv'
  <2> DEFINE r == slotFor[s]
  <2>0. r \in Responses
    BY <1>2, <1>a DEF SlotStore
  <2>1. /\ UNCHANGED <<slotFor, upFor, upSlot, upPc, file, wavCopy, pc, held>>
        /\ slotPc[s] \in {"insert", "update"} /\ slotPc'[s] = "done"
        /\ \A t \in Slots \ {s} : slotPc'[t] = slotPc[t]
        /\ skipped \subseteq skipped'
    BY <1>2, <1>0 DEF SlotStore, SetJobPath, Skip, fileVars, goQueueVars, tableVars, GoRequestTypeOK
  <2>2. \/ /\ jobStatus' = [jobStatus EXCEPT ![r] = "UPLOADING"]
           /\ wavPath' = [wavPath EXCEPT ![r] = s]
        \/ /\ UNCHANGED <<jobStatus, wavPath>>
           /\ r \in skipped'
    BY <1>2 DEF SlotStore, SetJobPath, Skip, tableVars
  <2> HIDE DEF r
  <2>3. UploadsOwned' /\ FilesOwned'
    BY <2>1, <1>0, <1>a DEF UploadsOwned, FilesOwned
  <2>4. PathsOwned'
    <3>1. \A q \in Responses : wavPath'[q] = wavPath[q] \/ (q = r /\ wavPath'[q] = s)
      BY <2>0, <2>2, <1>0 DEF StoreTypeOK
    <3> QED
      BY <2>1, <3>1, <1>0 DEF PathsOwned, r
  <2>5. RowsAnnounced'
    <3>1. /\ \A q \in Responses : jobStatus[q] # "ABSENT" => jobStatus'[q] # "ABSENT"
          /\ \A q \in Responses \ {r} : jobStatus'[q] = jobStatus[q]
          /\ r \in skipped' \/ jobStatus'[r] # "ABSENT"
          /\ r \in skipped' \/ jobStatus'[r] = "UPLOADING"
      BY <2>0, <2>2, <1>0 DEF StoreTypeOK
    <3>2. ASSUME NEW t \in Slots, slotPc'[t] = "done"
          PROVE  slotFor'[t] \in skipped' \/ jobStatus'[slotFor'[t]] # "ABSENT"
      <4>1. CASE t = s
        BY <4>1, <2>1, <3>1 DEF r
      <4>2. CASE t # s
        <5>1. slotPc[t] = "done" /\ slotFor[t] \in Responses
          BY <4>2, <2>1, <3>2, <1>a
        <5> QED
          BY <5>1, <2>1, <3>1, <1>0 DEF RowsAnnounced
      <4> QED
        BY <4>1, <4>2
    <3>3. ASSUME NEW u \in Uploads, upPc'[u] \in {"enqueue", "done"}
          PROVE  \/ upFor'[u] \in skipped'
                 \/ jobStatus'[upFor'[u]] # "UPLOADING"
                 \/ \E t \in Slots : t # upSlot'[u] /\ slotFor'[t] = upFor'[u]
      <4>1. upFor[u] \in Responses /\ upSlot[u] \in Slots /\ upPc[u] \in {"enqueue", "done"}
        BY <2>1, <3>3, <1>a
      <4>2. CASE upFor[u] # r
        BY <4>1, <4>2, <2>1, <3>1, <1>0 DEF RowsAnnounced
      <4>3. CASE upFor[u] = r
        <5>1. s # upSlot[u]
          BY <4>1, <2>1, <1>0, StorageAssumption DEF UploadsOwned
        <5> QED
          BY <5>1, <4>3, <2>1 DEF r
      <4> QED
        BY <4>2, <4>3
    <3> QED
      BY <3>2, <3>3 DEF RowsAnnounced
  <2> QED
    BY <2>3, <2>4, <2>5 DEF OwnInv
<1>3. ASSUME NEW u \in Uploads, NEW s \in Slots, UploadWrite(u, s)
      PROVE  OwnInv'
  <2>1. /\ UNCHANGED <<slotPc, slotFor, wavCopy, wavPath, jobStatus, skipped, pc, held>>
        /\ upPc[u] = "new" /\ upSlot[u] = None /\ slotPc[s] = "done"
        /\ upPc'[u] = "mark" /\ upFor'[u] = slotFor[s] /\ upSlot'[u] = s /\ file'[s] = u
        /\ \A v \in Uploads \ {u} : /\ upPc'[v] = upPc[v] /\ upFor'[v] = upFor[v]
                                    /\ upSlot'[v] = upSlot[v]
        /\ \A t \in Slots \ {s} : file'[t] = file[t]
    BY <1>3, <1>0
       DEF UploadWrite, goQueueVars, tableVars, GoRequestTypeOK, StoreTypeOK, UploadsOwned
  <2>2. UploadsOwned'
    <3>1. slotFor[s] # None /\ u # None
      BY <2>1, <1>a, StorageAssumption
    <3>2. \A t \in Slots : file[t] # None => file'[t] # None
      BY <2>1, <3>1
    <3>3. ASSUME NEW v \in Uploads, upSlot'[v] # None
          PROVE  /\ upFor'[v] # None /\ slotFor'[upSlot'[v]] = upFor'[v]
                 /\ slotPc'[upSlot'[v]] = "done" /\ file'[upSlot'[v]] # None
      <4>1. CASE v = u
        BY <4>1, <2>1, <3>1
      <4>2. CASE v # u
        BY <4>2, <2>1, <3>2, <3>3, <1>0, <1>a DEF UploadsOwned
      <4> QED
        BY <4>1, <4>2
    <3>4. ASSUME NEW v \in Uploads, upPc'[v] = "new"
          PROVE  upFor'[v] = None /\ upSlot'[v] = None
      BY <2>1, <3>4, <1>0 DEF UploadsOwned
    <3> QED
      BY <2>1, <3>3, <3>4, <1>0 DEF UploadsOwned
  <2>3. FilesOwned'
    <3>1. \A t \in Slots : /\ file[t] # None => file[t] \in Uploads
                           /\ wavCopy[t] # None => wavCopy[t] \in Uploads
      BY <1>0 DEF StoreTypeOK
    <3>2. ASSUME NEW t \in Slots
          PROVE  /\ file[t] # None => file[t] \in Uploads \ {u}
                 /\ wavCopy[t] # None => wavCopy[t] \in Uploads \ {u}
      BY <2>1, <3>1, <1>0, StorageAssumption DEF FilesOwned
    <3>3. ASSUME NEW t \in Slots
          PROVE  /\ file'[t] # None => upSlot'[file'[t]] = t
                 /\ wavCopy'[t] # None => upSlot'[wavCopy'[t]] = t
      <4>1. wavCopy'[t] # None => upSlot'[wavCopy'[t]] = t
        BY <2>1, <3>2, <1>0 DEF FilesOwned
      <4>2. CASE t = s
        BY <4>1, <4>2, <2>1
      <4>3. CASE t # s
        <5>1. file'[t] = file[t]
          BY <4>3, <2>1
        <5> QED
          BY <5>1, <4>1, <2>1, <3>2, <1>0 DEF FilesOwned
      <4> QED
        BY <4>2, <4>3
    <3> QED
      BY <3>3 DEF FilesOwned
  <2>4. PathsOwned'
    BY <2>1, <1>0 DEF PathsOwned
  <2>5. RowsAnnounced'
    <3>1. ASSUME NEW v \in Uploads, upPc'[v] \in {"enqueue", "done"}
          PROVE  \/ upFor'[v] \in skipped'
                 \/ jobStatus'[upFor'[v]] # "UPLOADING"
                 \/ \E t \in Slots : t # upSlot'[v] /\ slotFor'[t] = upFor'[v]
      <4>1. v # u
        BY <2>1, <3>1
      <4> QED
        BY <4>1, <2>1, <3>1, <1>0 DEF RowsAnnounced
    <3> QED
      BY <2>1, <3>1, <1>0 DEF RowsAnnounced
  <2> QED
    BY <2>2, <2>3, <2>4, <2>5 DEF OwnInv
<1>4. ASSUME NEW u \in Uploads, UploadMark(u)
      PROVE  OwnInv'
  <2> DEFINE r == upFor[u]
  <2>1. /\ UNCHANGED <<slotPc, slotFor, upFor, upSlot, file, wavCopy, pc, held>>
        /\ upPc[u] = "mark" /\ upPc'[u] = "enqueue" /\ skipped \subseteq skipped'
        /\ \A v \in Uploads \ {u} : upPc'[v] = upPc[v]
        /\ r \in Responses /\ upSlot[u] \in Slots
    BY <1>4, <1>0, <1>a
       DEF UploadMark, SetJobPath, Skip, fileVars, goQueueVars, tableVars, GoRequestTypeOK
  <2>2. \/ /\ jobStatus' = [jobStatus EXCEPT ![r] = "QC_PENDING"]
           /\ wavPath' = [wavPath EXCEPT ![r] = upSlot[u]]
        \/ /\ UNCHANGED <<jobStatus, wavPath>>
           /\ r \in skipped' \/ jobStatus[r] = "ABSENT"
    BY <1>4 DEF UploadMark, SetJobPath, Skip, tableVars
  <2> HIDE DEF r
  <2>3. UploadsOwned' /\ FilesOwned'
    BY <2>1, <1>0 DEF UploadsOwned, FilesOwned
  <2>4. PathsOwned'
    <3>1. \A q \in Responses : wavPath'[q] = wavPath[q] \/ (q = r /\ wavPath'[q] = upSlot[u])
      BY <2>1, <2>2, <1>0 DEF StoreTypeOK
    <3>2. slotFor[upSlot[u]] = r
      BY <2>1, <1>0, StorageAssumption DEF UploadsOwned, r
    <3> QED
      BY <2>1, <3>1, <3>2, <1>0 DEF PathsOwned
  <2>5. RowsAnnounced'
    <3>1. /\ \A q \in Responses : jobStatus[q] # "ABSENT" => jobStatus'[q] # "ABSENT"
          /\ \A q \in Responses : jobStatus'[q] = "UPLOADING" => jobStatus[q] = "UPLOADING"
          /\ r \in skipped' \/ jobStatus'[r] # "UPLOADING"
      BY <2>1, <2>2, <1>0 DEF StoreTypeOK
    <3>2. ASSUME NEW t \in Slots, slotPc'[t] = "done"
          PROVE  slotFor'[t] \in skipped' \/ jobStatus'[slotFor'[t]] # "ABSENT"
      <4>1. slotPc[t] = "done" /\ slotFor[t] \in Responses
        BY <2>1, <3>2, <1>a
      <4> QED
        BY <4>1, <2>1, <3>1, <1>0 DEF RowsAnnounced
    <3>3. ASSUME NEW v \in Uploads, upPc'[v] \in {"enqueue", "done"}
          PROVE  \/ upFor'[v] \in skipped'
                 \/ jobStatus'[upFor'[v]] # "UPLOADING"
                 \/ \E t \in Slots : t # upSlot'[v] /\ slotFor'[t] = upFor'[v]
      <4>1. CASE v = u
        BY <4>1, <2>1, <3>1 DEF r
      <4>2. CASE v # u
        <5>1. upPc[v] \in {"enqueue", "done"} /\ upFor[v] \in Responses
          BY <4>2, <2>1, <3>3, <1>a
        <5> QED
          BY <5>1, <2>1, <3>1, <1>0 DEF RowsAnnounced
      <4> QED
        BY <4>1, <4>2
    <3> QED
      BY <3>2, <3>3 DEF RowsAnnounced
  <2> QED
    BY <2>3, <2>4, <2>5 DEF OwnInv
<1>5. ASSUME NEW u \in Uploads, UploadEnqueue(u)
      PROVE  OwnInv'
  <2>1. Quiet
    BY <1>5, <1>0 DEF UploadEnqueue, Quiet, storeVars, GoRequestTypeOK
  <2>2. RunsKept
    BY <1>5, <1>0 DEF UploadEnqueue, RunsKept
  <2> QED
    BY <2>1, <2>2, QuietKeepsOwn
<1>6. ASSUME NEW r \in Responses, NEW v \in Verdicts, Review(r, v)
      PROVE  OwnInv'
  <2>1. Quiet
    BY <1>6 DEF Review, SetVerdict, Quiet, fileVars, requestVars
  <2>2. RunsKept
    BY <1>6, <1>0 DEF Review, RunsKept
  <2> QED
    BY <2>1, <2>2, QuietKeepsOwn
<1> QED
  BY <1>1, <1>2, <1>3, <1>4, <1>5, <1>6 DEF Handle

LEMMA OwnInvHolds == Spec => []OwnInv
<1>1. Init => OwnInv
  BY DEF Init, StoreInit, GoQueueInit, GoRequestInit, OwnInv, UploadsOwned, FilesOwned,
         PathsOwned, RowsAnnounced
<1>2. TypeOK /\ OwnInv /\ [Next]_vars => OwnInv'
  <2> SUFFICES ASSUME TypeOK, OwnInv, [Next]_vars
               PROVE  OwnInv'
    OBVIOUS
  <2>0. GoQueueTypeOK /\ GoRequestTypeOK /\ PathsOwned
    BY DEF TypeOK, OwnInv
  <2>1. ASSUME NEW w \in Workers, Run(w)
        PROVE  OwnInv'
    BY <2>1, RunKeepsOwn
  <2>2. ASSUME NEW w \in Workers, Get(w), UNCHANGED <<storeVars, requestVars, runVars>>
        PROVE  OwnInv'
    <3>1. Quiet
      BY <2>2 DEF Quiet, storeVars, requestVars
    <3>2. src[w] = None /\ UNCHANGED src
      BY <2>2, <2>0 DEF Get, PathsOwned, Unrun, runVars
    <3>3. \A x \in Workers \ {w} : held'[x] = held[x] /\ pc'[x] = pc[x]
      BY <2>2, <2>0 DEF Get, GoQueueTypeOK
    <3>4. RunsKept
      BY <3>2, <3>3 DEF RunsKept
    <3> QED
      BY <3>1, <3>4, QuietKeepsOwn
  <2>3. ASSUME NEW job \in Retries, WakeUp(job)
        PROVE  OwnInv'
    BY <2>3, QuietKeepsOwn DEF WakeUp, Wake, Quiet, RunsKept, storeVars, requestVars, runVars
  <2>4. ASSUME Handle, UNCHANGED runVars
        PROVE  OwnInv'
    BY <2>4, HandleKeepsOwn
  <2>5. ASSUME Life, UNCHANGED <<storeVars, requestVars, runVars>>
        PROVE  OwnInv'
    <3>1. Quiet
      BY <2>5 DEF Quiet, storeVars, requestVars
    <3>2. RunsKept
      BY <2>5, <2>0
         DEF Life, Restart, StartWith, Recover, Serve, Shutdown, Leave, RunsKept, Unrun,
             GoQueueTypeOK, runVars
    <3> QED
      BY <3>1, <3>2, QuietKeepsOwn
  <2>6. CASE RestartBlind
    BY <2>6, QuietKeepsOwn DEF RestartBlind, StartWith, Quiet, RunsKept, storeVars, runVars
  <2>7. CASE Killed
    <3>1. Quiet
      BY <2>7, <2>0 DEF Killed, Quiet, storeVars, GoRequestTypeOK
    <3>2. RunsKept
      BY <2>7 DEF Killed, RunsKept
    <3> QED
      BY <3>1, <3>2, QuietKeepsOwn
  <2>8. CASE UNCHANGED vars
    BY <2>8, QuietKeepsOwn
       DEF vars, Quiet, RunsKept, storeVars, goQueueVars, requestVars, runVars
  <2> QED
    BY <2>1, <2>2, <2>3, <2>4, <2>5, <2>6, <2>7, <2>8 DEF Next, Work
<1> QED
  BY <1>1, <1>2, TypeCorrect, PTL DEF Spec

\* Once no job for a response with one slot and one upload is outstanding, and
\* none was lost and no statement skipped, its job is COMPLETE and its row leads
\* to that recording, in the original or in a copy.
THEOREM TakeKept == Spec => []AcceptedTakeKept
<1>1. TypeOK /\ WorkInv /\ OwnInv => AcceptedTakeKept
  <2> SUFFICES ASSUME TypeOK, WorkInv, OwnInv,
                      NEW r \in Responses, NEW s \in Slots, NEW u \in Uploads,
                      {t \in Slots : slotFor[t] = r} = {s},
                      {v \in Uploads : upFor[v] = r} = {u},
                      upPc[u] = "done", r \notin lost \cup skipped, ~Outstanding(r)
               PROVE  jobStatus[r] = "COMPLETE" /\ Kept(r) = u
    BY DEF AcceptedTakeKept
  <2>0. /\ StoreTypeOK /\ GoRequestTypeOK /\ WorkInvAt(r)
        /\ UploadsOwned /\ FilesOwned /\ PathsOwned /\ RowsAnnounced
    BY DEF TypeOK, WorkInv, OwnInv
  <2>1. upFor[u] = r /\ slotFor[s] = r /\ upSlot[u] \in Slots
    BY <2>0 DEF GoRequestTypeOK
  <2>2. upSlot[u] # None
    BY <2>1, StorageAssumption
  <2>3. slotFor[upSlot[u]] = r /\ slotPc[upSlot[u]] = "done" /\ file[upSlot[u]] # None
    BY <2>0, <2>1, <2>2 DEF UploadsOwned
  <2>4. upSlot[u] = s
    BY <2>1, <2>3
  <2>5. jobStatus[r] # "ABSENT"
    BY <2>0, <2>1, <2>3, <2>4 DEF RowsAnnounced
  <2>6. jobStatus[r] # "UPLOADING"
    BY <2>0, <2>1, <2>4 DEF RowsAnnounced
  <2>7. ~Mid(r)
    BY <2>0 DEF WorkInvAt, Covered, Outstanding, Held
  <2>8. jobStatus[r] = "COMPLETE"
    BY <2>0, <2>5, <2>6, <2>7 DEF StoreTypeOK, JobStatus, Mid
  <2>9. wavPath[r] = s
    <3>1. wavPath[r] \in Slots
      BY <2>0, <2>5 DEF StoreTypeOK
    <3>2. slotFor[wavPath[r]] = r
      BY <2>0, <3>1, StorageAssumption DEF PathsOwned
    <3> QED
      BY <3>1, <3>2
  <2>10. ASSUME NEW v \in Uploads, upSlot[v] = s
         PROVE  v = u
    BY <2>0, <2>1, <2>10, StorageAssumption DEF UploadsOwned
  <2>11. Kept(r) # None /\ Kept(r) \in Uploads /\ upSlot[Kept(r)] = s
    <3>1. /\ isWav[r] => wavCopy[s] # None
          /\ file[s] # None
      BY <2>0, <2>3, <2>4, <2>9 DEF GoRequestTypeOK
    <3>2. file[s] \in Uploads \cup {None} /\ wavCopy[s] \in Uploads \cup {None}
      BY <2>0 DEF StoreTypeOK
    <3> QED
      BY <2>0, <2>9, <3>1, <3>2 DEF Kept, FilesOwned
  <2> QED
    BY <2>8, <2>10, <2>11
<1> QED
  BY <1>1, TypeCorrect, WorkInvHolds, OwnInvHolds, PTL
=============================================================================
