------------------------ MODULE AudioPipelineProofs ------------------------
(***************************************************************************)
(* Proofs about AudioPipeline that hold for every set of responses, slots, *)
(* uploads and workers, every queue size and every bound on crashes and    *)
(* faults: the facts about the queue, the types, the refinement of         *)
(* WorkQueue, where the work for a response is, and how a recording gets   *)
(* from its slot to the responses row.                                     *)
(***************************************************************************)
EXTENDS AudioPipeline, SequenceTheorems, TLAPS

-----------------------------------------------------------------------------
(* Facts about the queue.                                                  *)

\* put_nowait keeps the queue well-typed and within its size, and changes
\* what is queued by at most the response it is called with.
LEMMA EnqueueFacts ==
  ASSUME queue \in Seq(Job), Len(queue) <= QueueCap, NEW r \in Responses,
         Enqueue(r)
  PROVE  /\ queue' \in Seq(Job)
         /\ Len(queue') <= QueueCap
         /\ \A q \in Responses : Queued(q) => Queued(q)'
         /\ \A q \in Responses : Queued(q)' => Queued(q) \/ q = r
         /\ r \in lost' \/ Queued(r)'
         /\ \A q \in Responses : q # r => (q \in lost' <=> q \in lost)
         /\ \A q \in Responses : q \in settled' => q \in settled
         /\ r \in settled' => UNCHANGED queue
<1>1. CASE Len(queue) < QueueCap /\ queue' = Append(queue, NewJob(r))
           /\ lost' = lost \ {r} /\ settled' = settled \ {r}
  <2>1. NewJob(r) \in Job
    BY DEF NewJob, Job
  <2>2. /\ queue' \in Seq(Job)
        /\ Len(queue') = Len(queue) + 1
        /\ \A i \in 1 .. Len(queue) : queue'[i] = queue[i]
        /\ queue'[Len(queue) + 1] = NewJob(r)
    BY <1>1, <2>1
  <2>3. Len(queue) \in Nat
    OBVIOUS
  <2>4. DOMAIN queue = 1 .. Len(queue) /\ DOMAIN queue' = 1 .. (Len(queue) + 1)
    BY <2>2
  <2>5. NewJob(r).resp = r
    BY DEF NewJob
  <2>6. Len(queue') <= QueueCap
    BY <1>1, <2>2, <2>3, QueueAssumption
  <2>7. \A q \in Responses : Queued(q) => Queued(q)'
    BY <2>2, <2>3, <2>4 DEF Queued
  <2>8. \A q \in Responses : Queued(q)' => Queued(q) \/ q = r
    BY <2>2, <2>3, <2>4, <2>5 DEF Queued
  <2>9. Queued(r)'
    BY <2>2, <2>3, <2>4, <2>5 DEF Queued
  <2> QED
    BY <1>1, <2>2, <2>6, <2>7, <2>8, <2>9
<1>2. CASE lost' = lost \cup {r} /\ UNCHANGED <<queue, settled>>
  BY <1>2 DEF Queued
<1> QED
  BY <1>1, <1>2 DEF Enqueue

\* Taking the head keeps the queue well-typed, and only the head leaves it.
LEMMA TailFacts ==
  ASSUME queue \in Seq(Job), Len(queue) <= QueueCap, queue # <<>>,
         queue' = Tail(queue)
  PROVE  /\ queue' \in Seq(Job)
         /\ Len(queue') <= QueueCap
         /\ Head(queue) \in Job
         /\ Queued(Head(queue).resp)
         /\ \A q \in Responses : Queued(q)' => Queued(q)
         /\ \A q \in Responses : Queued(q) => Queued(q)' \/ q = Head(queue).resp
<1>1. /\ Len(queue) \in Nat \ {0}
      /\ Head(queue) = queue[1]
      /\ queue' \in Seq(Job)
      /\ Len(queue') = Len(queue) - 1
      /\ \A i \in 1 .. Len(queue') : queue'[i] = queue[i + 1]
  BY HeadTailProperties
<1>2. DOMAIN queue = 1 .. Len(queue) /\ DOMAIN queue' = 1 .. (Len(queue) - 1)
  BY <1>1
<1>3. Head(queue) \in Job
  BY <1>1
<1>4. Queued(Head(queue).resp)
  BY <1>1, <1>2 DEF Queued
<1>5. \A q \in Responses : Queued(q)' => Queued(q)
  BY <1>1, <1>2 DEF Queued
<1>6. ASSUME NEW q \in Responses, Queued(q)
      PROVE  Queued(q)' \/ q = Head(queue).resp
  <2>1. PICK i \in 1 .. Len(queue) : queue[i].resp = q
    BY <1>6, <1>2 DEF Queued
  <2>2. CASE i = 1
    BY <2>1, <2>2, <1>1
  <2>3. CASE i # 1
    <3>1. i - 1 \in 1 .. Len(queue') /\ queue'[i - 1] = queue[i]
      BY <2>3, <1>1
    <3> QED
      BY <3>1, <2>1, <1>1, <1>2 DEF Queued
  <2> QED
    BY <2>2, <2>3
<1>7. Len(queue') <= QueueCap
  BY <1>1, QueueAssumption
<1> QED
  BY <1>1, <1>3, <1>4, <1>5, <1>6, <1>7

-----------------------------------------------------------------------------
(* Types: one lemma per kind of step, then the theorem.                    *)

\* A statement on the two tables keeps them well-typed; a row, once there,
\* stays.
LEMMA StatementTypes ==
  ASSUME StoreTypeOK, NEW r \in Responses, UNCHANGED fileVars,
         \/ jobStatus[r] # "ABSENT" /\ \E st \in MidStatus \cup {"COMPLETE"} :
                                           SetJobStatus(r, st)
         \/ \E st \in {"UPLOADING", "QC_PENDING"}, s \in Slots :
                SetJobPath(r, st, s)
         \/ \E u \in Uploads : SetTranscript(r, u) \/ SetAnswer(r, u)
         \/ \E s \in Slots : SetAudioUrl(r, s)
         \/ \E v \in Verdicts : SetVerdict(r, v)
         \/ ResubmitIfProcessing(r)
         \/ UNCHANGED tableVars
  PROVE  /\ StoreTypeOK'
         /\ \A q \in Responses : jobStatus[q] # "ABSENT" => jobStatus'[q] # "ABSENT"
<1> USE DEF StoreTypeOK, JobStatus, MidStatus, RespStatus, Verdicts, fileVars
<1>1. CASE jobStatus[r] # "ABSENT" /\ \E st \in MidStatus \cup {"COMPLETE"} :
                                           SetJobStatus(r, st)
  BY <1>1 DEF SetJobStatus
<1>2. CASE \E st \in {"UPLOADING", "QC_PENDING"}, s \in Slots : SetJobPath(r, st, s)
  BY <1>2 DEF SetJobPath
<1>3. CASE \E u \in Uploads : SetTranscript(r, u) \/ SetAnswer(r, u)
  BY <1>3 DEF SetTranscript, SetAnswer
<1>4. CASE \E s \in Slots : SetAudioUrl(r, s)
  BY <1>4 DEF SetAudioUrl
<1>5. CASE \E v \in Verdicts : SetVerdict(r, v)
  BY <1>5 DEF SetVerdict
<1>6. CASE ResubmitIfProcessing(r)
  BY <1>6 DEF ResubmitIfProcessing
<1>7. CASE UNCHANGED tableVars
  BY <1>7 DEF tableVars
<1> QED
  BY <1>1, <1>2, <1>3, <1>4, <1>5, <1>6, <1>7

\* A worker's step keeps the queue's variables well-typed.
LEMMA WorkerTypes ==
  ASSUME QueueTypeOK, NEW w \in Workers,
         \/ pc[w] # "idle" /\ \E to \in WorkerPc \ {"idle"} : Advance(w, to)
         \/ Release(w)
         \/ pc[w] # "idle" /\ RunFails(w)
         \/ Get(w)
         \/ Retry(w)
  PROVE  QueueTypeOK'
<1> USE DEF QueueTypeOK, WorkerPc
<1>1. CASE pc[w] # "idle" /\ \E to \in WorkerPc \ {"idle"} : Advance(w, to)
  BY <1>1 DEF Advance
<1>2. CASE Release(w)
  BY <1>2 DEF Release
<1>3. CASE pc[w] # "idle" /\ RunFails(w)
  <2>1. /\ attempts' \in [Workers -> Nat]
        /\ UNCHANGED <<queue, server, recovering, crashes, settled>>
    BY <1>3 DEF RunFails
  <2>2. /\ pc' \in [Workers -> WorkerPc]
        /\ held' \in [Workers -> Responses \cup {None}]
        /\ \A x \in Workers : IF pc'[x] = "idle" THEN held'[x] = None
                                                 ELSE held'[x] \in Responses
        /\ lost' \subseteq Responses
    <3>1. held[w] \in Responses
      BY <1>3
    <3>2. CASE pc' = [pc EXCEPT ![w] = "backoff"] /\ UNCHANGED <<held, lost>>
      BY <3>1, <3>2
    <3>3. CASE /\ pc' = [pc EXCEPT ![w] = "idle"]
               /\ held' = [held EXCEPT ![w] = None]
               /\ lost' = lost \cup {held[w]}
      BY <3>1, <3>3
    <3> QED
      BY <1>3, <3>2, <3>3 DEF RunFails
  <2> QED
    BY <2>1, <2>2
<1>4. CASE Get(w)
  <2>1. /\ queue' \in Seq(Job)
        /\ Len(queue') <= QueueCap
        /\ Head(queue) \in Job
    BY <1>4, TailFacts DEF Get
  <2> QED
    BY <1>4, <2>1 DEF Get, Job
<1>5. CASE Retry(w)
  <2>1. held[w] \in Responses
    BY <1>5 DEF Retry
  <2>2. /\ queue' \in Seq(Job)
        /\ Len(queue') <= QueueCap
    BY <1>5, <2>1, EnqueueFacts DEF Retry
  <2> QED
    BY <1>5, <2>1, <2>2 DEF Retry, Enqueue
<1> QED
  BY <1>1, <1>2, <1>3, <1>4, <1>5

\* Steps of others leave the locals of the runs as they need them: rows and
\* files do not go away.
LEMMA RunsUndisturbed ==
  ASSUME RunTypeOK, QueueTypeOK, UNCHANGED <<runVars, pc, held, wavCopy>>,
         \A s \in Slots : file[s] # None => file'[s] # None,
         \A q \in Responses : jobStatus[q] # "ABSENT" => jobStatus'[q] # "ABSENT"
  PROVE  RunTypeOK'
  BY DEF RunTypeOK, QueueTypeOK, WorkerPc, runVars, Exists, Loaded, GatePassed,
         HasText

\* Every reachable state has the types of TypeOK: in particular the queue
\* never exceeds its size, a busy worker always holds a response whose row
\* exists, and a transcription is asked for only with a file to read.
THEOREM TypeCorrect == Spec => []TypeOK
<1>1. Init => TypeOK
  BY QueueAssumption, FaultAssumption, StorageAssumption
     DEF Init, StoreInit, QueueInit, RequestInit, TypeOK, StoreTypeOK,
         QueueTypeOK, RequestTypeOK, RunTypeOK, Loaded, GatePassed, HasText,
         JobStatus, RespStatus, SlotPc, UpPc, WorkerPc
<1>2. TypeOK /\ [Next]_vars => TypeOK'
  <2> SUFFICES ASSUME TypeOK, [Next]_vars
               PROVE  TypeOK'
    OBVIOUS
  <2>0. StoreTypeOK /\ QueueTypeOK /\ RequestTypeOK /\ RunTypeOK
    BY DEF TypeOK
  <2>a. UNCHANGED storeVars => StoreTypeOK'
    BY <2>0 DEF StoreTypeOK, storeVars
  <2>b. UNCHANGED queueVars => QueueTypeOK'
    BY <2>0 DEF QueueTypeOK, queueVars
  <2>c. UNCHANGED requestVars => RequestTypeOK'
    BY <2>0 DEF RequestTypeOK, requestVars
  <2>1. ASSUME NEW w \in Workers, MarkPassed(w)
        PROVE  TypeOK'
    <3>1. pc[w] # "idle" /\ held[w] \in Responses /\ pc[w] \in Loaded
      BY <2>1, <2>0 DEF MarkPassed, QueueTypeOK, Loaded, GatePassed, HasText
    <3>2. /\ StoreTypeOK'
          /\ \A q \in Responses : jobStatus[q] # "ABSENT" => jobStatus'[q] # "ABSENT"
      BY <2>1, <2>0, <3>1, StatementTypes
         DEF MarkPassed, RunTypeOK, GatePassed, HasText, MidStatus
    <3>3. QueueTypeOK'
      BY <2>1, <2>0, <3>1, WorkerTypes DEF MarkPassed, WorkerPc
    <3>4. RunTypeOK'
      BY <2>1, <2>0, <3>1, <3>2
         DEF MarkPassed, Advance, RunTypeOK, QueueTypeOK, WorkerPc, runVars, fileVars,
             Exists, Loaded, GatePassed, HasText
    <3> QED
      BY <2>1, <2>c, <3>2, <3>3, <3>4 DEF MarkPassed, TypeOK
  <2>2. ASSUME NEW w \in Workers, MarkTranscribing(w)
        PROVE  TypeOK'
    <3>1. pc[w] # "idle" /\ held[w] \in Responses /\ pc[w] \in Loaded
      BY <2>2, <2>0 DEF MarkTranscribing, QueueTypeOK, Loaded, GatePassed, HasText
    <3>2. /\ StoreTypeOK'
          /\ \A q \in Responses : jobStatus[q] # "ABSENT" => jobStatus'[q] # "ABSENT"
      BY <2>2, <2>0, <3>1, StatementTypes
         DEF MarkTranscribing, RunTypeOK, GatePassed, HasText, MidStatus
    <3>3. QueueTypeOK'
      BY <2>2, <2>0, <3>1, WorkerTypes DEF MarkTranscribing, WorkerPc
    <3>4. RunTypeOK'
      BY <2>2, <2>0, <3>1, <3>2
         DEF MarkTranscribing, Advance, RunTypeOK, QueueTypeOK, WorkerPc, runVars, fileVars,
             Exists, Loaded, GatePassed, HasText
    <3> QED
      BY <2>2, <2>c, <3>2, <3>3, <3>4 DEF MarkTranscribing, TypeOK
  <2>3. ASSUME NEW w \in Workers, MarkExtracting(w)
        PROVE  TypeOK'
    <3>1. pc[w] # "idle" /\ held[w] \in Responses /\ pc[w] \in Loaded
      BY <2>3, <2>0 DEF MarkExtracting, QueueTypeOK, Loaded, GatePassed, HasText
    <3>2. /\ StoreTypeOK'
          /\ \A q \in Responses : jobStatus[q] # "ABSENT" => jobStatus'[q] # "ABSENT"
      BY <2>3, <2>0, <3>1, StatementTypes
         DEF MarkExtracting, RunTypeOK, GatePassed, HasText, MidStatus
    <3>3. QueueTypeOK'
      BY <2>3, <2>0, <3>1, WorkerTypes DEF MarkExtracting, WorkerPc
    <3>4. RunTypeOK'
      BY <2>3, <2>0, <3>1, <3>2
         DEF MarkExtracting, Advance, RunTypeOK, QueueTypeOK, WorkerPc, runVars, fileVars,
             Exists, Loaded, GatePassed, HasText
    <3> QED
      BY <2>3, <2>c, <3>2, <3>3, <3>4 DEF MarkExtracting, TypeOK
  <2>4. ASSUME NEW w \in Workers, MarkComplete(w)
        PROVE  TypeOK'
    <3>1. pc[w] # "idle" /\ held[w] \in Responses /\ pc[w] \in Loaded
      BY <2>4, <2>0 DEF MarkComplete, QueueTypeOK, Loaded, GatePassed, HasText
    <3>2. /\ StoreTypeOK'
          /\ \A q \in Responses : jobStatus[q] # "ABSENT" => jobStatus'[q] # "ABSENT"
      BY <2>4, <2>0, <3>1, StatementTypes
         DEF MarkComplete, RunTypeOK, GatePassed, HasText, MidStatus
    <3>3. QueueTypeOK'
      BY <2>4, <2>0, <3>1, WorkerTypes DEF MarkComplete, WorkerPc
    <3>4. RunTypeOK'
      BY <2>4, <2>0, <3>1, <3>2
         DEF MarkComplete, Advance, RunTypeOK, QueueTypeOK, WorkerPc, runVars, fileVars,
             Exists, Loaded, GatePassed, HasText
    <3> QED
      BY <2>4, <2>c, <3>2, <3>3, <3>4 DEF MarkComplete, TypeOK
  <2>5. ASSUME NEW w \in Workers, StoreTranscript(w)
        PROVE  TypeOK'
    <3>1. pc[w] # "idle" /\ held[w] \in Responses /\ pc[w] \in Loaded
      BY <2>5, <2>0 DEF StoreTranscript, QueueTypeOK, Loaded, GatePassed, HasText
    <3>2. /\ StoreTypeOK'
          /\ \A q \in Responses : jobStatus[q] # "ABSENT" => jobStatus'[q] # "ABSENT"
      BY <2>5, <2>0, <3>1, StatementTypes
         DEF StoreTranscript, RunTypeOK, GatePassed, HasText, MidStatus
    <3>3. QueueTypeOK'
      BY <2>5, <2>0, <3>1, WorkerTypes DEF StoreTranscript, WorkerPc
    <3>4. RunTypeOK'
      BY <2>5, <2>0, <3>1, <3>2
         DEF StoreTranscript, Advance, RunTypeOK, QueueTypeOK, WorkerPc, runVars, fileVars,
             Exists, Loaded, GatePassed, HasText
    <3> QED
      BY <2>5, <2>c, <3>2, <3>3, <3>4 DEF StoreTranscript, TypeOK
  <2>6. ASSUME NEW w \in Workers, Extract(w)
        PROVE  TypeOK'
    <3>1. pc[w] # "idle" /\ held[w] \in Responses /\ pc[w] \in Loaded
      BY <2>6, <2>0 DEF Extract, QueueTypeOK, Loaded, GatePassed, HasText
    <3>2. /\ StoreTypeOK'
          /\ \A q \in Responses : jobStatus[q] # "ABSENT" => jobStatus'[q] # "ABSENT"
      BY <2>6, <2>0, <3>1, StatementTypes
         DEF Extract, RunTypeOK, GatePassed, HasText, MidStatus
    <3>3. QueueTypeOK'
      BY <2>6, <2>0, <3>1, WorkerTypes DEF Extract, WorkerPc
    <3>4. RunTypeOK'
      BY <2>6, <2>0, <3>1, <3>2
         DEF Extract, Advance, RunTypeOK, QueueTypeOK, WorkerPc, runVars, fileVars,
             Exists, Loaded, GatePassed, HasText
    <3> QED
      BY <2>6, <2>c, <3>2, <3>3, <3>4 DEF Extract, TypeOK
  <2>7. ASSUME NEW w \in Workers, StoreUrl(w)
        PROVE  TypeOK'
    <3>1. pc[w] # "idle" /\ held[w] \in Responses /\ pc[w] \in Loaded
      BY <2>7, <2>0 DEF StoreUrl, QueueTypeOK, Loaded, GatePassed, HasText
    <3>2. /\ StoreTypeOK'
          /\ \A q \in Responses : jobStatus[q] # "ABSENT" => jobStatus'[q] # "ABSENT"
      BY <2>7, <2>0, <3>1, StatementTypes
         DEF StoreUrl, RunTypeOK, GatePassed, HasText, MidStatus, Exists
    <3>3. QueueTypeOK'
      BY <2>7, <2>0, <3>1, WorkerTypes DEF StoreUrl, WorkerPc
    <3>4. RunTypeOK'
      BY <2>7, <2>0, <3>1, <3>2
         DEF StoreUrl, Advance, RunTypeOK, QueueTypeOK, WorkerPc, runVars, fileVars,
             Exists, Loaded, GatePassed, HasText
    <3> QED
      BY <2>7, <2>c, <3>2, <3>3, <3>4 DEF StoreUrl, TypeOK
  <2>8. ASSUME NEW w \in Workers, Load(w)
        PROVE  TypeOK'
    <3>1. pc[w] # "idle" /\ held[w] \in Responses
      BY <2>8, <2>0 DEF Load, QueueTypeOK
    <3>2. StoreTypeOK'
      BY <2>8, <2>a DEF Load
    <3>3. QueueTypeOK'
      BY <2>8, <2>0, <3>1, WorkerTypes DEF Load, WorkerPc
    <3>4. RequestTypeOK'
      BY <2>8, <2>c DEF Load
    <3>5. RunTypeOK'
      <4>1. CASE jobStatus[held[w]] # "ABSENT"
        <5>1. wavPath[held[w]] \in Slots
          BY <2>0, <3>1, <4>1 DEF StoreTypeOK
        <5> QED
          BY <2>8, <2>0, <3>1, <4>1, <5>1
             DEF Load, Advance, RunTypeOK, QueueTypeOK, WorkerPc, storeVars,
               Exists, Loaded, GatePassed, HasText
      <4>2. CASE jobStatus[held[w]] = "ABSENT"
        <5>1. /\ pc' \in [Workers -> WorkerPc] /\ pc'[w] \in {"idle", "backoff"}
              /\ \A x \in Workers \ {w} : pc'[x] = pc[x] /\ held'[x] = held[x]
          BY <2>8, <2>0, <4>2 DEF Load, RunFails, QueueTypeOK, WorkerPc
        <5> QED
          BY <2>8, <2>0, <4>2, <5>1
             DEF Load, RunTypeOK, QueueTypeOK, WorkerPc, storeVars,
               Exists, Loaded, GatePassed, HasText
      <4> QED
        BY <4>1, <4>2
    <3> QED
      BY <3>2, <3>3, <3>4, <3>5 DEF TypeOK
  <2>9. ASSUME NEW w \in Workers, Convert(w)
        PROVE  TypeOK'
    <3>1. pc[w] # "idle" /\ held[w] \in Responses
      BY <2>9, <2>0 DEF Convert, QueueTypeOK
    <3>2. StoreTypeOK'
      BY <2>9, <2>0 DEF Convert, StoreTypeOK, tableVars, Exists
    <3>3. QueueTypeOK'
      BY <2>9, <2>0, <3>1, WorkerTypes DEF Convert, WorkerPc, AfterConvert
    <3>4. RequestTypeOK'
      BY <2>9, <2>c DEF Convert
    <3>5. RunTypeOK'
      <4>0. src[w] \in Slots /\ jobStatus[held[w]] # "ABSENT"
        BY <2>9, <2>0 DEF Convert, RunTypeOK, Loaded
      <4>1. /\ useCopy' \in [Workers -> BOOLEAN]
            /\ \A x \in Workers \ {w} : useCopy'[x] = useCopy[x]
            /\ useCopy'[w] => wavCopy'[src[w]] # None
            /\ \A s \in Slots : wavCopy[s] # None => wavCopy'[s] # None
        BY <2>9, <2>0, <4>0 DEF Convert, RunTypeOK, StoreTypeOK, Exists
      <4>2. /\ pc' = [pc EXCEPT ![w] = AfterConvert(w)]
            /\ UNCHANGED <<held, src, heard, file, jobStatus>>
        BY <2>9 DEF Convert, Advance, tableVars
      <4>3. /\ AfterConvert(w) \in {"transcribing", "playback"}
            /\ AfterConvert(w) = "transcribing" => Exists(src[w])
        BY DEF AfterConvert
      <4>4. /\ \A x \in Workers \ {w} : pc'[x] = pc[x]
            /\ pc'[w] = AfterConvert(w)
        BY <2>0, <4>2 DEF QueueTypeOK
      <4> QED
        BY <2>0, <4>0, <4>1, <4>2, <4>3, <4>4
           DEF RunTypeOK, Exists, Loaded, GatePassed, HasText
    <3> QED
      BY <3>2, <3>3, <3>4, <3>5 DEF TypeOK
  <2>10. ASSUME NEW w \in Workers, Transcribe(w)
        PROVE  TypeOK'
    <3>1. pc[w] # "idle" /\ held[w] \in Responses
      BY <2>10, <2>0 DEF Transcribe, QueueTypeOK
    <3>2. StoreTypeOK'
      BY <2>10, <2>a DEF Transcribe
    <3>3. QueueTypeOK'
      BY <2>10, <2>0, <3>1, WorkerTypes DEF Transcribe, WorkerPc
    <3>4. RequestTypeOK'
      BY <2>10, <2>c DEF Transcribe
    <3>5. RunTypeOK'
      <4>0. /\ src[w] \in Slots /\ Exists(src[w])
            /\ useCopy[w] => wavCopy[src[w]] # None
            /\ jobStatus[held[w]] # "ABSENT"
        BY <2>10, <2>0 DEF Transcribe, RunTypeOK, Loaded, GatePassed
      <4>1. CASE UNCHANGED heard /\ Advance(w, "playback")
        BY <2>10, <2>0, <4>0, <4>1
           DEF Transcribe, Advance, RunTypeOK, QueueTypeOK, WorkerPc, storeVars,
               Exists, Loaded, GatePassed, HasText
      <4>2. CASE /\ heard' = [heard EXCEPT ![w] = IF useCopy[w] THEN wavCopy[src[w]]
                                                            ELSE file[src[w]]]
                 /\ Advance(w, "scribe")
        <5>1. heard' \in [Workers -> Uploads \cup {None}] /\ heard'[w] # None
          BY <2>0, <4>0, <4>2 DEF StoreTypeOK, RunTypeOK, Exists
        <5> QED
          BY <2>10, <2>0, <4>0, <4>2, <5>1
             DEF Transcribe, Advance, RunTypeOK, QueueTypeOK, WorkerPc, storeVars,
               Exists, Loaded, GatePassed, HasText
      <4> QED
        BY <2>10, <4>1, <4>2 DEF Transcribe
    <3> QED
      BY <3>2, <3>3, <3>4, <3>5 DEF TypeOK
  <2>11. ASSUME NEW w \in Workers, SkipOnFault(w)
        PROVE  TypeOK'
    <3>1. pc[w] # "idle" /\ held[w] \in Responses
      BY <2>11, <2>0 DEF SkipOnFault, QueueTypeOK
    <3>2. StoreTypeOK'
      BY <2>11, <2>a DEF SkipOnFault
    <3>3. QueueTypeOK'
      BY <2>11, <2>0, <3>1, WorkerTypes DEF SkipOnFault, WorkerPc
    <3>4. RequestTypeOK'
      BY <2>11, <2>0, FaultAssumption DEF SkipOnFault, DbFault, RequestTypeOK
    <3>5. RunTypeOK'
      BY <2>11, <2>0
         DEF SkipOnFault, Advance, RunTypeOK, QueueTypeOK, WorkerPc, storeVars,
             runVars, Exists, Loaded, GatePassed, HasText
    <3> QED
      BY <3>2, <3>3, <3>4, <3>5 DEF TypeOK
  <2>12. ASSUME NEW w \in Workers, RunRaises(w)
        PROVE  TypeOK'
    <3>1. pc[w] # "idle" /\ held[w] \in Responses
      BY <2>12, <2>0 DEF RunRaises, QueueTypeOK
    <3>2. StoreTypeOK'
      BY <2>12, <2>a DEF RunRaises
    <3>3. QueueTypeOK'
      BY <2>12, <2>0, <3>1, WorkerTypes DEF RunRaises, WorkerPc
    <3>4. RequestTypeOK'
      BY <2>12, <2>0, FaultAssumption DEF RunRaises, DbFault, RequestTypeOK
    <3>5. RunTypeOK'
      BY <2>12, <2>0, <3>1, StorageAssumption
         DEF RunRaises, Advance, RunFails, Release, ClearRun, AfterConvert, RunTypeOK,
             StoreTypeOK, QueueTypeOK, WorkerPc, storeVars, tableVars, fileVars,
             ResubmitIfProcessing, Exists, Loaded, GatePassed, HasText
    <3> QED
      BY <3>2, <3>3, <3>4, <3>5 DEF TypeOK
  <2>13. ASSUME NEW w \in Workers, Finish(w)
        PROVE  TypeOK'
    <3>1. pc[w] # "idle" /\ held[w] \in Responses
      BY <2>13, <2>0 DEF Finish, QueueTypeOK
    <3>2. StoreTypeOK'
      BY <2>13, <2>0, <3>1, StatementTypes DEF Finish
    <3>3. QueueTypeOK'
      BY <2>13, <2>0, <3>1, WorkerTypes DEF Finish, WorkerPc
    <3>4. RequestTypeOK'
      BY <2>13, <2>c DEF Finish
    <3>5. RunTypeOK'
      BY <2>13, <2>0, <3>1, StorageAssumption
         DEF Finish, Advance, RunFails, Release, ClearRun, AfterConvert, RunTypeOK,
             StoreTypeOK, QueueTypeOK, WorkerPc, storeVars, tableVars, fileVars,
             ResubmitIfProcessing, Exists, Loaded, GatePassed, HasText
    <3> QED
      BY <3>2, <3>3, <3>4, <3>5 DEF TypeOK
  <2>14. ASSUME NEW w \in Workers, Get(w),
               UNCHANGED <<storeVars, requestVars, runVars>>
        PROVE  TypeOK'
    <3>1. QueueTypeOK'
      BY <2>14, <2>0, WorkerTypes
    <3>2. RunTypeOK'
      BY <2>14, <2>0
         DEF Get, RunTypeOK, QueueTypeOK, WorkerPc, storeVars, runVars, Exists,
             Loaded, GatePassed, HasText
    <3> QED
      BY <2>14, <2>a, <2>c, <3>1, <3>2 DEF TypeOK
  <2>15. ASSUME NEW w \in Workers, Retry(w),
               UNCHANGED <<storeVars, requestVars, runVars>>
        PROVE  TypeOK'
    <3>1. QueueTypeOK'
      BY <2>15, <2>0, WorkerTypes
    <3>2. RunTypeOK'
      BY <2>15, <2>0
         DEF Retry, RunTypeOK, QueueTypeOK, WorkerPc, storeVars, runVars, Exists,
             Loaded, GatePassed, HasText
    <3> QED
      BY <2>15, <2>a, <2>c, <3>1, <3>2 DEF TypeOK
  <2>16. ASSUME NEW s \in Slots, NEW r \in Responses, SlotLookup(s, r), UNCHANGED runVars
        PROVE  TypeOK'
    <3>1. RequestTypeOK'
      BY <2>16, <2>0, FaultAssumption
         DEF SlotLookup, DbFault, RequestTypeOK, StoreTypeOK, SlotPc, UpPc
    <3>2. RunTypeOK'
      BY <2>16, <2>0, RunsUndisturbed DEF SlotLookup, storeVars, queueVars
    <3> QED
      BY <2>16, <2>a, <2>b, <3>1, <3>2 DEF SlotLookup, TypeOK
  <2>17. ASSUME NEW s \in Slots, SlotFails(s), UNCHANGED runVars
        PROVE  TypeOK'
    <3>1. RequestTypeOK'
      BY <2>17, <2>0, FaultAssumption
         DEF SlotFails, DbFault, RequestTypeOK, StoreTypeOK, SlotPc, UpPc
    <3>2. RunTypeOK'
      BY <2>17, <2>0, RunsUndisturbed DEF SlotFails, storeVars, queueVars
    <3> QED
      BY <2>17, <2>a, <2>b, <3>1, <3>2 DEF SlotFails, TypeOK
  <2>18. ASSUME NEW u \in Uploads, NEW r \in Responses, UploadLookup(u, r), UNCHANGED runVars
        PROVE  TypeOK'
    <3>1. RequestTypeOK'
      BY <2>18, <2>0, FaultAssumption
         DEF UploadLookup, DbFault, RequestTypeOK, StoreTypeOK, SlotPc, UpPc
    <3>2. RunTypeOK'
      BY <2>18, <2>0, RunsUndisturbed DEF UploadLookup, storeVars, queueVars
    <3> QED
      BY <2>18, <2>a, <2>b, <3>1, <3>2 DEF UploadLookup, TypeOK
  <2>19. ASSUME NEW u \in Uploads, UploadFails(u), UNCHANGED runVars
        PROVE  TypeOK'
    <3>1. RequestTypeOK'
      BY <2>19, <2>0, FaultAssumption
         DEF UploadFails, DbFault, RequestTypeOK, StoreTypeOK, SlotPc, UpPc
    <3>2. RunTypeOK'
      BY <2>19, <2>0, RunsUndisturbed DEF UploadFails, storeVars, queueVars
    <3> QED
      BY <2>19, <2>a, <2>b, <3>1, <3>2 DEF UploadFails, TypeOK
  <2>20. ASSUME NEW s \in Slots, SlotStore(s), UNCHANGED runVars
        PROVE  TypeOK'
    <3>1. slotFor[s] \in Responses
      BY <2>20, <2>0 DEF SlotStore, RequestTypeOK
    <3>2. /\ StoreTypeOK'
          /\ \A q \in Responses : jobStatus[q] # "ABSENT" => jobStatus'[q] # "ABSENT"
      BY <2>20, <2>0, <3>1, StatementTypes DEF SlotStore
    <3>3. RequestTypeOK'
      BY <2>20, <2>0 DEF SlotStore, RequestTypeOK, SlotPc, UpPc
    <3>4. RunTypeOK'
      BY <2>20, <2>0, <3>2, RunsUndisturbed DEF SlotStore, queueVars, fileVars
    <3> QED
      BY <2>20, <2>b, <3>2, <3>3, <3>4 DEF SlotStore, TypeOK
  <2>21. ASSUME NEW u \in Uploads, UploadMark(u), UNCHANGED runVars
        PROVE  TypeOK'
    <3>1. upFor[u] \in Responses /\ upPath[u] \in Slots
      BY <2>21, <2>0 DEF UploadMark, RequestTypeOK
    <3>2. /\ StoreTypeOK'
          /\ \A q \in Responses : jobStatus[q] # "ABSENT" => jobStatus'[q] # "ABSENT"
      BY <2>21, <2>0, <3>1, StatementTypes DEF UploadMark
    <3>3. RequestTypeOK'
      BY <2>21, <2>0 DEF UploadMark, RequestTypeOK, SlotPc, UpPc
    <3>4. RunTypeOK'
      BY <2>21, <2>0, <3>2, RunsUndisturbed DEF UploadMark, queueVars, fileVars
    <3> QED
      BY <2>21, <2>b, <3>2, <3>3, <3>4 DEF UploadMark, TypeOK
  <2>22. ASSUME NEW u \in Uploads, UploadWrite(u), UNCHANGED runVars
        PROVE  TypeOK'
    <3>1. StoreTypeOK'
      BY <2>22, <2>0 DEF UploadWrite, StoreTypeOK, tableVars
    <3>2. RequestTypeOK'
      BY <2>22, <2>0 DEF UploadWrite, RequestTypeOK, SlotPc, UpPc
    <3>3. RunTypeOK'
      BY <2>22, <2>0, StorageAssumption, RunsUndisturbed
         DEF UploadWrite, StoreTypeOK, queueVars, tableVars
    <3> QED
      BY <2>22, <2>b, <3>1, <3>2, <3>3 DEF UploadWrite, TypeOK
  <2>23. ASSUME NEW u \in Uploads, UploadEnqueue(u), UNCHANGED runVars
        PROVE  TypeOK'
    <3>1. upFor[u] \in Responses
      BY <2>23, <2>0 DEF UploadEnqueue, RequestTypeOK
    <3>2. queue' \in Seq(Job) /\ Len(queue') <= QueueCap
      BY <2>23, <2>0, <3>1, EnqueueFacts DEF UploadEnqueue, QueueTypeOK
    <3>3. QueueTypeOK'
      BY <2>23, <2>0, <3>1, <3>2 DEF UploadEnqueue, Enqueue, QueueTypeOK
    <3>4. RequestTypeOK'
      BY <2>23, <2>0 DEF UploadEnqueue, RequestTypeOK, SlotPc, UpPc
    <3>5. RunTypeOK'
      BY <2>23, <2>0, RunsUndisturbed DEF UploadEnqueue, storeVars
    <3> QED
      BY <2>23, <2>a, <3>3, <3>4, <3>5 DEF UploadEnqueue, TypeOK
  <2>24. ASSUME NEW r \in Responses, NEW v \in Verdicts, Review(r, v),
               UNCHANGED runVars
        PROVE  TypeOK'
    <3>1. /\ StoreTypeOK'
          /\ \A q \in Responses : jobStatus[q] # "ABSENT" => jobStatus'[q] # "ABSENT"
      BY <2>24, <2>0, StatementTypes DEF Review
    <3>2. QueueTypeOK'
      BY <2>24, <2>0 DEF Review, QueueTypeOK
    <3>3. RunTypeOK'
      BY <2>24, <2>0, <3>1, RunsUndisturbed DEF Review, fileVars
    <3> QED
      BY <2>24, <2>c, <3>1, <3>2, <3>3 DEF Review, TypeOK
  <2>25. CASE Restart /\ UNCHANGED <<requestVars, runVars>>
    <3>1. QueueTypeOK'
      BY <2>25, <2>0 DEF Restart, QueueTypeOK
    <3>2. RunTypeOK'
      BY <2>25, <2>0, RunsUndisturbed DEF Restart, storeVars
    <3> QED
      BY <2>25, <2>a, <2>c, <3>1, <3>2 DEF Restart, TypeOK
  <2>26. CASE Started /\ UNCHANGED <<requestVars, runVars>>
    <3>1. QueueTypeOK'
      BY <2>26, <2>0 DEF Started, QueueTypeOK
    <3>2. RunTypeOK'
      BY <2>26, <2>0, RunsUndisturbed DEF Started, storeVars
    <3> QED
      BY <2>26, <2>a, <2>c, <3>1, <3>2 DEF Started, TypeOK
  <2>27. ASSUME NEW r \in Responses, Recover(r), UNCHANGED <<requestVars, runVars>>
        PROVE  TypeOK'
    <3>1. queue' \in Seq(Job) /\ Len(queue') <= QueueCap
      BY <2>27, <2>0, EnqueueFacts DEF Recover, QueueTypeOK
    <3>2. QueueTypeOK'
      BY <2>27, <2>0, <3>1 DEF Recover, Enqueue, QueueTypeOK
    <3>3. RunTypeOK'
      BY <2>27, <2>0, RunsUndisturbed DEF Recover, storeVars
    <3> QED
      BY <2>27, <2>a, <2>c, <3>2, <3>3 DEF Recover, TypeOK
  <2>28. CASE Crash
    <3>1. QueueTypeOK'
      BY <2>28, <2>0, QueueAssumption DEF Crash, QueueDies, QueueTypeOK, WorkerPc
    <3>2. RequestTypeOK'
      BY <2>28, <2>0 DEF Crash, RequestTypeOK, SlotPc, UpPc
    <3>3. RunTypeOK'
      BY <2>28, <2>0
         DEF Crash, QueueDies, RunTypeOK, Loaded, GatePassed, HasText
    <3> QED
      BY <2>28, <2>a, <3>1, <3>2, <3>3 DEF Crash, TypeOK
  <2>29. CASE UNCHANGED vars
    BY <2>29, <2>0, <2>a, <2>b, <2>c, RunsUndisturbed
       DEF vars, TypeOK, storeVars, queueVars
  <2> QED
    BY <2>1, <2>2, <2>3, <2>4, <2>5, <2>6, <2>7, <2>8, <2>9, <2>10, <2>11, <2>12, <2>13, <2>14, <2>15, <2>16, <2>17, <2>18, <2>19, <2>20, <2>21, <2>22, <2>23, <2>24, <2>25, <2>26, <2>27, <2>28, <2>29 DEF Next, Work, Run, Handle, Boot
<1> QED
  BY <1>1, <1>2, PTL DEF Spec

-----------------------------------------------------------------------------
(* Refinement of WorkQueue: the line is the queue's responses, in order, *)
(* and what a worker runs is what it holds.                                *)

\* The responses of a sequence of jobs: what AudioPipeline substitutes for line.
RespsOf(s) == [i \in DOMAIN s |-> s[i].resp]

\* It is a sequence of responses as long as the sequence of jobs.
LEMMA RespsOfSeq ==
  ASSUME NEW s \in Seq(Job)
  PROVE  /\ RespsOf(s) \in Seq(Responses)
         /\ Len(RespsOf(s)) = Len(s)
         /\ \A i \in 1 .. Len(s) : RespsOf(s)[i] = s[i].resp
<1>1. Len(s) \in Nat /\ DOMAIN s = 1 .. Len(s)
  OBVIOUS
<1>2. \A job \in Job : job.resp \in Responses
  BY DEF Job
<1>3. \A i \in 1 .. Len(s) : s[i] \in Job
  BY ElementOfSeq
<1>4. RespsOf(s) \in [1 .. Len(s) -> Responses]
  BY <1>1, <1>2, <1>3 DEF RespsOf
<1>5. RespsOf(s) \in Seq(Responses)
  BY <1>1, <1>4, SeqDef
<1> QED
  BY <1>1, <1>4, <1>5 DEF RespsOf

\* Forgetting the attempts of jobs commutes with sending and receiving.
LEMMA RespsOfFacts ==
  ASSUME NEW s \in Seq(Job)
  PROVE  /\ \A job \in Job : RespsOf(Append(s, job)) = Append(RespsOf(s), job.resp)
         /\ s # <<>> => /\ RespsOf(s) # <<>>
                        /\ Head(RespsOf(s)) = Head(s).resp
                        /\ RespsOf(Tail(s)) = Tail(RespsOf(s))
<1>1. Len(s) \in Nat
  OBVIOUS
<1>2. ASSUME NEW job \in Job
      PROVE  RespsOf(Append(s, job)) = Append(RespsOf(s), job.resp)
  <2>1. /\ Append(s, job) \in Seq(Job) /\ Len(Append(s, job)) = Len(s) + 1
        /\ \A i \in 1 .. Len(s) : Append(s, job)[i] = s[i]
        /\ Append(s, job)[Len(s) + 1] = job
    OBVIOUS
  <2>2. job.resp \in Responses
    BY DEF Job
  <2>3. /\ Append(RespsOf(s), job.resp) \in Seq(Responses)
        /\ Len(Append(RespsOf(s), job.resp)) = Len(s) + 1
        /\ \A i \in 1 .. Len(s) : Append(RespsOf(s), job.resp)[i] = s[i].resp
        /\ Append(RespsOf(s), job.resp)[Len(s) + 1] = job.resp
    BY <1>1, <2>2, RespsOfSeq
  <2>4. /\ RespsOf(Append(s, job)) \in Seq(Responses)
        /\ Len(RespsOf(Append(s, job))) = Len(s) + 1
        /\ \A i \in 1 .. Len(s) + 1 : RespsOf(Append(s, job))[i] = Append(s, job)[i].resp
    BY <2>1, RespsOfSeq
  <2>5. \A i \in 1 .. Len(s) + 1 :
            RespsOf(Append(s, job))[i] = Append(RespsOf(s), job.resp)[i]
    BY <1>1, <2>1, <2>3, <2>4
  <2> QED
    BY <2>3, <2>4, <2>5, SeqEqual
<1>3. ASSUME s # <<>>
      PROVE  /\ RespsOf(s) # <<>>
             /\ Head(RespsOf(s)) = Head(s).resp
             /\ RespsOf(Tail(s)) = Tail(RespsOf(s))
  <2>1. /\ Len(s) \in Nat \ {0} /\ Head(s) = s[1]
        /\ Tail(s) \in Seq(Job) /\ Len(Tail(s)) = Len(s) - 1
        /\ \A i \in 1 .. Len(s) - 1 : Tail(s)[i] = s[i + 1]
    BY <1>3, HeadTailProperties
  <2>2. RespsOf(s) # <<>> /\ Head(RespsOf(s)) = Head(s).resp
    BY <2>1, RespsOfSeq
  <2>3. /\ Tail(RespsOf(s)) \in Seq(Responses)
        /\ Len(Tail(RespsOf(s))) = Len(s) - 1
        /\ \A i \in 1 .. Len(s) - 1 : Tail(RespsOf(s))[i] = RespsOf(s)[i + 1]
    BY <2>2, RespsOfSeq, HeadTailProperties
  <2>4. /\ RespsOf(Tail(s)) \in Seq(Responses)
        /\ Len(RespsOf(Tail(s))) = Len(s) - 1
        /\ \A i \in 1 .. Len(s) - 1 : RespsOf(Tail(s))[i] = Tail(s)[i].resp
    BY <2>1, RespsOfSeq
  <2>5. \A i \in 1 .. Len(s) - 1 : RespsOf(s)[i + 1] = s[i + 1].resp
    BY <1>1, RespsOfSeq
  <2>6. \A i \in 1 .. Len(s) - 1 : RespsOf(Tail(s))[i] = Tail(RespsOf(s))[i]
    BY <2>1, <2>3, <2>4, <2>5
  <2> QED
    BY <2>2, <2>3, <2>4, <2>6, SeqEqual
<1> QED
  BY <1>2, <1>3

\* The lines and runners of a step that touches neither.
LEMMA IdleLine ==
  UNCHANGED <<queue, held>> => UNCHANGED WQ!wqVars
  BY DEF WQ!wqVars

\* Enqueue() joins the end of the line or is refused.
LEMMA EnqueueAccepts ==
  ASSUME queue \in Seq(Job), NEW r \in Responses, Enqueue(r)
  PROVE  \/ /\ Len(RespsOf(queue)) < QueueCap
            /\ RespsOf(queue') = Append(RespsOf(queue), r)
         \/ UNCHANGED queue
<1>1. NewJob(r) \in Job /\ NewJob(r).resp = r
  BY DEF NewJob, Job
<1>2. CASE Len(queue) < QueueCap /\ queue' = Append(queue, NewJob(r))
  BY <1>1, <1>2, RespsOfSeq, RespsOfFacts
<1> QED
  BY <1>2 DEF Enqueue

\* The asyncio queue refines the line: an upload's and a recovery's job join at
\* the end or not at all, a worker takes the head, a failed run puts its item
\* back at the end or lets it go, and only a crash empties the queue -- for any
\* number of workers and any size.
THEOREM QueueIsWorkQueue == Spec => ImplementsWorkQueue
<1> USE DEF RespsOf
<1>1. Init => WQ!Init
  BY DEF Init, QueueInit, WQ!Init
<1>2. TypeOK /\ [Next]_vars => [WQ!Next]_(WQ!wqVars)
  <2> SUFFICES ASSUME TypeOK, [Next]_vars
               PROVE  WQ!Next \/ UNCHANGED WQ!wqVars
    OBVIOUS
  <2>0. /\ queue \in Seq(Job)
        /\ \A w \in Workers : pc[w] # "idle" => held[w] \in Responses /\ held[w] # None
        /\ \A w \in Workers : pc[w] = "idle" => held[w] = None
    BY StorageAssumption DEF TypeOK, QueueTypeOK
  <2>1. ASSUME NEW r \in Responses, Enqueue(r), UNCHANGED held
        PROVE  WQ!Next \/ UNCHANGED WQ!wqVars
    <3>1. CASE Len(RespsOf(queue)) < QueueCap /\ RespsOf(queue') = Append(RespsOf(queue), r)
      <4>1. WQ!Accept(r)
        BY <2>1, <3>1 DEF WQ!Accept
      <4> QED
        BY <4>1 DEF WQ!Next
    <3>2. CASE UNCHANGED queue
      BY <3>2, <2>1, IdleLine
    <3> QED
      BY <2>0, <2>1, <3>1, <3>2, EnqueueAccepts
  <2>2. ASSUME NEW w \in Workers, pc[w] # "idle", UNCHANGED queue,
               held' = [held EXCEPT ![w] = None]
        PROVE  WQ!Next
    BY <2>0, <2>2 DEF WQ!Next, WQ!Done
  <2>3. ASSUME NEW w \in Workers, pc[w] # "idle", RunFails(w)
        PROVE  WQ!Next \/ UNCHANGED WQ!wqVars
    <3>1. CASE UNCHANGED <<queue, held>>
      BY <3>1, IdleLine
    <3>2. CASE UNCHANGED queue /\ held' = [held EXCEPT ![w] = None]
      BY <2>3, <3>2, <2>2
    <3> QED
      BY <2>3, <3>1, <3>2 DEF RunFails
  <2>4. ASSUME NEW w \in Workers, Run(w)
        PROVE  WQ!Next \/ UNCHANGED WQ!wqVars
    <3>1. CASE Load(w)
      BY <3>1, <2>3, IdleLine DEF Load, Advance
    <3>2. CASE RunRaises(w)
      BY <3>2, <2>3 DEF RunRaises
    <3>3. CASE Finish(w)
      BY <3>3, <2>2 DEF Finish, Release
    <3>4. CASE ~Load(w) /\ ~RunRaises(w) /\ ~Finish(w)
      <4>1. UNCHANGED <<queue, held>>
        BY <2>4, <3>4
           DEF Run, MarkPassed, Convert, MarkTranscribing, Transcribe, StoreTranscript,
               MarkExtracting, Extract, SkipOnFault, StoreUrl, MarkComplete, Advance
      <4> QED
        BY <4>1, IdleLine
    <3> QED
      BY <3>1, <3>2, <3>3, <3>4
  <2>5. ASSUME NEW w \in Workers, Get(w)
        PROVE  WQ!Next
    <3>1. /\ RespsOf(queue) # <<>>
          /\ Head(RespsOf(queue)) = Head(queue).resp
          /\ RespsOf(queue') = Tail(RespsOf(queue))
      BY <2>0, <2>5, RespsOfFacts DEF Get
    <3>2. WQ!Take(w)
      BY <2>0, <2>5, <3>1 DEF Get, WQ!Take
    <3> QED
      BY <3>2 DEF WQ!Next
  <2>6. ASSUME NEW w \in Workers, Retry(w)
        PROVE  WQ!Next
    <3>1. /\ pc[w] # "idle" /\ held[w] \in Responses /\ held[w] # None
          /\ Enqueue(held[w]) /\ held' = [held EXCEPT ![w] = None]
      BY <2>0, <2>6 DEF Retry
    <3>2. CASE /\ Len(RespsOf(queue)) < QueueCap
               /\ RespsOf(queue') = Append(RespsOf(queue), held[w])
      <4>1. WQ!GiveBack(w)
        BY <3>1, <3>2 DEF WQ!GiveBack
      <4> QED
        BY <4>1 DEF WQ!Next
    <3>3. CASE UNCHANGED queue
      BY <3>1, <3>3, <2>2
    <3> QED
      BY <2>0, <3>1, <3>2, <3>3, EnqueueAccepts
  <2>7. ASSUME Handle
        PROVE  WQ!Next \/ UNCHANGED WQ!wqVars
    <3>1. ASSUME NEW u \in Uploads, UploadEnqueue(u)
          PROVE  WQ!Next \/ UNCHANGED WQ!wqVars
      <4>1. upFor[u] \in Responses
        BY <3>1 DEF UploadEnqueue, TypeOK, RequestTypeOK
      <4> QED
        BY <3>1, <4>1, <2>1 DEF UploadEnqueue
    <3>2. CASE ~ \E u \in Uploads : UploadEnqueue(u)
      <4>1. UNCHANGED <<queue, held>>
        BY <2>7, <3>2
           DEF Handle, SlotLookup, SlotStore, SlotFails, UploadLookup, UploadWrite,
               UploadMark, UploadFails, Review, queueVars
      <4> QED
        BY <4>1, IdleLine
    <3> QED
      BY <3>1, <3>2
  <2>8. ASSUME Boot
        PROVE  WQ!Next \/ UNCHANGED WQ!wqVars
    <3>1. ASSUME NEW r \in Responses, Recover(r)
          PROVE  WQ!Next \/ UNCHANGED WQ!wqVars
      BY <3>1, <2>1 DEF Recover
    <3>2. CASE Restart \/ Started
      BY <3>2, IdleLine DEF Restart, Started
    <3> QED
      BY <2>8, <3>1, <3>2 DEF Boot
  <2>9. CASE Crash
    <3>1. RespsOf(queue') = <<>>
      BY <2>9 DEF Crash, QueueDies
    <3>2. WQ!Die
      BY <2>9, <3>1 DEF Crash, QueueDies, WQ!Die
    <3> QED
      BY <3>2 DEF WQ!Next
  <2>10. CASE UNCHANGED vars
    BY <2>10, IdleLine DEF vars, queueVars
  <2> QED
    BY <2>4, <2>5, <2>6, <2>7, <2>8, <2>9, <2>10 DEF Next, Work
<1> QED
  BY <1>1, <1>2, TypeCorrect, PTL DEF Spec, ImplementsWorkQueue, WQ!Spec

-----------------------------------------------------------------------------
(* Where the work for a response is.                                       *)

\* Somebody is still going to write COMPLETE over the row of r.
Covered(r) ==
    \/ r \in lost
    \/ Queued(r)
    \/ HandingOver(r)
    \/ \E w \in Workers : HeldBy(w, r) /\ pc[w] # "reset"

\* A run moves on inside process(): whoever covers a response still does.
LEMMA AdvanceKeepsWork ==
  ASSUME QueueTypeOK, NEW w \in Workers, NEW to \in WorkerPc \ {"idle"},
         pc[w] # "idle", Advance(w, to), UNCHANGED <<upPc, upFor>>,
         NEW r \in Responses
  PROVE  /\ Covered(r) /\ (to # "reset" \/ held[w] # r) => Covered(r)'
         /\ to # "reset" /\ held[w] = r => Covered(r)'
         /\ Queued(r)' <=> Queued(r)
         /\ Held(r)' <=> Held(r)
         /\ lost' = lost /\ settled' = settled
  BY DEF Advance, Covered, Queued, HandingOver, HeldBy, Held, QueueTypeOK, WorkerPc

\* A run fails: its response stays with the worker or becomes lost.
LEMMA FailKeepsWork ==
  ASSUME QueueTypeOK, NEW w \in Workers, pc[w] # "idle", RunFails(w),
         UNCHANGED <<upPc, upFor>>, NEW r \in Responses
  PROVE  /\ Covered(r) => Covered(r)'
         /\ held[w] = r => r \in lost' \/ Held(r)'
         /\ Queued(r)' <=> Queued(r)
         /\ Held(r)' => Held(r)
         /\ r \in lost \/ Held(r) => r \in lost' \/ Held(r)'
         /\ settled' = settled
<1> USE DEF QueueTypeOK
<1>1. CASE attempts[w] + 1 < 3
  BY <1>1 DEF RunFails, Covered, Queued, HandingOver, HeldBy, Held, WorkerPc
<1>2. CASE attempts[w] + 1 >= 3
  BY <1>2 DEF RunFails, Covered, Queued, HandingOver, HeldBy, Held, WorkerPc
<1> QED
  BY <1>1, <1>2

\* Taking a job moves it from the queue to a worker.
LEMMA GetKeepsWork ==
  ASSUME QueueTypeOK, NEW w \in Workers, Get(w), UNCHANGED <<upPc, upFor>>,
         NEW r \in Responses
  PROVE  /\ Covered(r) => Covered(r)'
         /\ Queued(r) \/ Held(r) <=> Queued(r)' \/ Held(r)'
         /\ lost' = lost /\ settled' = settled
<1>1. /\ Head(queue) \in Job
      /\ Queued(Head(queue).resp)
      /\ Queued(r)' => Queued(r)
      /\ Queued(r) => Queued(r)' \/ r = Head(queue).resp
  BY TailFacts DEF Get, QueueTypeOK
<1>2. /\ pc[w] = "idle" /\ pc'[w] = "load" /\ held'[w] = Head(queue).resp
      /\ \A x \in Workers \ {w} : pc'[x] = pc[x] /\ held'[x] = held[x]
      /\ lost' = lost /\ settled' = settled
  BY DEF Get, QueueTypeOK
<1>3. r = Head(queue).resp => Held(r)' /\ (\E x \in Workers : HeldBy(x, r)' /\ pc'[x] # "reset")
  BY <1>2 DEF Held, HeldBy
<1>4. r # Head(queue).resp => (Held(r)' <=> Held(r))
  BY <1>2 DEF Held, HeldBy
<1>5. (\E x \in Workers : HeldBy(x, r) /\ pc[x] # "reset")
        => (\E x \in Workers : HeldBy(x, r)' /\ pc'[x] # "reset")
  BY <1>2 DEF HeldBy
<1>6. Held(r) => Held(r)'
  BY <1>2 DEF Held, HeldBy
<1> QED
  BY <1>1, <1>2, <1>3, <1>4, <1>5, <1>6 DEF Covered, HandingOver

\* A retry moves the work from the worker back to the queue, or loses it.
LEMMA RetryKeepsWork ==
  ASSUME QueueTypeOK, NEW w \in Workers, Retry(w), UNCHANGED <<upPc, upFor>>,
         NEW r \in Responses
  PROVE  /\ Covered(r) => Covered(r)'
         /\ r \in lost \/ Queued(r) \/ Held(r) => r \in lost' \/ Queued(r)' \/ Held(r)'
         /\ Queued(r)' \/ Held(r)' => Queued(r) \/ Held(r)
         /\ r \in settled' => r \in settled
<1>0. PICK q \in Responses : held[w] = q
  BY DEF Retry, QueueTypeOK
<1>1. /\ Queued(r) => Queued(r)'
      /\ Queued(r)' => Queued(r) \/ r = q
      /\ q \in lost' \/ Queued(q)'
      /\ r # q => (r \in lost' <=> r \in lost)
      /\ r \in settled' => r \in settled
  BY <1>0, EnqueueFacts DEF Retry, QueueTypeOK
<1>2. /\ pc[w] = "backoff" /\ pc'[w] = "idle"
      /\ \A x \in Workers \ {w} : pc'[x] = pc[x] /\ held'[x] = held[x]
  BY DEF Retry, QueueTypeOK
<1>3. Held(q)
  BY <1>0, <1>2 DEF Held, HeldBy
<1>4. Held(r)' => Held(r)
  BY <1>2 DEF Held, HeldBy
<1>5. r # q => (Held(r) => Held(r)')
  BY <1>0, <1>2 DEF Held, HeldBy
<1>6. r # q => ((\E x \in Workers : HeldBy(x, r) /\ pc[x] # "reset")
                       => (\E x \in Workers : HeldBy(x, r)' /\ pc'[x] # "reset"))
  BY <1>0, <1>2 DEF HeldBy
<1>7. HandingOver(r)' <=> HandingOver(r)
  BY DEF HandingOver
<1> QED
  BY <1>1, <1>3, <1>4, <1>5, <1>6, <1>7 DEF Covered

\* An upload's enqueue() and one turn of the recovery loop.
LEMMA EnqueueKeepsWork ==
  ASSUME QueueTypeOK, NEW q \in Responses, Enqueue(q), UNCHANGED <<pc, held>>,
         NEW r \in Responses
  PROVE  /\ r \in lost \/ Queued(r) => r \in lost' \/ Queued(r)'
         /\ r = q => r \in lost' \/ Queued(r)'
         /\ Held(r)' <=> Held(r)
         /\ (\E w \in Workers : HeldBy(w, r)' /\ pc'[w] # "reset")
              <=> (\E w \in Workers : HeldBy(w, r) /\ pc[w] # "reset")
         /\ r \in settled' => r \in settled
         /\ r \in settled' => (Queued(r)' <=> Queued(r))
<1>1. /\ Queued(r) => Queued(r)'
      /\ Queued(r)' => Queued(r) \/ r = q
      /\ q \in lost' \/ Queued(q)'
      /\ r # q => (r \in lost' <=> r \in lost)
      /\ r \in settled' => r \in settled
      /\ q \in settled' => UNCHANGED queue
  BY EnqueueFacts DEF QueueTypeOK
<1> QED
  BY <1>1 DEF Held, HeldBy, Queued

\* The process dies: what was outstanding is lost, and nothing else is.
LEMMA CrashLosesWork ==
  ASSUME QueueTypeOK, Crash, NEW r \in Responses
  PROVE  /\ Covered(r) => r \in lost'
         /\ Queued(r) \/ Held(r) => r \in lost'
         /\ r \in lost => r \in lost'
         /\ ~Queued(r)' /\ ~Held(r)'
         /\ settled' = settled
  BY DEF Crash, QueueDies, Covered, Outstanding, Held, HeldBy, Queued, HandingOver

-----------------------------------------------------------------------------
(* The inductive invariant behind the three properties about work.         *)

WorkInvAt(r) ==
    /\ Mid(r) => Covered(r)
    /\ respStatus[r] = "PROCESSING" => r \in lost \/ Queued(r) \/ Held(r)
    /\ r \in settled => respStatus[r] \in Verdicts /\ ~Queued(r) /\ ~Held(r)

WorkInv == \A r \in Responses : WorkInvAt(r)

\* Every step of the pipeline, of a handler, of the recovery and of a crash
\* keeps WorkInv.
LEMMA WorkInvStep ==
  ASSUME TypeOK, WorkInv, [Next]_vars
  PROVE  WorkInv'
<1> SUFFICES ASSUME NEW r \in Responses
             PROVE  WorkInvAt(r)'
  BY DEF WorkInv
<1>0. /\ WorkInvAt(r) /\ QueueTypeOK /\ StoreTypeOK
      /\ RequestTypeOK /\ RunTypeOK
  BY DEF WorkInv, TypeOK
<1>a. Queued(r) \in BOOLEAN /\ Held(r) \in BOOLEAN
  BY DEF Queued, Held
<1> USE DEF WorkInvAt, Mid
<1>1. ASSUME NEW w \in Workers, MarkPassed(w)
      PROVE  WorkInvAt(r)'
  <2>1. PICK to \in WorkerPc \ {"idle"} :
              Advance(w, to) /\ (to = "reset" => FALSE)
    BY <1>1 DEF MarkPassed, WorkerPc
  <2>2. pc[w] # "idle" /\ held[w] \in Responses /\ (held[w] = r => Held(r))
    BY <1>1, <1>0 DEF MarkPassed, QueueTypeOK, Held, HeldBy
  <2>3. /\ Covered(r) /\ (to # "reset" \/ held[w] # r) => Covered(r)'
        /\ to # "reset" /\ held[w] = r => Covered(r)'
        /\ Queued(r)' <=> Queued(r)
        /\ Held(r)' <=> Held(r)
        /\ lost' = lost /\ settled' = settled
    BY <1>1, <1>0, <2>1, <2>2, AdvanceKeepsWork DEF MarkPassed, requestVars
  <2>4. CASE held[w] = r
    BY <1>1, <1>0, <2>1, <2>2, <2>3, <2>4 DEF MarkPassed, SetJobStatus, StoreTypeOK, MidStatus
  <2>5. CASE held[w] # r
    BY <1>1, <1>0, <2>1, <2>2, <2>3, <2>5 DEF MarkPassed, SetJobStatus, StoreTypeOK
  <2> QED
    BY <2>4, <2>5
<1>2. ASSUME NEW w \in Workers, MarkTranscribing(w)
      PROVE  WorkInvAt(r)'
  <2>1. PICK to \in WorkerPc \ {"idle"} :
              Advance(w, to) /\ (to = "reset" => FALSE)
    BY <1>2 DEF MarkTranscribing, WorkerPc
  <2>2. pc[w] # "idle" /\ held[w] \in Responses /\ (held[w] = r => Held(r))
    BY <1>2, <1>0 DEF MarkTranscribing, QueueTypeOK, Held, HeldBy
  <2>3. /\ Covered(r) /\ (to # "reset" \/ held[w] # r) => Covered(r)'
        /\ to # "reset" /\ held[w] = r => Covered(r)'
        /\ Queued(r)' <=> Queued(r)
        /\ Held(r)' <=> Held(r)
        /\ lost' = lost /\ settled' = settled
    BY <1>2, <1>0, <2>1, <2>2, AdvanceKeepsWork DEF MarkTranscribing, requestVars
  <2>4. CASE held[w] = r
    BY <1>2, <1>0, <2>1, <2>2, <2>3, <2>4 DEF MarkTranscribing, SetJobStatus, StoreTypeOK, MidStatus
  <2>5. CASE held[w] # r
    BY <1>2, <1>0, <2>1, <2>2, <2>3, <2>5 DEF MarkTranscribing, SetJobStatus, StoreTypeOK
  <2> QED
    BY <2>4, <2>5
<1>3. ASSUME NEW w \in Workers, MarkExtracting(w)
      PROVE  WorkInvAt(r)'
  <2>1. PICK to \in WorkerPc \ {"idle"} :
              Advance(w, to) /\ (to = "reset" => FALSE)
    BY <1>3 DEF MarkExtracting, WorkerPc
  <2>2. pc[w] # "idle" /\ held[w] \in Responses /\ (held[w] = r => Held(r))
    BY <1>3, <1>0 DEF MarkExtracting, QueueTypeOK, Held, HeldBy
  <2>3. /\ Covered(r) /\ (to # "reset" \/ held[w] # r) => Covered(r)'
        /\ to # "reset" /\ held[w] = r => Covered(r)'
        /\ Queued(r)' <=> Queued(r)
        /\ Held(r)' <=> Held(r)
        /\ lost' = lost /\ settled' = settled
    BY <1>3, <1>0, <2>1, <2>2, AdvanceKeepsWork DEF MarkExtracting, requestVars
  <2>4. CASE held[w] = r
    BY <1>3, <1>0, <2>1, <2>2, <2>3, <2>4 DEF MarkExtracting, SetJobStatus, StoreTypeOK, MidStatus
  <2>5. CASE held[w] # r
    BY <1>3, <1>0, <2>1, <2>2, <2>3, <2>5 DEF MarkExtracting, SetJobStatus, StoreTypeOK
  <2> QED
    BY <2>4, <2>5
<1>4. ASSUME NEW w \in Workers, MarkComplete(w)
      PROVE  WorkInvAt(r)'
  <2>1. PICK to \in WorkerPc \ {"idle"} :
              Advance(w, to) /\ (to = "reset" => TRUE)
    BY <1>4 DEF MarkComplete, WorkerPc
  <2>2. pc[w] # "idle" /\ held[w] \in Responses /\ (held[w] = r => Held(r))
    BY <1>4, <1>0 DEF MarkComplete, QueueTypeOK, Held, HeldBy
  <2>3. /\ Covered(r) /\ (to # "reset" \/ held[w] # r) => Covered(r)'
        /\ to # "reset" /\ held[w] = r => Covered(r)'
        /\ Queued(r)' <=> Queued(r)
        /\ Held(r)' <=> Held(r)
        /\ lost' = lost /\ settled' = settled
    BY <1>4, <1>0, <2>1, <2>2, AdvanceKeepsWork DEF MarkComplete, requestVars
  <2>4. CASE held[w] = r
    BY <1>4, <1>0, <2>1, <2>2, <2>3, <2>4 DEF MarkComplete, SetJobStatus, StoreTypeOK, MidStatus
  <2>5. CASE held[w] # r
    BY <1>4, <1>0, <2>1, <2>2, <2>3, <2>5 DEF MarkComplete, SetJobStatus, StoreTypeOK
  <2> QED
    BY <2>4, <2>5
<1>5. ASSUME NEW w \in Workers, StoreTranscript(w)
      PROVE  WorkInvAt(r)'
  <2>1. PICK to \in WorkerPc \ {"idle"} :
              Advance(w, to) /\ (to = "reset" => FALSE)
    BY <1>5 DEF StoreTranscript, WorkerPc
  <2>2. pc[w] # "idle" /\ held[w] \in Responses /\ (held[w] = r => Held(r))
    BY <1>5, <1>0 DEF StoreTranscript, QueueTypeOK, Held, HeldBy
  <2>3. /\ Covered(r) /\ (to # "reset" \/ held[w] # r) => Covered(r)'
        /\ to # "reset" /\ held[w] = r => Covered(r)'
        /\ Queued(r)' <=> Queued(r)
        /\ Held(r)' <=> Held(r)
        /\ lost' = lost /\ settled' = settled
    BY <1>5, <1>0, <2>1, <2>2, AdvanceKeepsWork DEF StoreTranscript, requestVars
  <2>4. CASE held[w] = r
    BY <1>5, <1>0, <2>1, <2>2, <2>3, <2>4 DEF StoreTranscript, SetTranscript, StoreTypeOK, MidStatus, Verdicts
  <2>5. CASE held[w] # r
    BY <1>5, <1>0, <2>1, <2>2, <2>3, <2>5 DEF StoreTranscript, SetTranscript, StoreTypeOK, Verdicts
  <2> QED
    BY <2>4, <2>5
<1>6. ASSUME NEW w \in Workers, Extract(w)
      PROVE  WorkInvAt(r)'
  <2>1. PICK to \in WorkerPc \ {"idle"} :
              Advance(w, to) /\ (to = "reset" => FALSE)
    BY <1>6 DEF Extract, WorkerPc
  <2>2. pc[w] # "idle" /\ held[w] \in Responses /\ (held[w] = r => Held(r))
    BY <1>6, <1>0 DEF Extract, QueueTypeOK, Held, HeldBy
  <2>3. /\ Covered(r) /\ (to # "reset" \/ held[w] # r) => Covered(r)'
        /\ to # "reset" /\ held[w] = r => Covered(r)'
        /\ Queued(r)' <=> Queued(r)
        /\ Held(r)' <=> Held(r)
        /\ lost' = lost /\ settled' = settled
    BY <1>6, <1>0, <2>1, <2>2, AdvanceKeepsWork DEF Extract, requestVars
  <2>4. CASE held[w] = r
    BY <1>6, <1>0, <2>1, <2>2, <2>3, <2>4 DEF Extract, SetAnswer, StoreTypeOK, MidStatus, tableVars, Verdicts
  <2>5. CASE held[w] # r
    BY <1>6, <1>0, <2>1, <2>2, <2>3, <2>5 DEF Extract, SetAnswer, StoreTypeOK, tableVars, Verdicts
  <2> QED
    BY <2>4, <2>5
<1>7. ASSUME NEW w \in Workers, StoreUrl(w)
      PROVE  WorkInvAt(r)'
  <2>1. PICK to \in WorkerPc \ {"idle"} :
              Advance(w, to) /\ (to = "reset" => FALSE)
    BY <1>7 DEF StoreUrl, WorkerPc
  <2>2. pc[w] # "idle" /\ held[w] \in Responses /\ (held[w] = r => Held(r))
    BY <1>7, <1>0 DEF StoreUrl, QueueTypeOK, Held, HeldBy
  <2>3. /\ Covered(r) /\ (to # "reset" \/ held[w] # r) => Covered(r)'
        /\ to # "reset" /\ held[w] = r => Covered(r)'
        /\ Queued(r)' <=> Queued(r)
        /\ Held(r)' <=> Held(r)
        /\ lost' = lost /\ settled' = settled
    BY <1>7, <1>0, <2>1, <2>2, AdvanceKeepsWork DEF StoreUrl, requestVars
  <2>4. CASE held[w] = r
    BY <1>7, <1>0, <2>1, <2>2, <2>3, <2>4 DEF StoreUrl, SetAudioUrl, StoreTypeOK, MidStatus, tableVars
  <2>5. CASE held[w] # r
    BY <1>7, <1>0, <2>1, <2>2, <2>3, <2>5 DEF StoreUrl, SetAudioUrl, StoreTypeOK, tableVars
  <2> QED
    BY <2>4, <2>5
<1>8. ASSUME NEW w \in Workers, Convert(w)
      PROVE  WorkInvAt(r)'
  <2>1. PICK to \in WorkerPc \ {"idle"} :
              Advance(w, to) /\ (to = "reset" => FALSE)
    BY <1>8 DEF Convert, WorkerPc, AfterConvert
  <2>2. pc[w] # "idle" /\ held[w] \in Responses /\ (held[w] = r => Held(r))
    BY <1>8, <1>0 DEF Convert, QueueTypeOK, Held, HeldBy
  <2>3. /\ Covered(r) /\ (to # "reset" \/ held[w] # r) => Covered(r)'
        /\ to # "reset" /\ held[w] = r => Covered(r)'
        /\ Queued(r)' <=> Queued(r)
        /\ Held(r)' <=> Held(r)
        /\ lost' = lost /\ settled' = settled
    BY <1>8, <1>0, <2>1, <2>2, AdvanceKeepsWork DEF Convert, requestVars
  <2>4. CASE held[w] = r
    BY <1>8, <1>0, <2>1, <2>2, <2>3, <2>4 DEF Convert, StoreTypeOK, MidStatus, tableVars
  <2>5. CASE held[w] # r
    BY <1>8, <1>0, <2>1, <2>2, <2>3, <2>5 DEF Convert, StoreTypeOK, tableVars
  <2> QED
    BY <2>4, <2>5
<1>9. ASSUME NEW w \in Workers, SkipOnFault(w)
      PROVE  WorkInvAt(r)'
  <2>1. PICK to \in WorkerPc \ {"idle"} :
              Advance(w, to) /\ (to = "reset" => FALSE)
    BY <1>9 DEF SkipOnFault, WorkerPc
  <2>2. pc[w] # "idle" /\ held[w] \in Responses /\ (held[w] = r => Held(r))
    BY <1>9, <1>0 DEF SkipOnFault, QueueTypeOK, Held, HeldBy
  <2>3. /\ Covered(r) /\ (to # "reset" \/ held[w] # r) => Covered(r)'
        /\ to # "reset" /\ held[w] = r => Covered(r)'
        /\ Queued(r)' <=> Queued(r)
        /\ Held(r)' <=> Held(r)
        /\ lost' = lost /\ settled' = settled
    BY <1>9, <1>0, <2>1, <2>2, AdvanceKeepsWork DEF SkipOnFault, requestVars
  <2>4. CASE held[w] = r
    BY <1>9, <1>0, <2>1, <2>2, <2>3, <2>4 DEF SkipOnFault, StoreTypeOK, MidStatus, storeVars, DbFault
  <2>5. CASE held[w] # r
    BY <1>9, <1>0, <2>1, <2>2, <2>3, <2>5 DEF SkipOnFault, StoreTypeOK, storeVars, DbFault
  <2> QED
    BY <2>4, <2>5
<1>10. ASSUME NEW w \in Workers, Transcribe(w)
      PROVE  WorkInvAt(r)'
  <2>1. PICK to \in WorkerPc \ {"idle"} :
              Advance(w, to) /\ (to = "reset" => FALSE)
    BY <1>10 DEF Transcribe, WorkerPc
  <2>2. pc[w] # "idle" /\ held[w] \in Responses /\ (held[w] = r => Held(r))
    BY <1>10, <1>0 DEF Transcribe, QueueTypeOK, Held, HeldBy
  <2>3. /\ Covered(r) /\ (to # "reset" \/ held[w] # r) => Covered(r)'
        /\ to # "reset" /\ held[w] = r => Covered(r)'
        /\ Queued(r)' <=> Queued(r)
        /\ Held(r)' <=> Held(r)
        /\ lost' = lost /\ settled' = settled
    BY <1>10, <1>0, <2>1, <2>2, AdvanceKeepsWork DEF Transcribe, requestVars
  <2>4. CASE held[w] = r
    BY <1>10, <1>0, <2>1, <2>2, <2>3, <2>4 DEF Transcribe, StoreTypeOK, MidStatus, storeVars
  <2>5. CASE held[w] # r
    BY <1>10, <1>0, <2>1, <2>2, <2>3, <2>5 DEF Transcribe, StoreTypeOK, storeVars
  <2> QED
    BY <2>4, <2>5
<1>11. ASSUME NEW w \in Workers, Finish(w)
      PROVE  WorkInvAt(r)'
  <2>1. /\ pc[w] = "reset" /\ held[w] \in Responses /\ pc'[w] = "idle"
        /\ \A x \in Workers \ {w} : pc'[x] = pc[x] /\ held'[x] = held[x]
        /\ UNCHANGED <<queue, lost, settled, upPc, upFor, jobStatus>>
    BY <1>11, <1>0 DEF Finish, Release, ResubmitIfProcessing, QueueTypeOK, requestVars
  <2>2. /\ Covered(r) => Covered(r)'
        /\ Queued(r)' <=> Queued(r)
        /\ Held(r)' => Held(r)
        /\ held[w] # r => (Held(r) => Held(r)')
        /\ held[w] = r => Held(r)
    BY <2>1 DEF Covered, HandingOver, HeldBy, Held, Queued
  <2> QED
    BY <1>11, <1>0, <2>1, <2>2
       DEF Finish, ResubmitIfProcessing, StoreTypeOK, Verdicts
<1>12. ASSUME NEW w \in Workers, Load(w)
      PROVE  WorkInvAt(r)'
  <2>1. CASE Advance(w, "passed")
    <3>1. pc[w] # "idle" /\ held[w] \in Responses
      BY <1>12, <1>0 DEF Load, QueueTypeOK
    <3>2. /\ Covered(r) => Covered(r)'
          /\ Queued(r)' <=> Queued(r)
          /\ Held(r)' <=> Held(r)
          /\ lost' = lost /\ settled' = settled
      BY <1>12, <1>0, <2>1, <3>1, AdvanceKeepsWork DEF Load, WorkerPc, requestVars
    <3> QED
      BY <1>12, <1>0, <3>2 DEF Load, storeVars
  <2>2. CASE RunFails(w)
    <3>1. /\ Covered(r) => Covered(r)'
          /\ Queued(r)' <=> Queued(r)
          /\ Held(r)' => Held(r)
          /\ r \in lost \/ Held(r) => r \in lost' \/ Held(r)'
          /\ settled' = settled
      BY <1>12, <1>0, <2>2, FailKeepsWork DEF Load, requestVars
    <3> QED
      BY <1>12, <1>0, <3>1 DEF Load, storeVars
  <2> QED
    BY <1>12, <2>1, <2>2 DEF Load
<1>13. ASSUME NEW w \in Workers, RunRaises(w)
      PROVE  WorkInvAt(r)'
  <2>1. /\ Covered(r) => Covered(r)'
        /\ Queued(r)' <=> Queued(r)
        /\ Held(r)' => Held(r)
        /\ r \in lost \/ Held(r) => r \in lost' \/ Held(r)'
        /\ settled' = settled
    BY <1>13, <1>0, FailKeepsWork DEF RunRaises
  <2> QED
    BY <1>13, <1>0, <2>1 DEF RunRaises, storeVars
<1>14. ASSUME NEW w \in Workers, Get(w),
             UNCHANGED <<storeVars, requestVars, runVars>>
      PROVE  WorkInvAt(r)'
  BY <1>14, <1>0, GetKeepsWork DEF storeVars, requestVars
<1>15. ASSUME NEW w \in Workers, Retry(w),
             UNCHANGED <<storeVars, requestVars, runVars>>
      PROVE  WorkInvAt(r)'
  BY <1>15, <1>0, RetryKeepsWork DEF storeVars, requestVars
<1>16. ASSUME NEW s \in Slots, NEW q \in Responses, SlotLookup(s, q), UNCHANGED runVars
      PROVE  WorkInvAt(r)'
  <2>1. /\ HandingOver(r) => HandingOver(r)'
    BY <1>16, <1>0 DEF SlotLookup, HandingOver, RequestTypeOK, UpPc
  <2>2. /\ Covered(r) \/ HandingOver(r)' => Covered(r)'
        /\ Queued(r)' <=> Queued(r)
        /\ Held(r)' <=> Held(r)
        /\ lost' = lost /\ settled' = settled
    BY <1>16, <2>1 DEF SlotLookup, queueVars, Covered, Queued, Held, HeldBy
  <2> QED
    BY <1>16, <1>0, <2>1, <2>2 DEF SlotLookup, storeVars
<1>17. ASSUME NEW s \in Slots, SlotFails(s), UNCHANGED runVars
      PROVE  WorkInvAt(r)'
  <2>1. /\ HandingOver(r) => HandingOver(r)'
    BY <1>17, <1>0 DEF SlotFails, HandingOver, RequestTypeOK, UpPc
  <2>2. /\ Covered(r) \/ HandingOver(r)' => Covered(r)'
        /\ Queued(r)' <=> Queued(r)
        /\ Held(r)' <=> Held(r)
        /\ lost' = lost /\ settled' = settled
    BY <1>17, <2>1 DEF SlotFails, queueVars, Covered, Queued, Held, HeldBy
  <2> QED
    BY <1>17, <1>0, <2>1, <2>2 DEF SlotFails, storeVars
<1>18. ASSUME NEW s \in Slots, SlotStore(s), UNCHANGED runVars
      PROVE  WorkInvAt(r)'
  <2>1. /\ HandingOver(r) => HandingOver(r)'
    BY <1>18, <1>0 DEF SlotStore, HandingOver, RequestTypeOK, UpPc
  <2>2. /\ Covered(r) \/ HandingOver(r)' => Covered(r)'
        /\ Queued(r)' <=> Queued(r)
        /\ Held(r)' <=> Held(r)
        /\ lost' = lost /\ settled' = settled
    BY <1>18, <2>1 DEF SlotStore, queueVars, Covered, Queued, Held, HeldBy
  <2> QED
    BY <1>18, <1>0, <2>1, <2>2 DEF SlotStore, SetJobPath, tableVars, StoreTypeOK, MidStatus
<1>19. ASSUME NEW u \in Uploads, NEW q \in Responses, UploadLookup(u, q), UNCHANGED runVars
      PROVE  WorkInvAt(r)'
  <2>1. /\ HandingOver(r) => HandingOver(r)'
    BY <1>19, <1>0 DEF UploadLookup, HandingOver, RequestTypeOK, UpPc
  <2>2. /\ Covered(r) \/ HandingOver(r)' => Covered(r)'
        /\ Queued(r)' <=> Queued(r)
        /\ Held(r)' <=> Held(r)
        /\ lost' = lost /\ settled' = settled
    BY <1>19, <2>1 DEF UploadLookup, queueVars, Covered, Queued, Held, HeldBy
  <2> QED
    BY <1>19, <1>0, <2>1, <2>2 DEF UploadLookup, storeVars, RequestTypeOK
<1>20. ASSUME NEW u \in Uploads, UploadWrite(u), UNCHANGED runVars
      PROVE  WorkInvAt(r)'
  <2>1. /\ HandingOver(r) => HandingOver(r)'
    BY <1>20, <1>0 DEF UploadWrite, HandingOver, RequestTypeOK, UpPc
  <2>2. /\ Covered(r) \/ HandingOver(r)' => Covered(r)'
        /\ Queued(r)' <=> Queued(r)
        /\ Held(r)' <=> Held(r)
        /\ lost' = lost /\ settled' = settled
    BY <1>20, <2>1 DEF UploadWrite, queueVars, Covered, Queued, Held, HeldBy
  <2> QED
    BY <1>20, <1>0, <2>1, <2>2 DEF UploadWrite, tableVars, RequestTypeOK
<1>21. ASSUME NEW u \in Uploads, UploadMark(u), UNCHANGED runVars
      PROVE  WorkInvAt(r)'
  <2>1. /\ HandingOver(r) => HandingOver(r)'
        /\ upFor[u] = r => HandingOver(r)'
    BY <1>21, <1>0 DEF UploadMark, HandingOver, RequestTypeOK, UpPc
  <2>2. /\ Covered(r) \/ HandingOver(r)' => Covered(r)'
        /\ Queued(r)' <=> Queued(r)
        /\ Held(r)' <=> Held(r)
        /\ lost' = lost /\ settled' = settled
    BY <1>21, <2>1 DEF UploadMark, queueVars, Covered, Queued, Held, HeldBy
  <2> QED
    BY <1>21, <1>0, <2>1, <2>2 DEF UploadMark, SetJobPath, StoreTypeOK, RequestTypeOK
<1>22. ASSUME NEW u \in Uploads, UploadFails(u), UNCHANGED runVars
      PROVE  WorkInvAt(r)'
  <2>1. /\ HandingOver(r) => HandingOver(r)'
    BY <1>22, <1>0 DEF UploadFails, HandingOver, RequestTypeOK, UpPc
  <2>2. /\ Covered(r) \/ HandingOver(r)' => Covered(r)'
        /\ Queued(r)' <=> Queued(r)
        /\ Held(r)' <=> Held(r)
        /\ lost' = lost /\ settled' = settled
    BY <1>22, <2>1 DEF UploadFails, queueVars, Covered, Queued, Held, HeldBy
  <2> QED
    BY <1>22, <1>0, <2>1, <2>2 DEF UploadFails, storeVars, RequestTypeOK
<1>23. ASSUME NEW u \in Uploads, UploadEnqueue(u), UNCHANGED runVars
      PROVE  WorkInvAt(r)'
  <2>0. PICK q \in Responses : upFor[u] = q
    BY <1>23, <1>0 DEF UploadEnqueue, RequestTypeOK
  <2>1. /\ r \in lost \/ Queued(r) => r \in lost' \/ Queued(r)'
        /\ r = q => r \in lost' \/ Queued(r)'
        /\ Held(r)' <=> Held(r)
        /\ (\E w \in Workers : HeldBy(w, r)' /\ pc'[w] # "reset")
             <=> (\E w \in Workers : HeldBy(w, r) /\ pc[w] # "reset")
        /\ r \in settled' => r \in settled
        /\ r \in settled' => (Queued(r)' <=> Queued(r))
    BY <1>23, <1>0, <2>0, EnqueueKeepsWork DEF UploadEnqueue
  <2>2. HandingOver(r) /\ r # q => HandingOver(r)'
    BY <1>23, <1>0, <2>0 DEF UploadEnqueue, HandingOver, RequestTypeOK, UpPc
  <2> QED
    BY <1>23, <1>0, <2>1, <2>2 DEF UploadEnqueue, storeVars, Covered
<1>24. ASSUME NEW q \in Responses, NEW v \in Verdicts, Review(q, v),
             UNCHANGED runVars
      PROVE  WorkInvAt(r)'
  <2>1. UNCHANGED <<queue, pc, held, lost, upPc, upFor, jobStatus>>
    BY <1>24 DEF Review, SetVerdict, requestVars
  <2>2. /\ Covered(r)' <=> Covered(r)
        /\ Queued(r)' <=> Queued(r)
        /\ Held(r)' <=> Held(r)
        /\ lost' = lost
    BY <2>1 DEF Covered, HandingOver, Queued, Held, HeldBy
  <2>3. CASE r = q
    <3>1. respStatus'[r] = v
      BY <1>24, <1>0, <2>3 DEF Review, SetVerdict, StoreTypeOK
    <3>2. r \in settled' => ~Queued(r) /\ ~Held(r)
      BY <1>24, <1>0, <2>3 DEF Review, Outstanding
    <3> QED
      BY <1>24, <1>0, <2>1, <2>2, <3>1, <3>2 DEF Verdicts
  <2>4. CASE r # q
    <3>1. respStatus'[r] = respStatus[r] /\ (r \in settled' => r \in settled)
      BY <1>24, <1>0, <2>4 DEF Review, SetVerdict, StoreTypeOK
    <3> QED
      BY <1>0, <2>1, <2>2, <3>1
  <2> QED
    BY <2>3, <2>4
<1>25. CASE Restart /\ UNCHANGED <<requestVars, runVars>>
  BY <1>25, <1>0
     DEF Restart, storeVars, requestVars, Covered, HandingOver, Queued, Held, HeldBy
<1>26. CASE Started /\ UNCHANGED <<requestVars, runVars>>
  BY <1>26, <1>0
     DEF Started, storeVars, requestVars, Covered, HandingOver, Queued, Held, HeldBy
<1>27. ASSUME NEW q \in Responses, Recover(q), UNCHANGED <<requestVars, runVars>>
      PROVE  WorkInvAt(r)'
  <2>1. /\ r \in lost \/ Queued(r) => r \in lost' \/ Queued(r)'
        /\ Held(r)' <=> Held(r)
        /\ (\E w \in Workers : HeldBy(w, r)' /\ pc'[w] # "reset")
             <=> (\E w \in Workers : HeldBy(w, r) /\ pc[w] # "reset")
        /\ r \in settled' => r \in settled
        /\ r \in settled' => (Queued(r)' <=> Queued(r))
    BY <1>27, <1>0, EnqueueKeepsWork DEF Recover
  <2>2. HandingOver(r)' <=> HandingOver(r)
    BY <1>27 DEF HandingOver, requestVars
  <2> QED
    BY <1>27, <1>0, <2>1, <2>2 DEF Recover, storeVars, Covered
<1>28. CASE Crash
  BY <1>28, <1>0, CrashLosesWork DEF Crash, storeVars, Covered
<1>29. CASE UNCHANGED vars
  BY <1>29, <1>0
     DEF vars, storeVars, queueVars, requestVars, Covered, HandingOver, Queued,
         Held, HeldBy
<1> QED
  BY <1>1, <1>2, <1>3, <1>4, <1>5, <1>6, <1>7, <1>8, <1>9, <1>10, <1>11,
     <1>12, <1>13, <1>14, <1>15, <1>16, <1>17, <1>18, <1>19, <1>20, <1>21,
     <1>22, <1>23, <1>24, <1>25, <1>26, <1>27, <1>28, <1>29
     DEF Next, Work, Run, Handle, Boot

LEMMA WorkInvHolds == Spec => []WorkInv
<1>1. Init => WorkInv
  BY DEF Init, StoreInit, QueueInit, WorkInv, WorkInvAt, Mid, MidStatus
<1>2. TypeOK /\ WorkInv /\ [Next]_vars => WorkInv'
  BY WorkInvStep
<1> QED
  BY <1>1, <1>2, TypeCorrect, PTL DEF Spec

-----------------------------------------------------------------------------

\* While the process lives no announced recording is forgotten: a row between
\* QC_PENDING and COMPLETE has a job, unless it was dropped or died.
THEOREM NoForgottenJob == Spec => []MidJobHasWork
<1>1. WorkInv => MidJobHasWork
  BY DEF WorkInv, WorkInvAt, Covered, MidJobHasWork
<1> QED
  BY <1>1, WorkInvHolds, PTL

\* A response that is PROCESSING has a job that will end that, with the same
\* exceptions.
THEOREM NoStrayProcessing == Spec => []ProcessingHasWork
<1>1. WorkInv => ProcessingHasWork
  BY DEF WorkInv, WorkInvAt, ProcessingHasWork
<1> QED
  BY <1>1, WorkInvHolds, PTL

\* A verdict given when no job for the response existed is not overwritten.
THEOREM SettledVerdictSafe == Spec => []SettledVerdictStands
<1>1. TypeOK /\ WorkInv => SettledVerdictStands
  BY DEF WorkInv, WorkInvAt, SettledVerdictStands, TypeOK, QueueTypeOK
<1> QED
  BY <1>1, WorkInvHolds, TypeCorrect, PTL

-----------------------------------------------------------------------------
(* The inductive invariant, by the place a path or a recording is kept.    *)

\* A slot or an upload nobody has asked for yet has no response.
FreshUnowned ==
    /\ \A s \in Slots : slotPc[s] = "new" => slotFor[s] = None
    /\ \A u \in Uploads : upPc[u] = "new" => upFor[u] = None

\* Paths in rows and in upload handlers lead to slots of the same response.
PathsOwned ==
    /\ \A r \in Responses : wavPath[r] # None => slotFor[wavPath[r]] = r
    /\ \A u \in Uploads : upPath[u] # None =>
           slotFor[upPath[u]] = upFor[u] /\ upFor[u] # None
    /\ \A r \in Responses : audioUrl[r] # None =>
           slotFor[audioUrl[r]] = r /\ file[audioUrl[r]] # None

\* A file holds a recording of the response its slot was made for.
FilesOwned ==
    \A s \in Slots :
        /\ file[s] # None => upFor[file[s]] = slotFor[s] /\ slotFor[s] # None
        /\ wavCopy[s] # None => upFor[wavCopy[s]] = slotFor[s] /\ slotFor[s] # None

\* So do the locals of a run; a worker outside a run has none.
RunsOwned ==
    \A w \in Workers :
        /\ pc[w] \in {"idle", "load", "backoff"} => src[w] = None /\ heard[w] = None
        /\ src[w] # None => slotFor[src[w]] = held[w]
        /\ heard[w] # None => upFor[heard[w]] = held[w]

\* What was stored with the response is a recording made for it.
ResultsOwned ==
    \A r \in Responses :
        /\ transcript[r] # None => upFor[transcript[r]] = r
        /\ answer[r] # None => upFor[answer[r]] = r

OwnInv == FreshUnowned /\ PathsOwned /\ FilesOwned /\ RunsOwned /\ ResultsOwned

\* No step hands a path or a recording to another response.
LEMMA OwnInvStep ==
  ASSUME TypeOK, OwnInv, [Next]_vars
  PROVE  OwnInv'
<1>0. /\ StoreTypeOK /\ QueueTypeOK /\ RequestTypeOK /\ RunTypeOK
      /\ FreshUnowned /\ PathsOwned /\ FilesOwned /\ RunsOwned /\ ResultsOwned
  BY DEF TypeOK, OwnInv
<1>a. UNCHANGED <<slotPc, slotFor, upPc, upFor>> => FreshUnowned'
  BY <1>0 DEF FreshUnowned
<1>b. UNCHANGED <<wavPath, audioUrl, upPath, slotFor, upFor, file>> => PathsOwned'
  BY <1>0 DEF PathsOwned
<1>c. UNCHANGED <<file, wavCopy, slotFor, upFor>> => FilesOwned'
  BY <1>0 DEF FilesOwned
<1>d. UNCHANGED <<pc, held, src, heard, slotFor, upFor>> => RunsOwned'
  BY <1>0 DEF RunsOwned
<1>e. UNCHANGED <<transcript, answer, upFor>> => ResultsOwned'
  BY <1>0 DEF ResultsOwned
<1> USE StorageAssumption
<1>1. ASSUME NEW w \in Workers, MarkPassed(w)
      PROVE  OwnInv'
  <2>1. RunsOwned'
    BY <1>1, <1>0 DEF MarkPassed, Advance, RunsOwned, QueueTypeOK, runVars, requestVars
  <2> QED
    BY <1>1, <1>a, <1>b, <1>c, <1>e, <2>1
       DEF MarkPassed, requestVars, runVars, fileVars, tableVars, storeVars, queueVars, SetJobStatus, OwnInv
<1>2. ASSUME NEW w \in Workers, MarkTranscribing(w)
      PROVE  OwnInv'
  <2>1. RunsOwned'
    BY <1>2, <1>0 DEF MarkTranscribing, Advance, RunsOwned, QueueTypeOK, runVars, requestVars
  <2> QED
    BY <1>2, <1>a, <1>b, <1>c, <1>e, <2>1
       DEF MarkTranscribing, requestVars, runVars, fileVars, tableVars, storeVars, queueVars, SetJobStatus, OwnInv
<1>3. ASSUME NEW w \in Workers, MarkExtracting(w)
      PROVE  OwnInv'
  <2>1. RunsOwned'
    BY <1>3, <1>0 DEF MarkExtracting, Advance, RunsOwned, QueueTypeOK, runVars, requestVars
  <2> QED
    BY <1>3, <1>a, <1>b, <1>c, <1>e, <2>1
       DEF MarkExtracting, requestVars, runVars, fileVars, tableVars, storeVars, queueVars, SetJobStatus, OwnInv
<1>4. ASSUME NEW w \in Workers, MarkComplete(w)
      PROVE  OwnInv'
  <2>1. RunsOwned'
    BY <1>4, <1>0 DEF MarkComplete, Advance, RunsOwned, QueueTypeOK, runVars, requestVars
  <2> QED
    BY <1>4, <1>a, <1>b, <1>c, <1>e, <2>1
       DEF MarkComplete, requestVars, runVars, fileVars, tableVars, storeVars, queueVars, SetJobStatus, OwnInv
<1>5. ASSUME NEW w \in Workers, StoreTranscript(w)
      PROVE  OwnInv'
  <2>1. RunsOwned'
    BY <1>5, <1>0 DEF StoreTranscript, Advance, RunsOwned, QueueTypeOK, runVars, requestVars
  <2>2. ResultsOwned'
    BY <1>5, <1>0
       DEF StoreTranscript, SetTranscript, ResultsOwned, RunsOwned, StoreTypeOK,
           requestVars
  <2> QED
    BY <1>5, <1>a, <1>b, <1>c, <2>1, <2>2
       DEF StoreTranscript, requestVars, runVars, fileVars, tableVars, storeVars, queueVars, SetTranscript, OwnInv
<1>6. ASSUME NEW w \in Workers, Extract(w)
      PROVE  OwnInv'
  <2>1. RunsOwned'
    BY <1>6, <1>0 DEF Extract, Advance, RunsOwned, QueueTypeOK, runVars, requestVars
  <2>2. ResultsOwned'
    <3>1. CASE SetAnswer(held[w], heard[w])
      BY <1>6, <1>0, <3>1
         DEF Extract, SetAnswer, ResultsOwned, RunsOwned, StoreTypeOK, requestVars
    <3>2. CASE UNCHANGED tableVars
      BY <1>6, <1>e, <3>2 DEF Extract, tableVars, requestVars
    <3> QED
      BY <1>6, <3>1, <3>2 DEF Extract
  <2> QED
    BY <1>6, <1>a, <1>b, <1>c, <2>1, <2>2
       DEF Extract, requestVars, runVars, fileVars, tableVars, storeVars, queueVars, SetAnswer, OwnInv
<1>7. ASSUME NEW w \in Workers, StoreUrl(w)
      PROVE  OwnInv'
  <2>1. PathsOwned'
    <3>1. CASE Exists(src[w]) /\ SetAudioUrl(held[w], src[w])
      BY <1>7, <1>0, <3>1
         DEF StoreUrl, SetAudioUrl, Exists, PathsOwned, RunsOwned, StoreTypeOK,
             fileVars, requestVars
    <3>2. CASE UNCHANGED tableVars
      BY <1>7, <1>b, <3>2 DEF StoreUrl, tableVars, fileVars, requestVars
    <3> QED
      BY <1>7, <3>1, <3>2 DEF StoreUrl
  <2>2. RunsOwned'
    BY <1>7, <1>0 DEF StoreUrl, Advance, RunsOwned, QueueTypeOK, runVars, requestVars
  <2> QED
    BY <1>7, <1>a, <1>c, <1>e, <2>1, <2>2
       DEF StoreUrl, requestVars, runVars, fileVars, tableVars, storeVars, queueVars, SetAudioUrl, OwnInv
<1>8. ASSUME NEW w \in Workers, Convert(w)
      PROVE  OwnInv'
  <2>1. FilesOwned'
    <3>1. src[w] \in Slots
      BY <1>8, <1>0 DEF Convert, RunTypeOK, Loaded
    <3>2. \A s \in Slots : wavCopy'[s] \in {wavCopy[s], file[s]}
      BY <1>8, <1>0, <3>1 DEF Convert, StoreTypeOK
    <3> QED
      BY <1>8, <1>0, <3>2 DEF Convert, FilesOwned, requestVars
  <2>2. RunsOwned'
    BY <1>8, <1>0 DEF Convert, Advance, RunsOwned, QueueTypeOK, runVars, requestVars, AfterConvert
  <2> QED
    BY <1>8, <1>a, <1>b, <1>e, <2>1, <2>2
       DEF Convert, requestVars, runVars, fileVars, tableVars, storeVars, queueVars, OwnInv
<1>9. ASSUME NEW w \in Workers, Transcribe(w)
      PROVE  OwnInv'
  <2>1. RunsOwned'
    <3>1. src[w] \in Slots /\ slotFor[src[w]] = held[w] /\ pc[w] = "listen"
      BY <1>9, <1>0 DEF Transcribe, RunTypeOK, Loaded, GatePassed, RunsOwned
    <3>2. /\ heard'[w] # None => upFor[heard'[w]] = held[w]
          /\ \A x \in Workers \ {w} : heard'[x] = heard[x]
      <4>1. CASE UNCHANGED heard
        BY <1>0, <4>1 DEF RunsOwned
      <4>2. CASE heard' = [heard EXCEPT ![w] = IF useCopy[w] THEN wavCopy[src[w]]
                                                             ELSE file[src[w]]]
        BY <1>0, <3>1, <4>2 DEF FilesOwned, RunTypeOK
      <4> QED
        BY <1>9, <4>1, <4>2 DEF Transcribe
    <3>3. /\ pc'[w] \in {"scribe", "playback"} /\ UNCHANGED <<held, src>>
          /\ \A x \in Workers \ {w} : pc'[x] = pc[x]
      BY <1>9, <1>0 DEF Transcribe, Advance, QueueTypeOK
    <3> QED
      BY <1>9, <1>0, <3>1, <3>2, <3>3 DEF Transcribe, RunsOwned, requestVars
  <2> QED
    BY <1>9, <1>a, <1>b, <1>c, <1>e, <2>1
       DEF Transcribe, requestVars, runVars, fileVars, tableVars, storeVars, queueVars, OwnInv
<1>10. ASSUME NEW w \in Workers, Load(w)
      PROVE  OwnInv'
  <2>1. RunsOwned'
    <3>0. held[w] \in Responses /\ pc[w] = "load"
      BY <1>10, <1>0 DEF Load, QueueTypeOK
    <3>1. CASE Advance(w, "passed") /\ src' = [src EXCEPT ![w] = wavPath[held[w]]]
      BY <1>10, <1>0, <3>0, <3>1
         DEF Load, Advance, RunsOwned, PathsOwned, QueueTypeOK, RunTypeOK,
             requestVars
    <3>2. CASE RunFails(w) /\ UNCHANGED src
      <4>1. /\ pc'[w] \in {"idle", "backoff"}
            /\ \A x \in Workers \ {w} : pc'[x] = pc[x] /\ held'[x] = held[x]
        BY <1>0, <3>2 DEF RunFails, QueueTypeOK
      <4> QED
        BY <1>10, <1>0, <3>0, <3>2, <4>1 DEF Load, RunsOwned, requestVars
    <3> QED
      BY <1>10, <3>1, <3>2 DEF Load
  <2> QED
    BY <1>10, <1>a, <1>b, <1>c, <1>e, <2>1
       DEF Load, requestVars, runVars, fileVars, tableVars, storeVars, queueVars, OwnInv
<1>11. ASSUME NEW w \in Workers, SkipOnFault(w)
      PROVE  OwnInv'
  <2>1. RunsOwned'
    BY <1>11, <1>0 DEF SkipOnFault, Advance, RunsOwned, QueueTypeOK, runVars, requestVars
  <2> QED
    BY <1>11, <1>a, <1>b, <1>c, <1>e, <2>1
       DEF SkipOnFault, requestVars, runVars, fileVars, tableVars, storeVars, queueVars, OwnInv
<1>12. ASSUME NEW w \in Workers, RunRaises(w)
      PROVE  OwnInv'
  <2>1. RunsOwned'
    <3>1. /\ pc'[w] \in {"idle", "backoff"}
          /\ \A x \in Workers \ {w} : pc'[x] = pc[x] /\ held'[x] = held[x]
      BY <1>12, <1>0 DEF RunRaises, RunFails, QueueTypeOK
    <3> QED
      BY <1>12, <1>0, <3>1 DEF RunRaises, ClearRun, RunsOwned, RunTypeOK
  <2> QED
    BY <1>12, <1>a, <1>b, <1>c, <1>e, <2>1
       DEF RunRaises, requestVars, runVars, fileVars, tableVars, storeVars, queueVars, OwnInv
<1>13. ASSUME NEW w \in Workers, Finish(w)
      PROVE  OwnInv'
  <2>1. RunsOwned'
    BY <1>13, <1>0
       DEF Finish, Release, ClearRun, RunsOwned, QueueTypeOK, RunTypeOK, requestVars
  <2> QED
    BY <1>13, <1>a, <1>b, <1>c, <1>e, <2>1
       DEF Finish, requestVars, runVars, fileVars, tableVars, storeVars, queueVars, ResubmitIfProcessing, OwnInv
<1>14. ASSUME NEW w \in Workers, Get(w),
             UNCHANGED <<storeVars, requestVars, runVars>>
      PROVE  OwnInv'
  <2>1. RunsOwned'
    BY <1>14, <1>0 DEF Get, RunsOwned, QueueTypeOK, runVars, requestVars
  <2> QED
    BY <1>14, <1>a, <1>b, <1>c, <1>e, <2>1
       DEF Get, requestVars, runVars, fileVars, tableVars, storeVars, queueVars, OwnInv
<1>15. ASSUME NEW w \in Workers, Retry(w),
             UNCHANGED <<storeVars, requestVars, runVars>>
      PROVE  OwnInv'
  <2>1. RunsOwned'
    BY <1>15, <1>0 DEF Retry, RunsOwned, QueueTypeOK, runVars, requestVars
  <2> QED
    BY <1>15, <1>a, <1>b, <1>c, <1>e, <2>1
       DEF Retry, requestVars, runVars, fileVars, tableVars, storeVars, queueVars, OwnInv
<1>16. ASSUME NEW s \in Slots, NEW r \in Responses, SlotLookup(s, r),
             UNCHANGED runVars
      PROVE  OwnInv'
  <2>1. /\ slotPc[s] = "new" /\ slotFor[s] = None
        /\ slotPc'[s] # "new"
        /\ \A t \in Slots \ {s} : slotPc'[t] = slotPc[t] /\ slotFor'[t] = slotFor[t]
    BY <1>16, <1>0 DEF SlotLookup, FreshUnowned, RequestTypeOK
  <2>2. FreshUnowned'
    BY <1>16, <1>0, <2>1 DEF SlotLookup, FreshUnowned
  <2>3. PathsOwned'
    BY <1>16, <1>0, <2>1
       DEF SlotLookup, PathsOwned, StoreTypeOK, RequestTypeOK, storeVars
  <2>4. FilesOwned'
    BY <1>16, <1>0, <2>1 DEF SlotLookup, FilesOwned, storeVars
  <2>5. RunsOwned'
    <3>1. \A w \in Workers : src[w] # None => src[w] \in Slots \ {s}
      <4>1. \A w \in Workers : src[w] # None => held[w] \in Responses
        BY <1>0 DEF RunsOwned, QueueTypeOK
      <4> QED
        BY <1>0, <2>1, <4>1 DEF RunsOwned, RunTypeOK
    <3> QED
      BY <1>16, <1>0, <2>1, <3>1 DEF SlotLookup, RunsOwned, queueVars, runVars
  <2> QED
    BY <1>16, <1>e, <2>2, <2>3, <2>4, <2>5 DEF SlotLookup, storeVars, OwnInv
<1>17. ASSUME NEW s \in Slots, SlotStore(s), UNCHANGED runVars
      PROVE  OwnInv'
  <2>1. FreshUnowned'
    BY <1>17, <1>0 DEF SlotStore, FreshUnowned, RequestTypeOK
  <2>2. PathsOwned'
    <3>1. CASE SetJobPath(slotFor[s], "UPLOADING", s)
      BY <1>17, <1>0, <3>1
         DEF SlotStore, SetJobPath, PathsOwned, StoreTypeOK, RequestTypeOK, fileVars
    <3>2. CASE UNCHANGED tableVars
      BY <1>17, <1>b, <3>2 DEF SlotStore, tableVars, fileVars
    <3> QED
      BY <1>17, <3>1, <3>2 DEF SlotStore
  <2> QED
    BY <1>17, <1>c, <1>d, <1>e, <2>1, <2>2
       DEF SlotStore, requestVars, runVars, fileVars, tableVars, storeVars, queueVars, SetJobPath, OwnInv
<1>18. ASSUME NEW s \in Slots, SlotFails(s), UNCHANGED runVars
      PROVE  OwnInv'
  <2>1. FreshUnowned'
    BY <1>18, <1>0 DEF SlotFails, FreshUnowned, RequestTypeOK
  <2> QED
    BY <1>18, <1>b, <1>c, <1>d, <1>e, <2>1
       DEF SlotFails, requestVars, runVars, fileVars, tableVars, storeVars, queueVars, OwnInv
<1>19. ASSUME NEW u \in Uploads, NEW r \in Responses, UploadLookup(u, r),
             UNCHANGED runVars
      PROVE  OwnInv'
  <2>1. /\ upFor[u] = None /\ upFor'[u] = r /\ upPc'[u] # "new"
        /\ upPath'[u] # None => upPath'[u] = wavPath[r] \/ upPath'[u] = upPath[u]
        /\ \A v \in Uploads \ {u} : /\ upPc'[v] = upPc[v] /\ upFor'[v] = upFor[v]
                                    /\ upPath'[v] = upPath[v]
    BY <1>19, <1>0 DEF UploadLookup, FreshUnowned, RequestTypeOK
  <2>2. upPath[u] = None
    BY <1>0, <2>1 DEF PathsOwned
  <2>3. FreshUnowned'
    BY <1>19, <1>0, <2>1 DEF UploadLookup, FreshUnowned
  <2>4. PathsOwned'
    BY <1>19, <1>0, <2>1, <2>2 DEF UploadLookup, PathsOwned, StoreTypeOK, storeVars
  <2>5. FilesOwned'
    BY <1>19, <1>0, <2>1 DEF UploadLookup, FilesOwned, StoreTypeOK, storeVars
  <2>6. RunsOwned'
    <3>1. \A w \in Workers : heard[w] # None => heard[w] \in Uploads \ {u}
      <4>1. \A w \in Workers : heard[w] # None => held[w] \in Responses
        BY <1>0 DEF RunsOwned, QueueTypeOK
      <4> QED
        BY <1>0, <2>1, <4>1 DEF RunsOwned, RunTypeOK
    <3> QED
      BY <1>19, <1>0, <2>1, <3>1 DEF UploadLookup, RunsOwned, queueVars, runVars
  <2>7. ResultsOwned'
    BY <1>19, <1>0, <2>1 DEF UploadLookup, ResultsOwned, StoreTypeOK, storeVars
  <2> QED
    BY <2>3, <2>4, <2>5, <2>6, <2>7 DEF OwnInv
<1>20. ASSUME NEW u \in Uploads, UploadMark(u), UNCHANGED runVars
      PROVE  OwnInv'
  <2>1. FreshUnowned'
    BY <1>20, <1>0 DEF UploadMark, FreshUnowned, RequestTypeOK
  <2>2. PathsOwned'
    BY <1>20, <1>0
       DEF UploadMark, SetJobPath, PathsOwned, StoreTypeOK, RequestTypeOK, fileVars
  <2> QED
    BY <1>20, <1>c, <1>d, <1>e, <2>1, <2>2
       DEF UploadMark, requestVars, runVars, fileVars, tableVars, storeVars, queueVars, SetJobPath, OwnInv
<1>21. ASSUME NEW u \in Uploads, UploadFails(u), UNCHANGED runVars
      PROVE  OwnInv'
  <2>1. FreshUnowned'
    BY <1>21, <1>0 DEF UploadFails, FreshUnowned, RequestTypeOK
  <2> QED
    BY <1>21, <1>b, <1>c, <1>d, <1>e, <2>1
       DEF UploadFails, requestVars, runVars, fileVars, tableVars, storeVars, queueVars, OwnInv
<1>22. ASSUME NEW u \in Uploads, UploadEnqueue(u), UNCHANGED runVars
      PROVE  OwnInv'
  <2>1. FreshUnowned'
    BY <1>22, <1>0 DEF UploadEnqueue, FreshUnowned, RequestTypeOK
  <2> QED
    BY <1>22, <1>b, <1>c, <1>d, <1>e, <2>1
       DEF UploadEnqueue, requestVars, runVars, fileVars, tableVars, storeVars, queueVars, OwnInv
<1>23. ASSUME NEW u \in Uploads, UploadWrite(u), UNCHANGED runVars
      PROVE  OwnInv'
  <2>1. FreshUnowned'
    BY <1>23, <1>0 DEF UploadWrite, FreshUnowned, RequestTypeOK
  <2>2. PathsOwned'
    BY <1>23, <1>0 DEF UploadWrite, PathsOwned, StoreTypeOK, RequestTypeOK, tableVars
  <2>3. FilesOwned'
    <3>1. /\ upPath[u] \in Slots /\ slotFor[upPath[u]] = upFor[u] /\ upFor[u] # None
          /\ file'[upPath[u]] = u
          /\ \A s \in Slots \ {upPath[u]} : file'[s] = file[s]
      BY <1>23, <1>0 DEF UploadWrite, PathsOwned, RequestTypeOK, StoreTypeOK
    <3> QED
      BY <1>23, <1>0, <3>1 DEF UploadWrite, FilesOwned
  <2> QED
    BY <1>23, <1>d, <1>e, <2>1, <2>2, <2>3
       DEF UploadWrite, requestVars, runVars, fileVars, tableVars, storeVars, queueVars, OwnInv
<1>24. ASSUME NEW r \in Responses, NEW v \in Verdicts, Review(r, v),
             UNCHANGED runVars
      PROVE  OwnInv'
  <2> QED
    BY <1>24, <1>a, <1>b, <1>c, <1>d, <1>e
       DEF Review, requestVars, runVars, fileVars, tableVars, storeVars, queueVars, SetVerdict, OwnInv
<1>25. CASE Restart /\ UNCHANGED <<requestVars, runVars>>
  <2> QED
    BY <1>25, <1>a, <1>b, <1>c, <1>d, <1>e
       DEF Restart, requestVars, runVars, fileVars, tableVars, storeVars, queueVars, OwnInv
<1>26. CASE Started /\ UNCHANGED <<requestVars, runVars>>
  <2> QED
    BY <1>26, <1>a, <1>b, <1>c, <1>d, <1>e
       DEF Started, requestVars, runVars, fileVars, tableVars, storeVars, queueVars, OwnInv
<1>27. ASSUME NEW r \in Responses, Recover(r), UNCHANGED <<requestVars, runVars>>
      PROVE  OwnInv'
  <2> QED
    BY <1>27, <1>a, <1>b, <1>c, <1>d, <1>e
       DEF Recover, requestVars, runVars, fileVars, tableVars, storeVars, queueVars, OwnInv
<1>28. CASE Crash
  <2>1. FreshUnowned'
    BY <1>28, <1>0 DEF Crash, FreshUnowned, RequestTypeOK
  <2>2. RunsOwned'
    BY <1>28 DEF Crash, RunsOwned
  <2> QED
    BY <1>28, <1>b, <1>c, <1>e, <2>1, <2>2
       DEF Crash, requestVars, runVars, fileVars, tableVars, storeVars, queueVars, OwnInv
<1>29. CASE UNCHANGED vars
  BY <1>29, <1>a, <1>b, <1>c, <1>d, <1>e
     DEF vars, storeVars, queueVars, requestVars, runVars, OwnInv
<1> QED
  BY <1>1, <1>2, <1>3, <1>4, <1>5, <1>6, <1>7, <1>8, <1>9, <1>10, <1>11,
     <1>12, <1>13, <1>14, <1>15, <1>16, <1>17, <1>18, <1>19, <1>20, <1>21,
     <1>22, <1>23, <1>24, <1>25, <1>26, <1>27, <1>28, <1>29
     DEF Next, Work, Run, Handle, Boot

LEMMA OwnInvHolds == Spec => []OwnInv
<1>1. Init => OwnInv
  BY DEF Init, StoreInit, QueueInit, RequestInit, OwnInv, FreshUnowned,
         PathsOwned, FilesOwned, RunsOwned, ResultsOwned
<1>2. TypeOK /\ OwnInv /\ [Next]_vars => OwnInv'
  BY OwnInvStep
<1> QED
  BY <1>1, <1>2, TypeCorrect, PTL DEF Spec

\* Transcript, answer and playback URL of a response come from recordings that
\* were uploaded for it.
THEOREM RecordingsStayApart == Spec => []NothingMixedUp
<1>1. TypeOK /\ OwnInv => NothingMixedUp
  BY DEF TypeOK, StoreTypeOK, OwnInv, PathsOwned, FilesOwned, ResultsOwned,
         NothingMixedUp
<1> QED
  BY <1>1, OwnInvHolds, TypeCorrect, PTL

-----------------------------------------------------------------------------
(* The recording of a response with one slot and one upload is played.     *)

\* An upload that has been given its path, and one whose file is written.
FoundPc == {"write", "mark", "enqueue", "done"}
WrittenPc == {"mark", "enqueue", "done"}

\* A path in a row or with an upload is that of a slot whose request is over.
SlotsStored ==
    /\ \A r \in Responses : wavPath[r] # None => slotPc[wavPath[r]] = "done"
    /\ \A u \in Uploads : upPath[u] # None => slotPc[upPath[u]] = "done"

\* An upload has found a row, which stays, and then written a file, which does.
UploadsWritten ==
    \A u \in Uploads :
        /\ upPc[u] \in FoundPc => /\ upFor[u] \in Responses /\ upPath[u] \in Slots
                                  /\ jobStatus[upFor[u]] # "ABSENT"
        /\ upPc[u] \in WrittenPc => file[upPath[u]] # None

\* r has a playback URL, or somebody is still going to write it, or its job
\* is lost.
UrlComing(r) ==
    \/ audioUrl[r] # None
    \/ r \in lost
    \/ Queued(r) \/ HandingOver(r)
    \/ \E w \in Workers : HeldBy(w, r) /\ pc[w] \notin {"complete", "reset"}

\* An announced recording whose response has no other slot: the row is not
\* UPLOADING again, and the URL is there or coming.
AnnouncedAt(u) ==
    upPc[u] \in {"enqueue", "done"} =>
        \/ \E t \in Slots : t # upPath[u] /\ slotFor[t] = upFor[u]
        \/ jobStatus[upFor[u]] # "UPLOADING" /\ UrlComing(upFor[u])

TakeInv == SlotsStored /\ UploadsWritten /\ \A u \in Uploads : AnnouncedAt(u)

\* Who is going to write the URL of r goes on to do so through the steps of the
\* workers, save the one that comes to the end of its run by writing it.
LEMMA WorkerKeepsComing ==
  ASSUME QueueTypeOK, NEW w \in Workers, NEW r \in Responses, UrlComing(r),
         UNCHANGED <<upPc, upFor>>, audioUrl[r] # None => audioUrl'[r] # None,
         \/ /\ pc[w] # "idle"
            /\ \E to \in WorkerPc \ {"idle", "complete", "reset"} : Advance(w, to)
         \/ /\ pc[w] \in {"complete", "reset"}
            /\ Advance(w, "reset") \/ Release(w)
         \/ pc[w] # "idle" /\ RunFails(w)
         \/ Get(w)
         \/ Retry(w)
         \/ pc[w] = "playback" /\ Advance(w, "complete") /\ held[w] # r
  PROVE  UrlComing(r)'
<1> DEFINE Writing(x) == HeldBy(x, r) /\ pc[x] \notin {"complete", "reset"}
<1>0. HandingOver(r)' <=> HandingOver(r)
  BY DEF HandingOver
<1>a. ASSUME UNCHANGED <<queue, lost>>,
             \A x \in Workers \ {w} : pc'[x] = pc[x] /\ held'[x] = held[x],
             Writing(w) => Writing(w)'
      PROVE  UrlComing(r)'
  BY <1>0, <1>a DEF UrlComing, Queued, HeldBy
<1>1. CASE /\ pc[w] # "idle"
           /\ \E to \in WorkerPc \ {"idle", "complete", "reset"} : Advance(w, to)
  BY <1>1, <1>a DEF Advance, QueueTypeOK, HeldBy
<1>2. CASE /\ pc[w] \in {"complete", "reset"}
           /\ Advance(w, "reset") \/ Release(w)
  BY <1>2, <1>a DEF Advance, Release, QueueTypeOK, HeldBy
<1>3. CASE pc[w] # "idle" /\ RunFails(w)
  <2>1. CASE pc' = [pc EXCEPT ![w] = "backoff"] /\ UNCHANGED <<held, lost>>
    BY <1>3, <2>1, <1>a DEF RunFails, QueueTypeOK, HeldBy
  <2>2. CASE /\ pc' = [pc EXCEPT ![w] = "idle"] /\ held' = [held EXCEPT ![w] = None]
             /\ lost' = lost \cup {held[w]}
    <3>1. /\ \A x \in Workers \ {w} : pc'[x] = pc[x] /\ held'[x] = held[x]
          /\ UNCHANGED queue
      BY <1>3, <2>2 DEF RunFails, QueueTypeOK
    <3>2. held[w] = r => r \in lost'
      BY <2>2
    <3>3. held[w] # r => (Writing(w) => FALSE)
      BY DEF HeldBy
    <3> QED
      BY <1>0, <2>2, <3>1, <3>2, <3>3 DEF UrlComing, Queued, HeldBy
  <2> QED
    BY <1>3, <2>1, <2>2 DEF RunFails
<1>4. CASE Get(w)
  <2>1. /\ Queued(r) => Queued(r)' \/ r = Head(queue).resp
    BY <1>4, TailFacts DEF Get, QueueTypeOK
  <2>2. /\ pc[w] = "idle" /\ pc'[w] = "load" /\ held'[w] = Head(queue).resp
        /\ \A x \in Workers \ {w} : pc'[x] = pc[x] /\ held'[x] = held[x]
        /\ lost' = lost
    BY <1>4 DEF Get, QueueTypeOK
  <2>3. r = Head(queue).resp => Writing(w)'
    BY <2>2 DEF HeldBy
  <2>4. (\E x \in Workers : Writing(x)) => \E x \in Workers : Writing(x)'
    BY <2>2 DEF HeldBy
  <2> QED
    BY <1>0, <2>1, <2>2, <2>3, <2>4 DEF UrlComing
<1>5. CASE Retry(w)
  <2>1. held[w] \in Responses
    BY <1>5 DEF Retry, QueueTypeOK
  <2>2. PICK q \in Responses : q = held[w]
    BY <2>1
  <2>3. /\ Queued(r) => Queued(r)'
        /\ q \in lost' \/ Queued(q)'
        /\ r # q => (r \in lost' <=> r \in lost)
    BY <1>5, <2>2, EnqueueFacts DEF Retry, QueueTypeOK
  <2>4. \A x \in Workers \ {w} : pc'[x] = pc[x] /\ held'[x] = held[x]
    BY <1>5 DEF Retry, QueueTypeOK
  <2>5. r # q => ~Writing(w)
    BY <2>2 DEF HeldBy
  <2>6. CASE r = q
    BY <2>3, <2>6 DEF UrlComing
  <2>7. CASE r # q
    <3>1. (\E x \in Workers : Writing(x)) => \E x \in Workers : Writing(x)'
      BY <2>4, <2>5, <2>7 DEF HeldBy
    <3> QED
      BY <1>0, <2>3, <2>7, <3>1 DEF UrlComing
  <2> QED
    BY <2>6, <2>7
<1>6. CASE pc[w] = "playback" /\ Advance(w, "complete") /\ held[w] # r
  BY <1>6, <1>a DEF Advance, QueueTypeOK, HeldBy
<1> QED
  BY <1>1, <1>2, <1>3, <1>4, <1>5, <1>6

\* A step that moves no path, takes no row and no file back, and leaves every
\* announced recording with its URL there or coming, keeps the invariant.
LEMMA StillKeepsTake ==
  ASSUME TypeOK, TakeInv,
         UNCHANGED <<slotFor, upFor, upPath, wavPath>>,
         \A s \in Slots : slotPc[s] = "done" => slotPc'[s] = "done",
         \A s \in Slots : file[s] # None => file'[s] # None,
         \A u \in Uploads : /\ upPc'[u] \in FoundPc => upPc[u] \in FoundPc
                            /\ upPc'[u] \in WrittenPc => upPc[u] \in WrittenPc
                            /\ upPc'[u] \in {"enqueue", "done"}
                                 => upPc[u] \in {"enqueue", "done"},
         \A r \in Responses : /\ jobStatus'[r] = "ABSENT" => jobStatus[r] = "ABSENT"
                              /\ jobStatus'[r] = "UPLOADING" => jobStatus[r] = "UPLOADING",
         \A r \in Responses, u \in Uploads :
             upFor[u] = r /\ upPc[u] \in {"enqueue", "done"} /\ UrlComing(r)
               => \/ UrlComing(r)'
                  \/ \E t \in Slots : t # upPath[u] /\ slotFor[t] = r
  PROVE  TakeInv'
<1>0. /\ StoreTypeOK /\ RequestTypeOK
      /\ SlotsStored /\ UploadsWritten /\ \A u \in Uploads : AnnouncedAt(u)
  BY DEF TypeOK, TakeInv
<1>1. SlotsStored'
  <2>1. /\ \A r \in Responses : wavPath[r] # None => wavPath[r] \in Slots
        /\ \A u \in Uploads : upPath[u] # None => upPath[u] \in Slots
    BY <1>0 DEF StoreTypeOK, RequestTypeOK
  <2> QED
    BY <1>0, <2>1 DEF SlotsStored
<1>2. UploadsWritten'
  BY <1>0 DEF UploadsWritten, FoundPc, WrittenPc
<1>3. ASSUME NEW u \in Uploads
      PROVE  AnnouncedAt(u)'
  <2> SUFFICES ASSUME upPc'[u] \in {"enqueue", "done"}
               PROVE  AnnouncedAt(u)'
    BY DEF AnnouncedAt
  <2>1. upPc[u] \in {"enqueue", "done"} /\ upFor[u] \in Responses
    BY <1>0 DEF UploadsWritten, FoundPc
  <2>2. PICK r \in Responses : upFor[u] = r /\ upFor'[u] = r
    BY <2>1
  <2>3. \/ \E t \in Slots : t # upPath[u] /\ slotFor[t] = r
        \/ jobStatus[r] # "UPLOADING" /\ UrlComing(r)
    BY <1>0, <2>1, <2>2 DEF AnnouncedAt
  <2>4. \/ \E t \in Slots : t # upPath[u] /\ slotFor[t] = r
        \/ jobStatus'[r] # "UPLOADING" /\ UrlComing(r)'
    BY <2>1, <2>2, <2>3
  <2> QED
    BY <2>2, <2>4 DEF AnnouncedAt, UrlComing, Queued, HandingOver, HeldBy
<1> QED
  BY <1>1, <1>2, <1>3 DEF TakeInv

\* The steps of a run.
LEMMA RunKeepsTake ==
  ASSUME TypeOK, OwnInv, TakeInv, NEW w \in Workers, Run(w)
  PROVE  TakeInv'
<1>0. /\ StoreTypeOK /\ QueueTypeOK /\ RequestTypeOK /\ RunTypeOK
      /\ SlotsStored /\ UploadsWritten /\ PathsOwned /\ RunsOwned
  BY DEF TypeOK, TakeInv, OwnInv
<1>a. /\ pc[w] # "idle" /\ held[w] \in Responses
      /\ UNCHANGED <<slotPc, slotFor, upPc, upFor, upPath, file>>
  BY <1>0
     DEF Run, Load, MarkPassed, Convert, MarkTranscribing, Transcribe, StoreTranscript,
         MarkExtracting, Extract, SkipOnFault, StoreUrl, MarkComplete, Finish, RunRaises,
         QueueTypeOK, requestVars, fileVars, storeVars
<1>b. /\ UNCHANGED wavPath
      /\ \A q \in Responses : \/ jobStatus'[q] = jobStatus[q]
                              \/ jobStatus'[q] \notin {"ABSENT", "UPLOADING"}
      /\ \A q \in Responses : audioUrl[q] # None => audioUrl'[q] # None
  <2>1. CASE \E st \in MidStatus \cup {"COMPLETE"} : SetJobStatus(held[w], st)
    BY <2>1, <1>0, <1>a DEF SetJobStatus, MidStatus, StoreTypeOK
  <2>2. CASE SetAudioUrl(held[w], src[w]) /\ Exists(src[w])
    BY <2>2, <1>0, <1>a DEF SetAudioUrl, Exists, StoreTypeOK
  <2>3. CASE UNCHANGED <<jobStatus, wavPath, audioUrl>>
    BY <2>3
  <2> QED
    BY <2>1, <2>2, <2>3
       DEF Run, Load, MarkPassed, Convert, MarkTranscribing, Transcribe, StoreTranscript,
           MarkExtracting, Extract, SkipOnFault, StoreUrl, MarkComplete, Finish, RunRaises,
           MidStatus, SetTranscript, SetAnswer, ResubmitIfProcessing, tableVars, storeVars
<1>1. ASSUME NEW r \in Responses, NEW u \in Uploads, upFor[u] = r,
             upPc[u] \in {"enqueue", "done"}, UrlComing(r)
      PROVE  \/ UrlComing(r)'
             \/ \E t \in Slots : t # upPath[u] /\ slotFor[t] = r
  <2>1. CASE StoreUrl(w)
    <3>1. CASE held[w] # r
      BY <1>0, <1>1, <1>a, <1>b, <2>1, <3>1, WorkerKeepsComing DEF StoreUrl
    <3>2. CASE held[w] = r /\ Exists(src[w])
      <4>1. audioUrl'[r] = src[w] /\ src[w] # None
        BY <1>0, <2>1, <3>2 DEF StoreUrl, SetAudioUrl, Exists, StoreTypeOK
      <4> QED
        BY <4>1 DEF UrlComing
    <3>3. CASE held[w] = r /\ ~Exists(src[w])
      <4>1. src[w] \in Slots
        BY <1>0, <2>1 DEF StoreUrl, RunTypeOK, Loaded
      <4>2. slotFor[src[w]] = r /\ file[src[w]] = None
        BY <1>0, <3>3, <4>1, StorageAssumption DEF RunsOwned, Exists
      <4>3. file[upPath[u]] # None
        BY <1>0, <1>1 DEF UploadsWritten, WrittenPc
      <4> QED
        BY <4>1, <4>2, <4>3
    <3> QED
      BY <3>1, <3>2, <3>3
  <2>2. CASE ~StoreUrl(w)
    <3>1. \/ \E to \in WorkerPc \ {"idle", "complete", "reset"} : Advance(w, to)
          \/ /\ pc[w] \in {"complete", "reset"}
             /\ Advance(w, "reset") \/ Release(w)
          \/ RunFails(w)
      BY <1>1, <2>2
         DEF Run, Load, MarkPassed, Convert, AfterConvert, MarkTranscribing, Transcribe,
             StoreTranscript, MarkExtracting, Extract, SkipOnFault, MarkComplete, Finish,
             RunRaises, WorkerPc
    <3> QED
      BY <1>0, <1>1, <1>a, <1>b, <3>1, WorkerKeepsComing
  <2> QED
    BY <2>1, <2>2
<1> QED
  BY <1>a, <1>b, <1>1, StillKeepsTake

\* The steps of the handlers.
LEMMA HandleKeepsTake ==
  ASSUME TypeOK, OwnInv, TakeInv, Handle
  PROVE  TakeInv'
<1>0. /\ StoreTypeOK /\ QueueTypeOK /\ RequestTypeOK
      /\ SlotsStored /\ UploadsWritten /\ FreshUnowned /\ PathsOwned
      /\ \A u \in Uploads : AnnouncedAt(u)
  BY DEF TypeOK, TakeInv, OwnInv
<1>a. /\ \A r \in Responses : wavPath[r] # None => wavPath[r] \in Slots
      /\ \A u \in Uploads : upPath[u] # None => upPath[u] \in Slots
  BY <1>0 DEF StoreTypeOK, RequestTypeOK
\* The part of UrlComing that a handler other than UploadEnqueue can disturb.
<1>b. ASSUME NEW r \in Responses, UrlComing(r), UNCHANGED <<queue, pc, held, lost, audioUrl>>,
             \A u \in Uploads : upPc[u] = "enqueue" /\ upFor[u] = r
                                  => upPc'[u] = "enqueue" /\ upFor'[u] = r
      PROVE  UrlComing(r)'
  <2>1. HandingOver(r) => HandingOver(r)'
    BY <1>b DEF HandingOver
  <2> QED
    BY <1>b, <2>1 DEF UrlComing, Queued, HeldBy
<1>1. ASSUME NEW s \in Slots, NEW r \in Responses, SlotLookup(s, r)
      PROVE  TakeInv'
  <2>1. /\ UNCHANGED <<upFor, upPath, upPc, file, wavPath, jobStatus, audioUrl, queue, pc, held, lost>>
        /\ slotPc[s] = "new" /\ slotFor[s] = None
        /\ \A t \in Slots \ {s} : slotPc'[t] = slotPc[t] /\ slotFor'[t] = slotFor[t]
    BY <1>1, <1>0 DEF SlotLookup, storeVars, queueVars, RequestTypeOK, FreshUnowned
  <2>2. SlotsStored'
    BY <2>1, <1>0, <1>a DEF SlotsStored
  <2>3. UploadsWritten'
    BY <2>1, <1>0 DEF UploadsWritten
  <2>4. ASSUME NEW u \in Uploads
        PROVE  AnnouncedAt(u)'
    <3> SUFFICES ASSUME upPc'[u] \in {"enqueue", "done"}
                 PROVE  AnnouncedAt(u)'
      BY DEF AnnouncedAt
    <3>1. PICK q \in Responses : upFor[u] = q /\ upFor'[u] = q
      BY <2>1, <1>0 DEF UploadsWritten, FoundPc
    <3>2. UrlComing(q) => UrlComing(q)'
      BY <2>1, <1>b
    <3>3. \A t \in Slots : slotFor[t] = q => slotFor'[t] = q
      BY <2>1, StorageAssumption
    <3>4. \/ \E t \in Slots : t # upPath'[u] /\ slotFor'[t] = q
          \/ jobStatus'[q] # "UPLOADING" /\ UrlComing(q)'
      BY <2>1, <3>1, <3>2, <3>3, <1>0 DEF AnnouncedAt
    <3> QED
      BY <3>1, <3>4 DEF AnnouncedAt, UrlComing, Queued, HandingOver, HeldBy
  <2> QED
    BY <2>2, <2>3, <2>4 DEF TakeInv
<1>2. ASSUME NEW s \in Slots, SlotStore(s)
      PROVE  TakeInv'
  <2>1. /\ UNCHANGED <<slotFor, upFor, upPath, upPc, file, audioUrl, queue, pc, held, lost>>
        /\ slotPc[s] \in {"insert", "update"} /\ slotFor[s] \in Responses
        /\ \A t \in Slots \ {s} : slotPc'[t] = slotPc[t]
    BY <1>2, <1>0 DEF SlotStore, SetJobPath, fileVars, queueVars, tableVars, RequestTypeOK
  <2>2. \/ /\ jobStatus' = [jobStatus EXCEPT ![slotFor[s]] = "UPLOADING"]
           /\ wavPath' = [wavPath EXCEPT ![slotFor[s]] = s]
           /\ slotPc'[s] = "done"
        \/ UNCHANGED <<jobStatus, wavPath>>
    BY <1>2, <1>0 DEF SlotStore, SetJobPath, tableVars, RequestTypeOK
  <2>3. /\ \A q \in Responses : \/ wavPath'[q] = wavPath[q]
                                \/ wavPath'[q] = s /\ slotPc'[s] = "done"
        /\ \A q \in Responses : jobStatus'[q] = "ABSENT" => jobStatus[q] = "ABSENT"
        /\ \A q \in Responses : jobStatus'[q] = jobStatus[q] \/ q = slotFor[s]
    BY <2>1, <2>2, <1>0 DEF StoreTypeOK
  <2>4. SlotsStored'
    BY <2>1, <2>3, <1>0, <1>a DEF SlotsStored
  <2>5. UploadsWritten'
    BY <2>1, <2>3, <1>0 DEF UploadsWritten
  <2>6. ASSUME NEW u \in Uploads
        PROVE  AnnouncedAt(u)'
    <3> SUFFICES ASSUME upPc'[u] \in {"enqueue", "done"}
                 PROVE  AnnouncedAt(u)'
      BY DEF AnnouncedAt
    <3>1. PICK q \in Responses : upFor[u] = q /\ upFor'[u] = q
      BY <2>1, <1>0 DEF UploadsWritten, FoundPc
    <3>2. UrlComing(q) => UrlComing(q)'
      BY <2>1, <1>b
    <3>3. upPath[u] # s
      BY <2>1, <1>0, StorageAssumption DEF SlotsStored, UploadsWritten, FoundPc
    <3>4. \/ \E t \in Slots : t # upPath'[u] /\ slotFor'[t] = q
          \/ jobStatus'[q] # "UPLOADING" /\ UrlComing(q)'
      BY <2>1, <2>3, <3>1, <3>2, <3>3, <1>0 DEF AnnouncedAt
    <3> QED
      BY <3>1, <3>4 DEF AnnouncedAt, UrlComing, Queued, HandingOver, HeldBy
  <2> QED
    BY <2>4, <2>5, <2>6 DEF TakeInv
<1>3. ASSUME NEW s \in Slots, SlotFails(s)
      PROVE  TakeInv'
  <2>1. /\ UNCHANGED <<slotFor, upFor, upPath, upPc, file, wavPath, jobStatus, audioUrl>>
        /\ UNCHANGED <<queue, pc, held, lost>>
        /\ \A t \in Slots : slotPc[t] = "done" => slotPc'[t] = "done"
    BY <1>3, <1>0 DEF SlotFails, storeVars, queueVars, RequestTypeOK
  <2> QED
    BY <2>1, <1>b, StillKeepsTake
<1>4. ASSUME NEW u \in Uploads, NEW r \in Responses, UploadLookup(u, r)
      PROVE  TakeInv'
  <2>1. /\ UNCHANGED <<slotPc, slotFor, file, wavPath, jobStatus, audioUrl, queue, pc, held, lost>>
        /\ upPc[u] = "new"
        /\ \A v \in Uploads \ {u} : /\ upPc'[v] = upPc[v] /\ upFor'[v] = upFor[v]
                                    /\ upPath'[v] = upPath[v]
        /\ \/ upPc'[u] = "failed" /\ UNCHANGED upPath
           \/ /\ upPc'[u] = "write" /\ upFor'[u] = r /\ upPath'[u] = wavPath[r]
              /\ jobStatus[r] # "ABSENT"
    BY <1>4, <1>0 DEF UploadLookup, storeVars, queueVars, RequestTypeOK
  <2>2. SlotsStored'
    BY <2>1, <1>0 DEF SlotsStored
  <2>3. UploadsWritten'
    <3>1. jobStatus[r] # "ABSENT" => wavPath[r] \in Slots
      BY <1>0 DEF StoreTypeOK
    <3> QED
      BY <2>1, <3>1, <1>0 DEF UploadsWritten, FoundPc, WrittenPc
  <2>4. ASSUME NEW v \in Uploads
        PROVE  AnnouncedAt(v)'
    <3> SUFFICES ASSUME upPc'[v] \in {"enqueue", "done"}
                 PROVE  AnnouncedAt(v)'
      BY DEF AnnouncedAt
    <3>1. v # u
      BY <2>1
    <3>2. PICK q \in Responses : upFor[v] = q /\ upFor'[v] = q
      BY <2>1, <3>1, <1>0 DEF UploadsWritten, FoundPc
    <3>3. UrlComing(q) => UrlComing(q)'
      BY <2>1, <1>b
    <3>4. \/ \E t \in Slots : t # upPath'[v] /\ slotFor'[t] = q
          \/ jobStatus'[q] # "UPLOADING" /\ UrlComing(q)'
      BY <2>1, <3>1, <3>2, <3>3, <1>0 DEF AnnouncedAt
    <3> QED
      BY <3>2, <3>4 DEF AnnouncedAt, UrlComing, Queued, HandingOver, HeldBy
  <2> QED
    BY <2>2, <2>3, <2>4 DEF TakeInv
<1>5. ASSUME NEW u \in Uploads, UploadWrite(u)
      PROVE  TakeInv'
  <2>1. /\ UNCHANGED <<slotPc, slotFor, upFor, upPath, wavPath, jobStatus, audioUrl>>
        /\ UNCHANGED <<queue, pc, held, lost>>
        /\ upPc[u] = "write" /\ upPc'[u] = "mark" /\ upPath[u] \in Slots
        /\ \A v \in Uploads \ {u} : upPc'[v] = upPc[v]
        /\ file'[upPath[u]] = u /\ \A s \in Slots \ {upPath[u]} : file'[s] = file[s]
    BY <1>5, <1>0 DEF UploadWrite, tableVars, queueVars, RequestTypeOK, StoreTypeOK
  <2>2. \A s \in Slots : file[s] # None => file'[s] # None
    BY <2>1, StorageAssumption
  <2>3. SlotsStored'
    BY <2>1, <1>0 DEF SlotsStored
  <2>4. UploadsWritten'
    <3>1. file'[upPath[u]] # None
      BY <2>1, StorageAssumption
    <3> QED
      BY <2>1, <2>2, <3>1, <1>0 DEF UploadsWritten, FoundPc, WrittenPc
  <2>5. ASSUME NEW v \in Uploads
        PROVE  AnnouncedAt(v)'
    <3> SUFFICES ASSUME upPc'[v] \in {"enqueue", "done"}
                 PROVE  AnnouncedAt(v)'
      BY DEF AnnouncedAt
    <3>1. v # u
      BY <2>1
    <3>2. PICK q \in Responses : upFor[v] = q /\ upFor'[v] = q
      BY <2>1, <3>1, <1>0 DEF UploadsWritten, FoundPc
    <3>3. UrlComing(q) => UrlComing(q)'
      BY <2>1, <1>b
    <3>4. \/ \E t \in Slots : t # upPath'[v] /\ slotFor'[t] = q
          \/ jobStatus'[q] # "UPLOADING" /\ UrlComing(q)'
      BY <2>1, <3>1, <3>2, <3>3, <1>0 DEF AnnouncedAt
    <3> QED
      BY <3>2, <3>4 DEF AnnouncedAt, UrlComing, Queued, HandingOver, HeldBy
  <2> QED
    BY <2>3, <2>4, <2>5 DEF TakeInv
<1>6. ASSUME NEW u \in Uploads, UploadMark(u)
      PROVE  TakeInv'
  <2>1. /\ UNCHANGED <<slotPc, slotFor, upFor, upPath, file, audioUrl, queue, pc, held, lost>>
        /\ upPc[u] = "mark" /\ upPc'[u] = "enqueue"
        /\ upFor[u] \in Responses /\ upPath[u] \in Slots
        /\ \A v \in Uploads \ {u} : upPc'[v] = upPc[v]
        /\ jobStatus' = [jobStatus EXCEPT ![upFor[u]] = "QC_PENDING"]
        /\ wavPath' = [wavPath EXCEPT ![upFor[u]] = upPath[u]]
    BY <1>6, <1>0 DEF UploadMark, SetJobPath, fileVars, queueVars, RequestTypeOK
  <2>2. /\ \A q \in Responses : wavPath'[q] = wavPath[q] \/ wavPath'[q] = upPath[u]
        /\ \A q \in Responses : jobStatus'[q] = "ABSENT" => jobStatus[q] = "ABSENT"
        /\ \A q \in Responses : jobStatus'[q] = "UPLOADING" => jobStatus[q] = "UPLOADING" /\ q # upFor[u]
    BY <2>1, <1>0 DEF StoreTypeOK
  <2>3. SlotsStored'
    BY <2>1, <2>2, <1>0, StorageAssumption DEF SlotsStored
  <2>4. UploadsWritten'
    BY <2>1, <2>2, <1>0 DEF UploadsWritten, FoundPc, WrittenPc
  <2>5. ASSUME NEW v \in Uploads
        PROVE  AnnouncedAt(v)'
    <3> SUFFICES ASSUME upPc'[v] \in {"enqueue", "done"}
                 PROVE  AnnouncedAt(v)'
      BY DEF AnnouncedAt
    <3>2. PICK q \in Responses : upFor[v] = q /\ upFor'[v] = q
      BY <2>1, <1>0 DEF UploadsWritten, FoundPc
    <3>4. \/ \E t \in Slots : t # upPath'[v] /\ slotFor'[t] = q
          \/ jobStatus'[q] # "UPLOADING" /\ UrlComing(q)'
      <4>1. CASE v = u
        <5>1. HandingOver(q)'
          BY <2>1, <3>2, <4>1 DEF HandingOver
        <5> QED
          BY <2>2, <3>2, <4>1, <5>1 DEF UrlComing
      <4>2. CASE v # u
        <5>1. UrlComing(q) => UrlComing(q)'
          BY <2>1, <1>b
        <5> QED
          BY <2>1, <2>2, <3>2, <4>2, <5>1, <1>0 DEF AnnouncedAt
      <4> QED
        BY <4>1, <4>2
    <3> QED
      BY <3>2, <3>4 DEF AnnouncedAt, UrlComing, Queued, HandingOver, HeldBy
  <2> QED
    BY <2>3, <2>4, <2>5 DEF TakeInv
<1>7. ASSUME NEW u \in Uploads, UploadEnqueue(u)
      PROVE  TakeInv'
  <2>1. /\ UNCHANGED <<slotPc, slotFor, upFor, upPath, file, wavPath, jobStatus, audioUrl, pc, held>>
        /\ upPc[u] = "enqueue" /\ upPc'[u] = "done" /\ upFor[u] \in Responses
        /\ \A v \in Uploads \ {u} : upPc'[v] = upPc[v]
        /\ Enqueue(upFor[u])
    BY <1>7, <1>0 DEF UploadEnqueue, storeVars, RequestTypeOK
  <2>2. PICK p \in Responses : p = upFor[u]
    BY <2>1
  <2>3. /\ \A q \in Responses : Queued(q) => Queued(q)'
        /\ p \in lost' \/ Queued(p)'
        /\ \A q \in Responses : q # p => (q \in lost' <=> q \in lost)
    BY <2>1, <2>2, <1>0, EnqueueFacts DEF QueueTypeOK
  <2>4. ASSUME NEW q \in Responses, UrlComing(q)
        PROVE  UrlComing(q)'
    <3>1. CASE q = p
      BY <2>3, <3>1 DEF UrlComing
    <3>2. CASE q # p
      <4>1. HandingOver(q) => HandingOver(q)'
        BY <2>1, <2>2, <3>2 DEF HandingOver
      <4> QED
        BY <2>1, <2>3, <2>4, <3>2, <4>1 DEF UrlComing, HeldBy
    <3> QED
      BY <3>1, <3>2
  <2> QED
    BY <2>1, <2>4, StillKeepsTake DEF FoundPc, WrittenPc
<1>8. ASSUME NEW u \in Uploads, UploadFails(u)
      PROVE  TakeInv'
  <2>1. /\ UNCHANGED <<slotPc, slotFor, upFor, upPath, file, wavPath, jobStatus, audioUrl>>
        /\ UNCHANGED <<queue, pc, held, lost>>
        /\ upPc[u] = "mark" /\ upPc'[u] = "failed"
        /\ \A v \in Uploads \ {u} : upPc'[v] = upPc[v]
    BY <1>8, <1>0 DEF UploadFails, storeVars, queueVars, RequestTypeOK
  <2> QED
    BY <2>1, <1>b, StillKeepsTake DEF FoundPc, WrittenPc
<1>9. ASSUME NEW r \in Responses, NEW v \in Verdicts, Review(r, v)
      PROVE  TakeInv'
  <2>1. /\ UNCHANGED <<slotPc, slotFor, upFor, upPath, upPc, file, wavPath, jobStatus, audioUrl>>
        /\ UNCHANGED <<queue, pc, held, lost>>
    BY <1>9 DEF Review, SetVerdict, requestVars, fileVars
  <2> QED
    BY <2>1, <1>b, StillKeepsTake
<1> QED
  BY <1>1, <1>2, <1>3, <1>4, <1>5, <1>6, <1>7, <1>8, <1>9 DEF Handle

LEMMA TakeInvHolds == Spec => []TakeInv
<1>1. Init => TakeInv
  BY DEF Init, StoreInit, QueueInit, RequestInit, TakeInv, SlotsStored, UploadsWritten,
         AnnouncedAt, FoundPc, WrittenPc
<1>2. TypeOK /\ OwnInv /\ TakeInv /\ [Next]_vars => TakeInv'
  <2> SUFFICES ASSUME TypeOK, OwnInv, TakeInv, [Next]_vars
               PROVE  TakeInv'
    OBVIOUS
  <2>0. QueueTypeOK /\ RequestTypeOK
    BY DEF TypeOK
  <2>1. ASSUME NEW w \in Workers, Run(w)
        PROVE  TakeInv'
    BY <2>1, RunKeepsTake
  <2>2. ASSUME NEW w \in Workers, Get(w) \/ Retry(w), UNCHANGED <<storeVars, requestVars, runVars>>
        PROVE  TakeInv'
    <3>1. UNCHANGED <<slotPc, slotFor, upPc, upFor, upPath, file, wavPath, jobStatus, audioUrl>>
      BY <2>2 DEF storeVars, requestVars
    <3>2. \A r \in Responses : UrlComing(r) => UrlComing(r)'
      BY <2>0, <2>2, <3>1, WorkerKeepsComing
    <3> QED
      BY <3>1, <3>2, StillKeepsTake
  <2>3. ASSUME Handle
        PROVE  TakeInv'
    BY <2>3, HandleKeepsTake
  <2>4. ASSUME Boot, UNCHANGED <<requestVars, runVars>>
        PROVE  TakeInv'
    <3>1. UNCHANGED <<slotPc, slotFor, upPc, upFor, upPath, file, wavPath, jobStatus, audioUrl>>
      BY <2>4 DEF Boot, Restart, Recover, Started, storeVars, requestVars
    <3>2. UNCHANGED <<pc, held>>
      BY <2>4 DEF Boot, Restart, Recover, Started
    <3>3. ASSUME NEW r \in Responses, r \in lost \/ Queued(r)
          PROVE  r \in lost' \/ Queued(r)'
      <4>1. ASSUME NEW q \in Responses, Recover(q)
            PROVE  r \in lost' \/ Queued(r)'
        BY <2>0, <3>2, <3>3, <4>1, EnqueueKeepsWork DEF Recover
      <4>2. CASE Restart \/ Started
        BY <3>3, <4>2 DEF Restart, Started, Queued
      <4> QED
        BY <2>4, <4>1, <4>2 DEF Boot
    <3>4. \A r \in Responses : UrlComing(r) => UrlComing(r)'
      BY <3>1, <3>2, <3>3 DEF UrlComing, HandingOver, HeldBy
    <3> QED
      BY <3>1, <3>4, StillKeepsTake
  <2>5. CASE Crash
    <3>1. /\ UNCHANGED <<slotFor, upFor, upPath, file, wavPath, jobStatus, audioUrl>>
          /\ \A s \in Slots : slotPc[s] = "done" => slotPc'[s] = "done"
          /\ \A u \in Uploads : upPc'[u] = upPc[u] \/ upPc'[u] = "failed"
      BY <2>5, <2>0 DEF Crash, storeVars, RequestTypeOK
    <3>2. ASSUME NEW r \in Responses, UrlComing(r)
          PROVE  UrlComing(r)'
      <4>1. lost' = lost \cup {q \in Responses : Outstanding(q)}
        BY <2>5 DEF Crash, QueueDies
      <4>2. audioUrl[r] # None \/ r \in lost \/ Outstanding(r)
        BY <3>2 DEF UrlComing, Outstanding, Held
      <4> QED
        BY <3>1, <4>1, <4>2 DEF UrlComing
    <3> QED
      BY <3>1, <3>2, StillKeepsTake DEF FoundPc, WrittenPc
  <2>6. CASE UNCHANGED vars
    <3>1. UNCHANGED <<slotPc, slotFor, upPc, upFor, upPath, file, wavPath, jobStatus, audioUrl>>
      BY <2>6 DEF vars, storeVars, requestVars
    <3>2. UNCHANGED <<queue, pc, held, lost>>
      BY <2>6 DEF vars, queueVars
    <3>3. \A r \in Responses : UrlComing(r) => UrlComing(r)'
      BY <3>1, <3>2 DEF UrlComing, Queued, HandingOver, HeldBy
    <3> QED
      BY <3>1, <3>3, StillKeepsTake
  <2> QED
    BY <2>1, <2>2, <2>3, <2>4, <2>5, <2>6 DEF Next, Work
<1> QED
  BY <1>1, <1>2, TypeCorrect, OwnInvHolds, PTL DEF Spec

\* What a 201 for an upload means to a client with one slot and one upload: once
\* no job for the response is outstanding and none was lost, the job is COMPLETE
\* and the playback URL leads to the uploaded recording.
THEOREM AcceptedTakePlayable == Spec => []AcceptedUploadPlayable
<1>1. TypeOK /\ WorkInv /\ OwnInv /\ TakeInv => AcceptedUploadPlayable
  <2> SUFFICES ASSUME TypeOK, WorkInv, OwnInv, TakeInv,
                      NEW r \in Responses, NEW s \in Slots, NEW u \in Uploads,
                      OneTake(r, s, u), upPc[u] = "done", r \notin lost, ~Outstanding(r)
               PROVE  jobStatus[r] = "COMPLETE" /\ audioUrl[r] = s /\ file[s] = u
    BY DEF AcceptedUploadPlayable
  <2>0. /\ StoreTypeOK /\ WorkInvAt(r) /\ PathsOwned /\ FilesOwned
        /\ UploadsWritten /\ AnnouncedAt(u)
    BY DEF TypeOK, WorkInv, OwnInv, TakeInv
  <2>1. /\ \A t \in Slots : slotFor[t] = r <=> t = s
        /\ \A v \in Uploads : upFor[v] = r <=> v = u
    BY DEF OneTake
  <2>2. upPath[u] = s
    BY <2>0, <2>1, StorageAssumption DEF UploadsWritten, FoundPc, PathsOwned
  <2>3. jobStatus[r] # "ABSENT" /\ file[s] # None
    BY <2>0, <2>1, <2>2 DEF UploadsWritten, FoundPc, WrittenPc
  <2>4. jobStatus[r] # "UPLOADING" /\ UrlComing(r)
    BY <2>0, <2>1, <2>2 DEF AnnouncedAt
  <2>5. ~Mid(r)
    BY <2>0 DEF WorkInvAt, Covered, Outstanding, Held
  <2>6. jobStatus[r] = "COMPLETE"
    BY <2>0, <2>3, <2>4, <2>5 DEF StoreTypeOK, JobStatus, Mid
  <2>7. audioUrl[r] # None
    BY <2>4 DEF UrlComing, Outstanding, Held
  <2>8. audioUrl[r] = s
    BY <2>0, <2>1, <2>7 DEF StoreTypeOK, PathsOwned
  <2>9. file[s] = u
    BY <2>0, <2>1, <2>3 DEF StoreTypeOK, FilesOwned
  <2> QED
    BY <2>6, <2>8, <2>9
<1> QED
  BY <1>1, TypeCorrect, WorkInvHolds, OwnInvHolds, TakeInvHolds, PTL
=============================================================================
