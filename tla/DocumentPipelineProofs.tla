----------------------- MODULE DocumentPipelineProofs -----------------------
(***************************************************************************)
(* Proofs about DocumentPipeline for any documents, any number of jobs,    *)
(* retries, staff decisions, faults and storage keys.                      *)
(***************************************************************************)
EXTENDS DocumentPipeline, TLAPS

Working == {"store", "process", "commit"}

(* A job in state s has saved a copy that a row may come to name.          *)
Holds(s) ==
    \/ s.pc = "process"
    \/ s.pc = "commit" /\ s.out = "verified"

(* A job works on a row that exists, and holds it while it works.          *)
Locks ==
    /\ \A j \in Job : /\ job[j].locked <=> job[j].pc \in Working
                      /\ job[j].pc # "free" => job[j].doc \in Entered
    /\ \A i, j \in Job :
          job[i].locked /\ job[j].locked /\ job[i].doc = job[j].doc => i = j

(* No two rows name one file.                                              *)
Keys ==
    /\ \A d \in Entered : docs[d].storage_key <= built
    /\ \A d, e \in Entered :
          docs[d].storage_key = docs[e].storage_key => d = e

(* What the cleanup selected is expired, and the file it will delete is    *)
(* the file of no other row.                                               *)
Selected ==
    /\ \A d \in cleanup.todo \cup cleanup.done :
          d \in Entered /\ docs[d].expired
    /\ \A d \in cleanup.todo :
          /\ cleanup.key[d] <= built
          /\ \A e \in Entered :
                docs[e].storage_key = cleanup.key[d] => e = d

(* The copy a job has saved is there, and nobody else knows its key.       *)
Copies ==
    \A j \in Job : Holds(job[j]) =>
        /\ job[j].new \in files
        /\ \A d \in Entered : docs[d].storage_key # job[j].new
        /\ \A d \in cleanup.todo : cleanup.key[d] # job[j].new
        /\ \A i \in Job : Holds(job[i]) /\ job[i].new = job[j].new => i = j

IInv ==
    /\ TypeOK
    /\ Locks
    /\ Keys
    /\ Selected
    /\ Copies
    /\ PassedHasFile
    /\ DecisionStands

-----------------------------------------------------------------------------
LEMMA FreeJobTyped ==
  /\ FreeJob \in JobState
  /\ FreeJob.pc = "free" /\ ~FreeJob.locked
  /\ ~Holds(FreeJob)
  BY DEF FreeJob, JobState, Holds

LEMMA RetryTyped ==
  ASSUME TypeOK, NEW j \in Job
  PROVE  /\ Retry(j) \in JobState
         /\ ~Retry(j).locked /\ ~Holds(Retry(j))
         /\ Retry(j).pc \in {"free", "queued"}
         /\ Retry(j).pc = "queued" => Retry(j).doc = job[j].doc
<1> DEFINE n == job[j].retries + 1
           again == [FreeJob EXCEPT !.kind = "task", !.pc = "queued",
                        !.doc = job[j].doc, !.key = job[j].key,
                        !.retries = n]
<1>1. job[j] \in JobState /\ n \in Nat
  BY DEF TypeOK, JobState
<1>2. Retry(j) \in {again, FreeJob}
  BY DEF Retry
<1> HIDE DEF n
<1>3. /\ again \in JobState /\ ~again.locked /\ again.pc = "queued"
      /\ again.doc = job[j].doc /\ ~Holds(again)
  BY <1>1 DEF JobState, FreeJob, Holds
<1> QED
  BY <1>2, <1>3, FreeJobTyped

LEMMA IdleCleanupTyped ==
  /\ IdleCleanup.todo = {} /\ IdleCleanup.done = {}
  /\ IdleCleanup \in [running : BOOLEAN, todo : SUBSET Doc, done : SUBSET Doc,
                      key : [Doc -> Nat]]
  BY DEF IdleCleanup

LEMMA InitIInv == Init => IInv
<1> SUFFICES ASSUME Init PROVE IInv
  OBVIOUS
<1>1. TypeOK
  BY FreeJobTyped, IdleCleanupTyped DEF Init, TypeOK
<1>2. Entered = {} /\ \A j \in Job : job[j] = FreeJob
  BY DEF Init, Entered
<1> QED
  BY <1>1, <1>2, FreeJobTyped, IdleCleanupTyped
     DEF Init, IInv, Locks, Keys, Selected, Copies, PassedHasFile,
         DecisionStands, Working

(* A job moves on, and neither rows nor files change.                      *)
LEMMA JobStep ==
  ASSUME IInv, NEW j \in Job, NEW next \in JobState,
         job' = [job EXCEPT ![j] = next],
         UNCHANGED <<docs, files, built, cleanup, decisions>>,
         faults' \in Nat,
         next.locked <=> next.pc \in Working,
         next.pc # "free" => next.doc \in Entered,
         next.locked =>
             /\ \/ job[j].locked /\ next.doc = job[j].doc
                \/ RowFree(next.doc)
             /\ next.seen = decisions[next.doc],
         Holds(next) => Holds(job[j]) /\ next.new = job[j].new
  PROVE  IInv'
<1>1. /\ job' \in [Job -> JobState] /\ job'[j] = next
      /\ \A i \in Job : i # j => job'[i] = job[i]
  BY DEF IInv, TypeOK
<1>2. TypeOK'
  BY <1>1 DEF IInv, TypeOK
<1>3. Entered' = Entered
  BY DEF Entered
<1>4. Locks'
  BY <1>1, <1>3 DEF IInv, Locks, RowFree
<1>5. Keys' /\ Selected' /\ PassedHasFile'
  BY <1>3 DEF IInv, Keys, Selected, PassedHasFile
<1>6. Copies'
  BY <1>1, <1>3 DEF IInv, Copies
<1>7. DecisionStands'
  BY <1>1, <1>4 DEF IInv, DecisionStands, Locks, Working
<1> QED
  BY <1>2, <1>4, <1>5, <1>6, <1>7 DEF IInv

(* Rows change, but neither what they name nor what they have passed.      *)
LEMMA RowStep ==
  ASSUME IInv,
         docs' \in [Doc -> Row \cup {NoRow}],
         Entered' = Entered,
         \A d \in Entered : /\ docs'[d].storage_key = docs[d].storage_key
                            /\ docs'[d].passed = docs[d].passed
                            /\ docs[d].expired => docs'[d].expired,
         UNCHANGED <<files, built, job, faults>>,
         \/ UNCHANGED cleanup
         \/ cleanup' = IdleCleanup,
         decisions' \in [Doc -> Nat],
         \A d \in Doc : decisions'[d] = decisions[d] \/ RowFree(d)
  PROVE  IInv'
<1>1. TypeOK'
  BY IdleCleanupTyped DEF IInv, TypeOK
<1>2. Locks' /\ Keys'
  BY DEF IInv, Locks, Keys
<1>3. cleanup'.todo \subseteq cleanup.todo /\ cleanup'.done \subseteq cleanup.done
      /\ \A d \in cleanup'.todo : cleanup'.key[d] = cleanup.key[d]
  BY IdleCleanupTyped
<1>4. Selected' /\ Copies' /\ PassedHasFile'
  BY <1>3 DEF IInv, Selected, Copies, PassedHasFile
<1>5. DecisionStands'
  <2> SUFFICES ASSUME NEW j \in Job, job[j].pc \in Working
               PROVE  job[j].seen = decisions'[job[j].doc]
    BY DEF DecisionStands, Working
  <2>1. job[j].locked /\ job[j].doc \in Doc
    BY DEF IInv, Locks, Entered, Working
  <2>2. decisions'[job[j].doc] = decisions[job[j].doc]
    BY <2>1 DEF RowFree
  <2> QED
    BY <2>2 DEF IInv, DecisionStands, Working
<1> QED
  BY <1>1, <1>2, <1>4, <1>5 DEF IInv

-----------------------------------------------------------------------------
LEMMA UploadStep ==
  ASSUME IInv, NEW d \in Doc, NEW j \in Job, UploadDocument(d, j)
  PROVE  IInv'
<1> DEFINE fresh == [FreeJob EXCEPT !.kind = "background", !.pc = "start",
                                    !.doc = d]
           made == [status |-> "uploaded", storage_key |-> built + 1,
                    passed |-> FALSE, reason |-> "none", expired |-> FALSE,
                    deleted |-> "no"]
<1>1. /\ fresh \in JobState /\ ~fresh.locked /\ ~Holds(fresh)
      /\ fresh.pc = "start" /\ fresh.doc = d
  BY DEF FreeJob, JobState, Holds
<1>2. built \in Nat
  BY DEF IInv, TypeOK
<1>3. made \in Row /\ made.storage_key = built + 1 /\ ~made.passed
  BY <1>2 DEF Row, Status
<1>4. /\ docs' = [docs EXCEPT ![d] = made]
      /\ job' = [job EXCEPT ![j] = fresh]
      /\ d \notin Entered /\ built' = built + 1
      /\ UNCHANGED <<files, cleanup, decisions, faults>>
  BY DEF UploadDocument
<1> HIDE DEF fresh, made
<1>5. /\ docs' \in [Doc -> Row \cup {NoRow}] /\ docs'[d] = made
      /\ \A e \in Doc : e # d => docs'[e] = docs[e]
      /\ job' \in [Job -> JobState] /\ job'[j] = fresh
      /\ \A i \in Job : i # j => job'[i] = job[i]
  BY <1>1, <1>3, <1>4 DEF IInv, TypeOK
<1>6. Entered' = Entered \cup {d}
  BY <1>3, <1>4, <1>5, NoRowAssumption DEF Entered
<1>7. \A k \in files : k <= built /\ k \in Nat
  BY <1>2 DEF IInv, TypeOK
<1>8. \A e \in Entered : docs[e].storage_key <= built /\ docs[e] \in Row
  BY DEF IInv, Keys, Entered, TypeOK
<1>9. \A e \in cleanup.todo : cleanup.key[e] <= built /\ cleanup.key[e] \in Nat
                              /\ e \in Entered
  BY DEF IInv, Selected, TypeOK
<1>10. TypeOK'
  BY <1>2, <1>4, <1>5, <1>7 DEF IInv, TypeOK
<1>11. Locks'
  BY <1>1, <1>5, <1>6 DEF IInv, Locks, Working
<1>12. Keys'
  BY <1>2, <1>3, <1>4, <1>5, <1>6, <1>8 DEF IInv, Keys, Entered, Row
<1>13. Selected'
  <2>1. \A e \in Entered : e # d /\ e \in Doc
    BY <1>4 DEF Entered
  <2>2. \A e \in cleanup.done : e \in Entered /\ docs[e].expired
    BY DEF IInv, Selected
  <2>3. \A e \in cleanup.todo : cleanup.key[e] # built + 1
    BY <1>2, <1>9
  <2>4. \A e \in cleanup.todo : cleanup.key[e] <= built + 1
    BY <1>2, <1>9
  <2> QED
    BY <1>3, <1>4, <1>5, <1>6, <1>9, <2>1, <2>2, <2>3, <2>4
       DEF IInv, Selected
<1>14. Copies'
  <2> SUFFICES ASSUME NEW i \in Job, Holds(job'[i])
               PROVE  /\ job'[i].new \in files
                      /\ \A e \in Entered' : docs'[e].storage_key # job'[i].new
                      /\ \A e \in cleanup.todo : cleanup.key[e] # job'[i].new
                      /\ \A h \in Job : Holds(job'[h])
                             /\ job'[h].new = job'[i].new => h = i
    BY <1>4 DEF Copies
  <2>1. i # j /\ job'[i] = job[i] /\ Holds(job[i])
    BY <1>1, <1>5
  <2>2. job[i].new \in files /\ job[i].new # built + 1
    BY <1>2, <1>7, <2>1 DEF IInv, Copies
  <2> QED
    BY <1>1, <1>3, <1>4, <1>5, <1>6, <2>1, <2>2
       DEF IInv, Copies, Entered
<1>15. PassedHasFile'
  BY <1>3, <1>4, <1>5, <1>6 DEF IInv, PassedHasFile, Entered
<1>16. DecisionStands'
  BY <1>1, <1>4, <1>5 DEF IInv, DecisionStands, Working
<1> QED
  BY <1>10, <1>11, <1>12, <1>13, <1>14, <1>15, <1>16 DEF IInv

LEMMA StoreStep ==
  ASSUME IInv, NEW j \in Job, Store(j)
  PROVE  IInv'
<1> DEFINE k == built + 1
           next == [job[j] EXCEPT !.pc = "process", !.new = k]
<1>0. k \in Nat
  BY DEF IInv, TypeOK
<1>1. built \in Nat /\ job[j] \in JobState /\ job[j].pc = "store"
  BY DEF IInv, TypeOK, Store
<1>2. /\ next \in JobState /\ next.pc = "process" /\ next.new = built + 1
      /\ next.doc = job[j].doc /\ next.seen = job[j].seen
      /\ next.locked = job[j].locked
  <2>1. k = built + 1
    OBVIOUS
  <2> HIDE DEF k
  <2> QED
    BY <1>0, <1>1, <2>1 DEF JobState
<1>3. /\ job' = [job EXCEPT ![j] = next]
      /\ built' = built + 1 /\ files' = files \cup {built + 1}
      /\ UNCHANGED <<docs, cleanup, decisions, faults>>
  BY DEF Store
<1> HIDE DEF next
<1>4. /\ job' \in [Job -> JobState] /\ job'[j] = next
      /\ \A i \in Job : i # j => job'[i] = job[i]
  BY <1>2, <1>3 DEF IInv, TypeOK
<1>5. TypeOK'
  BY <1>1, <1>3, <1>4 DEF IInv, TypeOK
<1>6. Entered' = Entered
  BY <1>3 DEF Entered
<1>7. \A f \in files : f <= built /\ f \in Nat
  BY <1>1 DEF IInv, TypeOK
<1>8. \A e \in Entered : docs[e].storage_key <= built
                         /\ docs[e].storage_key \in Nat
  BY NoRowAssumption DEF IInv, Keys, Entered, TypeOK, Row
<1>9. \A e \in cleanup.todo : cleanup.key[e] <= built /\ cleanup.key[e] \in Nat
  BY DEF IInv, Selected, TypeOK
<1>10. Locks'
  BY <1>1, <1>2, <1>4, <1>6 DEF IInv, Locks, Working
<1>11. Keys'
  BY <1>1, <1>3, <1>6, <1>8 DEF IInv, Keys
<1>12. Selected'
  BY <1>1, <1>3, <1>6, <1>9 DEF IInv, Selected
<1>13. Copies'
  <2>1. \A i \in Job : i # j /\ Holds(job[i]) =>
            job[i].new \in files /\ job[i].new # built + 1
    BY <1>1, <1>7 DEF IInv, Copies
  <2>2. /\ \A e \in Entered : docs[e].storage_key # built + 1
        /\ \A e \in cleanup.todo : cleanup.key[e] # built + 1
    BY <1>1, <1>8, <1>9
  <2> QED
    BY <1>2, <1>3, <1>4, <1>6, <2>1, <2>2 DEF IInv, Copies
<1>14. PassedHasFile'
  BY <1>3, <1>6 DEF IInv, PassedHasFile
<1>15. DecisionStands'
  BY <1>1, <1>2, <1>3, <1>4 DEF IInv, DecisionStands
<1> QED
  BY <1>5, <1>10, <1>11, <1>12, <1>13, <1>14, <1>15 DEF IInv

(* The row takes the key of the copy, or keeps its own.                    *)
LEMMA CommitStep ==
  ASSUME IInv, NEW j \in Job, Commit(j)
  PROVE  IInv'
<1> DEFINE d == job[j].doc
<1>1. /\ job[j].pc = "commit" /\ job[j] \in JobState
      /\ docs' = [docs EXCEPT ![d] = Result(j)]
      /\ job' = [job EXCEPT ![j] = FreeJob]
      /\ UNCHANGED <<files, built, cleanup, decisions, faults>>
  BY DEF Commit, IInv, TypeOK
<1>2. d \in Entered /\ d \in Doc /\ docs[d] \in Row
  BY <1>1 DEF IInv, Locks, Entered, TypeOK
<1>3. /\ Result(j) \in Row
      /\ Result(j).expired = docs[d].expired
      /\ job[j].out # "verified" =>
            /\ Result(j).storage_key = docs[d].storage_key
            /\ Result(j).passed = docs[d].passed
      /\ job[j].out = "verified" => Result(j).storage_key = job[j].new
  BY <1>1, <1>2 DEF Result, Row, Status, JobState
<1> HIDE DEF d
<1>4. /\ docs' \in [Doc -> Row \cup {NoRow}] /\ docs'[d] = Result(j)
      /\ \A e \in Doc : e # d => docs'[e] = docs[e]
      /\ job' \in [Job -> JobState] /\ job'[j] = FreeJob
      /\ \A i \in Job : i # j => job'[i] = job[i]
  BY <1>1, <1>2, <1>3, FreeJobTyped DEF IInv, TypeOK
<1>5. Entered' = Entered
  BY <1>2, <1>3, <1>4, NoRowAssumption DEF Entered
<1>6. TypeOK'
  BY <1>1, <1>4 DEF IInv, TypeOK
<1>7. Locks'
  BY <1>4, <1>5, FreeJobTyped DEF IInv, Locks, Working
<1>8. job[j].out = "verified" =>
          /\ job[j].new \in files /\ job[j].new <= built
          /\ \A e \in Entered : docs[e].storage_key # job[j].new
          /\ \A e \in cleanup.todo : cleanup.key[e] # job[j].new
          /\ \A i \in Job : i # j /\ Holds(job[i]) => job[i].new # job[j].new
  <2>1. job[j].out = "verified" => Holds(job[j])
    BY <1>1 DEF Holds
  <2>2. \A k \in files : k <= built
    BY DEF IInv, TypeOK
  <2> QED
    BY <2>1, <2>2 DEF IInv, Copies
<1>9. \A e \in Entered : e \in Doc
  BY DEF Entered
<1>10. Keys'
  BY <1>1, <1>2, <1>3, <1>4, <1>5, <1>8, <1>9 DEF IInv, Keys
<1>11. Selected'
  BY <1>1, <1>2, <1>3, <1>4, <1>5, <1>8, <1>9 DEF IInv, Selected
<1>12. Copies'
  BY <1>1, <1>2, <1>3, <1>4, <1>5, <1>8, <1>9, FreeJobTyped DEF IInv, Copies
<1>13. PassedHasFile'
  BY <1>1, <1>2, <1>3, <1>4, <1>5, <1>8, <1>9 DEF IInv, PassedHasFile
<1>14. DecisionStands'
  BY <1>1, <1>4, FreeJobTyped DEF IInv, DecisionStands
<1> QED
  BY <1>6, <1>7, <1>10, <1>11, <1>12, <1>13, <1>14 DEF IInv

LEMMA StepStep ==
  ASSUME IInv, NEW j \in Job, Step(j)
  PROVE  IInv'
<1>1. job[j] \in JobState /\ job[j].doc \in Doc \cup {NoDoc} /\ faults \in Nat
  BY DEF IInv, TypeOK, JobState
<1>2. CASE ReadContent(j)
  <2> DEFINE next == IF job[j].key \in files
                     THEN [job[j] EXCEPT !.pc = "start"] ELSE Retry(j)
  <2>1. job[j].pc = "queued" /\ ~job[j].locked /\ job[j].doc \in Entered
    BY <1>2 DEF ReadContent, IInv, Locks, Working
  <2>2. next \in JobState /\ next.pc \in {"free", "queued", "start"}
        /\ ~next.locked /\ ~Holds(next)
        /\ (next.pc # "free" => next.doc = job[j].doc)
    BY <1>1, <2>1, RetryTyped DEF IInv, JobState, Holds
  <2>3. job' = [job EXCEPT ![j] = next]
        /\ UNCHANGED <<docs, files, built, cleanup, decisions, faults>>
    BY <1>2 DEF ReadContent
  <2> HIDE DEF next
  <2> QED
    BY <1>1, <2>1, <2>2, <2>3, JobStep DEF Working
<1>3. CASE Start(j)
  <2> DEFINE next == [job[j] EXCEPT !.pc = "store", !.locked = TRUE,
                                    !.seen = decisions[job[j].doc]]
  <2>1. job[j].pc = "start" /\ RowFree(job[j].doc) /\ job[j].doc \in Entered
    BY <1>3 DEF Start, IInv, Locks, Working
  <2>2. decisions[job[j].doc] \in Nat
    BY <2>1 DEF Entered, IInv, TypeOK
  <2>3. next \in JobState /\ next.pc = "store" /\ next.locked
        /\ next.doc = job[j].doc /\ next.seen = decisions[next.doc]
        /\ ~Holds(next)
    BY <1>1, <2>1, <2>2 DEF JobState, Holds
  <2>4. job' = [job EXCEPT ![j] = next]
        /\ UNCHANGED <<docs, files, built, cleanup, decisions, faults>>
    BY <1>3 DEF Start
  <2> HIDE DEF next
  <2> QED
    BY <1>1, <2>1, <2>3, <2>4, JobStep DEF Working
<1>4. CASE Process(j) \/ StageFails(j)
  <2>1. PICK out \in {"verified", "rejected"} :
            /\ job' = [job EXCEPT ![j] = [job[j] EXCEPT !.pc = "commit",
                                                        !.out = out]]
            /\ job[j].pc \in {"store", "process"}
            /\ out = "verified" => job[j].pc = "process"
            /\ UNCHANGED <<docs, files, built, cleanup, decisions, faults>>
    BY <1>4 DEF Process, StageFails
  <2> DEFINE next == [job[j] EXCEPT !.pc = "commit", !.out = out]
  <2>2. /\ next \in JobState /\ next.pc = "commit"
        /\ next.locked = job[j].locked /\ next.doc = job[j].doc
        /\ next.seen = job[j].seen /\ next.new = job[j].new
        /\ Holds(next) => Holds(job[j])
    <3>1. next \in JobState
      BY <1>1, <2>1 DEF JobState
    <3> QED
      BY <1>1, <2>1, <3>1 DEF JobState, Holds
  <2>3. job[j].locked /\ job[j].doc \in Entered
        /\ job[j].seen = decisions[job[j].doc]
    BY <2>1 DEF IInv, Locks, Working, DecisionStands
  <2> HIDE DEF next
  <2>4. job' = [job EXCEPT ![j] = next]
    BY <2>1 DEF next
  <2>5. UNCHANGED <<docs, files, built, cleanup, decisions>> /\ faults' \in Nat
    BY <1>1, <2>1
  <2>6. next.locked <=> next.pc \in Working
    BY <2>2, <2>3 DEF Working
  <2> QED
    BY <2>2, <2>3, <2>4, <2>5, <2>6, JobStep
<1> QED
  BY <1>2, <1>3, <1>4, StoreStep, CommitStep DEF Step

LEMMA LossStep ==
  ASSUME IInv, NEW j \in Job, Abort(j) \/ ProcessLost(j)
  PROVE  IInv'
<1> DEFINE again == [FreeJob EXCEPT !.kind = "task", !.pc = "queued",
                        !.doc = job[j].doc, !.key = job[j].key,
                        !.retries = job[j].retries]
<1>1. job[j] \in JobState /\ faults' \in Nat
  BY DEF IInv, TypeOK, Abort, ProcessLost, Fault
<1>2. /\ again \in JobState /\ ~again.locked /\ again.pc = "queued"
      /\ again.doc = job[j].doc /\ ~Holds(again)
  BY <1>1 DEF JobState, FreeJob, Holds
<1>3. job[j].doc \in Entered
  BY DEF Abort, ProcessLost, IInv, Locks
<1>4. PICK next \in {again, FreeJob, Retry(j)} :
          /\ job' = [job EXCEPT ![j] = next]
          /\ UNCHANGED <<docs, files, built, cleanup, decisions>>
  BY DEF Abort, ProcessLost
<1> HIDE DEF again
<1>5. /\ next \in JobState /\ ~next.locked /\ ~Holds(next)
      /\ next.pc \in {"free", "queued"}
      /\ next.pc = "queued" => next.doc \in Entered
  BY <1>2, <1>3, <1>4, RetryTyped, FreeJobTyped DEF IInv
<1> QED
  BY <1>1, <1>4, <1>5, JobStep DEF Working

LEMMA MessageTyped ==
  ASSUME IInv, NEW d \in Entered
  PROVE  /\ Message(d) \in JobState
         /\ ~Message(d).locked /\ Message(d).pc = "queued"
         /\ Message(d).doc = d /\ ~Holds(Message(d))
<1>1. d \in Doc /\ docs[d].storage_key \in Nat
  BY DEF Entered, IInv, TypeOK, Row
<1> QED
  BY <1>1 DEF Message, JobState, FreeJob, Holds

(* However many messages are submitted at once, each fills a free slot.    *)
LEMMA ResubmitStep ==
  ASSUME IInv, NEW selected \in SUBSET Doc, NEW slot \in [selected -> Job],
         RetryFailedDocuments(selected, slot)
  PROVE  IInv'
<1>1. UNCHANGED <<docs, files, built, cleanup, decisions, faults>>
  BY DEF RetryFailedDocuments
<1>2. \A d \in selected : d \in Entered /\ slot[d] \in Job
                           /\ job[slot[d]] = FreeJob
  BY DEF RetryFailedDocuments, Limited, Waiting, UnderReview, Submit
<1>3. \A j \in Job : \/ job'[j] = job[j]
                     \/ \E d \in Entered : job'[j] = Message(d)
  <2> SUFFICES ASSUME NEW j \in Job, NEW e \in selected, slot[e] = j
               PROVE  \E d \in Entered : job'[j] = Message(d)
    BY DEF RetryFailedDocuments, Submit
  <2> DEFINE d == CHOOSE d \in selected : slot[d] = j
  <2>1. d \in selected
    OBVIOUS
  <2>2. job'[j] = Message(d)
    BY DEF RetryFailedDocuments, Submit
  <2> QED
    BY <1>2, <2>1, <2>2
<1>4. DOMAIN job' = Job /\ job' = [j \in Job |-> job'[j]]
  BY DEF RetryFailedDocuments, Submit
<1>5. Entered' = Entered
  BY <1>1 DEF Entered
<1>6. \A j \in Job : \/ job'[j] = job[j]
                     \/ /\ job'[j] \in JobState
                        /\ job'[j].pc = "queued" /\ ~job'[j].locked
                        /\ job'[j].doc \in Entered
                        /\ ~Holds(job'[j])
  BY <1>3, MessageTyped
<1>7. TypeOK'
  BY <1>1, <1>4, <1>6 DEF IInv, TypeOK
<1>8. Locks'
  BY <1>5, <1>6 DEF IInv, Locks, Working
<1>9. Keys' /\ Selected' /\ PassedHasFile'
  BY <1>1, <1>5 DEF IInv, Keys, Selected, PassedHasFile
<1>10. Copies'
  BY <1>1, <1>5, <1>6 DEF IInv, Copies
<1>11. DecisionStands'
  BY <1>1, <1>6 DEF IInv, DecisionStands
<1> QED
  BY <1>7, <1>8, <1>9, <1>10, <1>11 DEF IInv

(* Staff and users: the row is free when it changes.                       *)
LEMMA RequestStep ==
  ASSUME IInv, NEW d \in Doc,
         Staff(d) \/ DeleteDocument(d) \/ MarkExpired(d)
  PROVE  IInv'
<1>1. /\ d \in Entered /\ RowFree(d) /\ docs[d] \in Row
      /\ decisions \in [Doc -> Nat]
  BY DEF Staff, UpdateDocumentStatus, DeleteDocument, MarkExpired, Undeleted,
         Entered, IInv, TypeOK
<1>2. PICK next \in Row :
          /\ docs' = [docs EXCEPT ![d] = next]
          /\ next.storage_key = docs[d].storage_key
          /\ next.passed = docs[d].passed
          /\ docs[d].expired => next.expired
  <2>1. CASE Staff(d)
    <3>1. PICK status \in Status, reason \in {"none", "staff"} :
              UpdateDocumentStatus(d, status, reason)
      BY <2>1 DEF Staff
    <3> DEFINE next == [docs[d] EXCEPT
                          !.status = status,
                          !.reason = IF reason = "none" THEN @ ELSE reason]
    <3>2. next \in Row /\ docs' = [docs EXCEPT ![d] = next]
          /\ next.storage_key = docs[d].storage_key
          /\ next.passed = docs[d].passed /\ next.expired = docs[d].expired
      BY <1>1, <3>1 DEF UpdateDocumentStatus, Row
    <3> QED
      BY <3>2
  <2>2. CASE DeleteDocument(d)
    <3> DEFINE next == [docs[d] EXCEPT !.deleted = "user"]
    <3>1. next \in Row /\ docs' = [docs EXCEPT ![d] = next]
          /\ next.storage_key = docs[d].storage_key
          /\ next.passed = docs[d].passed /\ next.expired = docs[d].expired
      BY <1>1, <2>2 DEF DeleteDocument, Row
    <3> QED
      BY <3>1
  <2>3. CASE MarkExpired(d)
    <3> DEFINE next == [docs[d] EXCEPT !.expired = TRUE]
    <3>1. next \in Row /\ docs' = [docs EXCEPT ![d] = next]
          /\ next.storage_key = docs[d].storage_key
          /\ next.passed = docs[d].passed /\ next.expired
      BY <1>1, <2>3 DEF MarkExpired, Row
    <3> QED
      BY <3>1
  <2> QED
    BY <2>1, <2>2, <2>3
<1>3. /\ UNCHANGED <<files, built, job, cleanup, faults>>
      /\ decisions' \in [Doc -> Nat]
      /\ \A e \in Doc : decisions'[e] = decisions[e] \/ RowFree(e)
  <2>1. UNCHANGED decisions
        \/ decisions' = [decisions EXCEPT ![d] = decisions[d] + 1]
    BY DEF Staff, UpdateDocumentStatus, DeleteDocument, MarkExpired
  <2>2. decisions' \in [Doc -> Nat]
        /\ \A e \in Doc : e # d => decisions'[e] = decisions[e]
    BY <1>1, <2>1
  <2>3. UNCHANGED <<files, built, job, cleanup, faults>>
    BY DEF Staff, UpdateDocumentStatus, DeleteDocument, MarkExpired
  <2> QED
    BY <1>1, <2>2, <2>3
<1>4. /\ docs' \in [Doc -> Row \cup {NoRow}] /\ docs'[d] = next
      /\ \A e \in Doc : e # d => docs'[e] = docs[e]
  BY <1>2 DEF IInv, TypeOK
<1>5. Entered' = Entered
  BY <1>1, <1>4, NoRowAssumption DEF Entered
<1>6. \A e \in Entered : /\ docs'[e].storage_key = docs[e].storage_key
                         /\ docs'[e].passed = docs[e].passed
                         /\ docs[e].expired => docs'[e].expired
  BY <1>2, <1>4 DEF Entered
<1> QED
  BY <1>3, <1>4, <1>5, <1>6, RowStep

-----------------------------------------------------------------------------
LEMMA CleanupSelectStep ==
  ASSUME IInv, NEW chosen \in SUBSET Doc, CleanupSelect(chosen)
  PROVE  IInv'
<1>1. /\ cleanup' = [running |-> TRUE, todo |-> chosen, done |-> {},
                     key |-> [d \in Doc |-> IF d \in chosen
                                            THEN docs[d].storage_key ELSE 0]]
      /\ UNCHANGED <<docs, files, built, job, decisions, faults>>
  BY DEF CleanupSelect
<1>2. \A d \in chosen : d \in Entered /\ docs[d].expired /\ d \in Doc
  BY DEF CleanupSelect, Limited, Undeleted, Entered
<1>3. \A d \in Entered : docs[d].storage_key \in Nat /\ d \in Doc
  BY DEF Entered, IInv, TypeOK, Row
<1>4. /\ cleanup'.todo = chosen /\ cleanup'.done = {}
      /\ cleanup'.key \in [Doc -> Nat]
      /\ \A d \in chosen : cleanup'.key[d] = docs[d].storage_key
      /\ cleanup' \in [running : BOOLEAN, todo : SUBSET Doc,
                       done : SUBSET Doc, key : [Doc -> Nat]]
  BY <1>1, <1>2, <1>3
<1>5. Entered' = Entered
  BY <1>1 DEF Entered
<1>6. TypeOK'
  BY <1>1, <1>4 DEF IInv, TypeOK
<1>7. Locks' /\ Keys' /\ PassedHasFile' /\ DecisionStands'
  BY <1>1, <1>5 DEF IInv, Locks, Keys, PassedHasFile, DecisionStands
<1>8. Selected'
  BY <1>1, <1>2, <1>4, <1>5 DEF IInv, Keys, Selected
<1>9. Copies'
  BY <1>1, <1>2, <1>4, <1>5 DEF IInv, Copies
<1> QED
  BY <1>6, <1>7, <1>8, <1>9 DEF IInv

LEMMA CleanupFileStep ==
  ASSUME IInv, NEW d \in Doc, NEW ok \in BOOLEAN, CleanupFile(d, ok)
  PROVE  IInv'
<1>1. /\ d \in cleanup.todo
      /\ files' \subseteq files
      /\ \A k \in files : k # cleanup.key[d] => k \in files'
      /\ cleanup' = [cleanup EXCEPT
                        !.todo = @ \ {d},
                        !.done = IF ok THEN @ \cup {d} ELSE @]
      /\ UNCHANGED <<docs, built, job, decisions, faults>>
  BY DEF CleanupFile
<1>2. /\ cleanup'.todo = cleanup.todo \ {d}
      /\ cleanup'.done \subseteq cleanup.done \cup {d}
      /\ cleanup'.key = cleanup.key
      /\ cleanup' \in [running : BOOLEAN, todo : SUBSET Doc,
                       done : SUBSET Doc, key : [Doc -> Nat]]
  BY <1>1 DEF IInv, TypeOK
<1>3. Entered' = Entered
  BY <1>1 DEF Entered
<1>4. TypeOK'
  BY <1>1, <1>2 DEF IInv, TypeOK
<1>5. Locks' /\ Keys' /\ DecisionStands'
  BY <1>1, <1>3 DEF IInv, Locks, Keys, DecisionStands
<1>6. Selected'
  BY <1>1, <1>2, <1>3 DEF IInv, Selected
<1>7. Copies'
  BY <1>1, <1>2, <1>3 DEF IInv, Copies
<1>8. PassedHasFile'
  BY <1>1, <1>3 DEF IInv, PassedHasFile, Selected
<1> QED
  BY <1>4, <1>5, <1>6, <1>7, <1>8 DEF IInv

LEMMA CleanupEndStep ==
  ASSUME IInv, CleanupCommit \/ CleanupLost
  PROVE  IInv'
<1>1. CASE CleanupCommit
  <2>1. /\ docs' = [d \in Doc |-> IF d \in cleanup.done
                                  THEN [docs[d] EXCEPT !.deleted = "cleanup"]
                                  ELSE docs[d]]
        /\ cleanup' = IdleCleanup
        /\ UNCHANGED <<files, built, job, decisions, faults>>
    BY <1>1 DEF CleanupCommit
  <2>2. \A d \in cleanup.done : d \in Entered /\ docs[d] \in Row
    BY DEF IInv, Selected, TypeOK, Entered
  <2>3. \A d \in cleanup.done :
            /\ docs'[d] \in Row
            /\ docs'[d].storage_key = docs[d].storage_key
            /\ docs'[d].passed = docs[d].passed
            /\ docs'[d].expired = docs[d].expired
    BY <2>1, <2>2 DEF Row, Entered
  <2>4. \A d \in Doc : d \notin cleanup.done => docs'[d] = docs[d]
    BY <2>1
  <2>5. docs' \in [Doc -> Row \cup {NoRow}]
    BY <2>1, <2>3, <2>4 DEF IInv, TypeOK
  <2>6. Entered' = Entered
    BY <2>2, <2>3, <2>4, NoRowAssumption DEF Entered
  <2>7. \A d \in Entered : /\ docs'[d].storage_key = docs[d].storage_key
                           /\ docs'[d].passed = docs[d].passed
                           /\ docs[d].expired => docs'[d].expired
    BY <2>3, <2>4 DEF Entered
  <2>8. decisions' \in [Doc -> Nat]
    BY <2>1 DEF IInv, TypeOK
  <2> QED
    BY <2>1, <2>5, <2>6, <2>7, <2>8, RowStep
<1>2. CASE CleanupLost
  <2>1. /\ cleanup' = IdleCleanup /\ faults' \in Nat
        /\ UNCHANGED <<docs, files, built, job, decisions>>
    BY <1>2 DEF CleanupLost, Fault, IInv, TypeOK
  <2>2. Entered' = Entered
    BY <2>1 DEF Entered
  <2>3. TypeOK'
    BY <2>1, IdleCleanupTyped DEF IInv, TypeOK
  <2> QED
    BY <2>1, <2>2, <2>3, IdleCleanupTyped
       DEF IInv, Locks, Keys, Selected, Copies, PassedHasFile, DecisionStands
<1> QED
  BY <1>1, <1>2

LEMMA NextIInv == IInv /\ [Next]_vars => IInv'
<1> SUFFICES ASSUME IInv, [Next]_vars PROVE IInv'
  OBVIOUS
<1>1. CASE UNCHANGED vars
  BY <1>1 DEF vars, IInv, TypeOK, Locks, Keys, Selected, Copies, PassedHasFile,
              DecisionStands, Entered
<1>2. ASSUME NEW d \in Doc, Staff(d) \/ DeleteDocument(d) \/ MarkExpired(d)
      PROVE  IInv'
  BY <1>2, RequestStep
<1>3. ASSUME \/ RetryTask
             \/ \E d \in Doc, j \in Job : UploadDocument(d, j)
      PROVE  IInv'
  BY <1>3, UploadStep, ResubmitStep DEF RetryTask
<1>4. ASSUME NEW j \in Job, Step(j) \/ Abort(j) \/ ProcessLost(j)
      PROVE  IInv'
  BY <1>4, StepStep, LossStep
<1>5. ASSUME \/ CleanupCommit \/ CleanupLost
             \/ \E selected \in SUBSET Doc : CleanupSelect(selected)
             \/ \E d \in Doc, ok \in BOOLEAN : CleanupFile(d, ok)
      PROVE  IInv'
  BY <1>5, CleanupSelectStep, CleanupFileStep, CleanupEndStep
<1> QED
  BY <1>1, <1>2, <1>3, <1>4, <1>5 DEF Next

LEMMA Invariance == Spec => []IInv
  BY InitIInv, NextIInv, PTL DEF Spec

(* Rows, files, jobs and the cleanup keep their types.                     *)
THEOREM TypeCorrect == Spec => []TypeOK
<1>1. IInv => TypeOK
  BY DEF IInv
<1> QED
  BY <1>1, Invariance, PTL

(* The file of a processed document stays in storage until the document is *)
(* expired, however many jobs run, fail, are lost or run twice.            *)
THEOREM PassedKeepFiles == Spec => []PassedHasFile
<1>1. IInv => PassedHasFile
  BY DEF IInv
<1> QED
  BY <1>1, Invariance, PTL

(* No staff decision gets in between the first UPDATE of a job and its     *)
(* commit.                                                                 *)
THEOREM DecisionsStand == Spec => []DecisionStands
<1>1. IInv => DecisionStands
  BY DEF IInv
<1> QED
  BY <1>1, Invariance, PTL

=============================================================================
