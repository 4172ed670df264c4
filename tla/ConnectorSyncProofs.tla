------------------------- MODULE ConnectorSyncProofs -------------------------
(***************************************************************************)
(* Proofs about ConnectorSync, for any number of runs, folders, messages   *)
(* and UIDs.                                                               *)
(***************************************************************************)
EXTENDS ConnectorSync, TLAPS

\* A task that has put everything down is a task.
LEMMA RestType == \A pc \in PC : Rest(pc) \in Task
  BY ConstantsAssumption DEF Rest, Task, Cursor, NoCursor

\* Replacing one task by another keeps the type of the task function.
LEMMA BecomeType ==
  ASSUME NEW r \in Run, NEW t \in Task, task \in [Run -> Task], Become(r, t)
  PROVE  task' \in [Run -> Task]
  BY DEF Become

LEMMA StopType ==
  ASSUME NEW r \in Run, NEW pc \in PC, task \in [Run -> Task], Stop(r, pc)
  PROVE  task' \in [Run -> Task]
  BY RestType, BecomeType DEF Stop

\* Capping the failed signal only drops UIDs (sorted(failed)[:MAX_FAILED_UIDS]).
LEMMA LowestSubset == \A S, n : Lowest(S, n) \subseteq S
  BY DEF Lowest

\* The record a task has once a batch was fetched is a task.
LEMMA FetchedType ==
  ASSUME NEW t \in Task, NEW b \in SUBSET Uid, NEW g \in SUBSET Uid,
         NEW p \in SUBSET Uid
  PROVE  [t EXCEPT !.pc = "checking", !.batch = b, !.got = g, !.plan = p] \in Task
  BY DEF Task, PC

LEMMA CursorType ==
  ASSUME NEW g \in 0..MaxGen, NEW l \in 0..MaxUid, NEW S \in SUBSET Uid
  PROVE  [gen |-> g, last |-> l, failed |-> S] \in Cursor
  BY DEF Cursor

\* Every step keeps the types (the mail of a batch needs a selected folder).
LEMMA TypeStep == TypeOK /\ TaskInv /\ [Next]_vars => TypeOK'
<1> USE ConstantsAssumption DEF Uid, Gen
<1> SUFFICES ASSUME TypeOK, TaskInv, [Next]_vars PROVE TypeOK'
  OBVIOUS
<1>0. task \in [Run -> Task] /\ \A r \in Run : task[r] \in Task
  BY DEF TypeOK
<1>1. ASSUME NEW r \in Run, StartSync(r) PROVE TypeOK'
  BY <1>1, <1>0, StopType DEF StartSync, TypeOK, Conn, ClaimedBy, OpenLedger, PC
<1>2. ASSUME NEW r \in Run, Load(r) PROVE TypeOK'
  <2>1. [Rest("counting") EXCEPT !.seed = cursor, !.todo = Folder] \in Task
    BY RestType DEF TypeOK, Task, PC
  <2>2. task' \in [Run -> Task]
    BY <1>2, <1>0, <2>1, StopType, BecomeType DEF Load, PC
  <2> QED BY <1>2, <2>2 DEF Load, TypeOK
<1>3. ASSUME NEW r \in Run, SetTotal(r) PROVE TypeOK'
  <2>1. [task[r] EXCEPT !.pc = "fetching"] \in Task
    BY <1>0 DEF Task, PC
  <2>2. task' \in [Run -> Task]
    BY <1>3, <1>0, <2>1, StopType, BecomeType DEF SetTotal, PC
  <2> QED BY <1>3, <2>2 DEF SetTotal, TypeOK
<1>5. ASSUME NEW r \in Run, NEW f \in Folder, SkipFolder(r, f) PROVE TypeOK'
  <2>1. [task[r] EXCEPT !.todo = task[r].todo \ {f}] \in Task
    BY <1>0 DEF Task
  <2> QED BY <1>5, <1>0, <2>1, BecomeType DEF SkipFolder, TypeOK
<1>7. ASSUME NEW r \in Run, EndOfStream(r) PROVE TypeOK'
  BY <1>7, <1>0, StopType DEF EndOfStream, TypeOK, PC
<1>4. ASSUME NEW r \in Run, NEW f \in Folder, SelectFolder(r, f) PROVE TypeOK'
  <2> DEFINE t == task[r]
             new == [t EXCEPT
               !.todo = t.todo \ {f}, !.seed[f] = NoCursor,
               !.folder = f, !.gen = box[f].gen,
               !.plan = {u \in Present(f) : u >= MinUid(t.seed[f], box[f].gen)},
               !.floor = IF t.seed[f].gen = box[f].gen THEN t.seed[f].last ELSE 0,
               !.cand = {}, !.acc = {},
               !.failed = IF t.seed[f].gen = box[f].gen THEN t.seed[f].failed ELSE {}]
  <2>1. t \in Task /\ t.seed \in [Folder -> Cursor] /\ t.seed[f] \in Cursor
    BY <1>0 DEF Task
  <2>2. NoCursor \in Cursor
    BY DEF Cursor, NoCursor
  <2>3. box[f].gen \in 0..MaxGen /\ Present(f) \in SUBSET Uid
    BY DEF TypeOK, Present
  <2>4. /\ [t.seed EXCEPT ![f] = NoCursor] \in [Folder -> Cursor]
        /\ t.todo \ {f} \in SUBSET Folder
    BY <2>1, <2>2 DEF Task
  <2>5. /\ (IF t.seed[f].gen = box[f].gen THEN t.seed[f].last ELSE 0) \in 0..MaxUid
        /\ (IF t.seed[f].gen = box[f].gen THEN t.seed[f].failed ELSE {}) \in SUBSET Uid
        /\ {u \in Present(f) : u >= MinUid(t.seed[f], box[f].gen)} \in SUBSET Uid
    BY <2>1, <2>3 DEF Cursor
  <2>6. new \in Task
    BY <2>1, <2>3, <2>4, <2>5 DEF Task
  <2>7. task' = [task EXCEPT ![r] = new]
    BY <1>4 DEF SelectFolder, Become
  <2> QED BY <1>4, <1>0, <2>6, <2>7 DEF SelectFolder, TypeOK
<1>6. ASSUME NEW r \in Run, NEW batch, NEW got, FetchBatch(r, batch, got)
      PROVE TypeOK'
  <2>1. batch \in SUBSET Uid /\ got \in SUBSET Uid
    BY <1>6, <1>0 DEF FetchBatch, Task, Returnable
  <2>3. task[r].plan \ batch \in SUBSET Uid
    BY <1>0 DEF Task
  <2>2. [task[r] EXCEPT !.pc = "checking", !.batch = batch, !.got = got,
                        !.plan = task[r].plan \ batch] \in Task
    BY <1>0, <2>1, <2>3, FetchedType
  <2> QED BY <1>6, <1>0, <2>2, BecomeType DEF FetchBatch, TypeOK
<1>8. ASSUME NEW r \in Run, CheckDisabled(r) PROVE TypeOK'
  <2>1. [task[r] EXCEPT !.pc = "ingesting"] \in Task
    BY <1>0 DEF Task, PC
  <2>2. task' \in [Run -> Task]
    BY <1>8, <1>0, <2>1, StopType, BecomeType DEF CheckDisabled, PC
  <2> QED BY <1>8, <2>2 DEF CheckDisabled, TypeOK
<1>9. ASSUME NEW r \in Run, NEW ok, NEW adv \in 0..MaxUid, NEW acked,
             CommitBatch(r, ok, adv, acked)
      PROVE TypeOK'
  <2> DEFINE t == task[r]
             cand == t.cand \cup t.batch
             acc == t.acc \cup ok
             failed == (t.failed \ ok) \cup (t.got \ ok)
             new == [t EXCEPT
               !.pc = "fetching", !.batch = {}, !.got = {}, !.floor = adv,
               !.cand = {u \in cand : u > adv},
               !.acc = {u \in acc : u > adv}, !.failed = failed]
  <2>1. t \in Task /\ ok \in SUBSET Uid
    BY <1>9, <1>0 DEF CommitBatch, Task
  <2>2. t.folder \in Folder /\ t.gen \in Gen
    BY <1>9, <2>1 DEF CommitBatch, TaskInv, TaskOK, Task
  <2>3. /\ {u \in cand : u > adv} \in SUBSET Uid
        /\ {u \in acc : u > adv} \in SUBSET Uid
        /\ failed \in SUBSET Uid
    BY <2>1 DEF Task
  <2>4. new \in Task
    BY <2>1, <2>3 DEF Task, PC
  <2>5. task' \in [Run -> Task]
    <3>1. CASE acked
      BY <1>9, <1>0, <2>4, <3>1, BecomeType DEF CommitBatch
    <3>2. CASE ~acked
      BY <1>9, <1>0, <3>2, StopType DEF CommitBatch, PC
    <3> QED BY <3>1, <3>2
  <2>6. stored' \subseteq Msg
    <3>1. Messages(r, ok) \subseteq Msg
      BY <2>1, <2>2 DEF Messages
    <3> QED BY <1>9, <3>1 DEF CommitBatch, TypeOK
  <2>7. cursor' \in [Folder -> Cursor]
    <3>1. Lowest(failed, MaxFailed) \in SUBSET Uid
      BY <2>3, LowestSubset
    <3>2. [gen |-> t.gen, last |-> adv, failed |-> Lowest(failed, MaxFailed)] \in Cursor
      BY <3>1, <2>2, CursorType
    <3> QED BY <1>9, <3>2 DEF CommitBatch, TypeOK
  <2>8. late' \in 0..2
    BY <1>9 DEF CommitBatch, TypeOK
  <2> QED BY <1>9, <2>5, <2>6, <2>7, <2>8 DEF CommitBatch, TypeOK, Conn
<1>10. ASSUME NEW r \in Run, BatchStolen(r) PROVE TypeOK'
  BY <1>10, <1>0, StopType DEF BatchStolen, TypeOK, PC
<1>11. ASSUME NEW r \in Run, BatchOrphaned(r) PROVE TypeOK'
  BY <1>11, <1>0, StopType DEF BatchOrphaned, TypeOK, PC
<1>12. ASSUME NEW r \in Run, NEW next, FinalizeOk(r, next) PROVE TypeOK'
  <2>1. task' \in [Run -> Task]
    BY <1>12, <1>0, StopType DEF FinalizeOk, Finalize, PC
  <2> QED BY <1>12, <2>1 DEF FinalizeOk, Finalize, TypeOK, Conn, Owns
<1>13. ASSUME NEW r \in Run, FinalizeFailure(r) PROVE TypeOK'
  <2>1. task' \in [Run -> Task]
    BY <1>13, <1>0, StopType DEF FinalizeFailure, Finalize, PC
  <2> QED BY <1>13, <2>1 DEF FinalizeFailure, Finalize, TypeOK, Conn, Owns
<1>14. ASSUME NEW r \in Run, Raise(r) \/ Crash(r) PROVE TypeOK'
  BY <1>14, <1>0, StopType DEF Raise, Crash, TypeOK, PC
<1>15. ASSUME NEW r \in Run, Heartbeat(r) PROVE TypeOK'
  BY <1>15 DEF Heartbeat, TypeOK, Conn
<1>16. CASE Expire
  BY <1>16 DEF Expire, TypeOK, Conn
<1>17. CASE Admin
  <2>1. CASE Disable \/ Enable
    <3>1. conn' \in Conn
      BY <2>1 DEF Disable, Enable, TypeOK, Conn
    <3> QED BY <2>1, <3>1 DEF Disable, Enable, TypeOK
  <2>2. CASE Delete
    <3>1. NoCursor \in Cursor
      BY CursorType DEF NoCursor
    <3>2. cursor' \in [Folder -> Cursor]
      BY <2>2, <3>1 DEF Delete
    <3>3. conn' \in Conn
      BY <2>2 DEF Delete, GoneRow, NewRow, Conn
    <3> QED BY <2>2, <3>2, <3>3 DEF Delete, TypeOK
  <2> QED BY <1>17, <2>1, <2>2 DEF Admin
<1>18. CASE Server
  <2>1. ASSUME NEW f \in Folder, NewMail(f) PROVE TypeOK'
    <3>1. box[f] \in [gen : Gen, top : 0..MaxUid, gone : SUBSET Uid]
      BY DEF TypeOK
    <3>2. [box[f] EXCEPT !.top = box[f].top + 1]
            \in [gen : Gen, top : 0..MaxUid, gone : SUBSET Uid]
      BY <2>1, <3>1 DEF NewMail
    <3>3. box' \in [Folder -> [gen : Gen, top : 0..MaxUid, gone : SUBSET Uid]]
      BY <2>1, <3>2 DEF NewMail, TypeOK
    <3> QED BY <2>1, <3>3 DEF NewMail, TypeOK
  <2>2. ASSUME NEW f \in Folder, NEW u \in Uid, Expunge(f, u) PROVE TypeOK'
    BY <2>2 DEF Expunge, TypeOK
  <2>3. ASSUME NEW f \in Folder, ResetUids(f) PROVE TypeOK'
    BY <2>3 DEF ResetUids, TypeOK
  <2> QED BY <1>18, <2>1, <2>2, <2>3 DEF Server
<1>19. CASE UNCHANGED vars
  BY <1>19 DEF vars, TypeOK
<1> QED
  BY <1>1, <1>2, <1>3, <1>4, <1>5, <1>6, <1>7, <1>8, <1>9, <1>10, <1>11, <1>12,
     <1>13, <1>14, <1>15, <1>16, <1>17, <1>18, <1>19
  DEF Next, Progress, Fault, FetchWhole, FetchPartial, IngestWhole, IngestPartial

-----------------------------------------------------------------------------

\* The places a task rests at: it holds no folder and no batch there.
Resting == {"off", "claimed", "finishing", "failing"}

LEMMA RestOK == \A pc \in Resting : TaskOK(Rest(pc))
  BY DEF Rest, TaskOK, Resting

LEMMA BecomeOK ==
  ASSUME NEW r \in Run, NEW t, TypeOK, TaskInv, TaskOK(t), Become(r, t)
  PROVE  TaskInv'
  BY DEF TypeOK, TaskInv, Become

LEMMA StopOK ==
  ASSUME NEW r \in Run, NEW pc \in Resting, TypeOK, TaskInv, Stop(r, pc)
  PROVE  TaskInv'
  BY RestOK, BecomeOK DEF Stop

\* Every step keeps what a task has in hand in line with its place.
LEMMA TaskStep == TypeOK /\ TaskInv /\ [Next]_vars => TaskInv'
<1> SUFFICES ASSUME TypeOK, TaskInv, [Next]_vars PROVE TaskInv'
  OBVIOUS
<1>0. \A r \in Run : task[r] \in Task /\ TaskOK(task[r])
  BY DEF TypeOK, TaskInv
<1>1. ASSUME NEW r \in Run, StartSync(r) PROVE TaskInv'
  BY <1>1, StopOK DEF StartSync, Resting
<1>2. ASSUME NEW r \in Run, Load(r) PROVE TaskInv'
  <2>1. TaskOK([Rest("counting") EXCEPT !.seed = cursor, !.todo = Folder])
    BY DEF TaskOK, Rest
  <2> QED BY <1>2, <2>1, BecomeOK, StopOK DEF Load, Resting
<1>3. ASSUME NEW r \in Run, SetTotal(r) PROVE TaskInv'
  <2>1. TaskOK([task[r] EXCEPT !.pc = "fetching"])
    BY <1>0, <1>3 DEF TaskOK, SetTotal, Task
  <2> QED BY <1>3, <2>1, BecomeOK, StopOK DEF SetTotal, Resting
<1>4. ASSUME NEW r \in Run, NEW f \in Folder, SelectFolder(r, f) PROVE TaskInv'
  <2> DEFINE t == task[r]
             new == [t EXCEPT
               !.todo = t.todo \ {f}, !.seed[f] = NoCursor,
               !.folder = f, !.gen = box[f].gen,
               !.plan = {u \in Present(f) : u >= MinUid(t.seed[f], box[f].gen)},
               !.floor = IF t.seed[f].gen = box[f].gen THEN t.seed[f].last ELSE 0,
               !.cand = {}, !.acc = {},
               !.failed = IF t.seed[f].gen = box[f].gen THEN t.seed[f].failed ELSE {}]
  <2>1. /\ new.pc = t.pc /\ new.batch = t.batch
        /\ new.folder = f /\ new.gen = box[f].gen
    BY <1>0 DEF Task
  <2>2. box[f].gen \in Gen /\ f # NoFolder
    BY ConstantsAssumption DEF TypeOK
  <2>3. TaskOK(new)
    BY <2>1, <2>2, <1>0 DEF TaskOK
  <2>4. Become(r, new)
    BY <1>4 DEF SelectFolder
  <2> QED BY <2>3, <2>4, BecomeOK
<1>5. ASSUME NEW r \in Run, NEW f \in Folder, SkipFolder(r, f) PROVE TaskInv'
  <2>1. TaskOK([task[r] EXCEPT !.todo = task[r].todo \ {f}])
    BY <1>0 DEF TaskOK, Task
  <2> QED BY <1>5, <2>1, BecomeOK DEF SkipFolder
<1>6. ASSUME NEW r \in Run, NEW batch, NEW got, FetchBatch(r, batch, got)
      PROVE TaskInv'
  <2> DEFINE new == [task[r] EXCEPT !.pc = "checking", !.batch = batch, !.got = got,
                                    !.plan = task[r].plan \ batch]
  <2>1. task[r].plan # {}
    BY <1>6 DEF FetchBatch
  <2>2. new.pc = "checking" /\ new.folder = task[r].folder /\ new.gen = task[r].gen
    BY <1>0 DEF Task
  <2>3. TaskOK(new)
    BY <1>0, <2>1, <2>2 DEF TaskOK
  <2> QED BY <1>6, <2>3, BecomeOK DEF FetchBatch
<1>7. ASSUME NEW r \in Run, EndOfStream(r) PROVE TaskInv'
  BY <1>7, StopOK DEF EndOfStream, Resting
<1>8. ASSUME NEW r \in Run, CheckDisabled(r) PROVE TaskInv'
  <2>1. TaskOK([task[r] EXCEPT !.pc = "ingesting"])
    BY <1>0, <1>8 DEF TaskOK, CheckDisabled, Task
  <2> QED BY <1>8, <2>1, BecomeOK, StopOK DEF CheckDisabled, Resting
<1>9. ASSUME NEW r \in Run, NEW ok, NEW adv, NEW acked, CommitBatch(r, ok, adv, acked)
      PROVE TaskInv'
  <2> DEFINE t == task[r]
             cand == t.cand \cup t.batch
             new == [t EXCEPT
               !.pc = "fetching", !.batch = {}, !.got = {}, !.floor = adv,
               !.cand = {u \in cand : u > adv},
               !.acc = {u \in t.acc \cup ok : u > adv},
               !.failed = (t.failed \ ok) \cup (t.got \ ok)]
  <2>1. /\ new.pc = "fetching" /\ new.batch = {} /\ new.folder = t.folder
        /\ new.gen = t.gen /\ new.plan = t.plan
    BY <1>0 DEF Task
  <2>2. TaskOK(new)
    BY <1>0, <2>1 DEF TaskOK
  <2>3. CASE acked
    BY <1>9, <2>2, <2>3, BecomeOK DEF CommitBatch
  <2>4. CASE ~acked
    BY <1>9, <2>4, StopOK DEF CommitBatch, Resting
  <2> QED BY <2>3, <2>4
<1>10. ASSUME NEW r \in Run, BatchStolen(r) \/ BatchOrphaned(r) PROVE TaskInv'
  BY <1>10, StopOK DEF BatchStolen, BatchOrphaned, Resting
<1>11. ASSUME NEW r \in Run, NEW next, FinalizeOk(r, next) PROVE TaskInv'
  BY <1>11, StopOK DEF FinalizeOk, Finalize, Resting
<1>12. ASSUME NEW r \in Run, FinalizeFailure(r) PROVE TaskInv'
  BY <1>12, StopOK DEF FinalizeFailure, Finalize, Resting
<1>13. ASSUME NEW r \in Run, Raise(r) \/ Crash(r) PROVE TaskInv'
  BY <1>13, StopOK DEF Raise, Crash, Resting
<1>14. CASE UNCHANGED task
  BY <1>14 DEF TaskInv, TaskOK
<1> QED
  BY <1>1, <1>2, <1>3, <1>4, <1>5, <1>6, <1>7, <1>8, <1>9, <1>10, <1>11, <1>12,
     <1>13, <1>14
  DEF Next, Progress, Fault, FetchWhole, FetchPartial, IngestWhole, IngestPartial,
      Heartbeat, Expire, Admin, Disable, Enable, Delete, Server, NewMail, Expunge,
      ResetUids, vars
-----------------------------------------------------------------------------
(* The safety invariants whose induction needs no more than the types *)

\* What Become does to the task function.
LEMMA BecomeFacts ==
  ASSUME NEW r \in Run, NEW t, task \in [Run -> Task], Become(r, t)
  PROVE  task'[r] = t /\ \A q \in Run \ {r} : task'[q] = task[q]
  BY DEF Become

LEMMA StopFacts ==
  ASSUME NEW r \in Run, NEW pc, task \in [Run -> Task], Stop(r, pc)
  PROVE  task'[r].pc = pc /\ \A q \in Run \ {r} : task'[q] = task[q]
  BY BecomeFacts DEF Stop, Rest

\* The fields of a task after each step that gives it something to hold.
LEMMA SetTotalFacts ==
  ASSUME TypeOK, NEW r \in Run, SetTotal(r), Owns(r)
  PROVE  task'[r] = [task[r] EXCEPT !.pc = "fetching"]
  BY DEF SetTotal, Become, TypeOK

LEMMA CheckFacts ==
  ASSUME TypeOK, NEW r \in Run, CheckDisabled(r)
  PROVE  \/ task'[r] = [task[r] EXCEPT !.pc = "ingesting"] /\ ~(conn.exists /\ conn.disabled)
         \/ task'[r] = Rest("finishing")
  BY DEF CheckDisabled, Stop, Become, TypeOK

LEMMA SelectFacts ==
  ASSUME TypeOK, NEW r \in Run, NEW f \in Folder, SelectFolder(r, f)
  PROVE  /\ task'[r].pc = "fetching"
         /\ task'[r].batch = task[r].batch
         /\ task'[r].todo = task[r].todo \ {f}
         /\ task'[r].seed = [task[r].seed EXCEPT ![f] = NoCursor]
         /\ task'[r].folder = f
         /\ task'[r].gen = box[f].gen
         /\ task'[r].plan = {u \in Present(f) : u >= MinUid(task[r].seed[f], box[f].gen)}
         /\ task'[r].floor = IF task[r].seed[f].gen = box[f].gen
                               THEN task[r].seed[f].last ELSE 0
         /\ task'[r].cand = {} /\ task'[r].acc = {}
<1> DEFINE t == task[r]
           new == [t EXCEPT
             !.todo = t.todo \ {f}, !.seed[f] = NoCursor,
             !.folder = f, !.gen = box[f].gen,
             !.plan = {u \in Present(f) : u >= MinUid(t.seed[f], box[f].gen)},
             !.floor = IF t.seed[f].gen = box[f].gen THEN t.seed[f].last ELSE 0,
             !.cand = {}, !.acc = {},
             !.failed = IF t.seed[f].gen = box[f].gen THEN t.seed[f].failed ELSE {}]
<1>1. task'[r] = new
  BY DEF SelectFolder, Become, TypeOK
<1>2. t \in Task /\ t.pc = "fetching"
  BY DEF TypeOK, SelectFolder
<1> HIDE DEF t
<1>3. /\ new.pc = t.pc /\ new.batch = t.batch /\ new.todo = t.todo \ {f}
      /\ new.folder = f /\ new.gen = box[f].gen /\ new.cand = {} /\ new.acc = {}
  BY <1>2 DEF Task
<1>4. new.seed = [t.seed EXCEPT ![f] = NoCursor]
  BY <1>2 DEF Task
<1>5. new.plan = {u \in Present(f) : u >= MinUid(t.seed[f], box[f].gen)}
  BY <1>2 DEF Task
<1>6. new.floor = IF t.seed[f].gen = box[f].gen THEN t.seed[f].last ELSE 0
  BY <1>2 DEF Task
<1> QED BY <1>1, <1>2, <1>3, <1>4, <1>5, <1>6 DEF t

LEMMA SkipFacts ==
  ASSUME TypeOK, NEW r \in Run, NEW f \in Folder, SkipFolder(r, f)
  PROVE  task'[r] = [task[r] EXCEPT !.todo = task[r].todo \ {f}] /\ task[r].pc = "fetching"
  BY DEF SkipFolder, Become, TypeOK

LEMMA FetchFacts ==
  ASSUME TypeOK, NEW r \in Run, NEW batch, NEW got, FetchBatch(r, batch, got)
  PROVE  task'[r] = [task[r] EXCEPT !.pc = "checking", !.batch = batch, !.got = got,
                                    !.plan = task[r].plan \ batch]
  BY DEF FetchBatch, Become, TypeOK

LEMMA CommitFacts ==
  ASSUME TypeOK, NEW r \in Run, NEW ok, NEW adv, NEW acked \in BOOLEAN, acked,
         CommitBatch(r, ok, adv, acked)
  PROVE  task'[r].pc = "fetching"
<1> DEFINE t == task[r]
           new == [t EXCEPT
             !.pc = "fetching", !.batch = {}, !.got = {}, !.floor = adv,
             !.cand = {u \in t.cand \cup t.batch : u > adv},
             !.acc = {u \in t.acc \cup ok : u > adv},
             !.failed = (t.failed \ ok) \cup (t.got \ ok)]
<1>1. task'[r] = new /\ t \in Task
  BY DEF CommitBatch, Become, TypeOK
<1> HIDE DEF t
<1>2. new.pc = "fetching"
  BY <1>1 DEF Task
<1> QED BY <1>1, <1>2

\* The steps that leave the row, the ledger and the mail alone.
Quiet(r) ==
  \/ Load(r) \/ SetTotal(r) \/ (\E f \in Folder : SelectFolder(r, f) \/ SkipFolder(r, f))
  \/ (\E batch, got : FetchBatch(r, batch, got))
  \/ EndOfStream(r) \/ CheckDisabled(r) \/ BatchStolen(r) \/ BatchOrphaned(r)
  \/ Raise(r) \/ Crash(r)

\* Next by what its steps write, the case split of the proofs below.
LEMMA NextCases ==
  ASSUME TypeOK, Next
  PROVE  \/ \E r \in Run : StartSync(r) \/ Quiet(r) \/ Heartbeat(r) \/ FinalizeFailure(r)
         \/ \E r \in Run, next \in {"off", "failing"} : FinalizeOk(r, next)
         \/ \E r \in Run, ok \in SUBSET Uid, adv \in 0..MaxUid, acked \in BOOLEAN :
              CommitBatch(r, ok, adv, acked)
         \/ Expire \/ Admin \/ Server
<1>1. ASSUME NEW r \in Run, FetchWhole(r) \/ FetchPartial(r) PROVE Quiet(r)
  BY <1>1 DEF FetchWhole, FetchPartial, Quiet
<1>2. ASSUME NEW r \in Run, IngestWhole(r) \/ IngestPartial(r)
      PROVE \E ok \in SUBSET Uid, adv \in 0..MaxUid, acked \in BOOLEAN :
              CommitBatch(r, ok, adv, acked)
  <2>1. Ingestible(r) \in SUBSET Uid
    BY DEF Ingestible, TypeOK, Task
  <2>2. CASE IngestWhole(r)
    BY <2>1, <2>2 DEF IngestWhole
  <2>3. CASE IngestPartial(r)
    BY <2>1, <2>3 DEF IngestPartial
  <2> QED BY <1>2, <2>2, <2>3
<1>3. ASSUME NEW r \in Run, Progress(r)
      PROVE \/ Quiet(r) \/ FetchWhole(r) \/ IngestWhole(r)
            \/ FinalizeOk(r, "off") \/ FinalizeFailure(r)
  BY <1>3 DEF Progress, Quiet
<1>4. ASSUME NEW r \in Run, Fault(r)
      PROVE Quiet(r) \/ FetchPartial(r) \/ IngestPartial(r) \/ FinalizeOk(r, "failing")
  BY <1>4 DEF Fault, Quiet
<1> QED BY <1>1, <1>2, <1>3, <1>4 DEF Next

LEMMA QuietFrame ==
  ASSUME NEW r \in Run, Quiet(r)
  PROVE  UNCHANGED <<conn, ledger, cursor, stored, box, late>>
  BY DEF Quiet, Load, SetTotal, SelectFolder, SkipFolder, FetchBatch, EndOfStream,
         CheckDisabled, BatchStolen, BatchOrphaned, Raise, Crash

LEMMA LedgerStep == TypeOK /\ LedgerAgrees /\ [Next]_vars => LedgerAgrees'
<1> SUFFICES ASSUME TypeOK, LedgerAgrees, [Next]_vars PROVE LedgerAgrees'
  OBVIOUS
<1> USE DEF LedgerAgrees
<1>1. ASSUME NEW r \in Run, StartSync(r) PROVE LedgerAgrees'
  <2>1. conn'.exists /\ conn'.status = "running" /\ conn'.run = r
    BY <1>1 DEF StartSync, ClaimedBy, Claimable, TypeOK, Conn
  <2>2. \A q \in Run : ledger'[q] = "running" <=> q = r
    BY <1>1 DEF StartSync, OpenLedger
  <2> QED BY <2>1, <2>2
<1>2. ASSUME NEW r \in Run, Quiet(r) PROVE LedgerAgrees'
  BY <1>2, QuietFrame
<1>3. ASSUME NEW r \in Run, NEW status \in {"idle", "error"},
             NEW outcome \in {"succeeded", "failed"}, NEW next,
             Finalize(r, status, outcome, next)
      PROVE LedgerAgrees'
  <2>1. CASE Owns(r)
    <3>1. conn'.status = status
      BY <1>3, <2>1 DEF Finalize, TypeOK, Conn
    <3>2. \A q \in Run : ledger'[q] = (IF q = r THEN outcome ELSE ledger[q])
      BY <1>3, <2>1 DEF Finalize, TypeOK
    <3>3. \A q \in Run : ledger[q] = "running" => q = r
      BY <2>1 DEF Owns
    <3> QED BY <3>1, <3>2, <3>3
  <2>2. CASE ~Owns(r)
    BY <1>3, <2>2 DEF Finalize
  <2> QED BY <2>1, <2>2
<1>4. ASSUME NEW r \in Run, NEW ok, NEW adv, NEW acked, CommitBatch(r, ok, adv, acked)
      PROVE LedgerAgrees'
  BY <1>4 DEF CommitBatch, TypeOK, Conn
<1>5. ASSUME NEW r \in Run, Heartbeat(r) PROVE LedgerAgrees'
  BY <1>5 DEF Heartbeat, TypeOK, Conn
<1>6. CASE Expire
  BY <1>6 DEF Expire, TypeOK, Conn
<1>7. CASE Admin
  <2>1. CASE Disable \/ Enable
    BY <2>1 DEF Disable, Enable, TypeOK, Conn
  <2>2. CASE Delete
    BY <2>2 DEF Delete, GoneRow, NewRow
  <2> QED BY <1>7, <2>1, <2>2 DEF Admin
<1>8. CASE Server
  BY <1>8 DEF Server, NewMail, Expunge, ResetUids
<1>9. CASE UNCHANGED vars
  BY <1>9 DEF vars
<1> QED
  BY <1>1, <1>2, <1>3, <1>4, <1>5, <1>6, <1>7, <1>8, <1>9, NextCases
  DEF FinalizeOk, FinalizeFailure

LEMMA DeletedStep == TypeOK /\ DeletedLeavesNothing /\ [Next]_vars => DeletedLeavesNothing'
<1> SUFFICES ASSUME TypeOK, DeletedLeavesNothing, [Next]_vars PROVE DeletedLeavesNothing'
  OBVIOUS
<1> USE DEF DeletedLeavesNothing
<1>1. ASSUME NEW r \in Run, StartSync(r) PROVE DeletedLeavesNothing'
  BY <1>1 DEF StartSync, ClaimedBy, Claimable, TypeOK, Conn
<1>2. ASSUME NEW r \in Run, Quiet(r) PROVE DeletedLeavesNothing'
  BY <1>2, QuietFrame
<1>3. ASSUME NEW r \in Run, NEW status, NEW outcome, NEW next,
             Finalize(r, status, outcome, next)
      PROVE DeletedLeavesNothing'
  BY <1>3 DEF Finalize, Owns, TypeOK, Conn
<1>4. ASSUME NEW r \in Run, NEW ok, NEW adv, NEW acked, CommitBatch(r, ok, adv, acked)
      PROVE DeletedLeavesNothing'
  BY <1>4 DEF CommitBatch, Owns, TypeOK, Conn
<1>5. ASSUME NEW r \in Run, Heartbeat(r) PROVE DeletedLeavesNothing'
  BY <1>5 DEF Heartbeat, TypeOK, Conn
<1>6. CASE Expire
  BY <1>6 DEF Expire, TypeOK, Conn
<1>7. CASE Admin
  BY <1>7 DEF Admin, Disable, Enable, Delete, TypeOK, Conn
<1>8. CASE Server
  BY <1>8 DEF Server, NewMail, Expunge, ResetUids
<1>9. CASE UNCHANGED vars
  BY <1>9 DEF vars
<1> QED
  BY <1>1, <1>2, <1>3, <1>4, <1>5, <1>6, <1>7, <1>8, <1>9, NextCases
  DEF FinalizeOk, FinalizeFailure

LEMMA OwnerStep == TypeOK /\ OwnerInv /\ [Next]_vars => OwnerInv'
<1> SUFFICES ASSUME TypeOK, OwnerInv, [Next]_vars PROVE OwnerInv'
  OBVIOUS
<1> USE DEF OwnerInv, Owns
<1>1. ASSUME NEW r \in Run, StartSync(r) PROVE OwnerInv'
  BY <1>1 DEF StartSync, ClaimedBy, OpenLedger, TypeOK, Conn
<1>2. ASSUME NEW r \in Run, Quiet(r) PROVE OwnerInv'
  BY <1>2, QuietFrame
<1>3. ASSUME NEW r \in Run, NEW status, NEW outcome \in {"succeeded", "failed"}, NEW next,
             Finalize(r, status, outcome, next)
      PROVE OwnerInv'
  BY <1>3 DEF Finalize, TypeOK, Conn
<1>4. ASSUME NEW r \in Run, NEW ok, NEW adv, NEW acked, CommitBatch(r, ok, adv, acked)
      PROVE OwnerInv'
  BY <1>4 DEF CommitBatch, TypeOK, Conn
<1>5. ASSUME NEW r \in Run, Heartbeat(r) PROVE OwnerInv'
  BY <1>5 DEF Heartbeat, TypeOK, Conn
<1>6. CASE Expire
  BY <1>6 DEF Expire, TypeOK, Conn
<1>7. CASE Admin
  BY <1>7 DEF Admin, Disable, Enable, Delete, GoneRow, NewRow, TypeOK, Conn
<1>8. CASE Server
  BY <1>8 DEF Server, NewMail, Expunge, ResetUids
<1>9. CASE UNCHANGED vars
  BY <1>9 DEF vars
<1> QED
  BY <1>1, <1>2, <1>3, <1>4, <1>5, <1>6, <1>7, <1>8, <1>9, NextCases
  DEF FinalizeOk, FinalizeFailure

\* No step rewrites an abandoned row into an outcome.
LEMMA AbandonedStep ==
  ASSUME TypeOK, OwnerInv, [Next]_vars
  PROVE  \A r \in Run : ledger[r] = "abandoned" => ledger'[r] \notin {"succeeded", "failed"}
<1> DEFINE Goal == \A q \in Run : ledger[q] = "abandoned" =>
                     ledger'[q] \notin {"succeeded", "failed"}
<1>0. CASE UNCHANGED ledger
  BY <1>0
<1>1. ASSUME NEW r \in Run, StartSync(r) PROVE Goal
  BY <1>1 DEF StartSync, OpenLedger
<1>2. ASSUME NEW r \in Run, NEW status, NEW outcome, NEW next,
             Finalize(r, status, outcome, next)
      PROVE Goal
  BY <1>2 DEF Finalize, OwnerInv, TypeOK
<1>3. CASE Admin
  BY <1>3 DEF Admin, Disable, Enable, Delete
<1>4. ASSUME NEW r \in Run, Quiet(r) \/ Heartbeat(r) PROVE UNCHANGED ledger
  BY <1>4, QuietFrame DEF Heartbeat
<1>5. ASSUME NEW r \in Run, NEW ok, NEW adv, NEW acked, CommitBatch(r, ok, adv, acked)
      PROVE UNCHANGED ledger
  BY <1>5 DEF CommitBatch
<1>6. CASE Expire \/ Server \/ UNCHANGED vars
  BY <1>6 DEF Expire, Server, NewMail, Expunge, ResetUids, vars
<1> QED
  BY <1>0, <1>1, <1>2, <1>3, <1>4, <1>5, <1>6, NextCases
  DEF FinalizeOk, FinalizeFailure

LEMMA LateStep == TypeOK /\ LateInv /\ [Next]_vars => LateInv'
<1> SUFFICES ASSUME TypeOK, LateInv, [Next]_vars PROVE LateInv'
  OBVIOUS
<1> USE DEF LateInv, Owns
<1>0. task \in [Run -> Task] /\ late \in 0..2
  BY DEF TypeOK
<1>1. ASSUME NEW r \in Run, StartSync(r) PROVE LateInv'
  BY <1>1 DEF StartSync, Claimable
<1>2. ASSUME NEW r \in Run, Quiet(r) PROVE LateInv'
  <2>1. \A q \in Run \ {r} : task'[q] = task[q]
    BY <1>2, <1>0, BecomeFacts, StopFacts
    DEF Quiet, Load, SetTotal, SelectFolder, SkipFolder, FetchBatch, EndOfStream,
        CheckDisabled, BatchStolen, BatchOrphaned, Raise, Crash
  <2>2. CASE CheckDisabled(r)
    BY <1>2, <2>1, <2>2, QuietFrame, <1>0, StopFacts DEF CheckDisabled
  <2>3. CASE ~CheckDisabled(r)
    <3>1. task'[r].pc # "ingesting"
      <4>1. CASE \E f \in Folder : SelectFolder(r, f)
        BY <4>1, SelectFacts
      <4>2. CASE \E f \in Folder : SkipFolder(r, f)
        <5>1. PICK f \in Folder : SkipFolder(r, f)
          BY <4>2
        <5>2. task'[r] = [task[r] EXCEPT !.todo = task[r].todo \ {f}] /\ task[r].pc = "fetching"
          BY <5>1, SkipFacts
        <5> QED BY <5>2, <1>0 DEF Task
      <4>3. CASE \E batch, got : FetchBatch(r, batch, got)
        BY <4>3, <1>0 DEF FetchBatch, Become, Task
      <4>4. CASE Load(r)
        <5>1. CASE conn.exists
          BY <4>4, <5>1, <1>0 DEF Load, Become, Rest
        <5>2. CASE ~conn.exists
          BY <4>4, <5>2, <1>0, StopFacts DEF Load
        <5> QED BY <5>1, <5>2
      <4>5. CASE SetTotal(r)
        <5>1. CASE Owns(r)
          BY <4>5, <5>1, <1>0, SetTotalFacts DEF Task
        <5>2. CASE ~Owns(r)
          BY <4>5, <5>2, <1>0, StopFacts DEF SetTotal
        <5> QED BY <5>1, <5>2
      <4> QED BY <1>2, <1>0, <2>3, <4>1, <4>2, <4>3, <4>4, <4>5, StopFacts
              DEF Quiet, EndOfStream, BatchStolen, BatchOrphaned, Raise, Crash
    <3> QED BY <1>2, <2>1, <3>1, QuietFrame
  <2> QED BY <2>2, <2>3
<1>3. ASSUME NEW r \in Run, NEW status, NEW outcome, NEW next \in {"off", "failing"},
             Finalize(r, status, outcome, next)
      PROVE LateInv'
  <2>1. task'[r].pc # "ingesting" /\ \A q \in Run \ {r} : task'[q] = task[q]
    BY <1>3, <1>0, StopFacts DEF Finalize
  <2>2. /\ conn'.exists = conn.exists /\ conn'.disabled = conn.disabled
        /\ conn'.run = conn.run /\ late' = late
    BY <1>3 DEF Finalize, TypeOK, Conn
  <2> QED BY <2>1, <2>2
<1>4. ASSUME NEW r \in Run, NEW ok, NEW adv, NEW acked \in BOOLEAN,
             CommitBatch(r, ok, adv, acked)
      PROVE LateInv'
  <2>1. late # 1 /\ Owns(r)
    BY <1>4 DEF CommitBatch
  <2>2. task'[r].pc # "ingesting"
    <3>1. CASE acked
      BY <1>4, <3>1, CommitFacts
    <3>2. CASE ~acked
      BY <1>4, <1>0, <3>2, StopFacts DEF CommitBatch
    <3> QED BY <3>1, <3>2
  <2>3. /\ conn'.exists /\ conn'.run = r /\ conn'.disabled = conn.disabled
        /\ late' = IF conn.disabled /\ late < 2 THEN late + 1 ELSE late
    BY <1>4, <2>1 DEF CommitBatch, TypeOK, Conn
  <2> QED BY <1>0, <2>1, <2>2, <2>3
<1>5. ASSUME NEW r \in Run, Heartbeat(r) PROVE LateInv'
  BY <1>5 DEF Heartbeat, TypeOK, Conn
<1>6. CASE Expire
  BY <1>6 DEF Expire, TypeOK, Conn
<1>7. CASE Admin
  BY <1>7 DEF Admin, Disable, Enable, Delete
<1>8. CASE Server
  BY <1>8 DEF Server, NewMail, Expunge, ResetUids
<1>9. CASE UNCHANGED vars
  BY <1>9 DEF vars
<1> QED
  BY <1>1, <1>2, <1>3, <1>4, <1>5, <1>6, <1>7, <1>8, <1>9, NextCases
  DEF FinalizeOk, FinalizeFailure
-----------------------------------------------------------------------------
(* Never lose mail *)

\* A step that touches no cursor, no mail and no mailbox keeps what the live
\* runs know, if it keeps it for the one run it moves.
LEMMA RunFrame ==
  ASSUME RunInv, NEW r \in Run, UNCHANGED <<cursor, box, stored>>,
         conn'.exists = conn.exists, conn'.run = conn.run,
         \A q \in Run \ {r} : task'[q] = task[q],
         Live(r)' => RunOK(task[r])'
  PROVE  RunInv'
<1> SUFFICES ASSUME NEW q \in Run, Live(q)' PROVE RunOK(task[q])'
  BY DEF RunInv
<1>1. CASE q = r
  BY <1>1
<1>2. CASE q # r
  <2>1. task'[q] = task[q] /\ Live(q)
    BY <1>2 DEF Live, Owns
  <2>2. RunOK(task[q])
    BY <2>1 DEF RunInv
  <2> QED BY <2>1, <2>2 DEF RunOK, FolderOK, Present, Ahead
<1> QED BY <1>1, <1>2

\* A run that lets go is not live.
LEMMA StopRun ==
  ASSUME TypeOK, RunInv, NEW r \in Run, NEW pc \in Resting, Stop(r, pc),
         UNCHANGED <<cursor, box, stored>>,
         conn'.exists = conn.exists, conn'.run = conn.run
  PROVE  RunInv'
<1>1. task'[r].pc = pc /\ \A q \in Run \ {r} : task'[q] = task[q]
  BY StopFacts DEF TypeOK
<1>2. ~Live(r)'
  BY <1>1 DEF Live, Resting
<1> QED BY <1>1, <1>2, RunFrame

\* SELECT and SEARCH give the run a true picture of the folder.
LEMMA SelectRun ==
  ASSUME TypeOK, TaskInv, RunInv, CursorInv, NEW r \in Run, NEW f \in Folder,
         SelectFolder(r, f)
  PROVE  RunInv'
<1> DEFINE t == task[r]
           n == task'[r]
<1>1. UNCHANGED <<conn, cursor, box, stored>> /\ \A q \in Run \ {r} : task'[q] = task[q]
  BY DEF SelectFolder, Become, TypeOK
<1> SUFFICES ASSUME Live(r)' PROVE RunOK(task[r])'
  BY <1>1, RunFrame
<1>2. t \in Task /\ t.pc = "fetching" /\ f \in t.todo
  BY DEF TypeOK, SelectFolder
<1>3. RunOK(t)
  BY <1>1, <1>2 DEF RunInv, Live, Owns
<1>4. t.seed[f] = cursor[f] /\ t.batch = {}
  BY <1>2, <1>3 DEF RunOK, TaskInv, TaskOK
<1>5. /\ n.batch = {} /\ n.todo = t.todo \ {f}
      /\ n.seed = [t.seed EXCEPT ![f] = NoCursor]
      /\ n.folder = f /\ n.gen = box[f].gen
      /\ n.plan = {u \in Present(f) : u >= MinUid(cursor[f], box[f].gen)}
      /\ n.floor = (IF cursor[f].gen = box[f].gen THEN cursor[f].last ELSE 0)
      /\ n.cand = {} /\ n.acc = {}
  BY <1>4, SelectFacts
<1>6. /\ cursor[f].gen \in 0..MaxGen /\ cursor[f].last \in 0..MaxUid
      /\ box[f].gen \in Gen /\ Present(f) \subseteq 1..box[f].top /\ box[f].top \in 0..MaxUid
  BY DEF TypeOK, Cursor, Present
<1>7. \A g \in n.todo : n.seed[g] = cursor[g]
  BY <1>2, <1>3, <1>5 DEF RunOK, Task
<1>8. \A u \in Present(f) : u > n.floor => u \in n.plan
  BY <1>5, <1>6 DEF MinUid
<1>9. cursor[f].gen <= n.gen /\ n.gen <= box[f].gen
  BY <1>5, <1>6 DEF CursorInv, Gen
<1>10. \A u \in n.plan : u <= box[f].top
  BY <1>5, <1>6
<1> HIDE DEF n
<1>11. /\ n.folder \notin n.todo
       /\ \A u \in Present(f) : u > n.floor => u \in n.cand \cup n.batch \cup n.plan
       /\ \A u \in n.cand \cup n.batch \cup n.plan : u <= box[f].top
  BY <1>5, <1>8, <1>10
<1>12. /\ \A g \in n.todo : n.seed[g] = cursor'[g]
       /\ n.folder = f /\ n.gen = box'[f].gen
       /\ cursor'[f].gen <= n.gen /\ n.gen <= box'[f].gen
       /\ n.floor = (IF cursor'[f].gen = n.gen THEN cursor'[f].last ELSE 0)
       /\ n.acc = {} /\ n.cand = {} /\ n.batch = {}
  BY <1>1, <1>5, <1>7, <1>9
<1> QED BY <1>1, <1>11, <1>12 DEF RunOK, FolderOK, Present, Ahead, n

\* Fetching a batch moves the lowest planned UIDs into it.
LEMMA FetchRun ==
  ASSUME TypeOK, TaskInv, RunInv, NEW r \in Run, NEW batch, NEW got,
         FetchBatch(r, batch, got)
  PROVE  RunInv'
<1> DEFINE t == task[r]
           n == task'[r]
<1>1. UNCHANGED <<conn, cursor, box, stored>> /\ \A q \in Run \ {r} : task'[q] = task[q]
  BY DEF FetchBatch, Become, TypeOK
<1> SUFFICES ASSUME Live(r)' PROVE RunOK(task[r])'
  BY <1>1, RunFrame
<1>2. /\ t \in Task /\ t.pc = "fetching" /\ batch \subseteq t.plan
      /\ \A u \in batch, v \in t.plan \ batch : u < v
  BY DEF TypeOK, FetchBatch
<1>3. RunOK(t) /\ t.batch = {}
  BY <1>1, <1>2 DEF RunInv, Live, Owns, TaskInv, TaskOK
<1>4. /\ n.seed = t.seed /\ n.todo = t.todo /\ n.folder = t.folder /\ n.gen = t.gen
      /\ n.floor = t.floor /\ n.cand = t.cand /\ n.acc = t.acc
      /\ n.batch = batch /\ n.plan = t.plan \ batch
  <2>1. n = [t EXCEPT !.pc = "checking", !.batch = batch, !.got = got,
                      !.plan = t.plan \ batch]
    BY FetchFacts
  <2> QED BY <1>2, <2>1 DEF Task
<1>5. n.cand \cup n.batch \cup n.plan = t.cand \cup t.batch \cup t.plan
  BY <1>2, <1>3, <1>4
<1>6. /\ n.batch \cup n.plan = t.batch \cup t.plan
      /\ \A u \in n.batch : \A v \in n.plan : u < v
  BY <1>2, <1>3, <1>4
<1> QED BY <1>1, <1>3, <1>4, <1>5, <1>6 DEF RunOK, FolderOK, Present, Ahead

\* The steps of a run that commit nothing.
LEMMA QuietRun ==
  ASSUME TypeOK, TaskInv, RunInv, CursorInv, NEW r \in Run, Quiet(r)
  PROVE  RunInv'
<1>0. task[r] \in Task /\ task \in [Run -> Task]
  BY DEF TypeOK
<1>1. UNCHANGED <<conn, cursor, box, stored>>
  BY QuietFrame
<1>2. CASE Load(r)
  <2>1. CASE conn.exists
    <3>1. task'[r] = [Rest("counting") EXCEPT !.seed = cursor, !.todo = Folder]
          /\ \A q \in Run \ {r} : task'[q] = task[q]
      BY <1>0, <1>2, <2>1 DEF Load, Become
    <3>2. task'[r].seed = cursor' /\ task'[r].folder = NoFolder
      BY <1>1, <3>1 DEF Rest
    <3>3. RunOK(task[r])'
      BY <3>2 DEF RunOK
    <3> QED BY <1>1, <3>1, <3>3, RunFrame
  <2>2. CASE ~conn.exists
    BY <1>1, <1>2, <2>2, StopRun DEF Load, Resting
  <2> QED BY <2>1, <2>2
<1>3. ASSUME NEW pc \in PC, task' = [task EXCEPT ![r] = [task[r] EXCEPT !.pc = pc]],
             task[r].pc \in {"counting", "checking"}
      PROVE RunInv'
  <2>1. \A q \in Run \ {r} : task'[q] = task[q]
    BY <1>0, <1>3
  <2>2. /\ task'[r].seed = task[r].seed /\ task'[r].todo = task[r].todo
        /\ task'[r].folder = task[r].folder /\ task'[r].gen = task[r].gen
        /\ task'[r].plan = task[r].plan /\ task'[r].batch = task[r].batch
        /\ task'[r].floor = task[r].floor /\ task'[r].cand = task[r].cand
        /\ task'[r].acc = task[r].acc
    BY <1>0, <1>3 DEF Task
  <2>3. Live(r)' => Live(r)
    BY <1>1, <1>3 DEF Live, Owns
  <2>4. Live(r)' => RunOK(task[r])'
    BY <1>1, <2>2, <2>3 DEF RunInv, RunOK, FolderOK, Present, Ahead
  <2> QED BY <1>1, <2>1, <2>4, RunFrame
<1>4. CASE SetTotal(r)
  BY <1>1, <1>3, <1>4, StopRun DEF SetTotal, Become, PC, Resting
<1>5. CASE CheckDisabled(r)
  BY <1>1, <1>3, <1>5, StopRun DEF CheckDisabled, Become, PC, Resting
<1>6. ASSUME NEW f \in Folder, SkipFolder(r, f) PROVE RunInv'
  <2>1. task'[r] = [task[r] EXCEPT !.todo = task[r].todo \ {f}] /\ task[r].pc = "fetching"
    BY <1>6, SkipFacts
  <2>2. \A q \in Run \ {r} : task'[q] = task[q]
    BY <1>0, <1>6 DEF SkipFolder, Become
  <2>3. /\ task'[r].seed = task[r].seed /\ task'[r].todo = task[r].todo \ {f}
        /\ task'[r].folder = task[r].folder /\ task'[r].gen = task[r].gen
        /\ task'[r].plan = task[r].plan /\ task'[r].batch = task[r].batch
        /\ task'[r].floor = task[r].floor /\ task'[r].cand = task[r].cand
        /\ task'[r].acc = task[r].acc
    BY <1>0, <2>1 DEF Task
  <2>4. Live(r)' => Live(r)
    BY <1>1, <2>1 DEF Live, Owns
  <2>5. Live(r)' => RunOK(task[r])'
    BY <1>1, <2>3, <2>4 DEF RunInv, RunOK, FolderOK, Present, Ahead
  <2> QED BY <1>1, <2>2, <2>5, RunFrame
<1>7. CASE EndOfStream(r) \/ BatchStolen(r) \/ BatchOrphaned(r) \/ Raise(r) \/ Crash(r)
  BY <1>1, <1>7, StopRun DEF EndOfStream, BatchStolen, BatchOrphaned, Raise, Crash, Resting
<1> QED BY <1>2, <1>4, <1>5, <1>6, <1>7, SelectRun, FetchRun DEF Quiet

\* Committing a batch: the advance passes only messages that are stored now,
\* and the run's picture of the folder stays true above the new floor.
LEMMA CommitRun ==
  ASSUME SyncInv, NEW r \in Run, NEW ok \in SUBSET Uid, NEW adv \in 0..MaxUid,
         NEW acked \in BOOLEAN, CommitBatch(r, ok, adv, acked)
  PROVE  /\ RunInv' /\ CursorInv' /\ NeverLoseMail'
         /\ \A f \in Folder :
              \/ cursor[f].gen < cursor'[f].gen
              \/ cursor[f].gen = cursor'[f].gen /\ cursor[f].last <= cursor'[f].last
<1> DEFINE t == task[r]
           f == t.folder
           n == task'[r]
<1> USE DEF SyncInv
<1>1. /\ t \in Task /\ t.pc = "ingesting" /\ Owns(r)
      /\ IsHighestContiguous(t.cand \cup t.batch, t.acc \cup ok, t.floor, adv)
      /\ stored' = stored \cup Messages(r, ok)
      /\ UNCHANGED box
  BY DEF CommitBatch, TypeOK
<1>2. f \in Folder /\ f # NoFolder /\ t.gen \in Gen
  BY <1>1 DEF TaskInv, TaskOK, Task
<1>3. /\ f \notin t.todo /\ \A g \in t.todo : t.seed[g] = cursor[g]
      /\ cursor[f].gen <= t.gen /\ t.gen <= box[f].gen
      /\ t.floor = (IF cursor[f].gen = t.gen THEN cursor[f].last ELSE 0)
      /\ \A u \in t.acc : MessageAt(f, t.gen, u) \in stored
      /\ \A u \in t.cand : \A v \in t.batch \cup t.plan : u < v
      /\ \A u \in t.batch : \A v \in t.plan : u < v
  BY <1>1, <1>2 DEF RunInv, Live, RunOK, FolderOK
<1>4. t.gen = box[f].gen =>
        /\ \A u \in t.cand \cup t.batch \cup t.plan : u <= box[f].top
        /\ \A u \in Present(f) : u > t.floor =>
             \/ u \in t.cand \cup t.batch \cup t.plan
             \/ \A v \in t.cand \cup t.batch \cup t.plan : v < u
  BY <1>1, <1>2 DEF RunInv, Live, RunOK, FolderOK, Ahead
<1>5. /\ cursor'[f].gen = t.gen /\ cursor'[f].last = adv
      /\ \A g \in Folder \ {f} : cursor'[g] = cursor[g]
  BY <1>2 DEF CommitBatch, TypeOK
<1>6. /\ t.cand \subseteq Uid /\ t.batch \subseteq Uid /\ t.plan \subseteq Uid
      /\ t.acc \subseteq Uid /\ t.floor \in 0..MaxUid /\ Present(f) \subseteq Uid
      /\ box[f].gen \in Gen /\ box[f].top \in 0..MaxUid
      /\ cursor[f].gen \in 0..MaxGen /\ cursor[f].last \in 0..MaxUid
  <2>1. /\ t.cand \subseteq Uid /\ t.batch \subseteq Uid /\ t.plan \subseteq Uid
        /\ t.acc \subseteq Uid /\ t.floor \in 0..MaxUid
    BY <1>1 DEF Task
  <2>2. box[f].gen \in Gen /\ box[f].top \in 0..MaxUid
    BY <1>2 DEF TypeOK
  <2>3. cursor[f].gen \in 0..MaxGen /\ cursor[f].last \in 0..MaxUid
    BY <1>2 DEF TypeOK, Cursor
  <2>4. Present(f) \subseteq Uid
    BY <2>2, ConstantsAssumption DEF Present, Uid
  <2> QED BY <2>1, <2>2, <2>3, <2>4
<1>7. /\ adv >= t.floor
      /\ adv # t.floor => adv \in t.cand \cup t.batch
      /\ \A u \in t.cand \cup t.batch : t.floor < u /\ u <= adv => u \in t.acc \cup ok
  BY <1>1, <1>6 DEF IsHighestContiguous
<1>8. \A u \in t.acc \cup ok : MessageAt(f, t.gen, u) \in stored'
  BY <1>1, <1>3 DEF Messages
<1>9. cursor[f].gen = t.gen => t.floor = cursor[f].last
  BY <1>3
<1>10. NeverLoseMail'
  <2> SUFFICES ASSUME NEW g \in Folder, cursor'[g].gen = box[g].gen,
                      NEW u \in Present(g), u <= cursor'[g].last
               PROVE  MessageAt(g, box[g].gen, u) \in stored'
    BY <1>1 DEF NeverLoseMail, Present
  <2>1. CASE g # f
    BY <1>1, <1>5, <2>1 DEF NeverLoseMail
  <2>2. CASE g = f
    <3>1. t.gen = box[f].gen /\ u <= adv /\ u \in Uid
      BY <1>5, <1>6, <2>2
    <3>2. CASE u <= t.floor
      <4>1. cursor[f].gen = t.gen /\ u <= cursor[f].last
        BY <1>3, <3>1, <3>2 DEF Uid
      <4> QED BY <1>1, <2>2, <3>1, <4>1 DEF NeverLoseMail
    <3>3. CASE u > t.floor
      <4>1. adv \in t.cand \cup t.batch
        BY <1>6, <1>7, <3>1, <3>3 DEF Uid
      <4>2. u \in t.cand \cup t.batch \cup t.plan
        BY <1>4, <1>6, <2>2, <3>1, <3>3, <4>1 DEF Uid
      <4>3. u \notin t.plan
        BY <1>3, <1>6, <3>1, <4>1 DEF Uid
      <4> QED BY <1>7, <1>8, <2>2, <3>1, <3>3, <4>2, <4>3
    <3> QED BY <1>6, <3>1, <3>2, <3>3 DEF Uid
  <2> QED BY <2>1, <2>2
<1>11. CursorInv'
  <2> SUFFICES ASSUME NEW g \in Folder
               PROVE /\ cursor'[g].gen <= box[g].gen
                     /\ cursor'[g].gen = box[g].gen => cursor'[g].last <= box[g].top
    BY <1>1 DEF CursorInv
  <2>1. CASE g # f
    BY <1>5, <2>1 DEF CursorInv
  <2>2. CASE g = f
    <3>1. t.gen = box[f].gen => adv <= box[f].top
      BY <1>2, <1>3, <1>4, <1>6, <1>7 DEF CursorInv
    <3> QED BY <1>3, <1>5, <2>2, <3>1
  <2> QED BY <2>1, <2>2
<1>12. RunInv'
  <2> SUFFICES ASSUME NEW q \in Run, Live(q)' PROVE RunOK(task[q])'
    BY DEF RunInv
  <2>1. q = r
    BY <1>1 DEF CommitBatch, Live, Owns, TypeOK, Conn
  <2>2. acked
    <3> SUFFICES ASSUME ~acked PROVE FALSE
      OBVIOUS
    <3>1. task'[r].pc = "failing"
      BY StopFacts DEF CommitBatch, TypeOK
    <3> QED BY <2>1, <3>1 DEF Live
  <2>3. /\ n.batch = {} /\ n.seed = t.seed /\ n.todo = t.todo /\ n.folder = f
        /\ n.gen = t.gen /\ n.plan = t.plan /\ n.floor = adv
        /\ n.cand = {u \in t.cand \cup t.batch : u > adv}
        /\ n.acc = {u \in t.acc \cup ok : u > adv}
    <3> DEFINE new == [t EXCEPT
                 !.pc = "fetching", !.batch = {}, !.got = {}, !.floor = adv,
                 !.cand = {u \in t.cand \cup t.batch : u > adv},
                 !.acc = {u \in t.acc \cup ok : u > adv},
                 !.failed = (t.failed \ ok) \cup (t.got \ ok)]
    <3>1. n = new
      BY <2>2 DEF CommitBatch, Become, TypeOK
    <3>2. /\ new.batch = {} /\ new.seed = t.seed /\ new.todo = t.todo
          /\ new.folder = t.folder /\ new.gen = t.gen /\ new.plan = t.plan
          /\ new.floor = adv
      BY <1>1 DEF Task
    <3>3. new.cand = {u \in t.cand \cup t.batch : u > adv}
      BY <1>1 DEF Task
    <3>4. new.acc = {u \in t.acc \cup ok : u > adv}
      BY <1>1 DEF Task
    <3> QED BY <3>1, <3>2, <3>3, <3>4
  <2>4. \A g \in n.todo : n.seed[g] = cursor'[g]
    BY <1>1, <1>3, <1>5, <2>3 DEF Task
  <2>5. /\ \A u \in n.acc : MessageAt(f, n.gen, u) \in stored'
        /\ \A u \in n.cand : \A v \in n.batch \cup n.plan : u < v
        /\ \A u \in n.batch : \A v \in n.plan : u < v
        /\ n.cand \cup n.batch \cup n.plan \subseteq t.cand \cup t.batch \cup t.plan
    BY <1>3, <1>8, <2>3
  <2>6. t.gen = box[f].gen => \A u \in Present(f) : u > adv =>
          \/ u \in n.cand \cup n.batch \cup n.plan
          \/ \A v \in n.cand \cup n.batch \cup n.plan : v < u
    <3> SUFFICES ASSUME t.gen = box[f].gen, NEW u \in Present(f), u > adv,
                        u \notin n.cand \cup n.batch \cup n.plan
                 PROVE  \A v \in n.cand \cup n.batch \cup n.plan : v < u
      OBVIOUS
    <3>1. u > t.floor
      BY <1>6, <1>7 DEF Uid
    <3>2. u \notin t.cand \cup t.batch \cup t.plan
      BY <2>3
    <3> QED BY <1>4, <2>5, <3>1, <3>2
  <2>7. t.gen = box[f].gen => \A u \in n.cand \cup n.batch \cup n.plan : u <= box[f].top
    BY <1>4, <2>5
  <2>8. /\ n.folder \notin n.todo /\ cursor'[f].gen <= n.gen /\ n.gen <= box'[f].gen
        /\ n.floor = (IF cursor'[f].gen = n.gen THEN cursor'[f].last ELSE 0)
    <3>1. n.gen \in Int /\ box'[f] = box[f] /\ cursor'[f].gen = n.gen
      BY <1>1, <1>2, <1>5, <2>3 DEF Gen
    <3> QED BY <1>3, <1>5, <2>3, <3>1
  <2>9. RunOK(task[r])'
    BY <1>1, <2>3, <2>4, <2>5, <2>6, <2>7, <2>8 DEF RunOK, FolderOK, Present, Ahead
  <2> QED BY <2>1, <2>9
<1>13. \A g \in Folder :
         \/ cursor[g].gen < cursor'[g].gen
         \/ cursor[g].gen = cursor'[g].gen /\ cursor[g].last <= cursor'[g].last
  <2> SUFFICES ASSUME NEW g \in Folder
               PROVE \/ cursor[g].gen < cursor'[g].gen
                     \/ cursor[g].gen = cursor'[g].gen /\ cursor[g].last <= cursor'[g].last
    OBVIOUS
  <2>1. CASE g # f
    BY <1>5, <2>1 DEF TypeOK, Cursor
  <2>2. CASE g = f
    BY <1>2, <1>3, <1>5, <1>6, <1>7, <1>9, <2>2 DEF Gen
  <2> QED BY <2>1, <2>2
<1> QED BY <1>10, <1>11, <1>12, <1>13

\* The server's steps: new mail lies above everything a run has searched and
\* every cursor, an expunge only removes, and a renumbering makes every
\* cursor and every live run one of an older UIDVALIDITY.
LEMMA ServerRun ==
  ASSUME TypeOK, TaskInv, RunInv, CursorInv, NeverLoseMail, Server
  PROVE  RunInv' /\ CursorInv' /\ NeverLoseMail'
<1> DEFINE Box == [gen : Gen, top : 0..MaxUid, gone : SUBSET Uid]
           After(g) == (1..box'[g].top) \ box'[g].gone
<1>0. PICK f \in Folder : NewMail(f) \/ (\E u \in Uid : Expunge(f, u)) \/ ResetUids(f)
  BY DEF Server
<1>1. UNCHANGED <<conn, cursor, stored, task>> /\ box[f] \in Box
      /\ \A g \in Folder \ {f} : box'[g] = box[g]
  BY <1>0 DEF NewMail, Expunge, ResetUids, TypeOK
\* Under one UIDVALIDITY the mailbox only grows at the top; otherwise it has a
\* higher one.
<1>2. \/ /\ box'[f].gen = box[f].gen /\ box[f].top <= box'[f].top
         /\ \A u \in Uid : u \in After(f) => u \in Present(f) \/ u > box[f].top
      \/ box[f].gen < box'[f].gen
  <2>1. CASE NewMail(f)
    <3>1. box'[f].gen = box[f].gen /\ box'[f].top = box[f].top + 1 /\ box'[f].gone = box[f].gone
      BY <1>1, <2>1 DEF NewMail, TypeOK
    <3> QED BY <1>1, <3>1 DEF Present, Uid
  <2>2. ASSUME NEW u \in Uid, Expunge(f, u)
        PROVE /\ box'[f].gen = box[f].gen /\ box'[f].top = box[f].top
              /\ box'[f].gone = box[f].gone \cup {u}
    BY <1>1, <2>2 DEF Expunge, TypeOK
  <2>3. CASE ResetUids(f)
    <3>1. PICK k \in 0..box[f].top :
            box' = [box EXCEPT ![f] = [gen |-> box[f].gen + 1, top |-> k, gone |-> {}]]
      BY <2>3 DEF ResetUids
    <3>2. box'[f].gen = box[f].gen + 1
      BY <3>1 DEF TypeOK
    <3> QED BY <1>1, <3>2 DEF Gen
  <2> QED BY <1>0, <1>1, <2>1, <2>2, <2>3 DEF Present
<1>3. \A g \in Folder : Present(g) \subseteq Uid /\ After(g) \subseteq Uid
                         /\ \A u \in Present(g) : u <= box[g].top
  <2>1. TypeOK'
    BY TypeStep DEF Next
  <2> QED BY <2>1, ConstantsAssumption DEF TypeOK, Present, Uid
<1>4. \A g \in Folder : /\ cursor[g].gen \in 0..MaxGen /\ cursor[g].last \in 0..MaxUid
                        /\ box[g].gen \in Gen /\ box[g].top \in 0..MaxUid
  BY DEF TypeOK, Cursor
<1>5. \A g \in Folder : box[g].gen <= box'[g].gen /\ box'[g].gen \in Int
  <2>1. TypeOK'
    BY TypeStep DEF Next
  <2>2. \A g \in Folder : box'[g].gen \in Gen
    BY <2>1 DEF TypeOK
  <2> QED BY <1>1, <1>2, <1>4, <2>2 DEF Gen
<1>6. CursorInv'
  <2> SUFFICES ASSUME NEW g \in Folder
               PROVE /\ cursor[g].gen <= box'[g].gen
                     /\ cursor[g].gen = box'[g].gen => cursor[g].last <= box'[g].top
    BY <1>1 DEF CursorInv
  <2>0. cursor[g].gen <= box[g].gen /\ (cursor[g].gen = box[g].gen => cursor[g].last <= box[g].top)
    BY DEF CursorInv
  <2>1. CASE g # f
    BY <1>1, <2>0, <2>1
  <2>2. CASE g = f
    <3>1. box'[f].top \in Int
      <4>1. TypeOK'
        BY TypeStep DEF Next
      <4> QED BY <4>1 DEF TypeOK
    <3> QED BY <1>2, <1>4, <1>5, <2>0, <2>2, <3>1 DEF Gen
  <2> QED BY <2>1, <2>2
<1>7. NeverLoseMail'
  <2> SUFFICES ASSUME NEW g \in Folder, cursor[g].gen = box'[g].gen,
                      NEW u \in After(g), u <= cursor[g].last
               PROVE  MessageAt(g, box'[g].gen, u) \in stored
    BY <1>1 DEF NeverLoseMail, Present
  <2>1. cursor[g].gen = box[g].gen /\ cursor[g].last <= box[g].top
    BY <1>4, <1>5 DEF CursorInv, Gen
  <2>2. u \in Uid
    BY <1>3
  <2>3. u \in Present(g)
    <3>1. CASE g # f
      BY <1>1, <3>1 DEF Present
    <3>2. CASE g = f
      <4>1. ~(box[f].gen < box'[f].gen)
        <5>1. box'[f].gen = box[f].gen
          BY <2>1, <3>2
        <5>2. box[f].gen \in Gen
          BY <1>4
        <5> QED BY <5>1, <5>2, ConstantsAssumption DEF Gen
      <4>2. \A v \in Uid : v \in After(f) => v \in Present(f) \/ v > box[f].top
        BY <1>2, <4>1
      <4>3. u \in After(f)
        BY <3>2 DEF Present
      <4>4. u \in Present(f)
        BY <1>4, <2>1, <2>2, <3>2, <4>2, <4>3 DEF Uid
      <4> QED BY <3>2, <4>4
    <3> QED BY <3>1, <3>2
  <2> QED BY <2>1, <2>3 DEF NeverLoseMail
<1>8. RunInv'
  <2> SUFFICES ASSUME NEW q \in Run, Live(q)' PROVE RunOK(task[q])'
    BY DEF RunInv
  <2>1. Live(q) /\ RunOK(task[q]) /\ task' = task
    BY <1>1 DEF Live, Owns, RunInv
  <2> DEFINE t == task[q]
  <2>2. CASE t.folder = NoFolder
    BY <1>1, <2>1, <2>2 DEF RunOK
  <2>3. CASE t.folder # NoFolder
    <3> DEFINE g == t.folder
    <3>1. g \in Folder /\ t \in Task /\ t.gen \in Gen
      BY <2>3 DEF TypeOK, Task, TaskInv, TaskOK
    <3>2. FolderOK(t)
      BY <2>1, <2>3 DEF RunOK
    <3>3. t.gen <= box'[g].gen
      BY <1>4, <1>5, <3>1, <3>2 DEF FolderOK, Gen
    <3>4. ASSUME t.gen = box'[g].gen
          PROVE  /\ \A u \in Ahead(t) : u <= box'[g].top
                 /\ \A u \in After(g) :
                      u > t.floor => u \in Ahead(t) \/ \A v \in Ahead(t) : v < u
      <4>1. t.gen = box[g].gen
        BY <1>4, <1>5, <3>1, <3>2, <3>4 DEF FolderOK, Gen
      <4>2. /\ \A u \in Ahead(t) : u <= box[g].top
            /\ \A u \in Present(g) :
                 u > t.floor => u \in Ahead(t) \/ \A v \in Ahead(t) : v < u
        BY <3>2, <4>1 DEF FolderOK
      <4>3. Ahead(t) \subseteq Uid
        BY <3>1 DEF Ahead, Task
      <4>4. CASE g # f
        BY <1>1, <3>1, <4>2, <4>4 DEF Present
      <4>5. CASE g = f
        <5>1. /\ box[g].top <= box'[g].top /\ box'[g].top \in Int
              /\ \A u \in Uid : u \in After(g) => u \in Present(g) \/ u > box[g].top
          <6>1. TypeOK'
            BY TypeStep DEF Next
          <6>2. box'[f].top \in Int
            BY <6>1 DEF TypeOK
          <6>3. ~(box[f].gen < box'[f].gen)
            <7>1. box'[f].gen = box[f].gen
              BY <3>4, <4>1, <4>5
            <7>2. box[f].gen \in Gen
              BY <1>4
            <7> QED BY <7>1, <7>2, ConstantsAssumption DEF Gen
          <6>4. /\ box[f].top <= box'[f].top
                /\ \A u \in Uid : u \in After(f) => u \in Present(f) \/ u > box[f].top
            BY <1>2, <6>3
          <6> QED BY <1>1, <4>5, <6>2, <6>4 DEF Present
        <5> HIDE DEF g
        <5>2. \A u \in Ahead(t) : u <= box'[g].top
          BY <1>4, <4>2, <4>3, <4>5, <5>1 DEF Uid
        <5>3. \A u \in After(g) : u > t.floor => u \in Ahead(t) \/ \A v \in Ahead(t) : v < u
          BY <1>1, <1>3, <1>4, <3>1, <4>2, <4>3, <4>5, <5>1 DEF Uid, Present, g
        <5> QED BY <5>2, <5>3
      <4> QED BY <4>4, <4>5
    <3> QED BY <1>1, <2>1, <3>2, <3>3, <3>4 DEF RunOK, FolderOK, Ahead, Present
  <2> QED BY <2>2, <2>3
<1> QED BY <1>6, <1>7, <1>8

\* A cursor may only go up, in UIDVALIDITY first and in UID then.
Forward(f) ==
  \/ cursor[f].gen < cursor'[f].gen
  \/ cursor[f].gen = cursor'[f].gen /\ cursor[f].last <= cursor'[f].last

LEMMA StandStill ==
  ASSUME TypeOK, UNCHANGED cursor
  PROVE  \A f \in Folder : Forward(f)
  BY DEF TypeOK, Cursor, Forward

\* Every step keeps the invariant and moves no cursor back.
LEMMA SyncStep ==
  ASSUME SyncInv, [Next]_vars
  PROVE  SyncInv' /\ (conn'.exists => \A f \in Folder : Forward(f))
<1> DEFINE Goal == /\ RunInv' /\ CursorInv' /\ NeverLoseMail'
                   /\ conn'.exists => \A f \in Folder : Forward(f)
<1>0. TypeOK /\ TaskInv /\ RunInv /\ CursorInv /\ NeverLoseMail
  BY DEF SyncInv
<1>1. TypeOK' /\ TaskInv'
  BY <1>0, TypeStep, TaskStep
\* Where mail, cursors and mailbox stand still only RunInv is left to show.
<1>2. ASSUME UNCHANGED <<cursor, stored, box>>, RunInv' PROVE Goal
  <2>1. CursorInv' /\ NeverLoseMail'
    BY <1>0, <1>2 DEF CursorInv, NeverLoseMail, Present
  <2> QED BY <1>0, <1>2, <2>1, StandStill
<1>3. ASSUME NEW r \in Run, StartSync(r) PROVE Goal
  <2>1. task'[r].pc = "claimed" /\ conn'.run = r
    BY <1>0, <1>3, StopFacts DEF StartSync, ClaimedBy, TypeOK, Conn
  <2>2. RunInv'
    BY <2>1 DEF RunInv, Live, Owns
  <2> QED BY <1>2, <1>3, <2>2 DEF StartSync
<1>4. ASSUME NEW r \in Run, Quiet(r) PROVE Goal
  BY <1>0, <1>2, <1>4, QuietFrame, QuietRun
<1>5. ASSUME NEW r \in Run, NEW status, NEW outcome, NEW next \in {"off", "failing"},
             Finalize(r, status, outcome, next)
      PROVE Goal
  <2>1. conn'.exists = conn.exists /\ conn'.run = conn.run
    BY <1>0, <1>5 DEF Finalize, TypeOK, Conn
  <2>2. RunInv'
    BY <1>0, <1>5, <2>1, StopRun DEF Finalize, Resting
  <2> QED BY <1>2, <1>5, <2>2 DEF Finalize
<1>6. ASSUME NEW r \in Run, NEW ok \in SUBSET Uid, NEW adv \in 0..MaxUid,
             NEW acked \in BOOLEAN, CommitBatch(r, ok, adv, acked)
      PROVE Goal
  BY <1>6, CommitRun DEF Forward
<1>7. ASSUME UNCHANGED <<cursor, stored, box, task>>, conn'.exists = conn.exists,
             conn'.run = conn.run
      PROVE Goal
  <2>1. RunInv'
    BY <1>0, <1>7 DEF RunInv, Live, Owns, RunOK, FolderOK, Present, Ahead
  <2> QED BY <1>2, <1>7, <2>1
<1>8. ASSUME NEW r \in Run, Heartbeat(r) PROVE Goal
  <2>1. conn'.exists = conn.exists /\ conn'.run = conn.run
    BY <1>0, <1>8 DEF Heartbeat, TypeOK, Conn
  <2> QED BY <1>7, <1>8, <2>1 DEF Heartbeat
<1>9. ASSUME Expire PROVE Goal
  <2>1. conn'.exists = conn.exists /\ conn'.run = conn.run
    BY <1>0, <1>9 DEF Expire, TypeOK, Conn
  <2> QED BY <1>7, <1>9, <2>1 DEF Expire
<1>10. ASSUME Disable \/ Enable PROVE Goal
  <2>1. conn'.exists = conn.exists /\ conn'.run = conn.run
    BY <1>0, <1>10 DEF Disable, Enable, TypeOK, Conn
  <2> QED BY <1>7, <1>10, <2>1 DEF Disable, Enable
<1>11. ASSUME Delete PROVE Goal
  <2>1. ~conn'.exists /\ UNCHANGED box /\ \A f \in Folder : cursor'[f].gen = 0
    BY <1>11 DEF Delete, GoneRow, NewRow, NoCursor
  <2>2. RunInv'
    BY <2>1 DEF RunInv, Live, Owns
  <2>3. \A f \in Folder : 0 <= box[f].gen /\ box[f].gen # 0
    BY <1>0, ConstantsAssumption DEF TypeOK, Gen
  <2>4. CursorInv' /\ NeverLoseMail'
    BY <2>1, <2>3 DEF CursorInv, NeverLoseMail
  <2> QED BY <2>1, <2>2, <2>4
<1>12. ASSUME Server PROVE Goal
  <2>1. UNCHANGED cursor
    BY <1>12 DEF Server, NewMail, Expunge, ResetUids
  <2> QED BY <1>0, <1>12, <2>1, ServerRun, StandStill
<1>13. ASSUME UNCHANGED vars PROVE Goal
  BY <1>7, <1>13 DEF vars
<1>14. Goal
  BY <1>0, <1>3, <1>4, <1>5, <1>6, <1>8, <1>9, <1>10, <1>11, <1>12, <1>13, NextCases
  DEF FinalizeOk, FinalizeFailure, Admin
<1> QED BY <1>1, <1>14 DEF SyncInv

LEMMA SyncInit == Init => SyncInv /\ LedgerAgrees /\ DeletedLeavesNothing /\ OwnerInv /\ LateInv
<1> SUFFICES ASSUME Init
             PROVE  SyncInv /\ LedgerAgrees /\ DeletedLeavesNothing /\ OwnerInv /\ LateInv
  OBVIOUS
<1> USE ConstantsAssumption DEF Init
<1>1. TypeOK
  <2>1. Rest("off") \in Task
    BY RestType DEF PC
  <2>2. NoCursor \in Cursor
    BY DEF NoCursor, Cursor
  <2>3. conn \in Conn /\ task \in [Run -> Task] /\ cursor \in [Folder -> Cursor]
    BY <2>1, <2>2 DEF NewRow, Conn
  <2> QED BY <2>3 DEF TypeOK, Gen
<1>2. TaskInv
  BY RestOK DEF TaskInv, Resting
<1>3. RunInv
  BY DEF RunInv, Live, Rest
<1>4. CursorInv /\ NeverLoseMail
  BY DEF CursorInv, NeverLoseMail, NoCursor
<1>5. LedgerAgrees /\ DeletedLeavesNothing
  BY DEF LedgerAgrees, DeletedLeavesNothing, NewRow
<1>6. OwnerInv /\ LateInv
  BY DEF OwnerInv, LateInv, Owns
<1> QED BY <1>1, <1>2, <1>3, <1>4, <1>5, <1>6 DEF SyncInv

-----------------------------------------------------------------------------
(* The sync implements MailboxArchive *)

LEMMA ArchiveInit == Init => Archive!Init
<1> SUFFICES ASSUME Init PROVE Archive!Init
  OBVIOUS
<1>1. conn.exists = TRUE
  BY DEF Init, NewRow
<1>2. [f \in Folder |-> [gen |-> cursor[f].gen, last |-> cursor[f].last]] = Archive!Origin
  BY DEF Init, NoCursor, Archive!Origin
<1> QED BY <1>1, <1>2 DEF Init, Archive!Init

\* A step that leaves the row's existence, the mail, the cursors and the server
\* alone is a stutter of the archive.
LEMMA ArchiveStutter ==
  ASSUME UNCHANGED <<conn.exists, cursor, stored, box>>
  PROVE  UNCHANGED Archive!vars
  BY DEF Archive!vars

\* A batch that is committed is one that the archive takes.
LEMMA ArchiveBatch ==
  ASSUME SyncInv, NEW r \in Run, NEW ok \in SUBSET Uid, NEW adv \in 0..MaxUid,
         NEW acked \in BOOLEAN, CommitBatch(r, ok, adv, acked)
  PROVE  \E f \in Folder : Archive!Archive(f)
<1> DEFINE AC == [g \in Folder |-> [gen |-> cursor[g].gen, last |-> cursor[g].last]]
<1>1. PICK f, n : f = task[r].folder /\ n = task[r].gen
  OBVIOUS
<1>2. /\ task[r] \in Task /\ task[r].pc = "ingesting" /\ Owns(r)
      /\ stored' = stored \cup Messages(r, ok)
      /\ UNCHANGED box
      /\ conn' = [conn EXCEPT !.stale = FALSE]
      /\ cursor' = [cursor EXCEPT ![f] =
                      [gen |-> n, last |-> adv,
                       failed |-> Lowest((task[r].failed \ ok) \cup (task[r].got \ ok), MaxFailed)]]
  BY <1>1 DEF CommitBatch, SyncInv, TypeOK
<1>3. f \in Folder /\ n \in Gen /\ n <= box[f].gen /\ box[f].gen \in Gen
  <2>1. f \in Folder /\ f # NoFolder /\ n \in Gen
    BY <1>1, <1>2 DEF SyncInv, TaskInv, TaskOK, Task
  <2>2. RunOK(task[r])
    BY <1>2 DEF SyncInv, RunInv, Live
  <2> QED BY <1>1, <2>1, <2>2 DEF RunOK, FolderOK, SyncInv, TypeOK
<1>4. cursor \in [Folder -> Cursor] /\ conn.exists /\ conn'.exists = conn.exists
  BY <1>2 DEF SyncInv, TypeOK, Owns, Conn
<1>5. /\ cursor'[f].gen = n /\ cursor'[f].last = adv
      /\ \A g \in Folder \ {f} : cursor'[g] = cursor[g]
  BY <1>2, <1>3, <1>4
<1>6. AC' = [AC EXCEPT ![f] = [gen |-> n, last |-> adv]]
  BY <1>3, <1>5
<1>7. AC[f].gen < n \/ (AC[f].gen = n /\ AC[f].last <= adv)
  <2>1. \/ cursor[f].gen < cursor'[f].gen
        \/ cursor[f].gen = cursor'[f].gen /\ cursor[f].last <= cursor'[f].last
    BY <1>3, CommitRun
  <2> QED BY <1>3, <1>5, <2>1
<1>8. stored' = stored \cup {MessageAt(f, n, u) : u \in ok}
  BY <1>1, <1>2 DEF Messages
<1>9. n = box[f].gen => \A u \in Archive!Present(f) : u <= adv => MessageAt(f, n, u) \in stored'
  <2>1. NeverLoseMail'
    BY CommitRun
  <2>2. \A u \in Archive!Present(f) : cursor'[f].gen = box'[f].gen /\ u <= cursor'[f].last
          => MessageAt(f, box'[f].gen, u) \in stored'
    BY <1>2, <1>3, <2>1 DEF NeverLoseMail, Present, Archive!Present
  <2> QED BY <1>2, <1>5, <2>2
<1>10. n \in 1..box[f].gen /\ ok \in SUBSET (1..MaxUid)
  BY <1>3, ConstantsAssumption DEF Gen, Uid
<1> HIDE DEF AC
<1>11. \E gen \in 1..box[f].gen, last \in 0..MaxUid :
         /\ AC[f].gen < gen \/ (AC[f].gen = gen /\ AC[f].last <= last)
         /\ AC' = [AC EXCEPT ![f] = [gen |-> gen, last |-> last]]
         /\ \E uids \in SUBSET (1..MaxUid) :
              stored' = stored \cup {MessageAt(f, gen, u) : u \in uids}
         /\ gen = box[f].gen =>
              \A u \in Archive!Present(f) : u <= last => MessageAt(f, gen, u) \in stored'
  BY <1>6, <1>7, <1>8, <1>9, <1>10
<1>12. Archive!Archive(f)
  BY <1>2, <1>4, <1>11 DEF Archive!Archive, AC
<1> QED BY <1>3, <1>12

\* A change at the server is one of the archive's.
LEMMA ArchiveServer ==
  ASSUME TypeOK, Server
  PROVE  \E f \in Folder : Archive!Serve(f)
<1>1. PICK f \in Folder : NewMail(f) \/ (\E u \in Uid : Expunge(f, u)) \/ ResetUids(f)
  BY DEF Server
<1>2. UNCHANGED <<conn, cursor, stored>>
      /\ box[f] \in [gen : Gen, top : 0..MaxUid, gone : SUBSET Uid]
  BY <1>1 DEF NewMail, Expunge, ResetUids, TypeOK
<1>3. CASE NewMail(f)
  <2>1. [box[f] EXCEPT !.top = box[f].top + 1] =
          [gen |-> box[f].gen, top |-> box[f].top + 1, gone |-> box[f].gone]
    BY <1>2
  <2>2. box' = [box EXCEPT ![f] = [box[f] EXCEPT !.top = box[f].top + 1]]
    BY <1>3 DEF NewMail
  <2> QED BY <1>2, <1>3, <2>1, <2>2 DEF NewMail, Archive!Serve
<1>4. ASSUME NEW u \in Uid, Expunge(f, u) PROVE Archive!Serve(f)
  <2>1. [box[f] EXCEPT !.gone = box[f].gone \cup {u}] =
          [gen |-> box[f].gen, top |-> box[f].top, gone |-> box[f].gone \cup {u}]
    BY <1>2
  <2>2. box' = [box EXCEPT ![f] = [box[f] EXCEPT !.gone = box[f].gone \cup {u}]]
    BY <1>4 DEF Expunge
  <2>3. u \in Archive!Present(f)
    BY <1>4 DEF Expunge, Present, Archive!Present
  <2> QED BY <1>2, <2>1, <2>2, <2>3 DEF Archive!Serve
<1>5. CASE ResetUids(f)
  BY <1>2, <1>5 DEF ResetUids, Archive!Serve
<1> QED BY <1>1, <1>3, <1>4, <1>5

LEMMA ArchiveStep ==
  ASSUME SyncInv, [Next]_vars
  PROVE  [Archive!Next]_(Archive!vars)
<1>0. TypeOK
  BY DEF SyncInv
<1>1. ASSUME NEW r \in Run, StartSync(r) \/ Quiet(r) \/ Heartbeat(r)
      PROVE  UNCHANGED <<conn.exists, cursor, stored, box>>
  <2>1. CASE StartSync(r)
    BY <1>0, <2>1 DEF StartSync, ClaimedBy, TypeOK, Conn
  <2>2. CASE Quiet(r)
    BY <2>2, QuietFrame
  <2>3. CASE Heartbeat(r)
    BY <1>0, <2>3 DEF Heartbeat, TypeOK, Conn
  <2> QED BY <1>1, <2>1, <2>2, <2>3
<1>2. ASSUME NEW r \in Run, NEW status, NEW outcome, NEW next,
             Finalize(r, status, outcome, next)
      PROVE  UNCHANGED <<conn.exists, cursor, stored, box>>
  BY <1>0, <1>2 DEF Finalize, TypeOK, Conn
<1>3. ASSUME Expire \/ Disable \/ Enable PROVE UNCHANGED <<conn.exists, cursor, stored, box>>
  BY <1>0, <1>3 DEF Expire, Disable, Enable, TypeOK, Conn
<1>4. ASSUME Delete PROVE Archive!Erase
  <2>1. conn.exists /\ conn'.exists = FALSE /\ stored' = {} /\ UNCHANGED box
        /\ cursor' = [f \in Folder |-> NoCursor]
    BY <1>4 DEF Delete, GoneRow, NewRow
  <2>2. [f \in Folder |-> [gen |-> cursor'[f].gen, last |-> cursor'[f].last]] = Archive!Origin
    BY <2>1 DEF NoCursor, Archive!Origin
  <2> QED BY <2>1, <2>2 DEF Archive!Erase
<1>5. ASSUME NEW r \in Run, NEW ok \in SUBSET Uid, NEW adv \in 0..MaxUid,
             NEW acked \in BOOLEAN, CommitBatch(r, ok, adv, acked)
      PROVE  \E f \in Folder : Archive!Archive(f)
  BY <1>5, ArchiveBatch
<1>6. ASSUME UNCHANGED vars PROVE UNCHANGED <<conn.exists, cursor, stored, box>>
  BY <1>6 DEF vars
<1>7. \/ UNCHANGED <<conn.exists, cursor, stored, box>>
      \/ Archive!Erase
      \/ \E f \in Folder : Archive!Archive(f) \/ Archive!Serve(f)
  BY <1>0, <1>1, <1>2, <1>3, <1>4, <1>5, <1>6, NextCases, ArchiveServer
  DEF FinalizeOk, FinalizeFailure, Admin
<1> QED BY <1>7, ArchiveStutter DEF Archive!Next

-----------------------------------------------------------------------------
(* The theorems *)

\* The invariant of the sync holds in every reachable state.
THEOREM SyncInvariant == Spec => []SyncInv
  BY SyncInit, SyncStep, PTL DEF Spec

\* Every variable keeps its type.
THEOREM TypeCorrect == Spec => []TypeOK
<1>1. SyncInv => TypeOK
  BY DEF SyncInv
<1> QED BY <1>1, SyncInvariant, PTL

\* No committed cursor stands at or past a message that the server still
\* holds and that is not stored.
THEOREM MailIsNeverLost == Spec => []NeverLoseMail
<1>1. SyncInv => NeverLoseMail
  BY DEF SyncInv
<1> QED BY <1>1, SyncInvariant, PTL

\* No step of any run moves a folder's cursor back.
THEOREM CursorsOnlyAdvance == Spec => CursorNeverRegresses
<1>1. SyncInv /\ [Next]_vars =>
        [conn'.exists =>
           \A f \in Folder :
             \/ cursor[f].gen < cursor'[f].gen
             \/ /\ cursor[f].gen = cursor'[f].gen
                /\ cursor[f].last <= cursor'[f].last]_vars
  BY SyncStep DEF Forward
<1> QED BY <1>1, SyncInvariant, PTL DEF Spec, CursorNeverRegresses

\* The ledger has at most one running run, the one that holds the claim.
THEOREM LedgerMatchesClaim == Spec => []LedgerAgrees
  BY SyncInit, LedgerStep, TypeCorrect, PTL DEF Spec

\* Nothing is written back to a deleted connection.
THEOREM DeletionIsFinal == Spec => []DeletedLeavesNothing
  BY SyncInit, DeletedStep, TypeCorrect, PTL DEF Spec

\* At most one batch is committed between a disable and the next switch.
THEOREM DisableStopsSync == Spec => []DisableStopsIngest
<1>1. LateInv => DisableStopsIngest
  BY DEF LateInv, DisableStopsIngest
<1> QED BY <1>1, SyncInit, LateStep, TypeCorrect, PTL DEF Spec

\* A superseded run never reports an outcome.
THEOREM SupersededStaysSilent == Spec => AbandonedStaysAbandoned
<1>1. Spec => []OwnerInv
  BY SyncInit, OwnerStep, TypeCorrect, PTL DEF Spec
<1>2. TypeOK /\ OwnerInv /\ [Next]_vars =>
        [\A r \in Run : ledger[r] = "abandoned" =>
           ledger'[r] \notin {"succeeded", "failed"}]_vars
  BY AbandonedStep
<1> QED BY <1>1, <1>2, TypeCorrect, PTL DEF Spec, AbandonedStaysAbandoned

\* The claim, the fence, the runner, the ledger and the cursors together
\* implement the archive: mail and cursor appear in one step, no cursor goes
\* back or over a message that is not archived, and a deleted connection
\* stays empty.
THEOREM SyncImplementsArchive == Spec => ArchiveSpec
<1>1. SyncInv /\ [Next]_vars => [Archive!Next]_(Archive!vars)
  BY ArchiveStep
<1> QED BY <1>1, ArchiveInit, SyncInvariant, PTL DEF Spec, ArchiveSpec, Archive!Spec
=============================================================================
