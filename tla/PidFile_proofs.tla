---------------------------- MODULE PidFile_proofs ----------------------------
(***************************************************************************)
(* What is proved of PidFile for every set of PIDs.                        *)
(***************************************************************************)
EXTENDS PidFile, TLAPS

\* The records that processes are made of have their type.
LEMMA ProcessType ==
  /\ Free \in Processes
  /\ Serving \in Processes
  /\ \A op \in Instances \cup {"other"}, pc \in {"waiting", "idle", "aiming"},
        t \in Pids \cup {None} : Process(op, pc, t) \in Processes
BY DEF Free, Serving, Process, Processes, Instances

LEMMA TypeInit == Init => TypeOK
<1> SUFFICES ASSUME Init PROVE TypeOK
  OBVIOUS
<1>1. \A p \in Pids : proc[p].pc \notin Holding
  BY DEF Init, Free, Process, Holding
<1> QED
  BY <1>1, ProcessType, NoneAssumption DEF Init, TypeOK

\* One process becomes q; the lock follows whether it is in a state of a holder.
LEMMA TypeBecomes ==
  ASSUME TypeOK, NEW p \in Pids, NEW q \in Processes,
         proc' = [proc EXCEPT ![p] = q],
         file' = None \/ file' \in SUBSET Pids,
         torn' \in BOOLEAN,
         \/ lock' = lock /\ (q.pc \in Holding <=> proc[p].pc \in Holding)
         \/ lock' = p /\ lock = None /\ q.pc \in Holding
         \/ lock' = None /\ lock = p /\ q.pc \notin Holding
  PROVE  TypeOK'
<1>1. lock' \in Pids \cup {None}
  BY DEF TypeOK
<1>2. proc' \in [Pids -> Processes]
  BY DEF TypeOK
<1>3. ASSUME NEW r \in Pids
      PROVE  lock' = r <=> proc'[r].pc \in Holding
  <2>1. lock = r <=> proc[r].pc \in Holding
    BY DEF TypeOK
  <2>2. lock = p <=> proc[p].pc \in Holding
    BY DEF TypeOK
  <2>3. proc'[r] = IF r = p THEN q ELSE proc[r]
    BY DEF TypeOK
  <2> QED
    BY <2>1, <2>2, <2>3, NoneAssumption
<1> QED
  BY <1>1, <1>2, <1>3 DEF TypeOK

\* A process dies: it lets go of the lock.
LEMMA TypeDies ==
  ASSUME TypeOK, NEW t \in Pids, Dies(t),
         proc' \in [Pids -> Processes], proc'[t] = Free,
         \A r \in Pids \ {t} : proc'[r].pc \in Holding <=> proc[r].pc \in Holding
  PROVE  TypeOK'
<1>1. \A r \in Pids : lock' = r <=> proc'[r].pc \in Holding
  <2>1. Free.pc \notin Holding
    BY DEF Free, Process, Holding
  <2> QED
    BY <2>1, NoneAssumption DEF TypeOK, Dies
<1>2. torn' \in BOOLEAN
  BY DEF TypeOK, Dies
<1>3. file' = file /\ lock' \in Pids \cup {None}
  BY DEF TypeOK, Dies
<1> QED
  BY <1>1, <1>2, <1>3 DEF TypeOK

\* A process comes, or takes a step that leaves the file alone.
LEMMA TypeFree ==
  ASSUME TypeOK, NEW p \in Pids, NEW q \in Processes,
         proc' = [proc EXCEPT ![p] = q], UNCHANGED <<file, lock, torn>>,
         q.pc \in Holding <=> proc[p].pc \in Holding
  PROVE  TypeOK'
BY TypeBecomes DEF TypeOK

LEMMA TypeEnvironment ==
  ASSUME TypeOK, NEW p \in Pids, Environment(p), proc[p].op = "free" => proc[p] = Free,
         proc[p].op = "serve" => proc[p].pc = "idle"
  PROVE  TypeOK'
<1>1. ASSUME NEW q \in Processes, Begin(p, q), q.pc \notin Holding
      PROVE  TypeOK'
  <2>1. proc[p].pc \notin Holding
    BY <1>1 DEF Begin, Free, Process, Holding
  <2> QED
    BY <1>1, <2>1, TypeFree DEF Begin
<1>2. \A op, pc, t : Process(op, pc, t).pc = pc
  BY DEF Process
<1>3. CASE StartServer(p)
  BY <1>1, <1>2, <1>3, ProcessType DEF StartServer, Instances, Holding
<1>4. CASE StartPs(p)
  BY <1>1, <1>2, <1>4, ProcessType DEF StartPs, Instances, Holding
<1>5. CASE StartKillAll(p)
  BY <1>1, <1>2, <1>5, ProcessType DEF StartKillAll, Instances, Holding
<1>6. CASE StartKill(p)
  BY <1>1, <1>2, <1>6, ProcessType DEF StartKill, Instances, Holding
<1>7. CASE StartOther(p)
  BY <1>1, <1>2, <1>7, ProcessType DEF StartOther, Instances, Holding
<1>8. CASE StopServing(p)
  <2> DEFINE q == Process("unregister", "waiting", None)
  <2>1. q \in Processes /\ q.pc \notin Holding
    BY <1>2, ProcessType DEF Instances, Holding
  <2>2. proc[p].pc \notin Holding
    BY <1>8 DEF StopServing, Holding
  <2> HIDE DEF q
  <2>3. Becomes(p, q)
    BY <1>8 DEF StopServing, q
  <2> QED
    BY <2>1, <2>2, <2>3, TypeFree DEF Becomes
<1>9. CASE Crash(p)
  <2>1. proc' \in [Pids -> Processes] /\ proc'[p] = Free
    BY <1>9, ProcessType DEF Crash, TypeOK
  <2>2. \A r \in Pids \ {p} : proc'[r] = proc[r]
    BY <1>9 DEF Crash, TypeOK
  <2> QED
    BY <1>9, <2>1, <2>2, TypeDies DEF Crash
<1> QED
  BY <1>3, <1>4, <1>5, <1>6, <1>7, <1>8, <1>9 DEF Environment

\* The steps of the holder of the lock, and the one that takes it.
LEMMA TypeLocked ==
  ASSUME TypeOK, NEW p \in Pids, LockFile(p) \/ Locked(p)
  PROVE  TypeOK'
<1> DEFINE Q(pc, left, seen, doomed) ==
      [proc[p] EXCEPT !.pc = pc, !.left = left, !.seen = seen, !.doomed = doomed]
<1>1. proc[p] \in Processes
  BY DEF TypeOK
<1>2. \A pc \in {"checking", "rewriting", "writing", "killing"} :
      \A left, seen, doomed \in SUBSET Pids :
        Q(pc, left, seen, doomed) \in Processes /\ Q(pc, left, seen, doomed).pc = pc
  BY <1>1 DEF Processes
<1>3. CASE LockFile(p)
  <2> DEFINE q == [proc[p] EXCEPT !.pc = "checking", !.left = file']
  <2>1. file' \in SUBSET Pids
    BY <1>3 DEF LockFile, TypeOK
  <2>2. q \in Processes /\ q.pc = "checking"
    BY <1>1, <2>1 DEF Processes
  <2>3. proc' = [proc EXCEPT ![p] = q]
    BY <1>3 DEF LockFile
  <2>4. lock = None /\ lock' = p /\ torn' = torn
    BY <1>3 DEF LockFile, MayLock
  <2> HIDE DEF q
  <2> QED
    BY <2>1, <2>2, <2>3, <2>4, TypeBecomes DEF TypeOK, Holding
<1>4. CASE Verify(p)
  <2> PICK r \in proc[p].left :
        Becomes(p, [proc[p] EXCEPT !.left = @ \ {r},
                                   !.seen = @ \cup {s \in {r} : IsIPFSWebappProcess(s)}])
    BY <1>4 DEF Verify
  <2> DEFINE q == [proc[p] EXCEPT !.left = @ \ {r},
                                  !.seen = @ \cup {s \in {r} : IsIPFSWebappProcess(s)}]
  <2>1. r \in Pids
    BY <1>1 DEF Processes
  <2>2. q \in Processes /\ q.pc = proc[p].pc
    BY <1>1, <2>1 DEF Processes
  <2> HIDE DEF q
  <2>3. Becomes(p, q)
    BY DEF q
  <2> QED
    BY <2>2, <2>3, TypeFree DEF Becomes
<1>5. ASSUME NEW q \in Processes, Truncate(p, q), proc[p].pc \in Holding, q.pc \in Holding
      PROVE  TypeOK'
  BY <1>5, TypeBecomes DEF Truncate, TypeOK
<1>6. ASSUME NEW q \in Processes, Unlock(p, q), proc[p].pc \in Holding, q.pc \notin Holding,
             file' = None \/ file' \in SUBSET Pids
      PROVE  TypeOK'
  <2>1. lock = p
    BY <1>6 DEF TypeOK
  <2> QED
    BY <1>6, <2>1, TypeBecomes DEF Unlock, TypeOK
<1>7. CASE Prune(p)
  <2> DEFINE q == [proc[p] EXCEPT !.pc = "rewriting"]
  <2>1. q \in Processes /\ q.pc = "rewriting"
    BY <1>1 DEF Processes
  <2> HIDE DEF q
  <2>2. Truncate(p, q) /\ At(p, "checking")
    BY <1>7 DEF Prune, Looked, q
  <2> QED
    BY <1>5, <2>1, <2>2 DEF At, Holding
<1>8. CASE Rewrite(p)
  <2> DEFINE q == [proc[p] EXCEPT !.pc = "checking"]
  <2>1. q \in Processes /\ q.pc = "checking" /\ proc[p].seen \in SUBSET Pids
    BY <1>1 DEF Processes
  <2>2. proc' = [proc EXCEPT ![p] = q] /\ file' = proc[p].seen /\ UNCHANGED <<lock, torn>>
    BY <1>8 DEF Rewrite
  <2>3. proc[p].pc \in Holding
    BY <1>8 DEF Rewrite, At, Holding
  <2> HIDE DEF q
  <2> QED
    BY <2>1, <2>2, <2>3, TypeBecomes DEF TypeOK, Holding
<1>9. ASSUME NEW pids \in SUBSET Pids, Truncate(p, Writing(p, pids)), Looked(p)
      PROVE  TypeOK'
  <2>1. Writing(p, pids) \in Processes /\ Writing(p, pids).pc = "writing"
    BY <1>1 DEF Writing, Processes
  <2> QED
    BY <1>5, <1>9, <2>1 DEF Looked, At, Holding
<1>10. proc[p].seen \in SUBSET Pids
  BY <1>1 DEF Processes
<1>11. Free.pc \notin Holding /\ Serving.pc \notin Holding
  BY DEF Free, Serving, Process, Holding
<1>12. CASE RegisterAdds(p)
  BY <1>9, <1>10, <1>12 DEF RegisterAdds, Verified
<1>13. CASE RegisterFindsItself(p)
  BY <1>6, <1>11, <1>13, ProcessType DEF RegisterFindsItself, Verified, Looked, At, Holding, TypeOK
<1>14. CASE Unregister(p)
  BY <1>9, <1>10, <1>14 DEF Unregister, Verified
<1>15. CASE List(p)
  BY <1>6, <1>11, <1>15, ProcessType DEF List, Verified, Looked, At, Holding, TypeOK
<1>16. CASE KillRemoves(p)
  BY <1>9, <1>10, <1>16 DEF KillRemoves, Verified
<1>17. CASE KillAllTakes(p)
  <2> DEFINE q == [Writing(p, {}) EXCEPT !.doomed = proc[p].seen]
  <2>1. q \in Processes /\ q.pc = "writing"
    BY <1>1 DEF Writing, Processes
  <2> HIDE DEF q
  <2>2. Truncate(p, q) /\ At(p, "checking")
    BY <1>17 DEF KillAllTakes, Verified, Looked, q
  <2> QED
    BY <1>5, <2>1, <2>2 DEF At, Holding
<1>18. CASE Write(p)
  <2>1. proc[p].pc \in Holding /\ file' = proc[p].seen
    BY <1>18 DEF Write, At, Holding
  <2> DEFINE q == [proc[p] EXCEPT !.pc = "killing", !.seen = {}]
  <2>2. q \in Processes /\ q.pc = "killing"
    BY <1>1 DEF Processes
  <2>3. Unlock(p, Serving) \/ Unlock(p, Free) \/ Unlock(p, q)
    BY <1>18 DEF Write
  <2> HIDE DEF q
  <2> QED
    BY <1>6, <1>10, <1>11, <2>1, <2>2, <2>3, ProcessType DEF Holding
<1> QED
  BY <1>3, <1>4, <1>7, <1>8, <1>12, <1>13, <1>14, <1>15, <1>16, <1>17, <1>18 DEF Locked

-----------------------------------------------------------------------------
(* The shape of the processes                                              *)

ShapeOf(p) ==
  /\ proc[p].op = "free" => proc[p] = Free
  /\ proc[p].op \in {"serve", "other"} => proc[p].pc = "idle"
  /\ proc[p].doomed # {} => proc[p].op = "killall" /\ proc[p].pc \in {"writing", "killing"}
  /\ proc[p].op = "kill" => proc[p].target \in Pids \ {p}
  /\ proc[p].pc \in Holding => file # None

Shape == \A p \in Pids : ShapeOf(p)

\* The steps of a process that does not hold the lock.
LEMMA TypeUnlocked ==
  ASSUME TypeOK, Shape, NEW p \in Pids,
         OpenFails(p) \/ Aim(p) \/ KillFails(p) \/ Kill(p) \/ KillAllKills(p) \/ KillAllEnds(p)
  PROVE  TypeOK'
<1>1. proc[p] \in Processes /\ Free \in Processes /\ Free.pc \notin Holding
  BY ProcessType DEF TypeOK, Free, Process, Holding
<1>2. ASSUME Becomes(p, Free), proc[p].pc \notin Holding
      PROVE  TypeOK'
  BY <1>1, <1>2, TypeFree DEF Becomes
<1>3. CASE OpenFails(p)
  BY <1>2, <1>3 DEF OpenFails, At, Holding
<1>4. CASE Aim(p)
  <2> DEFINE q == [proc[p] EXCEPT !.pc = "killing"]
  <2>1. q \in Processes /\ q.pc = "killing"
    BY <1>1 DEF Processes
  <2>2. Becomes(p, q) \/ Becomes(p, Free)
    BY <1>4 DEF Aim
  <2>3. proc[p].pc \notin Holding
    BY <1>4 DEF Aim, At, Holding
  <2> HIDE DEF q
  <2> QED
    BY <1>1, <2>1, <2>2, <2>3, TypeFree DEF Becomes, Holding
<1>5. CASE KillFails(p)
  BY <1>2, <1>5 DEF KillFails, At, Holding
<1>6. ASSUME NEW t \in Pids, NEW q \in Processes, Dies(t), proc[p].pc = "killing",
             q.pc \notin Holding, proc' = [proc EXCEPT ![p] = q, ![t] = Free]
      PROVE  TypeOK'
  <2>1. proc' \in [Pids -> Processes] /\ proc'[t] = Free
    BY <1>1, <1>6 DEF TypeOK
  <2>2. \A r \in Pids \ {t} : proc'[r].pc \in Holding <=> proc[r].pc \in Holding
    BY <1>6 DEF TypeOK, Holding
  <2> QED
    BY <1>6, <2>1, <2>2, TypeDies
<1>7. CASE Kill(p)
  <2> DEFINE q == [proc[p] EXCEPT !.pc = "waiting"]
  <2>1. q \in Processes /\ q.pc = "waiting"
    BY <1>1 DEF Processes
  <2>2. proc[p].target \in Pids /\ proc[p].pc = "killing"
    BY <1>7 DEF Kill, At, Shape, ShapeOf
  <2>3. Dies(proc[p].target) /\ proc' = [proc EXCEPT ![p] = q, ![proc[p].target] = Free]
    BY <1>7 DEF Kill
  <2> HIDE DEF q
  <2> QED
    BY <1>6, <2>1, <2>2, <2>3 DEF Holding
<1>8. CASE KillAllKills(p)
  <2> PICK t \in proc[p].doomed :
        Dies(t) /\ proc' = [proc EXCEPT ![p] = [proc[p] EXCEPT !.doomed = @ \ {t}], ![t] = Free]
    BY <1>8 DEF KillAllKills
  <2> DEFINE q == [proc[p] EXCEPT !.doomed = @ \ {t}]
  <2>1. q \in Processes /\ q.pc = "killing" /\ proc[p].pc = "killing" /\ t \in Pids
    BY <1>1, <1>8 DEF Processes, KillAllKills, At
  <2>2. proc' = [proc EXCEPT ![p] = q, ![t] = Free]
    OBVIOUS
  <2> HIDE DEF q
  <2> QED
    BY <1>6, <2>1, <2>2 DEF Holding
<1>9. CASE KillAllEnds(p)
  BY <1>2, <1>9 DEF KillAllEnds, At, Holding
<1> QED
  BY <1>3, <1>4, <1>5, <1>7, <1>8, <1>9

LEMMA TypeStep == TypeOK /\ Shape /\ [Next]_vars => TypeOK'
<1> SUFFICES ASSUME TypeOK, Shape, [Next]_vars PROVE TypeOK'
  OBVIOUS
<1>1. CASE UNCHANGED vars
  BY <1>1 DEF TypeOK, vars
<1>2. ASSUME NEW p \in Pids, LockFile(p) \/ Step(p) \/ Environment(p)
      PROVE  TypeOK'
  <2>1. ShapeOf(p)
    BY DEF Shape
  <2> QED
    BY <1>2, <2>1, TypeEnvironment, TypeLocked, TypeUnlocked DEF Step, ShapeOf
<1> QED
  BY <1>1, <1>2 DEF Next

\* The file, once there, stays.
LEMMA FileStays ==
  ASSUME TypeOK, [Next]_vars, file # None
  PROVE  file' # None
<1> USE NoneAssumption
<1>1. CASE UNCHANGED vars
  BY <1>1 DEF vars
<1>2. ASSUME NEW p \in Pids, LockFile(p) \/ Step(p) \/ Environment(p)
      PROVE  file' # None
  <2>1. proc[p].seen \in SUBSET Pids
    BY DEF TypeOK, Processes
  <2>2. {} \in SUBSET Pids
    OBVIOUS
  <2>3. CASE LockFile(p)
    BY <2>3 DEF LockFile
  <2>4. CASE Locked(p)
    BY <2>1, <2>2, <2>4 DEF Locked, Verify, Prune, Rewrite, Write, RegisterAdds, RegisterFindsItself,
       Unregister, List, KillRemoves, KillAllTakes, Truncate, Becomes
  <2>5. CASE Step(p) /\ ~Locked(p)
    BY <2>5 DEF Step, OpenFails, Aim, KillFails, Kill, KillAllKills, KillAllEnds, Becomes, Dies
  <2>6. CASE Environment(p)
    BY <2>6 DEF Environment, StartServer, StartPs, StartKillAll, StartKill, StartOther, Begin,
       StopServing, Becomes, Crash, Dies
  <2> QED
    BY <1>2, <2>3, <2>4, <2>5, <2>6
<1> QED
  BY <1>1, <1>2 DEF Next

Moves(p) == LockFile(p) \/ Step(p) \/ Environment(p)

\* A step of one process leaves the others alone, or kills them.
LEMMA OthersStay ==
  ASSUME TypeOK, NEW p \in Pids, Moves(p), NEW r \in Pids \ {p}
  PROVE  proc'[r] = proc[r] \/ proc'[r] = Free
<1>1. CASE LockFile(p)
  BY <1>1 DEF LockFile, TypeOK
<1>2. CASE Locked(p)
  BY <1>2 DEF Locked, Verify, Prune, Rewrite, Write, RegisterAdds, RegisterFindsItself,
     Unregister, List, KillRemoves, KillAllTakes, Truncate, Becomes, Unlock, TypeOK
<1>3. CASE Step(p) /\ ~Locked(p)
  BY <1>3 DEF Step, OpenFails, Aim, KillFails, Kill, KillAllKills, KillAllEnds, Becomes, TypeOK
<1>4. CASE Environment(p)
  BY <1>4 DEF Environment, StartServer, StartPs, StartKillAll, StartKill, StartOther, Begin,
     StopServing, Becomes, Crash, TypeOK
<1> QED
  BY <1>1, <1>2, <1>3, <1>4 DEF Moves, Step

\* The process that takes the step keeps its shape.
LEMMA ShapeMoves ==
  ASSUME TypeOK, Shape, NEW p \in Pids, Moves(p)
  PROVE  ShapeOf(p)'
<1>1. /\ ShapeOf(p)
      /\ proc[p] \in Processes
      /\ proc[p].pc # "idle" => proc[p].op # "free"
  BY DEF Shape, ShapeOf, TypeOK, Free, Process
<1>2. [Next]_vars
  BY DEF Moves, Next
<1>3. file # None => file' # None
  BY <1>2, FileStays
<1>4. proc'[p] = Free => ShapeOf(p)'
  BY DEF ShapeOf, Free, Process, Holding
<1>5. proc'[p] = Serving => ShapeOf(p)'
  BY DEF ShapeOf, Serving, Process, Holding
<1>6. CASE LockFile(p)
  <2>1. proc'[p] = [proc[p] EXCEPT !.pc = "checking", !.left = file'] /\ file' # None
    BY <1>6, NoneAssumption DEF LockFile, TypeOK
  <2>2. proc[p].pc = "waiting"
    BY <1>6 DEF LockFile, MayLock, Opened, At
  <2> QED
    BY <1>1, <2>1, <2>2 DEF ShapeOf, Processes
<1>7. CASE Verify(p)
  <2> PICK r \in proc[p].left :
        proc'[p] = [proc[p] EXCEPT !.left = @ \ {r},
                                   !.seen = @ \cup {s \in {r} : IsIPFSWebappProcess(s)}]
    BY <1>7 DEF Verify, Becomes, TypeOK
  <2>1. proc[p].pc = "checking"
    BY <1>7 DEF Verify, At
  <2> QED
    BY <1>1, <1>3, <2>1 DEF ShapeOf, Processes, Holding
<1>8. CASE Prune(p)
  <2>1. proc'[p] = [proc[p] EXCEPT !.pc = "rewriting"] /\ proc[p].pc = "checking"
    BY <1>8 DEF Prune, Truncate, Looked, At, TypeOK
  <2> QED
    BY <1>1, <1>3, <2>1 DEF ShapeOf, Processes, Holding
<1>9. CASE Rewrite(p)
  <2>1. proc'[p] = [proc[p] EXCEPT !.pc = "checking"] /\ proc[p].pc = "rewriting"
    BY <1>9 DEF Rewrite, At, TypeOK
  <2> QED
    BY <1>1, <1>3, <2>1 DEF ShapeOf, Processes, Holding
<1>10. ASSUME NEW pids, Truncate(p, Writing(p, pids)), Looked(p),
              proc[p].op \in {"register", "unregister", "kill"}
       PROVE  ShapeOf(p)'
  <2>1. proc'[p] = [proc[p] EXCEPT !.seen = pids, !.pc = "writing"] /\ proc[p].pc = "checking"
    BY <1>10 DEF Truncate, Writing, Looked, At, TypeOK
  <2> QED
    BY <1>1, <1>3, <1>10, <2>1 DEF ShapeOf, Processes, Holding
<1>11. CASE RegisterAdds(p) \/ Unregister(p) \/ KillRemoves(p)
  BY <1>10, <1>11 DEF RegisterAdds, Unregister, KillRemoves, Verified
<1>12. CASE RegisterFindsItself(p)
  BY <1>5, <1>12 DEF RegisterFindsItself, Unlock, TypeOK
<1>13. CASE List(p)
  BY <1>4, <1>13 DEF List, Unlock, TypeOK
<1>14. CASE KillAllTakes(p)
  <2>1. proc'[p] = [proc[p] EXCEPT !.seen = {}, !.pc = "writing", !.doomed = proc[p].seen]
    BY <1>1, <1>14 DEF KillAllTakes, Truncate, Writing, TypeOK, Processes
  <2>2. proc[p].op = "killall" /\ proc[p].pc = "checking"
    BY <1>14 DEF KillAllTakes, Verified, Looked, At
  <2> QED
    BY <1>1, <1>3, <2>1, <2>2 DEF ShapeOf, Processes, Holding
<1>15. CASE Write(p)
  <2>1. CASE proc[p].op = "killall" /\ proc'[p] = [proc[p] EXCEPT !.pc = "killing", !.seen = {}]
    BY <1>1, <2>1 DEF ShapeOf, Processes, Holding
  <2> QED
    BY <1>4, <1>5, <1>15, <2>1 DEF Write, Unlock, TypeOK
<1>16. CASE OpenFails(p) \/ KillFails(p) \/ KillAllEnds(p)
  BY <1>4, <1>16 DEF OpenFails, KillFails, KillAllEnds, Becomes, TypeOK
<1>17. CASE Aim(p)
  <2>1. CASE proc'[p] = [proc[p] EXCEPT !.pc = "killing"]
    <3>1. proc[p].pc = "aiming"
      BY <1>17 DEF Aim, At
    <3> QED
      BY <1>1, <2>1, <3>1 DEF ShapeOf, Processes, Holding
  <2> QED
    BY <1>4, <1>17, <2>1 DEF Aim, Becomes, TypeOK
<1>18. CASE Kill(p)
  <2>1. proc'[p] = [proc[p] EXCEPT !.pc = "waiting"] /\ proc[p].op = "kill"
    BY <1>1, <1>18 DEF Kill, TypeOK, ShapeOf
  <2> QED
    BY <1>1, <2>1 DEF ShapeOf, Processes, Holding
<1>19. CASE KillAllKills(p)
  <2>1. PICK t \in proc[p].doomed :
          proc' = [proc EXCEPT ![p] = [proc[p] EXCEPT !.doomed = @ \ {t}], ![t] = Free]
    BY <1>19 DEF KillAllKills
  <2>2. proc'[p] = Free \/ proc'[p] = [proc[p] EXCEPT !.doomed = @ \ {t}]
    BY <2>1 DEF TypeOK
  <2>3. proc[p].pc = "killing" /\ proc[p].op = "killall"
    BY <1>19 DEF KillAllKills, At
  <2>4. CASE proc'[p] = [proc[p] EXCEPT !.doomed = @ \ {t}]
    <3>1. proc'[p].op = "killall" /\ proc'[p].pc = "killing"
      BY <1>1, <2>3, <2>4 DEF Processes
    <3> QED
      BY <3>1 DEF ShapeOf, Holding
  <2> QED
    BY <1>4, <2>2, <2>4
<1>20. CASE StopServing(p)
  <2>1. proc'[p] = Process("unregister", "waiting", None)
    BY <1>20 DEF StopServing, Becomes, TypeOK
  <2> QED
    BY <2>1 DEF ShapeOf, Process, Holding
<1>21. ASSUME NEW q, Begin(p, q)
       PROVE  proc'[p] = q
  BY <1>21 DEF Begin, TypeOK
<1>22. CASE StartServer(p) \/ StartPs(p) \/ StartKillAll(p) \/ StartOther(p)
  BY <1>21, <1>22 DEF StartServer, StartPs, StartKillAll, StartOther, ShapeOf, Process, Holding
<1>23. CASE StartKill(p)
  BY <1>21, <1>23 DEF StartKill, ShapeOf, Process, Holding
<1>24. CASE Crash(p)
  BY <1>4, <1>24 DEF Crash, TypeOK
<1> QED
  BY <1>6, <1>7, <1>8, <1>9, <1>11, <1>12, <1>13, <1>14, <1>15, <1>16, <1>17, <1>18, <1>19,
     <1>20, <1>22, <1>23, <1>24 DEF Moves, Step, Locked, Environment

LEMMA ShapeStep == TypeOK /\ Shape /\ [Next]_vars => Shape'
<1> SUFFICES ASSUME TypeOK, Shape, [Next]_vars PROVE Shape'
  OBVIOUS
<1>1. CASE UNCHANGED vars
  BY <1>1 DEF Shape, ShapeOf, vars
<1>2. ASSUME NEW p \in Pids, Moves(p), NEW r \in Pids \ {p}
      PROVE  ShapeOf(r)'
  <2>1. file # None => file' # None
    BY FileStays
  <2>2. proc'[r] = Free => ShapeOf(r)'
    BY DEF ShapeOf, Free, Process, Holding
  <2>3. proc'[r] = proc[r] => ShapeOf(r)'
    BY <2>1 DEF Shape, ShapeOf
  <2> QED
    BY <1>2, <2>2, <2>3, OthersStay
<1> QED
  BY <1>1, <1>2, ShapeMoves DEF Next, Moves, Shape

LEMMA ShapeInit == Init => Shape
<1> SUFFICES ASSUME Init, NEW p \in Pids PROVE ShapeOf(p)
  BY DEF Shape
<1>1. proc[p] = Free
  BY DEF Init
<1> QED
  BY <1>1 DEF ShapeOf, Free, Process, Holding

LEMMA ShapeCorrect == Spec => [](TypeOK /\ Shape)
BY TypeInit, ShapeInit, TypeStep, ShapeStep, PTL DEF Spec

\* Every variable has its type, and only the holder of the lock is between reading the
\* file and having written it, for any number of processes.
THEOREM TypeCorrect == Spec => []TypeOK
BY ShapeCorrect, PTL

-----------------------------------------------------------------------------
(* What processes have in hand, when no PID in hand is given again         *)

\* What a process does next: go on, end, begin, or pass from one stage of a server's life
\* to the next.
LEMMA OpMoves ==
  ASSUME TypeOK, Shape, NEW p \in Pids, Moves(p)
  PROVE  \/ proc'[p].op = proc[p].op
         \/ proc'[p].op = "free"
         \/ proc[p].op = "free" /\ (Reuse \/ ~InHand(p))
         \/ proc[p].op \in Instances /\ proc'[p].op \in {"serve", "unregister"}
<1>1. proc[p] \in Processes /\ Free.op = "free" /\ Serving.op = "serve"
  BY DEF TypeOK, Free, Serving, Process
<1>2. CASE LockFile(p)
  BY <1>1, <1>2 DEF LockFile, TypeOK, Processes
<1>3. CASE Verify(p) \/ Prune(p) \/ Rewrite(p)
  <2>1. CASE Verify(p)
    BY <1>1, <2>1 DEF Verify, Becomes, TypeOK, Processes
  <2>2. PICK pc \in {"rewriting", "checking"} :
          Prune(p) \/ Rewrite(p) => proc'[p] = [proc[p] EXCEPT !.pc = pc]
    BY DEF Prune, Rewrite, Truncate, TypeOK
  <2> QED
    BY <1>1, <1>3, <2>1, <2>2 DEF Processes
<1>4. CASE RegisterAdds(p) \/ Unregister(p) \/ KillRemoves(p) \/ KillAllTakes(p)
  <2>1. \A pids : Writing(p, pids).op = proc[p].op
    BY <1>1 DEF Writing, Processes
  <2>2. [Writing(p, {}) EXCEPT !.doomed = proc[p].seen].op = proc[p].op
    BY <1>1 DEF Writing, Processes
  <2>3. \A q : Truncate(p, q) => proc'[p] = q
    BY DEF Truncate, TypeOK
  <2> QED
    BY <1>4, <2>1, <2>2, <2>3 DEF RegisterAdds, Unregister, KillRemoves, KillAllTakes
<1>5. CASE RegisterFindsItself(p) \/ List(p) \/ Write(p)
  <2>1. \A q : Unlock(p, q) => proc'[p] = q
    BY DEF Unlock, TypeOK
  <2>2. [proc[p] EXCEPT !.pc = "killing", !.seen = {}].op = proc[p].op
    BY <1>1 DEF Processes
  <2>3. CASE RegisterFindsItself(p) \/ List(p)
    BY <1>1, <2>1, <2>3 DEF RegisterFindsItself, List, Verified, Instances
  <2>4. CASE Write(p)
    BY <1>1, <2>1, <2>2, <2>4 DEF Write, Instances
  <2> QED
    BY <1>5, <2>3, <2>4
<1>6. CASE OpenFails(p) \/ Aim(p) \/ KillFails(p) \/ KillAllEnds(p)
  BY <1>1, <1>6 DEF OpenFails, Aim, KillFails, KillAllEnds, Becomes, TypeOK, Processes
<1>7. CASE Kill(p)
  BY <1>1, <1>7 DEF Kill, TypeOK, Processes
<1>8. CASE KillAllKills(p)
  BY <1>1, <1>8 DEF KillAllKills, TypeOK, Processes
<1>9. CASE StopServing(p)
  BY <1>9 DEF StopServing, Becomes, TypeOK, Process, Instances
<1>10. CASE Crash(p)
  BY <1>1, <1>10 DEF Crash, TypeOK
<1>11. CASE StartServer(p) \/ StartPs(p) \/ StartKillAll(p) \/ StartKill(p) \/ StartOther(p)
  BY <1>11 DEF StartServer, StartPs, StartKillAll, StartKill, StartOther, Begin
<1> QED
  BY <1>2, <1>3, <1>4, <1>5, <1>6, <1>7, <1>8, <1>9, <1>10, <1>11
     DEF Moves, Step, Locked, Environment

\* A dead process that somebody has in hand stays dead, and no other program takes the
\* place of one that is not another program already.
LEMMA InHandStays ==
  ASSUME TypeOK, Shape, ~Reuse, NEW p \in Pids, Moves(p), NEW r \in Pids
  PROVE  /\ InHand(r) /\ proc[r].op = "free" => proc'[r].op = "free"
         /\ InHand(r) /\ proc[r].op # "other" => proc'[r].op # "other"
         /\ proc[r].op \in Instances => proc'[r].op # "other"
<1>1. Free.op = "free"
  BY DEF Free, Process
<1>2. CASE r = p
  BY <1>2, OpMoves DEF Instances
<1>3. CASE r # p
  BY <1>1, <1>3, OthersStay DEF Instances
<1> QED
  BY <1>2, <1>3

\* The process that kill has killed stays dead until kill has rewritten the file.
KillInv ==
  \A p \in Pids : proc[p].op = "kill" /\ proc[p].pc \in {"waiting"} \cup Holding
                    => proc[proc[p].target].op = "free"

\* Nothing in hand is another program.
HandInv ==
  \A p \in Pids :
    /\ proc[p].op = "kill" /\ proc[p].pc = "killing" => proc[proc[p].target].op # "other"
    /\ \A q \in proc[p].seen \cup proc[p].doomed : proc[q].op # "other"

\* How the target of kill and the PIDs in hand change in a step of their process.
LEMMA HandMoves ==
  ASSUME TypeOK, Shape, NEW p \in Pids, Moves(p)
  PROVE  /\ proc'[p].op = "kill" /\ proc'[p].pc # "aiming" =>
              /\ proc[p].op = "kill" /\ proc'[p].target = proc[p].target
              /\ proc'[p].pc \in {"waiting"} \cup Holding =>
                   \/ proc[p].pc \in {"waiting"} \cup Holding
                   \/ proc'[proc[p].target] = Free
              /\ proc'[p].pc = "killing" =>
                   \/ proc[p].pc = "killing"
                   \/ proc[proc[p].target].op \in Instances
         /\ \A q \in proc'[p].seen \cup proc'[p].doomed :
              q \in proc[p].seen \cup proc[p].doomed \/ proc[q].op \in Instances
<1> DEFINE Kills ==
      proc'[p].op = "kill" /\ proc'[p].pc # "aiming" =>
        /\ proc[p].op = "kill" /\ proc'[p].target = proc[p].target
        /\ proc'[p].pc \in {"waiting"} \cup Holding =>
             \/ proc[p].pc \in {"waiting"} \cup Holding
             \/ proc'[proc[p].target] = Free
        /\ proc'[p].pc = "killing" =>
             \/ proc[p].pc = "killing"
             \/ proc[proc[p].target].op \in Instances
<1> DEFINE Hands ==
      \A q \in proc'[p].seen \cup proc'[p].doomed :
        q \in proc[p].seen \cup proc[p].doomed \/ proc[q].op \in Instances
<1>1. proc[p] \in Processes /\ ShapeOf(p)
  BY DEF TypeOK, Shape
<1>2. ASSUME NEW op, NEW pc, NEW t, proc'[p] = Process(op, pc, t), op # "kill" \/ pc = "aiming"
      PROVE  Kills /\ Hands
  BY <1>2 DEF Process
<1>3. proc'[p] = Free \/ proc'[p] = Serving => Kills /\ Hands
  BY <1>2 DEF Free, Serving
<1>4. CASE LockFile(p)
  <2>1. proc'[p] = [proc[p] EXCEPT !.pc = "checking", !.left = file'] /\ proc[p].pc = "waiting"
    BY <1>4 DEF LockFile, MayLock, Opened, At, TypeOK
  <2> QED
    BY <1>1, <2>1 DEF Processes
<1>5. CASE Verify(p)
  <2> PICK r \in proc[p].left :
        proc'[p] = [proc[p] EXCEPT !.left = @ \ {r},
                                   !.seen = @ \cup {s \in {r} : IsIPFSWebappProcess(s)}]
    BY <1>5 DEF Verify, Becomes, TypeOK
  <2>1. proc[p].pc = "checking"
    BY <1>5 DEF Verify, At
  <2> QED
    BY <1>1, <2>1 DEF Processes, IsIPFSWebappProcess, Holding
<1>6. CASE Prune(p) \/ Rewrite(p)
  <2>1. PICK pc \in {"rewriting", "checking"} : proc'[p] = [proc[p] EXCEPT !.pc = pc]
    BY <1>6 DEF Prune, Rewrite, Truncate, TypeOK
  <2>2. proc[p].pc \in Holding
    BY <1>6 DEF Prune, Rewrite, Looked, At, Holding
  <2> QED
    BY <1>1, <2>1, <2>2 DEF Processes
<1>7. ASSUME NEW pids, Truncate(p, Writing(p, pids)), Looked(p),
             \A q \in pids : q \in proc[p].seen \/ proc[q].op \in Instances
      PROVE  Kills /\ Hands
  <2>1. proc'[p] = [proc[p] EXCEPT !.seen = pids, !.pc = "writing"] /\ proc[p].pc = "checking"
    BY <1>7 DEF Truncate, Writing, Looked, At, TypeOK
  <2> QED
    BY <1>1, <1>7, <2>1 DEF Processes, Holding
<1>8. CASE RegisterAdds(p) \/ Unregister(p) \/ KillRemoves(p)
  BY <1>7, <1>8 DEF RegisterAdds, Unregister, KillRemoves, Verified, Instances
<1>9. CASE KillAllTakes(p)
  <2>1. proc'[p] = [proc[p] EXCEPT !.seen = {}, !.pc = "writing", !.doomed = proc[p].seen]
    BY <1>1, <1>9 DEF KillAllTakes, Truncate, Writing, TypeOK, Processes
  <2>2. proc[p].op = "killall"
    BY <1>9 DEF KillAllTakes, Verified
  <2> QED
    BY <1>1, <2>1, <2>2 DEF Processes
<1>10. CASE RegisterFindsItself(p) \/ List(p)
  BY <1>3, <1>10 DEF RegisterFindsItself, List, Unlock, TypeOK
<1>11. CASE Write(p)
  <2>1. CASE proc[p].op = "killall" /\ proc'[p] = [proc[p] EXCEPT !.pc = "killing", !.seen = {}]
    BY <1>1, <2>1 DEF Processes
  <2> QED
    BY <1>3, <1>11, <2>1 DEF Write, Unlock, TypeOK
<1>12. CASE OpenFails(p) \/ KillFails(p) \/ KillAllEnds(p) \/ Crash(p)
  BY <1>3, <1>12 DEF OpenFails, KillFails, KillAllEnds, Crash, Becomes, TypeOK
<1>13. CASE Aim(p)
  <2>1. CASE proc'[p] = [proc[p] EXCEPT !.pc = "killing"]
             /\ IsIPFSWebappProcess(proc[p].target)
    BY <1>1, <2>1 DEF Processes, IsIPFSWebappProcess, Holding
  <2> QED
    BY <1>3, <1>13, <2>1 DEF Aim, Becomes, TypeOK
<1>14. CASE Kill(p)
  <2>1. /\ proc[p].op = "kill" /\ proc'[p] = [proc[p] EXCEPT !.pc = "waiting"]
        /\ proc'[proc[p].target] = Free
    BY <1>1, <1>14 DEF Kill, TypeOK, ShapeOf
  <2> QED
    BY <1>1, <2>1 DEF Processes
<1>15. CASE KillAllKills(p)
  <2>1. PICK t \in proc[p].doomed :
          proc' = [proc EXCEPT ![p] = [proc[p] EXCEPT !.doomed = @ \ {t}], ![t] = Free]
    BY <1>15 DEF KillAllKills
  <2>2. proc'[p] = Free \/ proc'[p] = [proc[p] EXCEPT !.doomed = @ \ {t}]
    BY <2>1 DEF TypeOK
  <2>3. proc[p].op = "killall"
    BY <1>15 DEF KillAllKills
  <2>4. CASE proc'[p] = [proc[p] EXCEPT !.doomed = @ \ {t}]
    BY <1>1, <2>3, <2>4 DEF Processes
  <2> QED
    BY <1>3, <2>2, <2>4
<1>16. CASE StopServing(p)
  BY <1>2, <1>16 DEF StopServing, Becomes, TypeOK
<1>17. ASSUME NEW q, Begin(p, q)
       PROVE  proc'[p] = q
  BY <1>17 DEF Begin, TypeOK
<1>18. CASE StartServer(p) \/ StartPs(p) \/ StartKillAll(p) \/ StartOther(p)
  BY <1>2, <1>17, <1>18 DEF StartServer, StartPs, StartKillAll, StartOther
<1>19. CASE StartKill(p)
  BY <1>2, <1>17, <1>19 DEF StartKill
<1> QED
  BY <1>4, <1>5, <1>6, <1>8, <1>9, <1>10, <1>11, <1>12, <1>13, <1>14, <1>15, <1>16, <1>18,
     <1>19 DEF Moves, Step, Locked, Environment

LEMMA KillInvStep ==
  ASSUME TypeOK, Shape, ~Reuse, KillInv, NEW p \in Pids, Moves(p)
  PROVE  KillInv'
<1>1. Free.op = "free" /\ Free.pc = "idle"
  BY DEF Free, Process
<1> SUFFICES ASSUME NEW r \in Pids, proc'[r].op = "kill",
                    proc'[r].pc \in {"waiting"} \cup Holding
             PROVE  proc'[proc'[r].target].op = "free"
  BY DEF KillInv
<1>2. ASSUME proc[r].op = "kill", proc[r].pc \in {"waiting"} \cup Holding
      PROVE  proc'[proc[r].target].op = "free"
  <2>1. proc[r].target \in Pids /\ proc[proc[r].target].op = "free"
    BY <1>2 DEF Shape, ShapeOf, KillInv
  <2>2. InHand(proc[r].target)
    BY DEF InHand
  <2> QED
    BY <2>1, <2>2, InHandStays
<1>3. CASE r = p
  BY <1>1, <1>2, <1>3, HandMoves DEF Holding
<1>4. CASE r # p
  <2>1. proc'[r] = proc[r]
    BY <1>1, <1>4, OthersStay
  <2> QED
    BY <1>2, <2>1
<1> QED
  BY <1>3, <1>4

LEMMA HandInvStep ==
  ASSUME TypeOK, Shape, ~Reuse, HandInv, NEW p \in Pids, Moves(p)
  PROVE  HandInv'
<1>1. Free.op = "free" /\ Free.pc = "idle" /\ Free.seen = {} /\ Free.doomed = {}
  BY DEF Free, Process
<1>2. ASSUME NEW r \in Pids, proc'[r].op = "kill", proc'[r].pc = "killing"
      PROVE  proc'[proc'[r].target].op # "other"
  <2>1. proc'[r].target = proc[r].target /\ proc[r].op = "kill"
    BY <1>1, <1>2, OthersStay, HandMoves
  <2>2. proc[r].target \in Pids /\ InHand(proc[r].target)
    BY <2>1 DEF Shape, ShapeOf, InHand
  <2>3. proc[r].pc = "killing" \/ proc[proc[r].target].op \in Instances
    BY <1>1, <1>2, OthersStay, HandMoves
  <2> QED
    BY <2>1, <2>2, <2>3, InHandStays DEF HandInv
<1>3. ASSUME NEW r \in Pids, NEW q \in proc'[r].seen \cup proc'[r].doomed
      PROVE  proc'[q].op # "other"
  <2>1. q \in proc[r].seen \cup proc[r].doomed \/ proc[q].op \in Instances
    BY <1>1, <1>3, OthersStay, HandMoves
  <2>2. q \in Pids
    BY <1>3, TypeStep DEF Moves, Next, TypeOK, Processes
  <2>3. CASE q \in proc[r].seen \cup proc[r].doomed
    BY <2>2, <2>3, InHandStays DEF InHand, HandInv
  <2> QED
    BY <2>1, <2>2, <2>3, InHandStays
<1> QED
  BY <1>2, <1>3 DEF HandInv

HandsInv == TypeOK /\ Shape /\ KillInv /\ HandInv

LEMMA HandsInit == Init => HandsInv
<1> SUFFICES ASSUME Init PROVE KillInv /\ HandInv
  BY TypeInit, ShapeInit DEF HandsInv
<1>1. \A p \in Pids : proc[p].op = "free" /\ proc[p].seen = {} /\ proc[p].doomed = {}
  BY DEF Init, Free, Process
<1> QED
  BY <1>1 DEF KillInv, HandInv

LEMMA HandsStep ==
  ASSUME ~Reuse
  PROVE  HandsInv /\ [Next]_vars => HandsInv'
<1> SUFFICES ASSUME HandsInv, [Next]_vars PROVE HandsInv'
  OBVIOUS
<1>1. TypeOK' /\ Shape'
  BY TypeStep, ShapeStep DEF HandsInv
<1>2. CASE UNCHANGED vars
  BY <1>2 DEF HandsInv, KillInv, HandInv, vars, TypeOK, Shape, ShapeOf
<1>3. ASSUME NEW p \in Pids, Moves(p)
      PROVE  HandsInv'
  BY <1>1, <1>3, KillInvStep, HandInvStep DEF HandsInv
<1> QED
  BY <1>2, <1>3 DEF Next, Moves

\* As long as no PID is given again while a process has it in hand, kill and killall
\* never kill another program, for any number of processes.
THEOREM NoBystanderCorrect ==
  ASSUME ~Reuse
  PROVE  Spec => []NoBystander
<1>1. HandsInv => NoBystander
  BY DEF HandsInv, HandInv, NoBystander, At
<1> QED
  BY <1>1, HandsInit, HandsStep, PTL DEF Spec

-----------------------------------------------------------------------------
(* No entry is lost                                                        *)

\* What the holder of the lock knows of the file.
CheckOf(p) ==
  /\ proc[p].pc = "checking" =>
       \A r \in Pids : Registered(r) /\ r \in file => r \in proc[p].left \cup proc[p].seen
  /\ proc[p].pc \in {"rewriting", "writing"} => file = {}
  /\ proc[p].op = "register" /\ proc[p].pc = "writing" => p \in proc[p].seen

CheckInv == \A p \in Pids : CheckOf(p)

\* A step without the lock neither changes the file nor registers a server.
LEMMA WithoutLock ==
  ASSUME TypeOK, Shape, NEW p \in Pids, Moves(p), ~LockFile(p), ~Locked(p)
  PROVE  file' = file /\ (Registered(p)' => Registered(p))
<1>1. proc[p] \in Processes
  BY DEF TypeOK
<1>2. proc'[p] = Free => ~Registered(p)'
  BY DEF Free, Process, Registered
<1>3. CASE OpenFails(p) \/ KillFails(p) \/ KillAllEnds(p) \/ Crash(p)
  BY <1>2, <1>3 DEF OpenFails, KillFails, KillAllEnds, Crash, Becomes, Dies, TypeOK
<1>4. CASE Aim(p)
  <2>1. proc[p].pc = "aiming" /\ file' = file
    BY <1>4 DEF Aim, At, Becomes
  <2>2. CASE proc'[p] = [proc[p] EXCEPT !.pc = "killing"]
    BY <1>1, <2>1, <2>2 DEF Registered, Processes
  <2> QED
    BY <1>2, <1>4, <2>1, <2>2 DEF Aim, Becomes, TypeOK
<1>5. CASE Kill(p)
  <2>1. proc'[p].op = "kill" \/ proc'[p] = Free
    BY <1>1, <1>5 DEF Kill, TypeOK, Processes
  <2> QED
    BY <1>2, <1>5, <2>1 DEF Kill, Dies, Registered
<1>6. CASE KillAllKills(p)
  <2>1. proc'[p].op = "killall" \/ proc'[p] = Free
    BY <1>1, <1>6 DEF KillAllKills, TypeOK, Processes
  <2> QED
    BY <1>2, <1>6, <2>1 DEF KillAllKills, Dies, Registered
<1>7. CASE StopServing(p)
  BY <1>7 DEF StopServing, Becomes, Registered
<1>8. ASSUME NEW op \in {"register", "list", "killall", "other", "kill"}, NEW pc, NEW t,
              Begin(p, Process(op, pc, t))
       PROVE  file' = file /\ ~Registered(p)'
  <2>1. proc'[p] = Process(op, pc, t) /\ file' = file
    BY <1>8 DEF Begin, TypeOK
  <2> QED
    BY <2>1 DEF Process, Registered
<1>9. CASE StartServer(p) \/ StartPs(p) \/ StartKillAll(p) \/ StartKill(p) \/ StartOther(p)
  BY <1>8, <1>9 DEF StartServer, StartPs, StartKillAll, StartKill, StartOther
<1> QED
  BY <1>3, <1>4, <1>5, <1>6, <1>7, <1>9 DEF Moves, Step, Environment

\* Only the holder of the lock changes the file and registers itself.
LEMMA OnlyHolder ==
  ASSUME TypeOK, Shape, NEW p \in Pids, Moves(p), lock # p, lock # None
  PROVE  file' = file /\ (Registered(p)' => Registered(p))
<1>1. proc[p].pc \notin Holding
  BY DEF TypeOK
<1>2. ~LockFile(p)
  BY DEF LockFile, MayLock
<1>3. ~Locked(p)
  BY <1>1 DEF Locked, Verify, Prune, Rewrite, Write, RegisterAdds, RegisterFindsItself, Unregister,
     List, KillRemoves, KillAllTakes, Verified, Looked, At, Holding
<1> QED
  BY <1>2, <1>3, WithoutLock

\* The process that takes the step knows what it should of the file.
LEMMA CheckMoves ==
  ASSUME TypeOK, Shape, CheckInv, NEW p \in Pids, Moves(p)
  PROVE  CheckOf(p)'
<1>1. proc[p] \in Processes /\ CheckOf(p)
  BY DEF TypeOK, CheckInv
<1>2. proc'[p].pc \notin Holding => CheckOf(p)'
  BY DEF CheckOf, Holding
<1>3. Free.pc = "idle" /\ Serving.pc = "idle"
  BY DEF Free, Serving, Process
<1>4. CASE LockFile(p)
  <2>1. proc'[p].left = file' /\ proc'[p].pc = "checking"
    BY <1>1, <1>4 DEF LockFile, TypeOK, Processes
  <2> QED
    BY <2>1 DEF CheckOf
<1>5. CASE Verify(p)
  <2>1. PICK q \in proc[p].left :
          Becomes(p, [proc[p] EXCEPT !.left = @ \ {q},
                                     !.seen = @ \cup {s \in {q} : IsIPFSWebappProcess(s)}])
    BY <1>5 DEF Verify
  <2>2. /\ proc'[p].left = proc[p].left \ {q}
        /\ proc'[p].seen = proc[p].seen \cup {s \in {q} : IsIPFSWebappProcess(s)}
        /\ proc'[p].pc = "checking" /\ proc'[p].op = proc[p].op /\ proc[p].pc = "checking"
        /\ file' = file
    BY <1>1, <1>5, <2>1 DEF Verify, At, Becomes, TypeOK, Processes
  <2>3. \A r \in Pids : Registered(r)' => Registered(r)
    BY <2>1, <2>2 DEF Becomes, Registered, TypeOK
  <2>4. \A r \in Pids : Registered(r) => IsIPFSWebappProcess(r)
    BY DEF Registered, IsIPFSWebappProcess, Instances
  <2> QED
    BY <1>1, <2>2, <2>3, <2>4 DEF CheckOf
<1>6. CASE Prune(p)
  <2>1. file' = {} /\ proc'[p].pc = "rewriting"
    BY <1>1, <1>6 DEF Prune, Truncate, TypeOK, Processes
  <2> QED
    BY <2>1 DEF CheckOf
<1>7. CASE Rewrite(p)
  <2>1. file' = proc'[p].seen /\ proc'[p].pc = "checking"
    BY <1>1, <1>7 DEF Rewrite, TypeOK, Processes
  <2> QED
    BY <2>1 DEF CheckOf
<1>8. ASSUME NEW pids, Truncate(p, Writing(p, pids)), proc[p].op = "register" => p \in pids
      PROVE  CheckOf(p)'
  <2>1. /\ file' = {} /\ proc'[p].pc = "writing"
        /\ proc'[p].seen = pids /\ proc'[p].op = proc[p].op
    BY <1>1, <1>8 DEF Truncate, Writing, TypeOK, Processes
  <2> QED
    BY <1>8, <2>1 DEF CheckOf
<1>9. CASE RegisterAdds(p) \/ Unregister(p) \/ KillRemoves(p)
  BY <1>8, <1>9 DEF RegisterAdds, Unregister, KillRemoves, Verified
<1>10. CASE KillAllTakes(p)
  <2>1. file' = {} /\ proc'[p].pc = "writing" /\ proc'[p].op = "killall"
    BY <1>1, <1>10 DEF KillAllTakes, Truncate, Writing, Verified, TypeOK, Processes
  <2> QED
    BY <2>1 DEF CheckOf
<1>11. CASE RegisterFindsItself(p) \/ List(p) \/ Write(p)
  <2>1. \A q : Unlock(p, q) => proc'[p] = q
    BY DEF Unlock, TypeOK
  <2>2. [proc[p] EXCEPT !.pc = "killing", !.seen = {}].pc = "killing"
    BY <1>1 DEF Processes
  <2>3. proc'[p].pc \in {"idle", "killing"}
    BY <1>3, <1>11, <2>1, <2>2 DEF RegisterFindsItself, List, Write
  <2> QED
    BY <1>2, <2>3 DEF Holding
<1>12. CASE ~LockFile(p) /\ ~Locked(p)
  <2>1. proc'[p].pc \notin Holding \/ (proc'[p].pc = proc[p].pc /\ proc[p].pc \notin Holding)
    <3>1. \A op, pc, t : Process(op, pc, t).pc = pc
      BY DEF Process
    <3>2. CASE OpenFails(p) \/ KillFails(p) \/ KillAllEnds(p) \/ Crash(p)
      BY <1>3, <3>2 DEF OpenFails, KillFails, KillAllEnds, Crash, Becomes, TypeOK, Holding
    <3>3. CASE Aim(p)
      BY <1>1, <1>3, <3>3 DEF Aim, Becomes, TypeOK, Holding, Processes
    <3>4. CASE Kill(p)
      BY <1>1, <1>3, <3>4 DEF Kill, TypeOK, Holding, Processes
    <3>5. CASE KillAllKills(p)
      BY <1>1, <1>3, <3>5 DEF KillAllKills, At, TypeOK, Holding, Processes
    <3>6. CASE StopServing(p)
      BY <3>1, <3>6 DEF StopServing, Becomes, TypeOK, Holding
    <3>7. \A q : Begin(p, q) => proc'[p] = q
      BY DEF Begin, TypeOK
    <3>8. CASE StartServer(p) \/ StartPs(p) \/ StartKillAll(p) \/ StartKill(p) \/ StartOther(p)
      BY <3>1, <3>7, <3>8 DEF StartServer, StartPs, StartKillAll, StartKill, StartOther, Holding
    <3> QED
      BY <1>12, <3>2, <3>3, <3>4, <3>5, <3>6, <3>8 DEF Moves, Step, Environment
  <2> QED
    BY <1>2, <2>1
<1> QED
  BY <1>4, <1>5, <1>6, <1>7, <1>9, <1>10, <1>11, <1>12 DEF Locked

LEMMA CheckStep ==
  ASSUME TypeOK, Shape, CheckInv, NEW p \in Pids, Moves(p)
  PROVE  CheckInv'
<1> SUFFICES ASSUME NEW q \in Pids \ {p} PROVE CheckOf(q)'
  BY CheckMoves DEF CheckInv
<1>1. Free.pc = "idle" /\ Free.op = "free"
  BY DEF Free, Process
<1>2. CASE proc'[q] = Free
  BY <1>1, <1>2 DEF CheckOf
<1>3. CASE proc'[q] = proc[q] /\ proc[q].pc \notin Holding
  BY <1>3 DEF CheckOf, Holding
<1>4. CASE proc'[q] = proc[q] /\ proc[q].pc \in Holding
  <2>1. lock = q
    BY <1>4 DEF TypeOK
  <2>2. lock # None
    BY <2>1, NoneAssumption
  <2>3. file' = file /\ (Registered(p)' => Registered(p))
    BY <2>1, <2>2, OnlyHolder
  <2>4. \A r \in Pids : Registered(r)' => Registered(r)
    BY <1>1, <2>3, OthersStay DEF Registered
  <2> QED
    BY <1>4, <2>3, <2>4 DEF CheckInv, CheckOf
<1> QED
  BY <1>2, <1>3, <1>4, OthersStay

LEMMA CheckInit == Init => CheckInv
<1>1. Free.pc = "idle"
  BY DEF Free, Process
<1> QED
  BY <1>1 DEF Init, CheckInv, CheckOf

\* p is about to write r to the file, or to kill it.
Keeps(p, r) ==
  \/ proc[p].pc \in {"rewriting", "writing"} /\ r \in proc[p].seen
  \/ r \in proc[p].doomed

InFile(r) == file # None /\ r \in file

\* A process that is killed with something to keep leaves its mark.
LEMMA OthersKeep ==
  ASSUME TypeOK, NEW p \in Pids, Moves(p), ~torn', NEW q \in Pids \ {p}, NEW r, Keeps(q, r)
  PROVE  proc'[q] = proc[q]
<1>1. Unfinished(q)
  BY DEF Keeps, Unfinished
<1>2. CASE LockFile(p)
  BY <1>2 DEF LockFile, TypeOK
<1>3. CASE Locked(p)
  BY <1>3 DEF Locked, Verify, Prune, Rewrite, Write, RegisterAdds, RegisterFindsItself,
     Unregister, List, KillRemoves, KillAllTakes, Truncate, Becomes, Unlock, TypeOK
<1>4. CASE Step(p) /\ ~Locked(p)
  BY <1>1, <1>4 DEF Step, OpenFails, Aim, KillFails, Kill, KillAllKills, KillAllEnds, Becomes,
     Dies, TypeOK
<1>5. CASE Environment(p)
  BY <1>5 DEF Environment, StartServer, StartPs, StartKillAll, StartKill, StartOther, Begin,
     StopServing, Becomes, Crash, TypeOK
<1> QED
  BY <1>2, <1>3, <1>4, <1>5 DEF Moves, Step

\* A process that becomes a registered server is in the file.
LEMMA Registering ==
  ASSUME TypeOK, Shape, CheckInv, NEW p \in Pids, Moves(p), ~Registered(p), Registered(p)'
  PROVE  InFile(p)'
<1>1. proc[p] \in Processes /\ ShapeOf(p) /\ CheckOf(p)
  BY DEF TypeOK, Shape, CheckInv
<1>2. LockFile(p) \/ Locked(p)
  BY WithoutLock
<1>3. \A S \in SUBSET Pids : S # None
  BY NoneAssumption
<1>4. CASE LockFile(p)
  <2>1. proc'[p] = [proc[p] EXCEPT !.pc = "checking", !.left = file'] /\ proc[p].pc = "waiting"
    BY <1>4 DEF LockFile, MayLock, Opened, At, TypeOK
  <2> QED
    BY <1>1, <2>1 DEF Registered, Processes
<1>5. CASE Verify(p)
  <2>1. proc'[p].op = proc[p].op /\ proc'[p].pc = proc[p].pc
    BY <1>1, <1>5 DEF Verify, Becomes, TypeOK, Processes
  <2> QED
    BY <2>1 DEF Registered
<1>6. CASE Prune(p) \/ Rewrite(p)
  <2>1. proc'[p].op = proc[p].op /\ proc[p].pc # "writing"
    BY <1>1, <1>6 DEF Prune, Looked, At, Rewrite, Truncate, TypeOK, Processes
  <2> QED
    BY <2>1 DEF Registered
<1>7. CASE RegisterAdds(p) \/ Unregister(p) \/ KillRemoves(p) \/ KillAllTakes(p)
  <2>1. \A pids : Writing(p, pids).op = proc[p].op /\ Writing(p, pids).pc = "writing"
    BY <1>1 DEF Writing, Processes
  <2>2. /\ [Writing(p, {}) EXCEPT !.doomed = proc[p].seen].op = proc[p].op
        /\ [Writing(p, {}) EXCEPT !.doomed = proc[p].seen].pc = "writing"
    BY <1>1 DEF Writing, Processes
  <2>3. \A q : Truncate(p, q) => proc'[p] = q
    BY DEF Truncate, TypeOK
  <2>4. proc'[p].op = proc[p].op /\ proc'[p].pc = "writing"
    BY <1>7, <2>1, <2>2, <2>3 DEF RegisterAdds, Unregister, KillRemoves, KillAllTakes
  <2> QED
    BY <1>1, <2>4 DEF Registered, ShapeOf
<1>8. CASE RegisterFindsItself(p)
  BY <1>1, <1>8 DEF RegisterFindsItself, Verified, Looked, At, ShapeOf, Holding, InFile
<1>9. proc'[p] # Free
  BY DEF Registered, Free, Process
<1>10. CASE List(p)
  BY <1>9, <1>10 DEF List, Unlock, TypeOK
<1>11. CASE Write(p)
  <2>1. CASE proc[p].op = "register"
    BY <1>1, <1>3, <1>11, <2>1 DEF Write, At, CheckOf, InFile, Processes
  <2>2. CASE proc[p].op # "register"
    <3>1. proc'[p] = [proc[p] EXCEPT !.pc = "killing", !.seen = {}] /\ proc[p].op = "killall"
      BY <1>9, <1>11, <2>2 DEF Write, Unlock, TypeOK
    <3> QED
      BY <1>1, <3>1 DEF Registered, Processes
  <2> QED
    BY <2>1, <2>2
<1> QED
  BY <1>2, <1>4, <1>5, <1>6, <1>7, <1>8, <1>10, <1>11 DEF Locked

\* What p holds of the entry of a registered server r, and what the file holds of
\* it, is in the one or the other after p's step.
LEMMA Carries ==
  ASSUME HandsInv, CheckInv, NEW p \in Pids, Moves(p), ~torn',
         NEW r \in Pids, Registered(r), Registered(r)', Keeps(p, r) \/ InFile(r)
  PROVE  Keeps(p, r)' \/ InFile(r)'
<1>1. proc[p] \in Processes /\ ShapeOf(p) /\ CheckOf(p) /\ TypeOK /\ proc[r] \in Processes
  BY DEF HandsInv, TypeOK, Shape, CheckInv
<1>2. proc[r].op # "free" /\ proc'[r] # Free
  BY DEF Registered, Free, Process
<1>3. \A S \in SUBSET Pids : S # None
  BY NoneAssumption
<1>4. /\ proc[p].pc = "checking" => ~Keeps(p, r) /\ InFile(r)
      /\ proc[p].pc = "rewriting" => r \in proc[p].seen
      /\ proc[p].pc = "writing" => r \in proc[p].seen \cup proc[p].doomed
  BY <1>1 DEF Keeps, InFile, ShapeOf, CheckOf
<1>5. ASSUME file' = file, proc[p].pc \notin {"rewriting", "writing"}, proc[p].doomed = {}
      PROVE  InFile(r)'
  BY <1>5 DEF Keeps, InFile
<1>6. CASE LockFile(p)
  <2>1. proc[p].pc = "waiting"
    BY <1>6 DEF LockFile, MayLock, Opened, At
  <2>2. InFile(r)
    BY <1>1, <2>1 DEF Keeps, ShapeOf
  <2> QED
    BY <1>6, <2>2 DEF LockFile, InFile
<1>7. CASE Verify(p) \/ RegisterFindsItself(p) \/ List(p)
  <2>1. proc[p].pc = "checking" /\ file' = file
    BY <1>7 DEF Verify, RegisterFindsItself, List, Verified, Looked, At, Becomes
  <2> QED
    BY <1>4, <2>1 DEF InFile
<1>8. CASE Prune(p)
  <2>1. proc[p].pc = "checking" /\ proc[p].left = {}
    BY <1>8 DEF Prune, Looked, At
  <2>2. r \in proc[p].seen
    BY <1>1, <1>4, <2>1 DEF CheckOf, InFile
  <2>3. proc'[p].pc = "rewriting" /\ proc'[p].seen = proc[p].seen
    BY <1>1, <1>8 DEF Prune, Truncate, TypeOK, Processes
  <2> QED
    BY <2>2, <2>3 DEF Keeps
<1>9. CASE Rewrite(p)
  BY <1>1, <1>3, <1>4, <1>9 DEF Rewrite, At, InFile, Processes
<1>10. CASE Write(p)
  <2>1. file' = proc[p].seen /\ proc[p].seen \in SUBSET Pids /\ proc[p].pc = "writing"
    BY <1>1, <1>10 DEF Write, At, Processes
  <2>2. CASE r \in proc[p].seen
    BY <1>3, <2>1, <2>2 DEF InFile
  <2>3. CASE r \in proc[p].doomed
    <3>1. proc[p].op = "killall"
      BY <1>1, <2>3 DEF ShapeOf
    <3>2. proc'[p] = [proc[p] EXCEPT !.pc = "killing", !.seen = {}]
      BY <1>1, <1>10, <3>1 DEF Write, Unlock, TypeOK
    <3> QED
      BY <1>1, <2>3, <3>2 DEF Keeps, Processes
  <2> QED
    BY <1>4, <2>1, <2>2, <2>3
<1>11. ASSUME NEW pids, Truncate(p, Writing(p, pids)), r \in pids
       PROVE  Keeps(p, r)'
  <2>1. proc'[p].pc = "writing" /\ proc'[p].seen = pids
    BY <1>1, <1>11 DEF Truncate, Writing, TypeOK, Processes
  <2> QED
    BY <1>11, <2>1 DEF Keeps
<1>12. ASSUME NEW op, Verified(p, op)
       PROVE  r \in proc[p].seen
  BY <1>4, <1>12 DEF Verified, Looked, At, InFile
<1>13. CASE RegisterAdds(p)
  BY <1>11, <1>12, <1>13 DEF RegisterAdds
<1>14. CASE Unregister(p)
  <2>1. proc'[p].op = "unregister" /\ proc'[p].pc = "writing"
    BY <1>1, <1>14 DEF Unregister, Verified, Truncate, Writing, TypeOK, Processes
  <2>2. r # p
    BY <2>1 DEF Registered
  <2> QED
    BY <1>11, <1>12, <1>14, <2>2 DEF Unregister
<1>15. CASE KillRemoves(p)
  <2>1. proc[p].op = "kill" /\ proc[p].pc = "checking"
    BY <1>15 DEF KillRemoves, Verified, Looked, At
  <2>2. proc[proc[p].target].op = "free"
    BY <2>1 DEF HandsInv, KillInv, Holding
  <2>3. r # proc[p].target
    BY <1>2, <2>2
  <2> QED
    BY <1>11, <1>12, <1>15, <2>3 DEF KillRemoves
<1>16. CASE KillAllTakes(p)
  <2>1. proc'[p].doomed = proc[p].seen
    BY <1>1, <1>16 DEF KillAllTakes, Truncate, Writing, TypeOK, Processes
  <2> QED
    BY <1>12, <1>16, <2>1 DEF KillAllTakes, Keeps
<1>17. CASE OpenFails(p) \/ Aim(p) \/ StopServing(p)
  <2>1. file' = file /\ proc[p].pc \notin {"rewriting", "writing", "killing"}
    BY <1>1, <1>17 DEF OpenFails, Aim, StopServing, At, Becomes, ShapeOf
  <2> QED
    BY <1>1, <1>5, <2>1 DEF ShapeOf
<1>18. CASE KillFails(p) \/ KillAllEnds(p) \/ Kill(p)
  <2>1. file' = file /\ proc[p].pc = "killing" /\ (proc[p].op = "kill" \/ proc[p].doomed = {})
    BY <1>18 DEF KillFails, KillAllEnds, Kill, At, Becomes, Dies
  <2> QED
    BY <1>1, <1>5, <2>1 DEF ShapeOf
<1>19. CASE KillAllKills(p)
  <2>1. PICK q \in proc[p].doomed :
          /\ Dies(q)
          /\ proc' = [proc EXCEPT ![p] = [proc[p] EXCEPT !.doomed = @ \ {q}], ![q] = Free]
    BY <1>19 DEF KillAllKills
  <2>2. q \in Pids /\ file' = file /\ proc[p].pc = "killing"
    BY <1>1, <1>19, <2>1 DEF KillAllKills, At, Dies, Processes
  <2>3. q # p
    BY <2>1 DEF Dies, Unfinished
  <2>4. q # r
    BY <1>1, <1>2, <2>1, <2>2 DEF TypeOK
  <2>5. proc'[p] = [proc[p] EXCEPT !.doomed = @ \ {q}]
    BY <1>1, <2>1, <2>2, <2>3 DEF TypeOK
  <2>6. proc'[p].doomed = proc[p].doomed \ {q}
    BY <1>1, <2>5 DEF Processes
  <2> QED
    BY <2>2, <2>4, <2>6 DEF Keeps, InFile
<1>20. CASE Crash(p)
  <2>1. file' = file /\ ~Unfinished(p)
    BY <1>20 DEF Crash, Dies
  <2> QED
    BY <1>5, <2>1 DEF Unfinished
<1>21. ASSUME NEW q, Begin(p, q)
       PROVE  InFile(r)'
  <2>1. proc[p].pc = "idle" /\ proc[p].doomed = {} /\ file' = file
    BY <1>1, <1>21 DEF Begin, ShapeOf, Free, Process
  <2> QED
    BY <1>5, <2>1
<1>22. CASE StartServer(p) \/ StartPs(p) \/ StartKillAll(p) \/ StartKill(p) \/ StartOther(p)
  BY <1>21, <1>22 DEF StartServer, StartPs, StartKillAll, StartKill, StartOther
<1> QED
  BY <1>6, <1>7, <1>8, <1>9, <1>10, <1>13, <1>14, <1>15, <1>16, <1>17, <1>18, <1>19, <1>20,
     <1>22 DEF Moves, Step, Locked, Environment

LEMMA ListedIs ==
  ASSUME NEW r \in Pids
  PROVE  Listed(r) <=> InFile(r) \/ \E q \in Pids : Keeps(q, r)
BY DEF Listed, InFile, Keeps

LEMMA TrackedStep ==
  ASSUME HandsInv, CheckInv, Tracked, NEW p \in Pids, Moves(p)
  PROVE  Tracked'
<1> SUFFICES ASSUME ~torn', NEW r \in Pids, Registered(r)'
             PROVE  InFile(r)' \/ \E q \in Pids : Keeps(q, r)'
  BY DEF Tracked, Listed, InFile, Keeps
<1>1. TypeOK /\ Shape
  BY DEF HandsInv
<1>2. ~torn
  BY DEF Moves, LockFile, Step, Locked, Environment, OpenFails, Aim, KillFails, Kill,
     KillAllKills, KillAllEnds, Verify, Prune, Rewrite, Write, RegisterAdds,
     RegisterFindsItself, Unregister, List, KillRemoves, KillAllTakes, Truncate, Becomes,
     Unlock, Dies, StartServer, StartPs, StartKillAll, StartKill, StartOther, Begin,
     StopServing, Crash
<1>3. CASE ~Registered(r)
  <2>1. r = p
    <3>1. Free.op = "free"
      BY DEF Free, Process
    <3> QED
      BY <1>1, <1>3, <3>1, OthersStay DEF Registered
  <2> QED
    BY <1>1, <1>3, <2>1, Registering
<1>4. CASE Registered(r)
  <2>1. InFile(r) \/ \E q \in Pids : Keeps(q, r)
    BY <1>2, <1>4, ListedIs DEF Tracked
  <2>2. CASE Keeps(p, r) \/ InFile(r)
    BY <1>4, <2>2, Carries
  <2>3. ASSUME NEW q \in Pids \ {p}, Keeps(q, r)
        PROVE  Keeps(q, r)'
    <3>1. proc'[q] = proc[q]
      BY <1>1, <2>3, OthersKeep
    <3> QED
      BY <2>3, <3>1 DEF Keeps
  <2> QED
    BY <2>1, <2>2, <2>3
<1> QED
  BY <1>3, <1>4

\* As long as no PID is given again while a process has it in hand, and no process dies
\* in the middle of an update, the entry of a registered server is never lost,
\* for any number of servers and commands.
THEOREM TrackedCorrect ==
  ASSUME ~Reuse
  PROVE  Spec => []Tracked
<1> DEFINE TrackInv == HandsInv /\ CheckInv /\ Tracked
<1>1. Init => TrackInv
  <2>1. ASSUME Init, NEW p \in Pids
        PROVE  ~Registered(p)
    BY <2>1 DEF Init, Free, Process, Registered
  <2> QED
    BY <2>1, HandsInit, CheckInit DEF Tracked
<1>2. TrackInv /\ [Next]_vars => TrackInv'
  <2> SUFFICES ASSUME TrackInv, [Next]_vars PROVE TrackInv'
    OBVIOUS
  <2>1. HandsInv'
    BY HandsStep
  <2>2. CASE UNCHANGED vars
    <3>1. Tracked'
      BY <2>2 DEF Tracked, Registered, Listed, vars
    <3>2. CheckInv'
      BY <2>2 DEF CheckInv, CheckOf, Registered, vars
    <3> QED
      BY <2>1, <3>1, <3>2
  <2>3. ASSUME NEW p \in Pids, Moves(p)
        PROVE  TrackInv'
    BY <2>1, <2>3, TrackedStep, CheckStep DEF HandsInv
  <2> QED
    BY <2>2, <2>3 DEF Next, Moves
<1> QED
  BY <1>1, <1>2, PTL DEF Spec

=============================================================================
