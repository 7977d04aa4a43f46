------------------------------- MODULE PidFile -------------------------------
(***************************************************************************)
(* The PID tracking file (internal/pidfile) and the processes that use it: *)
(* servers, which register and unregister themselves, and the commands ps, *)
(* kill and killall.  A process is known by its PID, which the system may  *)
(* give again once the process is dead.                                    *)
(*                                                                         *)
(* proc[p].op is what process p is doing:                                  *)
(*   free (no such process), other (another program), register, serve,     *)
(*   unregister, list, kill, killall;                                      *)
(* proc[p].pc is where it is: idle, waiting (for the file's lock),         *)
(* checking (the PIDs of the file, one by one), rewriting (verifyPIDs has  *)
(* truncated the file), writing (the operation has), and, of kill and      *)
(* killall, aiming and killing.                                            *)
(*                                                                         *)
(* The file holds a set of PIDs: Register adds none that is there, and no  *)
(* operation depends on their order.  Truncated, empty and undecodable all *)
(* read as no PIDs.  One Write call writes the file.  The mutex mu is      *)
(* left out: no process runs two operations at a time.  So are I/O errors  *)
(* other than a missing file.                                              *)
(***************************************************************************)
CONSTANTS Pids,
          Reuse, \* a PID may be given again while a process still has it in hand
          None

ASSUME ReuseAssumption == Reuse \in BOOLEAN
ASSUME NoneAssumption == None \notin Pids /\ \A s \in SUBSET Pids : s # None

VARIABLES
  file, \* the PIDs in the file, None while there is no file
  lock, \* the process that holds the file's lock
  proc, \* the processes
  torn  \* history: a process died while what it was to write or kill was in
        \* its memory only

vars == <<file, lock, proc, torn>>

Instances == {"register", "serve", "unregister", "list", "kill", "killall"}

\* target: the PID given to kill; left, seen: the PIDs yet to be verified and those
\* found valid; doomed: KillAll's toKill.
Process(op, pc, target) ==
  [op |-> op, pc |-> pc, target |-> target, left |-> {}, seen |-> {}, doomed |-> {}]

Free == Process("free", "idle", None)

Init ==
  /\ file = None
  /\ lock = None
  /\ proc = [p \in Pids |-> Free]
  /\ torn = FALSE

At(p, pc) == proc[p].pc = pc

\* Mutant of IsIPFSWebappProcess: any process will do.
IsRunning(p) == proc[p].op # "free"

\* The process runs and its name contains p2p-webapp.
IsIPFSWebappProcess(p) == proc[p].op \in Instances

-----------------------------------------------------------------------------
(* Processes come and go                                                   *)

\* A process has q in hand: it means to kill it, or has verified it.
InHand(q) == \E p \in Pids : q \in {proc[p].target} \cup proc[p].doomed \cup proc[p].seen

Begin(p, q) ==
  /\ proc[p].op = "free"
  /\ Reuse \/ ~InHand(p)
  /\ proc' = [proc EXCEPT ![p] = q]
  /\ UNCHANGED <<file, lock, torn>>

StartServer(p)  == Begin(p, Process("register", "waiting", None))
StartPs(p)      == Begin(p, Process("list", "waiting", None))
StartKillAll(p) == Begin(p, Process("killall", "waiting", None))
StartOther(p)   == Begin(p, Process("other", "idle", None))
StartKill(p)    == \E t \in Pids \ {p} : Begin(p, Process("kill", "aiming", t))

\* A process takes its next step without touching the file.
Becomes(p, q) ==
  /\ proc' = [proc EXCEPT ![p] = q]
  /\ UNCHANGED <<file, lock, torn>>

\* main leaves its wait and runs the deferred Stop, up to Unregister.
StopServing(p) == proc[p].op = "serve" /\ Becomes(p, Process("unregister", "waiting", None))

Unfinished(q) == proc[q].pc \in {"rewriting", "writing"} \/ proc[q].doomed # {}

\* A process dies: the system closes its files, and so lets go of its lock.
Dies(q) ==
  /\ lock' = IF lock = q THEN None ELSE lock
  /\ torn' = (torn \/ Unfinished(q))
  /\ UNCHANGED file

\* A panic, a signal, the end of another program.
Crash(p) ==
  /\ proc[p].op # "free"
  /\ Dies(p)
  /\ proc' = [proc EXCEPT ![p] = Free]

-----------------------------------------------------------------------------
(* withLockedPIDFile                                                       *)

\* Unregister and Kill open the file without O_CREATE.
Creates(p) == proc[p].op \notin {"unregister", "kill"}

Opened(p) == At(p, "waiting") /\ (file # None \/ Creates(p))

\* The error ends Unregister with a warning, and is ignored by Kill.
OpenFails(p) == At(p, "waiting") /\ ~Opened(p) /\ Becomes(p, Free)

\* Mutant of MayLock: the lock is not exclusive.
MayLockShared(p) == Opened(p)

MayLock(p) == Opened(p) /\ lock = None

LockFile(p) ==
  /\ MayLock(p)
  /\ lock' = p
  /\ file' = IF file = None THEN {} ELSE file
  /\ proc' = [proc EXCEPT ![p] = [@ EXCEPT !.pc = "checking", !.left = file']]
  /\ UNCHANGED torn

\* verifyPIDs looks at one PID.
Verify(p) ==
  /\ At(p, "checking")
  /\ \E q \in proc[p].left :
       Becomes(p, [proc[p] EXCEPT !.left = @ \ {q},
                                  !.seen = @ \cup {r \in {q} : IsIPFSWebappProcess(r)}])

Looked(p) == At(p, "checking") /\ proc[p].left = {}

\* writePIDFile, first half: the new content is only in memory.
Truncate(p, q) ==
  /\ file' = {}
  /\ proc' = [proc EXCEPT ![p] = q]
  /\ UNCHANGED <<lock, torn>>

\* Some PIDs were not valid: verifyPIDs rewrites the file.
Prune(p) ==
  /\ Looked(p) /\ proc[p].seen # file
  /\ Truncate(p, [proc[p] EXCEPT !.pc = "rewriting"])

Rewrite(p) ==
  /\ At(p, "rewriting")
  /\ file' = proc[p].seen
  /\ proc' = [proc EXCEPT ![p] = [@ EXCEPT !.pc = "checking"]]
  /\ UNCHANGED <<lock, torn>>

\* The callback of withLockedPIDFile runs on the verified PIDs.
Verified(p, op) == Looked(p) /\ proc[p].seen = file /\ proc[p].op = op

\* The callback has computed the PIDs to write.
Writing(p, pids) == [proc[p] EXCEPT !.seen = pids, !.pc = "writing"]

Unlock(p, q) ==
  /\ lock' = None
  /\ proc' = [proc EXCEPT ![p] = q]
  /\ UNCHANGED torn

Serving == Process("serve", "idle", None)

-----------------------------------------------------------------------------
(* Register, Unregister, List                                              *)

RegisterAdds(p) ==
  /\ Verified(p, "register")
  /\ p \notin proc[p].seen
  /\ Truncate(p, Writing(p, proc[p].seen \cup {p}))

\* A dead process left this PID in the file.
RegisterFindsItself(p) ==
  /\ Verified(p, "register")
  /\ p \in proc[p].seen
  /\ Unlock(p, Serving)
  /\ UNCHANGED file

Unregister(p) ==
  /\ Verified(p, "unregister")
  /\ Truncate(p, Writing(p, proc[p].seen \ {p}))

\* ps prints the PIDs and ends.
List(p) == Verified(p, "list") /\ Unlock(p, Free) /\ UNCHANGED file

-----------------------------------------------------------------------------
(* Kill and KillAll                                                        *)

Aim(p) ==
  /\ At(p, "aiming")
  /\ Becomes(p, IF IsIPFSWebappProcess(proc[p].target)
                THEN [proc[p] EXCEPT !.pc = "killing"] ELSE Free)

\* The process may be gone: then Kill fails.
KillFails(p) ==
  /\ At(p, "killing") /\ proc[p].op = "kill"
  /\ proc[proc[p].target].op = "free"
  /\ Becomes(p, Free)

Kill(p) ==
  /\ At(p, "killing") /\ proc[p].op = "kill"
  /\ LET t == proc[p].target
     IN  /\ proc[t].op # "free"
         /\ Dies(t)
         /\ proc' = [proc EXCEPT ![p] = [@ EXCEPT !.pc = "waiting"], ![t] = Free]

KillRemoves(p) ==
  /\ Verified(p, "kill")
  /\ Truncate(p, Writing(p, proc[p].seen \ {proc[p].target}))

\* Mutant of KillAllTakes: the file is cleared before its PIDs are noted.
KillAllForgets(p) ==
  /\ Verified(p, "killall")
  /\ Truncate(p, Writing(p, {}))

\* KillAll notes the PIDs and clears the file.
KillAllTakes(p) ==
  /\ Verified(p, "killall")
  /\ Truncate(p, [Writing(p, {}) EXCEPT !.doomed = proc[p].seen])

\* The noted PIDs are not verified again.  killall may come across itself.
KillAllKills(p) ==
  /\ At(p, "killing") /\ proc[p].op = "killall"
  /\ \E q \in proc[p].doomed :
       /\ Dies(q)
       /\ proc' = [proc EXCEPT ![p] = [proc[p] EXCEPT !.doomed = @ \ {q}], ![q] = Free]

KillAllEnds(p) ==
  /\ At(p, "killing") /\ proc[p].op = "killall" /\ proc[p].doomed = {}
  /\ Becomes(p, Free)

\* Mutant of Write: the file stays locked.
WriteKeepsLock(p) ==
  /\ At(p, "writing")
  /\ file' = proc[p].seen
  /\ proc' = [proc EXCEPT ![p] = Free]
  /\ UNCHANGED <<lock, torn>>

\* writePIDFile, second half, and what follows once the file is unlocked.
Write(p) ==
  /\ At(p, "writing")
  /\ file' = proc[p].seen
  /\ \/ proc[p].op = "register" /\ Unlock(p, Serving)
     \/ proc[p].op \in {"unregister", "kill"} /\ Unlock(p, Free)
     \/ proc[p].op = "killall"
        /\ Unlock(p, [proc[p] EXCEPT !.pc = "killing", !.seen = {}])

-----------------------------------------------------------------------------
Locked(p) ==
  \/ Verify(p) \/ Prune(p) \/ Rewrite(p) \/ Write(p)
  \/ RegisterAdds(p) \/ RegisterFindsItself(p) \/ Unregister(p) \/ List(p)
  \/ KillRemoves(p) \/ KillAllTakes(p)

Step(p) ==
  OpenFails(p) \/ Locked(p) \/ Aim(p) \/ KillFails(p) \/ Kill(p) \/ KillAllKills(p)
               \/ KillAllEnds(p)

Environment(p) ==
  \/ StartServer(p) \/ StartPs(p) \/ StartKillAll(p) \/ StartKill(p) \/ StartOther(p)
  \/ StopServing(p) \/ Crash(p)

Next == \E p \in Pids : LockFile(p) \/ Step(p) \/ Environment(p)

Spec == Init /\ [][Next]_vars

\* A process that can run runs, and one that waits for the lock, which is free again and
\* again, gets it: flock puts those who wait in a queue.  Nobody need start, stop or die.
Fairness == \A p \in Pids : WF_vars(Step(p)) /\ SF_vars(LockFile(p))

FairSpec == Spec /\ Fairness

-----------------------------------------------------------------------------
Processes ==
  [op : Instances \cup {"free", "other"},
   pc : {"idle", "waiting", "checking", "rewriting", "writing", "aiming", "killing"},
   target : Pids \cup {None}, left : SUBSET Pids, seen : SUBSET Pids, doomed : SUBSET Pids]

Holding == {"checking", "rewriting", "writing"}

\* Every variable has its type, and only the holder of the lock is between
\* reading the file and having written it (pidfile.go:38-66).
TypeOK ==
  /\ file = None \/ file \in SUBSET Pids
  /\ lock \in Pids \cup {None}
  /\ proc \in [Pids -> Processes]
  /\ torn \in BOOLEAN
  /\ \A p \in Pids : lock = p <=> proc[p].pc \in Holding

\* p is in the file, about to be written back to it by the process that has
\* truncated it, or about to be killed by a killall that has cleared it.
Listed(p) ==
  \/ file # None /\ p \in file
  \/ \E q \in Pids : \/ proc[q].pc \in {"rewriting", "writing"} /\ p \in proc[q].seen
                     \/ p \in proc[q].doomed

\* A server has registered and has not yet taken itself out of the file.
Registered(p) ==
  proc[p].op = "serve" \/ (proc[p].op = "unregister" /\ proc[p].pc # "writing")

\* However registrations, removals, listings and kills of several processes
\* interleave, none of them loses the entry of another server: a registered
\* server is in the file until its own shutdown takes it out ("This prevents
\* race condition where ps shows no instances but process is still running",
\* server.go:252), unless some process died in the middle of an update.
Tracked == torn \/ \A p \in Pids : Registered(p) => Listed(p)

\* What ps and killall promise (pidfile.go:164, "List returns all verified
\* running p2p-webapp PIDs"; killall.go:14, "Terminate all running p2p-webapp
\* instances"): Tracked, whatever dies and wherever.
ListedWhileRunning == \A p \in Pids : Registered(p) => Listed(p)

\* kill and killall never kill another program, although a server may have
\* died and its PID been given to that program since it was registered
\* (pidfile.go:105-111, :183), as long as no PID is given again while it is in
\* hand: the processes are not looked at again when they are killed.
NoBystander ==
  \A p \in Pids : At(p, "killing") =>
    /\ proc[p].op = "kill" => proc[proc[p].target].op # "other"
    /\ \A q \in proc[p].doomed : proc[q].op # "other"

\* A process that is told to stop serving leaves, whoever else uses the file and
\* wherever the holder of the lock dies (server.go:253, pidfile_unix.go:12).
Leaves(p) == proc[p].op = "unregister" ~> proc[p].op # "unregister"
=============================================================================
