---------------------------- MODULE LinkProcess ----------------------------
(***************************************************************************)
(* What one or several mold runs do to the world outside the linker: the   *)
(* parent and the child that fork_child() makes (subprocess-unix.cc), the  *)
(* MOLD_JOBS lock (jobs-unix.cc), the temporary file that close() renames  *)
(* onto the output path (output-file-unix.cc), the separate debug file     *)
(* written in the background under flock (passes.cc), and the ways a child *)
(* ends early: Fatal, checkpoint(), a caught signal and an uncaught one.   *)
(*                                                                         *)
(* All runs write the same output path and the same debug file.  A file is *)
(* abstracted to the run that wrote it and whether it is complete.         *)
(***************************************************************************)
EXTENDS Naturals, FiniteSets

CONSTANTS
  Runs,      \* the mold invocations
  Worlds,    \* the command lines, and which runs wait for which others
  MaxFaults, \* how many errors, failed system calls and kills may happen
  None

ASSUME LinkAssumption ==
  /\ None \notin Runs
  /\ MaxFaults \in Nat
  /\ Worlds \subseteq
       [opt : [Runs -> [debug : BOOLEAN, detach : BOOLEAN,
                        overwrite : BOOLEAN, jobs : BOOLEAN]],
        after : [Runs -> SUBSET Runs]]

VARIABLES
  world,          \* the member of Worlds that is played
  parent,         \* per run: the process the user waits for
  child,          \* per run: the next system call of the linking process
  status,         \* per run: how the child ended
  pipe_write_fd,  \* per run: the descriptor of notify_parent() is not -1
  sent,           \* per run: the byte is in the pipe
  has_error,      \* per run: an Error was reported
  output_tmpfile, \* per run: the file that cleanup() removes is known
  tmp,            \* per run: the file .<output>.<pid>
  out,            \* the file at the output path
  dbg,            \* the file at the debug path
  lockf,          \* the run that holds the MOLD_JOBS lock
  lock_fd,        \* per run: the lock was taken (lock_fd is not -1)
  flock,          \* the run that holds the lock of the debug file
  diedAt,         \* per run: history, where the child was when it died
  linked,         \* history: the runs that renamed their output into place
  faults          \* errors, failures and kills so far

files == <<tmp, out, dbg>>
locks == <<lockf, lock_fd, flock>>
procs == <<parent, child, status, pipe_write_fd, sent, has_error,
           output_tmpfile, diedAt>>
vars  == <<world, files, locks, procs, linked, faults>>

\* Where a child is, in the order of mold_main.
Points == {"lock", "link", "open", "created", "mapped", "copied",
           "rename", "linked", "flock", "detach", "debug", "notify",
           "release", "exit"}

File == [by : Runs \union {None}, complete : BOOLEAN]

opt(r) == world.opt[r]

Init ==
  /\ world \in Worlds
  /\ parent = [r \in Runs |-> "unborn"]
  /\ child = [r \in Runs |-> "unborn"]
  /\ status = [r \in Runs |-> None]
  /\ pipe_write_fd = [r \in Runs |-> FALSE]
  /\ sent = [r \in Runs |-> FALSE]
  /\ has_error = [r \in Runs |-> FALSE]
  /\ output_tmpfile = [r \in Runs |-> FALSE]
  /\ tmp = [r \in Runs |-> None]
  /\ out \in {None, [by |-> None, complete |-> TRUE]}
  /\ dbg = None
  /\ lockf = None
  /\ lock_fd = [r \in Runs |-> FALSE]
  /\ flock = None
  /\ diedAt = [r \in Runs |-> None]
  /\ linked = {}
  /\ faults = 0

Exited == {"ok", "failed", "signalled", "killed"}

\* fork_child(): the run starts when the runs it waits for have returned.
fork_child(r) ==
  /\ parent[r] = "unborn"
  /\ \A q \in world.after[r] : parent[q] \in Exited
  /\ parent' = [parent EXCEPT ![r] = "read"]
  /\ child' = [child EXCEPT ![r] = "lock"]
  /\ pipe_write_fd' = [pipe_write_fd EXCEPT ![r] = TRUE]
  /\ UNCHANGED <<world, files, locks, status, sent, has_error,
                 output_tmpfile, diedAt, linked, faults>>

-----------------------------------------------------------------------------
(* The parent.  Its copy of the pipe's write end is closed, so read() sees  *)
(* the end of the file once the child is gone.                              *)

EndOfPipeNever(r) == FALSE \* mutant: the parent keeps its copy of the write end

EndOfPipe(r) == child[r] = "dead"

ParentExits(r, how) ==
  /\ parent' = [parent EXCEPT ![r] = how]
  /\ UNCHANGED <<world, files, locks, child, status, pipe_write_fd, sent,
                 has_error, output_tmpfile, diedAt, linked, faults>>

ReadByte(r) ==
  /\ parent[r] = "read" /\ sent[r]
  /\ ParentExits(r, "ok")

Reap(r) ==
  /\ parent[r] = "read" /\ ~sent[r] /\ EndOfPipe(r)
  /\ ParentExits(r, status[r])

-----------------------------------------------------------------------------
(* The child, one action per system call that others can see.               *)

Goto(r, p) == child' = [child EXCEPT ![r] = p]

\* A process that dies gives up its locks, and its end of the pipe.
Die(r, how) ==
  /\ Goto(r, "dead")
  /\ status' = [status EXCEPT ![r] = how]
  /\ diedAt' = [diedAt EXCEPT ![r] = child[r]]
  /\ lockf' = IF lockf = r THEN None ELSE lockf
  /\ flock' = IF flock = r THEN None ELSE flock
  /\ lock_fd' = lock_fd

\* cleanup(): remove the temporary file if its name was registered.
cleanup(r) == tmp' = IF output_tmpfile[r] THEN [tmp EXCEPT ![r] = None] ELSE tmp

\* acquire_global_lock(): waits for the lock; without MOLD_JOBS=1 it returns.
acquire_global_lock(r) ==
  /\ child[r] = "lock"
  /\ opt(r).jobs => lockf = None
  /\ lockf' = IF opt(r).jobs THEN r ELSE lockf
  /\ lock_fd' = [lock_fd EXCEPT ![r] = opt(r).jobs]
  /\ Goto(r, "link")
  /\ UNCHANGED <<world, files, flock, parent, status, pipe_write_fd, sent,
                 has_error, output_tmpfile, diedAt, linked, faults>>

\* Every pass before the output file is opened; errors found by them end
\* the child at one of their checkpoints (checkpoint below).
Link(r) ==
  /\ child[r] = "link" /\ ~has_error[r]
  /\ Goto(r, "open")
  /\ UNCHANGED <<world, files, locks, parent, status, pipe_write_fd, sent,
                 has_error, output_tmpfile, diedAt, linked, faults>>

\* open_or_create_file(): an existing output is moved to the temporary name
\* to be overwritten; if it is a running program it cannot be opened
\* (ETXTBSY) and is unlinked, and a fresh file is made.
open_or_create_file(r) ==
  /\ child[r] = "open"
  /\ out' = IF opt(r).overwrite THEN None ELSE out
  /\ tmp' = [tmp EXCEPT ![r] = [by |-> r, complete |-> FALSE]]
  /\ Goto(r, "created")
  /\ UNCHANGED <<world, dbg, locks, parent, status, pipe_write_fd, sent,
                 has_error, output_tmpfile, diedAt, linked, faults>>

\* The rest of the constructor: fchmod, ftruncate, and the name of the
\* temporary file is registered for cleanup().
Register(r) ==
  /\ child[r] = "created"
  /\ output_tmpfile' = [output_tmpfile EXCEPT ![r] = TRUE]
  /\ Goto(r, "mapped")
  /\ UNCHANGED <<world, files, locks, parent, status, pipe_write_fd, sent,
                 has_error, diedAt, linked, faults>>

\* copy_chunks() and what follows up to checkpoint(): the buffer is filled.
copy_chunks(r) ==
  /\ child[r] = "mapped"
  /\ tmp' = [tmp EXCEPT ![r].complete = ~has_error[r]]
  /\ Goto(r, "copied")
  /\ UNCHANGED <<world, out, dbg, locks, parent, status, pipe_write_fd, sent,
                 has_error, output_tmpfile, diedAt, linked, faults>>

\* ctx.checkpoint(): an error reported so far ends the child with status 1.
checkpoint(r) ==
  /\ child[r] \in {"link", "copied"} /\ has_error[r]
  /\ out' \in IF child[r] = "open" /\ opt(r).overwrite THEN {out, None} ELSE {out}
  /\ Die(r, "failed")
  /\ cleanup(r)
  /\ UNCHANGED <<world, dbg, parent, pipe_write_fd, sent, has_error,
                 output_tmpfile, linked, faults>>

SkipCheckpoint(r) == child[r] = "copied" \* mutant: no checkpoint before close()

PassCheckpoint(r) == child[r] = "copied" /\ ~has_error[r]

\* MemoryMappedOutputFile::close(): unlink what is at the path, ...
UnlinkOld(r) ==
  /\ PassCheckpoint(r)
  /\ out' = None
  /\ Goto(r, "rename")
  /\ UNCHANGED <<world, tmp, dbg, locks, parent, status, pipe_write_fd, sent,
                 has_error, output_tmpfile, diedAt, linked, faults>>

\* ... and rename the temporary file onto it.
Rename(r) ==
  /\ child[r] = "rename"
  /\ out' = tmp[r]
  /\ tmp' = [tmp EXCEPT ![r] = None]
  /\ output_tmpfile' = [output_tmpfile EXCEPT ![r] = FALSE]
  /\ linked' = linked \union {r}
  /\ Goto(r, "linked")
  /\ UNCHANGED <<world, dbg, locks, parent, status, pipe_write_fd, sent,
                 has_error, diedAt, faults>>

\* mutant: the parent is told before the debug file is opened and locked
OpenDebugAfterNotifying(r) ==
  /\ child[r] = "linked"
  /\ Goto(r, IF opt(r).debug THEN "flock" ELSE "notify")
  /\ sent' = [sent EXCEPT ![r] = opt(r).debug /\ opt(r).detach]
  /\ UNCHANGED <<world, files, locks, parent, status, pipe_write_fd,
                 has_error, output_tmpfile, diedAt, linked, faults>>

\* The dependency file, LTO cleanup and the map; then the debug file is
\* opened (created if need be) when there is one to write.
OpenDebug(r) ==
  /\ child[r] = "linked"
  /\ Goto(r, IF opt(r).debug THEN "flock" ELSE "notify")
  /\ dbg' = IF opt(r).debug /\ dbg = None
            THEN [by |-> None, complete |-> FALSE] ELSE dbg
  /\ UNCHANGED <<world, tmp, out, locks, parent, status, pipe_write_fd, sent,
                 has_error, output_tmpfile, diedAt, linked, faults>>

\* mutant: --no-detach is ignored
LockDebugAndDetach(r) ==
  /\ child[r] = "flock" /\ flock = None
  /\ flock' = r
  /\ dbg' = [by |-> r, complete |-> FALSE]
  /\ Goto(r, "detach")
  /\ UNCHANGED <<world, tmp, out, lockf, lock_fd, parent, status, pipe_write_fd,
                 sent, has_error, output_tmpfile, diedAt, linked, faults>>

\* LockingOutputFile's constructor: wait for the lock, overwrite the header.
LockDebug(r) ==
  /\ child[r] = "flock" /\ flock = None
  /\ flock' = r
  /\ dbg' = [by |-> r, complete |-> FALSE]
  /\ Goto(r, IF opt(r).detach THEN "detach" ELSE "debug")
  /\ UNCHANGED <<world, tmp, out, lockf, lock_fd, parent, status, pipe_write_fd,
                 sent, has_error, output_tmpfile, diedAt, linked, faults>>

\* mutant: the lock is given back as soon as the parent is told
NotifyEarlyAndRelease(r) ==
  /\ child[r] = "detach"
  /\ sent' = [sent EXCEPT ![r] = TRUE]
  /\ pipe_write_fd' = [pipe_write_fd EXCEPT ![r] = FALSE]
  /\ lockf' = None
  /\ Goto(r, "debug")
  /\ UNCHANGED <<world, files, lock_fd, flock, parent, status, has_error,
                 output_tmpfile, diedAt, linked, faults>>

\* notify_parent(): writes the byte once.
notify_parent(r, next) ==
  /\ sent' = [sent EXCEPT ![r] = sent[r] \/ pipe_write_fd[r]]
  /\ pipe_write_fd' = [pipe_write_fd EXCEPT ![r] = FALSE]
  /\ Goto(r, next)
  /\ UNCHANGED <<world, files, locks, parent, status, has_error,
                 output_tmpfile, diedAt, linked, faults>>

\* --detach: the user need not wait for the debug file ...
NotifyEarly(r) == child[r] = "detach" /\ notify_parent(r, "debug")

\* ... otherwise the parent is told when everything is written.
NotifyLate(r) == child[r] = "notify" /\ notify_parent(r, "release")

\* The rest of write_separate_debug_file(); close() gives the lock back.
WriteDebug(r) ==
  /\ child[r] = "debug"
  /\ dbg' = [by |-> r, complete |-> ~has_error[r]]
  /\ flock' = None
  /\ Goto(r, "notify")
  /\ UNCHANGED <<world, tmp, out, lockf, lock_fd, parent, status, pipe_write_fd,
                 sent, has_error, output_tmpfile, diedAt, linked, faults>>

release_global_lock(r) ==
  /\ child[r] = "release"
  /\ lockf' = IF lock_fd[r] THEN None ELSE lockf
  /\ Goto(r, "exit")
  /\ UNCHANGED <<world, files, lock_fd, flock, parent, status, pipe_write_fd,
                 sent, has_error, output_tmpfile, diedAt, linked, faults>>

\* _exit(0)
QuickExit(r) ==
  /\ child[r] = "exit"
  /\ Die(r, "ok")
  /\ UNCHANGED <<world, files, parent, pipe_write_fd, sent, has_error,
                 output_tmpfile, linked, faults>>

-----------------------------------------------------------------------------
(* What goes wrong, at most MaxFaults times.                                *)

Fault == faults < MaxFaults /\ faults' = faults + 1

\* lockf() or the open() before it fails: the run goes on without the lock.
LockFails(r) ==
  /\ Fault
  /\ child[r] = "lock" /\ opt(r).jobs
  /\ Goto(r, "link")
  /\ UNCHANGED <<world, files, locks, parent, status, pipe_write_fd, sent,
                 has_error, output_tmpfile, diedAt, linked>>

\* Error(ctx): the error is remembered and the pass goes on.
ReportError(r) ==
  /\ Fault
  /\ child[r] \in {"link", "open", "mapped", "debug"}
  /\ has_error' = [has_error EXCEPT ![r] = TRUE]
  /\ UNCHANGED <<world, files, locks, parent, child, status, pipe_write_fd,
                 sent, output_tmpfile, diedAt, linked>>

\* Fatal(ctx): a system call or the input is wrong.  cleanup() and _exit(1).
\* When open() fails for the second time in open_or_create_file(), the old
\* output may already be gone: it was renamed and unlinked.
FatalPoints == {"link", "open", "created", "mapped", "rename", "linked", "debug"}

Fatal(r) ==
  /\ Fault
  /\ child[r] \in FatalPoints
  /\ Die(r, "failed")
  /\ cleanup(r)
  /\ UNCHANGED <<world, out, dbg, parent, pipe_write_fd, sent, has_error,
                 output_tmpfile, linked>>

\* SIGSEGV or SIGBUS (the disk is full while a mapping is written):
\* sighandler() cleans up and raises the signal again.
Caught(r) ==
  /\ Fault
  /\ child[r] \in {"link", "mapped", "debug"}
  /\ Die(r, "signalled")
  /\ cleanup(r)
  /\ UNCHANGED <<world, out, dbg, parent, pipe_write_fd, sent, has_error,
                 output_tmpfile, linked>>

\* A signal without a handler (SIGKILL, SIGTERM, SIGINT) hits the child.
Kill(r) ==
  /\ Fault
  /\ child[r] \in Points
  /\ Die(r, "killed")
  /\ UNCHANGED <<world, files, parent, pipe_write_fd, sent, has_error,
                 output_tmpfile, linked>>

-----------------------------------------------------------------------------
ParentStep(r) == ReadByte(r) \/ Reap(r)

ChildStep(r) ==
  \/ acquire_global_lock(r)
  \/ Link(r)
  \/ open_or_create_file(r)
  \/ Register(r)
  \/ copy_chunks(r)
  \/ checkpoint(r)
  \/ UnlinkOld(r)
  \/ Rename(r)
  \/ OpenDebug(r)
  \/ LockDebug(r)
  \/ NotifyEarly(r)
  \/ WriteDebug(r)
  \/ NotifyLate(r)
  \/ release_global_lock(r)
  \/ QuickExit(r)

Trouble(r) ==
  \/ LockFails(r)
  \/ ReportError(r)
  \/ Fatal(r)
  \/ Caught(r)
  \/ Kill(r)

AllDone == \A r \in Runs : parent[r] \in Exited /\ child[r] = "dead"

Next ==
  \/ \E r \in Runs :
       fork_child(r) \/ ParentStep(r) \/ ChildStep(r) \/ Trouble(r)
  \/ AllDone /\ UNCHANGED vars

Spec == Init /\ [][Next]_vars

\* The operating system runs every process that can run.  Runs are finitely
\* many, so a process that waits for a lock gets it with weak fairness.
FairSpec ==
  /\ Spec
  /\ \A r \in Runs :
       WF_vars(fork_child(r)) /\ WF_vars(ParentStep(r)) /\ WF_vars(ChildStep(r))

-----------------------------------------------------------------------------
(* Properties.                                                              *)

\* Every variable keeps its type: in particular a lock is held only by a run
\* whose child is alive, which relies on the kernel's release at its death.
TypeOK ==
  /\ world \in Worlds
  /\ parent \in [Runs -> {"unborn", "read"} \union Exited]
  /\ child \in [Runs -> Points \union {"unborn", "dead"}]
  /\ status \in [Runs -> {None} \union Exited]
  /\ pipe_write_fd \in [Runs -> BOOLEAN]
  /\ sent \in [Runs -> BOOLEAN]
  /\ has_error \in [Runs -> BOOLEAN]
  /\ output_tmpfile \in [Runs -> BOOLEAN]
  /\ tmp \in [Runs -> File \union {None}]
  /\ out \in File \union {None}
  /\ dbg \in File \union {None}
  /\ lockf \in {None} \union {r \in Runs : child[r] \in Points}
  /\ lock_fd \in [Runs -> BOOLEAN]
  /\ flock \in {None} \union {r \in Runs : child[r] \in Points}
  /\ diedAt \in [Runs -> Points \union {None}]
  /\ linked \in SUBSET Runs
  /\ faults \in 0 .. MaxFaults

\* Whatever fails, and however the runs overlap, the file at the output path
\* is a complete one of some run: contents are written under the temporary
\* name only, and renamed after the last checkpoint().
NeverPartialOutput == out # None => out.complete

\* The parent's exit status is 0 only if its child put a complete output in
\* place; with --no-detach (or without a debug file to write) the child was
\* also through with the debug file (fork_child, notify_parent).
ZeroMeansLinked ==
  \A r \in Runs : parent[r] = "ok" =>
    /\ r \in linked
    /\ opt(r).debug => dbg # None
    /\ opt(r).debug /\ ~opt(r).detach =>
         \/ child[r] \in {"release", "exit"}
         \/ child[r] = "dead" /\ diedAt[r] \in {"release", "exit"}

\* A child that does not get as far as notify_parent() is not mistaken for a
\* success: the parent that gives up reports how the child ended.
FailureIsPassedOn ==
  \A r \in Runs : parent[r] \in Exited /\ ~sent[r] =>
    child[r] = "dead" /\ parent[r] = status[r] /\ parent[r] # "ok"

\* A child that ends by Fatal, checkpoint() or a caught signal leaves a
\* temporary file behind only if fchmod() or ftruncate() was what failed;
\* a process killed without notice may also leave one.
TmpIsRemoved ==
  \A r \in Runs : tmp[r] # None /\ child[r] = "dead" =>
    status[r] = "killed" \/ diedAt[r] = "created"

\* The parent's exit status says whether the output was linked: 0 only if it was
\* (notify_parent), and a child's failure otherwise (fork_child).
ExitStatusIsRight == ZeroMeansLinked /\ FailureIsPassedOn

\* The output path never shows a half-written file, and a child that ends in
\* order removes its temporary file but for the two calls TmpIsRemoved names
\* (open_or_create_file, cleanup).
FilesAreClean == NeverPartialOutput /\ TmpIsRemoved

\* When a build links again as soon as the previous run has returned, the
\* debug file ends up as that of the output in place, although the earlier
\* run may still be writing it in the background: it takes the lock before
\* it tells its parent.
DebugFileOfOutput ==
  AllDone /\ out # None /\ out.by # None =>
    LET r == out.by IN
      (/\ \A q \in Runs \ {r} : q \in world.after[r] \/ r \in world.after[q]
       /\ \A q \in Runs : opt(q).debug
       /\ status[r] = "ok" /\ ~has_error[r])
      => dbg = [by |-> r, complete |-> TRUE]

\* Where a child works: it has passed acquire_global_lock().
Working == Points \ {"lock", "exit"}

\* MOLD_JOBS=1: a run that took the lock holds it until its debug file is
\* written too, so that of the runs that got the lock one works at a time.
OneLinkAtATime ==
  \A r, q \in Runs : lock_fd[r] /\ lock_fd[q]
    /\ child[r] \in Working /\ child[q] \in Working => r = q

\* Every run ends: the parent learns that the child is done or dead, and no
\* child waits for ever for the MOLD_JOBS lock or for the debug file.
EveryRunEnds == <>AllDone
=============================================================================
