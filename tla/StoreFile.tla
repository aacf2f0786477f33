----------------------------- MODULE StoreFile ------------------------------
(***************************************************************************)
(* The database file and the processes that create and open it:            *)
(* Initialize, Open, openDatabase and Close of internal/storage/store.go   *)
(* and migrate of migrations.go.  The service and every run of the command *)
(* line is a process of its own; what a process does inside is GateStore,  *)
(* here only that it may leave an operation behind that was being written. *)
(*                                                                         *)
(* SQLite and the file system are external: a commit is durable, a file    *)
(* that is removed lives on for who has it open, the exclusive lock ends   *)
(* with its connection, and the sidecars come and go with their file.  One *)
(* failure is taken not to happen: that of secureDatabaseFiles after the   *)
(* row of installations is written (store.go:110-112), the protection of   *)
(* files that the process has just created itself.                         *)
(***************************************************************************)
EXTENDS Naturals, FiniteSets

CONSTANTS
  None,
  Procs,   \* processes; each may run any number of times
  Files,   \* files (inodes) that may exist at a time
  Newest   \* the newest binary; binary v has the migrations 1..v

ASSUME NoneIsNothing == None \notin Procs \cup Files
ASSUME NewestAssumption == Newest \in Nat \ {0}

VARIABLES
  path,     \* the file that the database path names, or None
  file,     \* per file: [schema, owner, writing]
  lock,     \* per file: the process that holds it exclusively, or None
  proc,     \* per process: [at, file, binary, init]
  owner     \* history: the installation that was reported as initialized, or None

vars == <<path, file, lock, proc, owner>>

\* schema: the migrations 1..schema are in the ledger; owner: the installations row, named
\* for the process that wrote it; writing: who left an operation in state applying.
EmptyFile == [schema |-> 0, owner |-> None, writing |-> None]
Away == [at |-> "away", file |-> None, binary |-> 1, init |-> FALSE]

FileInit ==
  /\ path = None /\ owner = None
  /\ file = [f \in Files |-> EmptyFile]
  /\ lock = [f \in Files |-> None]
  /\ proc = [p \in Procs |-> Away]

At(p, place) == proc[p].at = place
Goto(p, place) == proc' = [proc EXCEPT ![p].at = place]

\* Neither named by the path nor open: a file that can be made anew.
Spare == {f \in Files \ {path} : \A p \in Procs : proc[p].file # f}

\* The connection is closed, if there is one, and with it its lock.
Unlocked(p) == [f \in Files |-> IF lock[f] = p THEN None ELSE lock[f]]

Leave(p) ==
  /\ proc' = [proc EXCEPT ![p] = Away]
  /\ lock' = Unlocked(p)

-----------------------------------------------------------------------------
\* Initialize and Open begin by looking at the path; the wrong answer ends the call, as
\* ErrAlreadyInitialized or ErrNotInitialized.
StartInit(p, binary) ==
  /\ At(p, "away") /\ path = None
  /\ proc' = [proc EXCEPT ![p] =
                [at |-> "looked", file |-> None, binary |-> binary, init |-> TRUE]]
  /\ UNCHANGED <<path, file, lock, owner>>

StartOpen(p, binary) ==
  /\ At(p, "away") /\ path # None
  /\ proc' = [proc EXCEPT ![p] =
                [at |-> "found", file |-> None, binary |-> binary, init |-> FALSE]]
  /\ UNCHANGED <<path, file, lock, owner>>

\* Wrong: without O_EXCL, a file that somebody else made meanwhile is taken for one's own.
CreateOrTake(p) ==
  /\ At(p, "looked")
  /\ IF path # None THEN UNCHANGED <<path, file>>
     ELSE \E f \in Spare : path' = f /\ file' = [file EXCEPT ![f] = EmptyFile]
  /\ Goto(p, "found")
  /\ UNCHANGED <<lock, owner>>

\* O_CREATE|O_EXCL: only a file that is new is one's own, and later removed on failure.
Create(p) ==
  /\ At(p, "looked")
  /\ IF path # None
     THEN Leave(p) /\ UNCHANGED <<path, file, owner>>
     ELSE /\ \E f \in Spare : path' = f /\ file' = [file EXCEPT ![f] = EmptyFile]
          /\ Goto(p, "found")
          /\ UNCHANGED <<lock, owner>>

\* The driver opens the path by name, and makes a file where there is none any more.
Connect(p) ==
  /\ At(p, "found")
  /\ \E f \in IF path = None THEN Spare ELSE {path} :
       /\ path' = f
       /\ file' = IF path = None THEN [file EXCEPT ![f] = EmptyFile] ELSE file
       /\ proc' = [proc EXCEPT ![p].at = "connected", ![p].file = f]
  /\ UNCHANGED <<lock, owner>>

\* An error of openDatabase: Initialize goes on to remove its file, Open is done.
Failed(p) ==
  IF proc[p].init
  THEN /\ proc' = [proc EXCEPT ![p].at = "cleaning", ![p].file = None]
       /\ lock' = Unlocked(p)
  ELSE Leave(p)

\* Wrong: a file that is in use is used as well.
LockShared(p) ==
  /\ At(p, "connected")
  /\ lock' = [lock EXCEPT ![proc[p].file] = p]
  /\ Goto(p, "locked")
  /\ UNCHANGED <<path, file, owner>>

\* locking_mode = EXCLUSIVE and BEGIN EXCLUSIVE; busy_timeout is a short wait.
Lock(p) ==
  /\ At(p, "connected")
  /\ IF lock[proc[p].file] # None
     THEN Failed(p) /\ UNCHANGED <<path, file, owner>>
     ELSE /\ lock' = [lock EXCEPT ![proc[p].file] = p]
          /\ Goto(p, "locked")
          /\ UNCHANGED <<path, file, owner>>

\* Wrong: the ledger is not compared with the migrations that the binary has.
KnownAnyhow(p) == TRUE

Known(p) == file[proc[p].file].schema <= proc[p].binary

\* One migration and its row in the ledger, in one transaction.
Migrate(p) ==
  /\ At(p, "locked") /\ Known(p)
  /\ file[proc[p].file].schema < proc[p].binary
  /\ file' = [file EXCEPT ![proc[p].file].schema = @ + 1]
  /\ UNCHANGED <<path, lock, proc, owner>>

RefuseSchema(p) ==
  /\ At(p, "locked") /\ ~Known(p)
  /\ Failed(p)
  /\ UNCHANGED <<path, file, owner>>

Migrated(p) == At(p, "locked") /\ Known(p) /\ file[proc[p].file].schema >= proc[p].binary

\* Initialize, once openDatabase returned: the one installations row.
Install(p) ==
  /\ Migrated(p) /\ proc[p].init
  /\ IF file[proc[p].file].owner # None
     THEN Failed(p) /\ UNCHANGED <<path, file, owner>>
     ELSE /\ file' = [file EXCEPT ![proc[p].file].owner = p]
          /\ owner' = p
          /\ Goto(p, "inside")
          /\ UNCHANGED <<path, lock>>

\* RecoverInterrupted: no operation is being written any more.
Recovered(f) == [file[f] EXCEPT !.writing = None]

\* Open, once openDatabase returned: readInstallation, then RecoverInterrupted.
Enter(p) ==
  /\ Migrated(p) /\ ~proc[p].init
  /\ IF file[proc[p].file].owner = None
     THEN Leave(p) /\ UNCHANGED <<path, file, owner>>
     ELSE /\ file' = [file EXCEPT ![proc[p].file] = Recovered(proc[p].file)]
          /\ Goto(p, "inside")
          /\ UNCHANGED <<path, lock, owner>>

\* A statement fails, as when the context is cancelled by a signal.
Cancel(p) ==
  /\ proc[p].at \in {"found", "connected", "locked"}
  /\ Failed(p)
  /\ UNCHANGED <<path, file, owner>>

\* The deferred cleanup of Initialize removes by name.
Cleanup(p) ==
  /\ At(p, "cleaning")
  /\ path' = None
  /\ proc' = [proc EXCEPT ![p] = Away]
  /\ UNCHANGED <<file, lock, owner>>

-----------------------------------------------------------------------------
\* What a process does inside that outlives it: an operation begins to be written, and ends.
Operate(p) ==
  /\ At(p, "inside")
  /\ file' = [file EXCEPT ![proc[p].file].writing = IF @ = p THEN None ELSE p]
  /\ UNCHANGED <<path, lock, proc, owner>>

Close(p) ==
  /\ At(p, "inside")
  /\ Leave(p)
  /\ UNCHANGED <<path, file, owner>>

\* The process ends anywhere; its files stay as they are.
Crash(p) ==
  /\ ~At(p, "away")
  /\ Leave(p)
  /\ UNCHANGED <<path, file, owner>>

FileNext ==
  \E p \in Procs :
    \/ \E binary \in 1..Newest : StartInit(p, binary) \/ StartOpen(p, binary)
    \/ Create(p) \/ Connect(p) \/ Lock(p) \/ Migrate(p) \/ RefuseSchema(p)
    \/ Install(p) \/ Enter(p) \/ Cancel(p) \/ Cleanup(p)
    \/ Operate(p) \/ Close(p) \/ Crash(p)

FileSpec == FileInit /\ [][FileNext]_vars

-----------------------------------------------------------------------------
\* At most one process is inside an installation, whatever file it has open: nothing in the
\* service protects it against a second one.
OneProcessInside ==
  \A p, q \in Procs : At(p, "inside") /\ At(q, "inside") => p = q

\* Who is inside works on the file that the path names, which has an installation, exactly
\* the migrations of its binary, and no operation that another process was writing.
InsideIsReady ==
  \A p \in Procs : At(p, "inside") =>
    /\ proc[p].file = path
    /\ file[path].owner # None
    /\ file[path].schema = proc[p].binary
    /\ file[path].writing \in {None, p}

\* An installation that was reported is there for good: no later or concurrent init, failed
\* or not, and no crash replaces it or removes it.
InstallationIsKept == owner # None => path # None /\ file[path].owner = owner
=============================================================================
