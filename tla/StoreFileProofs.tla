-------------------------- MODULE StoreFileProofs ---------------------------
(***************************************************************************)
(* What the database file keeps, for any number of processes, files and    *)
(* versions of the binary: one process inside, on a database that is       *)
(* ready, and an installation that nobody removes or replaces.             *)
(***************************************************************************)
EXTENDS StoreFile, TLAPS

FileRow == [schema : Nat, owner : Procs \cup {None}, writing : Procs \cup {None}]
ProcRow ==
  [at : {"away", "looked", "found", "connected", "locked", "inside", "cleaning"},
   file : Files \cup {None}, binary : 1..Newest, init : BOOLEAN]

FileTypes ==
  /\ path \in Files \cup {None} /\ owner \in Procs \cup {None}
  /\ file \in [Files -> FileRow] /\ lock \in [Files -> Procs \cup {None}]
  /\ proc \in [Procs -> ProcRow]

\* Who has a file open: from its connection to the end of it.
Connected(p) == proc[p].at \in {"connected", "locked", "inside"}
Holds(p) == proc[p].at \in {"locked", "inside"}

\* An init that made the file of the path, and would remove it when it fails.
Pending(p) ==
  \/ proc[p].at \in {"found", "connected", "locked"} /\ proc[p].init
  \/ proc[p].at = "cleaning"

ConnectionsFit ==
  \A p \in Procs : IF Connected(p) THEN proc[p].file \in Files ELSE proc[p].file = None

\* The exclusive lock of SQLite, and who works on a file holds it.
LocksFit ==
  \A p \in Procs, f \in Files : lock[f] = p <=> Holds(p) /\ proc[p].file = f

\* Because of O_EXCL there is one such init at a time; it has the file that the path names,
\* and no installation was reported yet.
OnePendingInit ==
  /\ \A p, q \in Procs : Pending(p) /\ Pending(q) => p = q
  /\ \A p \in Procs : Pending(p) =>
       /\ path # None /\ owner = None
       /\ Connected(p) => proc[p].file = path

\* An installation is in the file of the path, it is the one that was reported, and before
\* it there is nothing to write in a file.
InstallationsFit ==
  \A f \in Files :
    IF file[f].owner = None THEN file[f].writing = None
    ELSE f = path /\ file[f].owner = owner

\* Who is inside has entered an installation, with its own migrations and after recovery.
EntrantsFit ==
  \A p \in Procs : At(p, "inside") =>
    /\ file[proc[p].file].owner # None
    /\ file[proc[p].file].schema = proc[p].binary
    /\ file[proc[p].file].writing \in {None, p}

FileInv ==
  /\ FileTypes /\ ConnectionsFit /\ LocksFit /\ OnePendingInit
  /\ InstallationsFit /\ EntrantsFit /\ InstallationIsKept

-----------------------------------------------------------------------------
\* At first there is neither a file nor a process.
LEMMA FileInvInitially == FileInit => FileInv
<1> SUFFICES ASSUME FileInit PROVE FileInv
  OBVIOUS
<1>1. /\ \A p \in Procs : proc[p] = Away /\ Away \in ProcRow
      /\ \A f \in Files : file[f] = EmptyFile /\ EmptyFile \in FileRow
  BY NewestAssumption DEF FileInit, Away, ProcRow, EmptyFile, FileRow
<1>2. FileTypes
  BY <1>1 DEF FileInit, FileTypes
<1>3. \A p \in Procs : proc[p].at = "away" /\ proc[p].file = None
  BY <1>1 DEF Away
<1>4. ConnectionsFit /\ LocksFit /\ OnePendingInit /\ EntrantsFit
  BY <1>3, NoneIsNothing DEF FileInit, ConnectionsFit, LocksFit, OnePendingInit, EntrantsFit,
                             Connected, Holds, Pending, At
<1>5. InstallationsFit
  BY <1>1 DEF EmptyFile, InstallationsFit
<1> QED
  BY <1>2, <1>4, <1>5 DEF FileInv, FileInit, InstallationIsKept

-----------------------------------------------------------------------------
\* A process lets go of its file, or of nothing: an error, the end of a call, or a crash.
LetsGo(p) ==
  \/ Leave(p)
  \/ Failed(p) /\ proc[p].at \in {"found", "connected", "locked"}

LEMMA LetGoStep ==
  ASSUME FileInv, NEW p \in Procs, LetsGo(p), UNCHANGED <<path, file, owner>>
  PROVE  FileInv'
<1> USE DEF FileInv
<1>1. /\ proc' \in [Procs -> ProcRow]
      /\ \A q \in Procs \ {p} : proc'[q] = proc[q]
      /\ proc'[p].at \in {"away", "cleaning"} /\ proc'[p].file = None
      /\ Pending(p)' => Pending(p)
  <2>1. CASE Leave(p)
    BY <2>1, NewestAssumption DEF FileTypes, Leave, Away, ProcRow, Pending
  <2>2. CASE proc[p].init /\ Failed(p) /\ proc[p].at \in {"found", "connected", "locked"}
    BY <2>2 DEF FileTypes, Failed, ProcRow, Pending
  <2> QED
    BY <2>1, <2>2 DEF LetsGo, Failed
<1>2. lock' = [f \in Files |-> IF lock[f] = p THEN None ELSE lock[f]]
  BY DEF LetsGo, Leave, Failed, Unlocked
<1>3. FileTypes'
  BY <1>1, <1>2 DEF FileTypes
<1>4. ConnectionsFit'
  BY <1>1 DEF ConnectionsFit, Connected
<1>5. LocksFit'
  BY <1>1, <1>2, NoneIsNothing DEF LocksFit, Holds
<1>6. OnePendingInit'
  BY <1>1 DEF OnePendingInit, Pending, Connected
<1>7. InstallationsFit' /\ InstallationIsKept'
  BY DEF InstallationsFit, InstallationIsKept
<1>8. EntrantsFit'
  BY <1>1 DEF EntrantsFit, At
<1> QED
  BY <1>3, <1>4, <1>5, <1>6, <1>7, <1>8

\* A call begins with its look at the path.  An init that found nothing is not pending yet.
LEMMA StartStep ==
  ASSUME FileInv, NEW p \in Procs, NEW binary \in 1..Newest,
         StartInit(p, binary) \/ StartOpen(p, binary)
  PROVE  FileInv'
<1> USE DEF FileInv
<1>1. /\ proc' \in [Procs -> ProcRow]
      /\ \A q \in Procs \ {p} : proc'[q] = proc[q]
      /\ proc'[p].at \in {"looked", "found"} /\ proc'[p].file = None /\ ~Pending(p)'
      /\ proc[p].at = "away"
  <2>1. CASE StartInit(p, binary)
    <3>1. [at |-> "looked", file |-> None, binary |-> binary, init |-> TRUE] \in ProcRow
      BY DEF ProcRow
    <3> QED
      BY <2>1, <3>1 DEF FileTypes, StartInit, Pending, At
  <2>2. CASE StartOpen(p, binary)
    <3>1. [at |-> "found", file |-> None, binary |-> binary, init |-> FALSE] \in ProcRow
      BY DEF ProcRow
    <3> QED
      BY <2>2, <3>1 DEF FileTypes, StartOpen, Pending, At
  <2> QED
    BY <2>1, <2>2
<1>2. UNCHANGED <<path, file, lock, owner>>
  BY DEF StartInit, StartOpen
<1>3. FileTypes' /\ InstallationsFit' /\ InstallationIsKept'
  BY <1>1, <1>2 DEF FileTypes, InstallationsFit, InstallationIsKept
<1>4. ConnectionsFit' /\ EntrantsFit'
  BY <1>1, <1>2 DEF ConnectionsFit, Connected, EntrantsFit, At
<1>5. LocksFit'
  BY <1>1, <1>2, NoneIsNothing DEF LocksFit, Holds
<1>6. OnePendingInit'
  BY <1>1, <1>2 DEF OnePendingInit, Pending, Connected
<1> QED
  BY <1>3, <1>4, <1>5, <1>6

\* O_EXCL: the init whose file it is becomes the pending one, and there is no other, for
\* that one's file would still be there.
LEMMA CreateStep ==
  ASSUME FileInv, NEW p \in Procs, Create(p)
  PROVE  FileInv'
<1> USE DEF FileInv
<1>1. CASE path # None
  BY <1>1, LetGoStep DEF Create, LetsGo
<1>2. CASE path = None
  <2>1. PICK f \in Spare : path' = f /\ file' = [file EXCEPT ![f] = EmptyFile]
    BY <1>2 DEF Create
  <2>2. /\ proc' \in [Procs -> ProcRow]
        /\ \A q \in Procs \ {p} : proc'[q] = proc[q]
        /\ proc'[p].at = "found" /\ proc[p].at = "looked" /\ proc'[p].file = proc[p].file
    BY <1>2 DEF FileTypes, ProcRow, Create, At, Goto
  <2>3. UNCHANGED <<lock, owner>> /\ owner = None
    BY <1>2 DEF Create, InstallationIsKept
  <2>4. f \in Files /\ (\A q \in Procs : proc[q].file # f) /\ EmptyFile \in FileRow
    BY DEF Spare, EmptyFile, FileRow
  <2>5. FileTypes'
    BY <2>1, <2>2, <2>3, <2>4 DEF FileTypes
  <2>6. ConnectionsFit' /\ LocksFit'
    BY <2>2, <2>3 DEF ConnectionsFit, Connected, LocksFit, Holds
  <2>7. OnePendingInit'
    BY <1>2, <2>1, <2>2, <2>3, <2>4, NoneIsNothing DEF OnePendingInit, Pending, Connected
  <2>8. InstallationsFit'
    BY <2>1, <2>3, <2>4 DEF InstallationsFit, FileTypes, EmptyFile
  <2>9. EntrantsFit' /\ InstallationIsKept'
    BY <2>1, <2>2, <2>3, <2>4 DEF EntrantsFit, At, InstallationIsKept, FileTypes,
                                  ConnectionsFit, Connected
  <2> QED
    BY <2>5, <2>6, <2>7, <2>8, <2>9
<1> QED
  BY <1>1, <1>2

\* The driver connects to the file of the path; it makes one only where there is neither an
\* installation nor a pending init.
LEMMA ConnectStep ==
  ASSUME FileInv, NEW p \in Procs, Connect(p)
  PROVE  FileInv'
<1> USE DEF FileInv
<1>1. PICK f \in IF path = None THEN Spare ELSE {path} :
        /\ path' = f
        /\ file' = IF path = None THEN [file EXCEPT ![f] = EmptyFile] ELSE file
        /\ proc' = [proc EXCEPT ![p].at = "connected", ![p].file = f]
  BY DEF Connect
<1>2. /\ f \in Files /\ EmptyFile \in FileRow
      /\ path = None => owner = None /\ \A q \in Procs : proc[q].file # f
      /\ path # None => f = path
  BY DEF Spare, FileTypes, EmptyFile, FileRow, InstallationIsKept
<1>3. /\ proc' \in [Procs -> ProcRow]
      /\ \A q \in Procs \ {p} : proc'[q] = proc[q]
      /\ proc'[p].at = "connected" /\ proc[p].at = "found" /\ proc'[p].file = f
      /\ proc'[p].init = proc[p].init
  <2>1. proc[p] \in ProcRow /\ proc[p].at = "found"
    BY DEF FileTypes, Connect, At
  <2>2. [proc[p] EXCEPT !.at = "connected", !.file = f] \in ProcRow
    BY <1>2, <2>1 DEF ProcRow
  <2>3. proc' = [proc EXCEPT ![p] = [proc[p] EXCEPT !.at = "connected", !.file = f]]
    BY <1>1, <2>1 DEF FileTypes
  <2> QED
    BY <2>1, <2>2, <2>3 DEF FileTypes, ProcRow
<1>4. UNCHANGED <<lock, owner>>
  BY DEF Connect
<1>5. FileTypes'
  BY <1>1, <1>2, <1>3, <1>4 DEF FileTypes
<1>6. ConnectionsFit' /\ LocksFit'
  BY <1>2, <1>3, <1>4 DEF ConnectionsFit, Connected, LocksFit, Holds
<1>7. OnePendingInit'
  BY <1>1, <1>2, <1>3, <1>4, NoneIsNothing DEF OnePendingInit, Pending, Connected
<1>8. InstallationsFit'
  BY <1>1, <1>2, <1>4 DEF InstallationsFit, FileTypes, EmptyFile
<1>9. EntrantsFit' /\ InstallationIsKept'
  BY <1>1, <1>2, <1>3, <1>4 DEF EntrantsFit, At, InstallationIsKept, FileTypes,
                                ConnectionsFit, Connected
<1> QED
  BY <1>5, <1>6, <1>7, <1>8, <1>9

\* The lock is exclusive: without it the call has failed.
LEMMA LockStep ==
  ASSUME FileInv, NEW p \in Procs, Lock(p)
  PROVE  FileInv'
<1> USE DEF FileInv
<1>1. CASE lock[proc[p].file] # None
  BY <1>1, LetGoStep DEF Lock, LetsGo, At
<1>2. CASE lock[proc[p].file] = None
  <2>1. /\ proc[p].at = "connected" /\ proc[p].file \in Files
        /\ lock' = [lock EXCEPT ![proc[p].file] = p]
        /\ UNCHANGED <<path, file, owner>>
    BY <1>2 DEF Lock, At, ConnectionsFit, Connected
  <2>2. /\ proc' \in [Procs -> ProcRow]
        /\ \A q \in Procs \ {p} : proc'[q] = proc[q]
        /\ proc'[p].at = "locked" /\ proc'[p].file = proc[p].file
        /\ proc'[p].init = proc[p].init
    BY <1>2 DEF FileTypes, ProcRow, Lock, Goto
  <2>3. FileTypes' /\ InstallationsFit' /\ InstallationIsKept'
    BY <2>1, <2>2 DEF FileTypes, InstallationsFit, InstallationIsKept
  <2>4. ConnectionsFit' /\ OnePendingInit' /\ EntrantsFit'
    BY <2>1, <2>2 DEF ConnectionsFit, Connected, OnePendingInit, Pending, EntrantsFit, At
  <2>5. LocksFit'
    BY <1>2, <2>1, <2>2, NoneIsNothing DEF LocksFit, Holds, FileTypes
  <2> QED
    BY <2>3, <2>4, <2>5
<1> QED
  BY <1>1, <1>2

\* Who writes a file holds its lock, so nobody else is inside it: its migrations and its
\* operations are nobody else's.
LEMMA WriteStep ==
  ASSUME FileInv, NEW p \in Procs, NEW f \in Files, Holds(p), proc[p].file = f,
         NEW row \in FileRow, file' = [file EXCEPT ![f] = row],
         NEW place \in {"locked", "inside"}, proc' = [proc EXCEPT ![p].at = place],
         UNCHANGED <<path, lock>>, owner' \in Procs \cup {None},
         InstallationsFit', InstallationIsKept',
         place = "locked" => proc[p].at = "locked",
         place = "inside" => /\ row.owner # None /\ row.schema = proc[p].binary
                             /\ row.writing \in {None, p},
         owner' = owner \/ (Pending(p) /\ place = "inside")
  PROVE  FileInv'
<1> USE DEF FileInv
<1>1. /\ proc' \in [Procs -> ProcRow]
      /\ \A q \in Procs \ {p} : proc'[q] = proc[q]
      /\ proc'[p].at = place /\ proc'[p].file = f /\ proc'[p].binary = proc[p].binary
      /\ proc'[p].init = proc[p].init
  BY DEF FileTypes, ProcRow
<1>2. FileTypes'
  BY <1>1 DEF FileTypes
<1>3. ConnectionsFit' /\ LocksFit'
  BY <1>1 DEF ConnectionsFit, Connected, LocksFit, Holds
<1>4. \A q \in Procs \ {p} : Holds(q) => proc[q].file # f
  BY DEF LocksFit
<1>5. EntrantsFit'
  BY <1>1, <1>4 DEF EntrantsFit, At, Holds, FileTypes
<1>6. OnePendingInit'
  <2>1. \A q \in Procs : Pending(q)' => Pending(q) /\ (q = p => place = "locked")
    BY <1>1 DEF Pending, Holds
  <2>2. \A q \in Procs : Pending(q)' => owner' = None
    BY <2>1 DEF OnePendingInit
  <2> QED
    BY <1>1, <2>1, <2>2 DEF OnePendingInit, Connected, Holds
<1> QED
  BY <1>2, <1>3, <1>5, <1>6

\* A migration: the schema of a file that nobody is inside of.
LEMMA MigrateStep ==
  ASSUME FileInv, NEW p \in Procs, Migrate(p)
  PROVE  FileInv'
<1> USE DEF FileInv
<1> DEFINE f == proc[p].file
           row == [file[f] EXCEPT !.schema = @ + 1]
<1>1. f \in Files /\ Holds(p) /\ proc[p].at = "locked"
  BY DEF Migrate, At, Holds, ConnectionsFit, Connected
<1>2. /\ row \in FileRow /\ file' = [file EXCEPT ![f] = row]
      /\ row.owner = file[f].owner /\ row.writing = file[f].writing
  BY <1>1 DEF Migrate, FileTypes, FileRow
<1>3. UNCHANGED <<path, lock, proc, owner>> /\ proc = [proc EXCEPT ![p].at = "locked"]
  BY <1>1 DEF Migrate, FileTypes, ProcRow
<1>4. InstallationsFit' /\ InstallationIsKept'
  BY <1>1, <1>2, <1>3 DEF InstallationsFit, InstallationIsKept, FileTypes, FileRow
<1> HIDE DEF row
<1> QED
  BY <1>1, <1>2, <1>3, <1>4, WriteStep DEF FileTypes

\* The ledger of a migrated file has exactly the migrations of the binary.
LEMMA MigratedExactly ==
  ASSUME FileTypes, ConnectionsFit, NEW p \in Procs, Migrated(p)
  PROVE  file[proc[p].file].schema = proc[p].binary
<1>1. file[proc[p].file] \in FileRow /\ proc[p] \in ProcRow
  BY DEF FileTypes, Migrated, At, ConnectionsFit, Connected
<1>2. file[proc[p].file].schema \in Nat /\ proc[p].binary \in Nat
  BY <1>1, NewestAssumption DEF FileRow, ProcRow
<1>3. /\ file[proc[p].file].schema <= proc[p].binary
      /\ file[proc[p].file].schema >= proc[p].binary
  BY DEF Migrated, Known
<1> QED
  BY <1>2, <1>3

\* The installation is written by the one init that may, into the file of the path.
LEMMA InstallStep ==
  ASSUME FileInv, NEW p \in Procs, Install(p)
  PROVE  FileInv'
<1> USE DEF FileInv
<1> DEFINE f == proc[p].file
           row == [file[f] EXCEPT !.owner = p]
<1>1. f \in Files /\ Holds(p) /\ Pending(p) /\ proc[p].at = "locked"
  BY DEF Install, Migrated, At, Holds, ConnectionsFit, Connected, Pending
<1>2. f = path /\ owner = None /\ file[f].owner = None /\ file[f].writing = None
  BY <1>1 DEF OnePendingInit, InstallationsFit, Connected
<1>3. /\ row \in FileRow /\ file' = [file EXCEPT ![f] = row]
      /\ row.owner = p /\ row.writing = None /\ row.schema = file[f].schema
  BY <1>1, <1>2 DEF Install, FileTypes, FileRow
<1>4. file[f].schema = proc[p].binary
  BY MigratedExactly DEF Install
<1>5. UNCHANGED <<path, lock>> /\ proc' = [proc EXCEPT ![p].at = "inside"] /\ owner' = p
  BY <1>2 DEF Install, Goto
<1>6. InstallationsFit' /\ InstallationIsKept'
  BY <1>1, <1>2, <1>3, <1>5, NoneIsNothing
     DEF InstallationsFit, InstallationIsKept, FileTypes, FileRow
<1> HIDE DEF row
<1> QED
  BY <1>1, <1>3, <1>4, <1>5, <1>6, NoneIsNothing, WriteStep DEF FileTypes

\* Open enters an installation, and its recovery leaves nothing of an earlier process.
LEMMA EnterStep ==
  ASSUME FileInv, NEW p \in Procs, Enter(p)
  PROVE  FileInv'
<1> USE DEF FileInv
<1> DEFINE f == proc[p].file
           row == Recovered(f)
<1>1. CASE file[f].owner = None
  BY <1>1, LetGoStep DEF Enter, LetsGo
<1>2. CASE file[f].owner # None
  <2>1. f \in Files /\ Holds(p) /\ proc[p].at = "locked"
    BY DEF Enter, Migrated, At, Holds, ConnectionsFit, Connected
  <2>2. /\ row \in FileRow /\ file' = [file EXCEPT ![f] = row]
        /\ row.owner = file[f].owner /\ row.writing = None /\ row.schema = file[f].schema
    BY <1>2, <2>1 DEF Enter, Recovered, FileTypes, FileRow
  <2>3. file[f].schema = proc[p].binary
    BY MigratedExactly DEF Enter
  <2>4. UNCHANGED <<path, lock, owner>> /\ proc' = [proc EXCEPT ![p].at = "inside"]
    BY <1>2 DEF Enter, Goto
  <2>5. InstallationsFit' /\ InstallationIsKept'
    BY <1>2, <2>1, <2>2, <2>4 DEF InstallationsFit, InstallationIsKept, FileTypes, FileRow
  <2> HIDE DEF row
  <2> QED
    BY <1>2, <2>1, <2>2, <2>3, <2>4, <2>5, WriteStep DEF FileTypes
<1> QED
  BY <1>1, <1>2

\* An operation begins or ends to be written.
LEMMA OperateStep ==
  ASSUME FileInv, NEW p \in Procs, Operate(p)
  PROVE  FileInv'
<1> USE DEF FileInv
<1> DEFINE f == proc[p].file
           row == [file[f] EXCEPT !.writing = IF @ = p THEN None ELSE p]
<1>1. f \in Files /\ Holds(p) /\ proc[p].at = "inside"
  BY DEF Operate, At, Holds, ConnectionsFit, Connected
<1>2. file[f].owner # None /\ file[f].schema = proc[p].binary
  BY <1>1 DEF EntrantsFit, At
<1>3. /\ row \in FileRow /\ file' = [file EXCEPT ![f] = row]
      /\ row.owner = file[f].owner /\ row.writing \in {None, p}
      /\ row.schema = file[f].schema
  BY <1>1 DEF Operate, FileTypes, FileRow
<1>4. UNCHANGED <<path, lock, proc, owner>> /\ proc = [proc EXCEPT ![p].at = "inside"]
  BY <1>1 DEF Operate, FileTypes, ProcRow
<1>5. InstallationsFit' /\ InstallationIsKept'
  BY <1>1, <1>2, <1>3, <1>4 DEF InstallationsFit, InstallationIsKept, FileTypes, FileRow
<1> HIDE DEF row
<1> QED
  BY <1>1, <1>2, <1>3, <1>4, <1>5, WriteStep DEF FileTypes

\* What a failed init removes by name is the file it made: no installation is in it.
LEMMA CleanupStep ==
  ASSUME FileInv, NEW p \in Procs, Cleanup(p)
  PROVE  FileInv'
<1> USE DEF FileInv
<1>1. proc[p].at = "cleaning" /\ path' = None /\ UNCHANGED <<file, lock, owner>>
  BY DEF Cleanup, At
<1>2. /\ proc' \in [Procs -> ProcRow]
      /\ \A q \in Procs \ {p} : proc'[q] = proc[q]
      /\ proc'[p].at = "away" /\ proc'[p].file = None
  BY NewestAssumption DEF FileTypes, Cleanup, Away, ProcRow
<1>3. FileTypes'
  BY <1>1, <1>2 DEF FileTypes
<1>4. ConnectionsFit' /\ LocksFit' /\ EntrantsFit'
  BY <1>1, <1>2, NoneIsNothing DEF ConnectionsFit, Connected, LocksFit, Holds, EntrantsFit, At
<1>5. Pending(p)
  BY <1>1 DEF Pending
<1>6. OnePendingInit'
  BY <1>1, <1>2, <1>5 DEF OnePendingInit, Pending
<1>7. owner = None
  BY <1>5 DEF OnePendingInit
<1>8. InstallationsFit' /\ InstallationIsKept'
  BY <1>1, <1>7 DEF InstallationsFit, InstallationIsKept
<1> QED
  BY <1>3, <1>4, <1>6, <1>8

-----------------------------------------------------------------------------
\* The invariant of the database file.
THEOREM FileInvariant == FileSpec => []FileInv
<1>1. FileInv /\ [FileNext]_vars => FileInv'
  <2> SUFFICES ASSUME FileInv, [FileNext]_vars PROVE FileInv'
    OBVIOUS
  <2>1. CASE UNCHANGED vars
    BY <2>1 DEF vars, FileInv, FileTypes, ConnectionsFit, Connected, LocksFit, Holds,
                OnePendingInit, Pending, InstallationsFit, EntrantsFit, At,
                InstallationIsKept
  <2>2. ASSUME NEW p \in Procs, RefuseSchema(p) \/ Cancel(p) \/ Close(p) \/ Crash(p)
        PROVE  LetsGo(p) /\ UNCHANGED <<path, file, owner>>
    BY <2>2 DEF RefuseSchema, Cancel, Close, Crash, LetsGo, At
  <2> QED
    BY <2>1, <2>2, LetGoStep, StartStep, CreateStep, ConnectStep, LockStep, MigrateStep,
       InstallStep, EnterStep, OperateStep, CleanupStep DEF FileNext
<1> QED
  BY <1>1, FileInvInitially, PTL DEF FileSpec

\* The installation in the path is entered by one process at a time, of however many run
\* and whatever files they still have open.
THEOREM InstallationIsEnteredByOne == FileSpec => []OneProcessInside
<1>1. FileInv => OneProcessInside
  <2> SUFFICES ASSUME FileInv, NEW p \in Procs, NEW q \in Procs, At(p, "inside"),
                      At(q, "inside")
               PROVE  p = q
    BY DEF OneProcessInside
  <2>1. proc[p].file = path /\ proc[q].file = path /\ path \in Files
    BY DEF FileInv, EntrantsFit, InstallationsFit, ConnectionsFit, Connected, At
  <2> QED
    BY <2>1 DEF FileInv, LocksFit, Holds, At
<1> QED
  BY <1>1, FileInvariant, PTL

\* Who is inside works on the file of the path, migrated by its own binary and recovered.
THEOREM EnteredIsReady == FileSpec => []InsideIsReady
<1>1. FileInv => InsideIsReady
  BY DEF FileInv, EntrantsFit, InstallationsFit, ConnectionsFit, Connected, At, InsideIsReady
<1> QED
  BY <1>1, FileInvariant, PTL

\* No init, failed, late or repeated, and no crash loses an installation or replaces it.
THEOREM InstallationStays == FileSpec => []InstallationIsKept
<1>1. FileInv => InstallationIsKept
  BY DEF FileInv
<1> QED
  BY <1>1, FileInvariant, PTL
===============================================================================
