---------------------------------- MODULE Wal ----------------------------------
(***************************************************************************)
(* The append-only log of rust/ob/src/wal.rs: one file, one handle, and    *)
(* what a crash of the process or of the machine leaves of it.             *)
(*                                                                         *)
(* A file is the sequence of its whole records and whether a partial one   *)
(* follows them.  `onDisk` counts the leading records that the machine can *)
(* no longer lose; the operating system may raise it at any time.  That a  *)
(* truncation reaches the disk before what is written after it is assumed  *)
(* of the file system.                                                     *)
(***************************************************************************)
EXTENDS Integers, Sequences

CONSTANTS
    Record,         \* the records that may be appended
    Damaged,        \* a record-sized span that does not decode
    SyncEvery,      \* SYNC_EVERY, 32 in the code
    Policy,         \* the SyncPolicy
    Truncates       \* the values of open's truncate that the program passes

ASSUME WalAssumption ==
    /\ Damaged \notin Record
    /\ SyncEvery \in Nat \ {0}
    /\ Policy \in {"None", "Data", "Full"}
    /\ Truncates \subseteq BOOLEAN

VARIABLES
    file,           \* the whole records of the file
    torn,           \* a partial record follows them
    onDisk,         \* how many of them the machine can no longer lose
    handle,         \* the Wal value: none, open, inside the sync that an
                    \* append owes, or given up after an error
    sinceSync       \* its since_sync

walVars == <<file, torn, onDisk, handle, sinceSync>>

Cells == Record \cup {Damaged}

WalTypeOK ==
    /\ file \in Seq(Cells)
    /\ torn \in BOOLEAN
    /\ onDisk \in 0 .. Len(file)
    /\ handle \in {"closed", "open", "sync", "failed"}
    /\ sinceSync \in Nat

WalInit ==
    /\ file = <<>>
    /\ torn = FALSE
    /\ onDisk = 0
    /\ handle = "closed"
    /\ sinceSync = 0

\* Wal::open.  A torn tail is trimmed, so that what is appended after it is at
\* an offset a reader finds.
WalOpen ==
    /\ handle = "closed"
    /\ \E truncate \in Truncates :
        /\ file' = IF truncate THEN <<>> ELSE file
        /\ onDisk' = IF truncate THEN 0 ELSE onDisk
    /\ torn' = FALSE
    /\ handle' = "open"
    /\ sinceSync' = 0

\* A variant of the sync test that is off by one.
DueLate(n) == Policy # "None" /\ n > SyncEvery

\* append owes a sync after this many records.
Due(n) == Policy # "None" /\ n >= SyncEvery

\* Wal::append: the write, before the sync it may owe.
WalWrite(r) ==
    /\ handle = "open"
    /\ file' = Append(file, r)
    /\ sinceSync' = sinceSync + 1
    /\ handle' = IF Due(sinceSync + 1) THEN "sync" ELSE "open"
    /\ UNCHANGED <<torn, onDisk>>

\* A write of some record: the one the longer file ends with.
WalWriteSome ==
    /\ Len(file') = Len(file) + 1
    /\ file'[Len(file) + 1] \in Record
    /\ WalWrite(file'[Len(file) + 1])

\* The write fails with part of the record written, or none of it.  The caller
\* returns on any error, so a failed handle is only dropped.
WalWriteFails ==
    /\ handle = "open"
    /\ torn' \in BOOLEAN
    /\ handle' = "failed"
    /\ UNCHANGED <<file, onDisk, sinceSync>>

Synced == onDisk' = IF Policy = "None" THEN onDisk ELSE Len(file)

\* The sync an append owes.
WalSyncOwed ==
    /\ handle = "sync"
    /\ Synced
    /\ sinceSync' = 0
    /\ handle' = "open"
    /\ UNCHANGED <<file, torn>>

\* Wal::sync, called on its own.
WalSync ==
    /\ handle = "open"
    /\ Synced
    /\ sinceSync' = 0
    /\ UNCHANGED <<file, torn, handle>>

\* A sync fails: the records stay in the operating system's cache and the
\* counter is not reset.
WalSyncFails ==
    /\ Policy # "None"
    /\ handle \in {"open", "sync"}
    /\ handle' = "failed"
    /\ UNCHANGED <<file, torn, onDisk, sinceSync>>

\* Drop: a sync whose failure nobody is told of.
WalDrop ==
    /\ handle \in {"open", "failed"}
    /\ Synced \/ UNCHANGED onDisk
    /\ handle' = "closed"
    /\ UNCHANGED <<file, torn, sinceSync>>

\* The operating system writes records back on its own schedule.
WalWriteback ==
    /\ onDisk < Len(file)
    /\ onDisk' \in onDisk + 1 .. Len(file)
    /\ UNCHANGED <<file, torn, handle, sinceSync>>

\* The process is killed, perhaps in the middle of a write.
WalKilled ==
    /\ handle # "closed"
    /\ torn' \in IF handle = "open" THEN BOOLEAN ELSE {torn}
    /\ handle' = "closed"
    /\ UNCHANGED <<file, onDisk, sinceSync>>

\* The machine crashes: of what was not on the disk, any length is left and any
\* record of it may be damaged.
WalMachineCrash ==
    /\ \E n \in onDisk .. Len(file) : \E bad \in SUBSET (onDisk + 1 .. n) :
        /\ file' = [i \in 1 .. n |-> IF i \in bad THEN Damaged ELSE file[i]]
        /\ onDisk' = n
    /\ torn' \in BOOLEAN
    /\ handle' = "closed"
    /\ UNCHANGED sinceSync

WalNext ==
    \/ WalOpen \/ WalWriteFails \/ WalSyncOwed \/ WalSync \/ WalSyncFails
    \/ WalWriteSome
    \/ WalDrop \/ WalWriteback \/ WalKilled \/ WalMachineCrash

WalSpec == WalInit /\ [][WalNext]_walVars

\* replay: the records that decode, in file order; a damaged one is skipped.
Replayed == SelectSeq(file, LAMBDA cell : cell # Damaged)

--------------------------------------------------------------------------------
(* Properties.                                                             *)

\* At most the last SyncEvery records are at the mercy of a machine crash ("at
\* most the last [SYNC_EVERY] records", wal.rs), failed syncs included.
LossBounded ==
    (Policy # "None" /\ handle # "closed") => Len(file) - onDisk <= SyncEvery

\* No crash takes any record but the last SyncEvery: only a fresh start of the
\* log removes more.
AllButTheLast ==
    Policy # "None" /\ handle' = "closed"
        => \A i \in 1 .. Len(file) - SyncEvery : i <= Len(file') /\ file'[i] = file[i]

CrashTakesOnlyTheTail == [][AllButTheLast]_walVars
================================================================================
