------------------------ MODULE FilesystemPublication ------------------------
(***************************************************************************)
(* The publication half of the live mutation tools of tools/filesystem.rs: *)
(* create_directory, copy_file, trash_file and write_file, from the        *)
(* prepared descriptors to the released locks, in one parent directory     *)
(* with its write and trash quarantines.                                   *)
(*                                                                         *)
(* One step is one system call that matters (or a run of calls nobody else *)
(* can tell apart).  Every call may fail.  Between two calls the process   *)
(* may be killed, another server process on the same directory may take    *)
(* its steps, and a writer that honours no lock may change public names.   *)
(* How a worker gets here, and what a grant is, are modules MutationCommit *)
(* and GrantReplay.                                                        *)
(***************************************************************************)
EXTENDS Naturals, FiniteSets

CONSTANTS
    Names,        \* public names of the directory
    Inodes,       \* files and directories that may ever exist
    Initial,      \* the directory at the start: a partial function of Names
    Ops,          \* authorized mutations, each executed once
    KindOf,       \* "mkdir", "copy", "trash" or "write"
    TargetOf,     \* the name an operation creates, replaces or removes
    SourceOf,     \* the name a copy reads
    ProcessOf,    \* the server process an operation runs in
    Processes,
    MaxArtifacts, \* MAX_{WRITE,TRASH}_FILE_QUARANTINE_ARTIFACTS
    MaxOutside,   \* bound: steps of the writer outside
    None          \* no inode, no operation

ASSUME PublicationAssumption ==
    /\ DOMAIN Initial \subseteq Names
    /\ \A n \in DOMAIN Initial : Initial[n] \in Inodes
    /\ KindOf \in [Ops -> {"mkdir", "copy", "trash", "write"}]
    /\ TargetOf \in [Ops -> Names] /\ SourceOf \in [Ops -> Names]
    /\ ProcessOf \in [Ops -> Processes]
    /\ \A o \in Ops : KindOf[o] = "copy" => SourceOf[o] # TargetOf[o]
    /\ MaxArtifacts \in Nat /\ MaxOutside \in Nat
    /\ None \notin Inodes \cup Ops
    /\ Ops \cap {"free", "directory", "partial", "file", "changed"} = {}

\* There are no hard links: every preparation refuses a file with two.
ASSUME LinkAssumption ==
    \A m, n \in DOMAIN Initial : Initial[m] = Initial[n] => m = n

VARIABLES
    dir,        \* public name -> inode
    hidden,     \* staging directories and the two quarantines -> their inodes
    data,       \* contents of each inode
    maker,      \* who created each inode
    publication,\* per process: the holder of FILESYSTEM_PUBLICATION_LOCK
    flock,      \* per quarantine: the holder of its advisory lock
    pc,         \* where each operation is
    seen,       \* the inode and contents an operation was prepared with
    staged,     \* the inode an operation staged
    retained,   \* the inode an operation moved from the public name
    published,  \* operations whose cleanup guard follows the public name
    outside     \* steps the writer outside has taken

fsVars == <<dir, hidden, data, maker>>
lockVars == <<publication, flock>>
opVars == <<pc, seen, staged, retained, published>>
vars == <<fsVars, lockVars, opVars, outside>>

Areas == {"staging", "write", "trash"}
Contents == {"free", "directory", "partial", "file", "changed"} \cup Ops

Steps == {"start", "prepared", "locked", "validated", "authorized", "opened", "created",
          "staged", "checked", "moved", "failing", "unlinking", "ok", "failed", "killed"}

\* What fstat and statat tell apart: the inode, and its contents by ctime.
Identity(i) == [inode |-> i, data |-> IF i = None THEN "free" ELSE data[i]]

Unseen == Identity(None)

TypeOK ==
    /\ dir \in [Names -> Inodes \cup {None}]
    /\ hidden \in [Areas -> SUBSET Inodes]
    /\ data \in [Inodes -> Contents]
    /\ maker \in [Inodes -> Ops \cup {None}]
    /\ publication \in [Processes -> Ops \cup {None}]
    /\ flock \in [Areas -> Ops \cup {None}]
    /\ pc \in [Ops -> Steps]
    /\ seen \in [Ops -> [inode : Inodes \cup {None}, data : Contents]]
    /\ retained \in [Ops -> Inodes \cup {None}]
    /\ staged \in [Ops -> Inodes \cup {None}]
    /\ published \subseteq Ops
    /\ outside \in 0..MaxOutside

Init ==
    /\ dir = [n \in Names |-> IF n \in DOMAIN Initial THEN Initial[n] ELSE None]
    /\ hidden = [a \in Areas |-> {}]
    /\ data = [i \in Inodes |->
                 IF \E n \in DOMAIN Initial : Initial[n] = i THEN "file" ELSE "free"]
    /\ maker = [i \in Inodes |-> None]
    /\ publication = [p \in Processes |-> None]
    /\ flock = [a \in Areas |-> None]
    /\ pc = [o \in Ops |-> "start"]
    /\ seen = [o \in Ops |-> Unseen]
    /\ staged = [o \in Ops |-> None]
    /\ retained = [o \in Ops |-> None]
    /\ published = {}
    /\ outside = 0

-----------------------------------------------------------------------------
(* A writer outside, which holds no lock.                                   *)

\* It creates a name, removes a file, renames its own file over a name, or
\* changes a file in place.
OutsideWrite(n, i) ==
    /\ outside < MaxOutside
    /\ outside' = outside + 1
    /\ \/ /\ data[i] = "free"
          /\ data' = [data EXCEPT ![i] = "file"]
          /\ dir' = [dir EXCEPT ![n] = i]
          /\ dir[n] # None => data[dir[n]] # "directory"
       \/ /\ dir[n] = i
          /\ data[i] # "directory"
          /\ dir' = [dir EXCEPT ![n] = None]
          /\ UNCHANGED data
       \/ /\ dir[n] = i
          /\ data[i] \notin {"directory", "changed"}
          /\ data' = [data EXCEPT ![i] = "changed"]
          /\ UNCHANGED dir
    /\ UNCHANGED <<hidden, maker, lockVars, opVars>>

-----------------------------------------------------------------------------
(* Before the grant is spent.                                               *)

Goto(o, step) == pc' = [pc EXCEPT ![o] = step]
Target(o) == dir[TargetOf[o]]
IsFile(i) == i # None /\ data[i] \notin {"free", "directory"}

\* The quarantine an operation stages in or moves to.
AreaOf(o) ==
    CASE KindOf[o] = "mkdir" -> "staging"
      [] KindOf[o] \in {"copy", "write"} -> "write"
      [] KindOf[o] = "trash" -> "trash"

\* A write to an existing file replaces it; to a free name it creates one.
Replaces(o) == KindOf[o] = "write" /\ seen[o].inode # None

\* prepare_create_directory: the name is free.
CanCreate(o) == KindOf[o] = "mkdir" /\ Target(o) = None

\* prepare_copy_file: a regular source, a free destination.
CanCopy(o) == KindOf[o] = "copy" /\ Target(o) = None /\ IsFile(dir[SourceOf[o]])

\* prepare_trash_file: a regular target.
CanTrash(o) == KindOf[o] = "trash" /\ IsFile(Target(o))

\* prepare_write_file: a free name (create) or a regular file (replace).
CanWrite(o) == KindOf[o] = "write" /\ (Target(o) = None \/ IsFile(Target(o)))

Eligible(o) == CanCreate(o) \/ CanCopy(o) \/ CanTrash(o) \/ CanWrite(o)

Subject(o) == IF KindOf[o] = "copy" THEN dir[SourceOf[o]] ELSE Target(o)

\* prepare_create_directory, prepare_copy_file, prepare_trash_file and
\* prepare_write_file: descriptors and identities are captured, or the call
\* fails.
Prepare(o) ==
    /\ pc[o] = "start"
    /\ \/ /\ Eligible(o)
          /\ seen' = [seen EXCEPT ![o] = Identity(Subject(o))]
          /\ Goto(o, "prepared")
       \/ Goto(o, "failed") /\ UNCHANGED seen
    /\ UNCHANGED <<fsVars, lockVars, staged, retained, published, outside>>

\* The process-wide lock.
LockPublication(o) ==
    /\ pc[o] = "prepared"
    /\ publication[ProcessOf[o]] = None
    /\ publication' = [publication EXCEPT ![ProcessOf[o]] = o]
    /\ Goto(o, "locked")
    /\ UNCHANGED <<fsVars, flock, seen, staged, retained, published, outside>>

\* What was prepared is still there: revalidate_absent_target,
\* revalidate_source, revalidate_target, revalidate_disposition.
StillAsPrepared(o) == Eligible(o) /\ Identity(Subject(o)) = seen[o]

\* Mutant: a full quarantine takes one more.
HasRoomOffByOne(o) == Cardinality(hidden[AreaOf(o)]) <= MaxArtifacts

HasRoom(o) == Cardinality(hidden[AreaOf(o)]) < MaxArtifacts

\* The advisory lock of a quarantine can be had, or is held already.
Lockable(o) == flock[AreaOf(o)] \in {None, o}

\* lock_trash_target: the advisory lock on the target itself, which its
\* descriptor holds until the call ends.  Only trash_file takes it.
TargetLocked(o) ==
    \E q \in Ops \ {o} :
        /\ KindOf[q] = "trash" /\ seen[q].inode = seen[o].inode
        /\ pc[q] \in {"validated", "authorized", "opened", "moved"}

\* Locks and guards are dropped in reverse order of their creation.
Unlock(o) ==
    /\ publication' = [publication EXCEPT ![ProcessOf[o]] = None]
    /\ flock' = [a \in Areas |-> IF flock[a] = o THEN None ELSE flock[a]]

End(o, outcome) ==
    /\ Goto(o, outcome)
    /\ Unlock(o)
    /\ UNCHANGED <<fsVars, seen, staged, retained, published, outside>>

\* Under the lock: target, source and room in the quarantine.  A trash keeps
\* the locks of its target and of an existing quarantine from here on, the
\* others give it back.
Revalidate(o) ==
    /\ pc[o] = "locked"
    /\ \/ /\ StillAsPrepared(o)
          /\ KindOf[o] # "mkdir" => Lockable(o) /\ HasRoom(o)
          /\ KindOf[o] = "trash" => ~TargetLocked(o)
          /\ \/ KindOf[o] = "trash" /\ flock' = [flock EXCEPT !["trash"] = o]
             \/ (KindOf[o] = "trash" => hidden["trash"] = {}) /\ UNCHANGED flock
          /\ Goto(o, "validated")
          /\ UNCHANGED <<fsVars, publication, seen, staged, retained, published, outside>>
       \/ End(o, "failed")

\* The commit is claimed and the grant spent, or the call ends here.
Authorize(o) ==
    /\ pc[o] = "validated"
    /\ \/ /\ Goto(o, "authorized")
          /\ UNCHANGED <<fsVars, lockVars, seen, staged, retained, published, outside>>
       \/ End(o, "failed")

-----------------------------------------------------------------------------
(* After the grant is spent.                                                *)

\* open_write_file_quarantine and open_trash_file_quarantine, then the check
\* of its bounds with the lock held.
OpenQuarantine(o) ==
    /\ pc[o] = "authorized"
    /\ KindOf[o] # "mkdir"
    /\ \/ /\ Lockable(o)
          /\ HasRoom(o)
          /\ flock' = [flock EXCEPT ![AreaOf(o)] = o]
          /\ Goto(o, "opened")
          /\ UNCHANGED <<fsVars, publication, seen, staged, retained, published, outside>>
       \/ End(o, "failed")

\* create_write_artifact (O_EXCL in the quarantine) or mkdirat of a random
\* name; its identity is captured.
Stage(o, i) ==
    /\ \/ pc[o] = "opened" /\ KindOf[o] \in {"copy", "write"}
       \/ pc[o] = "authorized" /\ KindOf[o] = "mkdir"
    /\ data[i] = "free"
    /\ data' = [data EXCEPT ![i] = IF KindOf[o] = "mkdir" THEN "directory"
                                                          ELSE "partial"]
    /\ maker' = [maker EXCEPT ![i] = o]
    /\ hidden' = [hidden EXCEPT ![AreaOf(o)] = @ \cup {i}]
    /\ staged' = [staged EXCEPT ![o] = i]
    /\ Goto(o, "created")
    /\ UNCHANGED <<dir, lockVars, seen, retained, published, outside>>

\* The staging could not be created.
StageFails(o) ==
    /\ \/ pc[o] = "opened" /\ KindOf[o] \in {"copy", "write"}
       \/ pc[o] = "authorized" /\ KindOf[o] = "mkdir"
    /\ End(o, "failed")

\* An error once something is staged: copies and creates run the cleanup guard
\* they armed, a write leaves what it staged in the quarantine.
Fail(o) ==
    IF KindOf[o] \in {"mkdir", "copy"}
    THEN /\ Goto(o, "failing")
         /\ UNCHANGED <<fsVars, lockVars, seen, staged, retained, published, outside>>
    ELSE End(o, "failed")

\* write_all, sync_all and the check of the staged inode.
Fill(o) ==
    /\ pc[o] = "created"
    /\ \/ /\ data' = IF KindOf[o] = "mkdir" THEN data
                     ELSE [data EXCEPT ![staged[o]] = o]
          /\ Goto(o, "staged")
          /\ UNCHANGED <<dir, hidden, maker, lockVars, seen, staged, retained,
                         published, outside>>
       \/ Fail(o)

\* Mutant: the rename replaces what has the name.
PublishOverwrites(o) ==
    /\ pc[o] = "staged"
    /\ ~Replaces(o)
    /\ dir' = [dir EXCEPT ![TargetOf[o]] = staged[o]]
    /\ hidden' = [hidden EXCEPT ![AreaOf(o)] = @ \ {staged[o]}]
    /\ published' = published \cup {o}
    /\ Goto(o, "moved")
    /\ UNCHANGED <<data, maker, lockVars, seen, staged, retained, outside>>

\* Mutant: the name is published before the contents are written.
PublishEarly(o) ==
    /\ pc[o] \in {"created", "staged"}
    /\ ~Replaces(o)
    /\ Target(o) = None
    /\ dir' = [dir EXCEPT ![TargetOf[o]] = staged[o]]
    /\ hidden' = [hidden EXCEPT ![AreaOf(o)] = @ \ {staged[o]}]
    /\ published' = published \cup {o}
    /\ Goto(o, "moved")
    /\ UNCHANGED <<data, maker, lockVars, seen, staged, retained, outside>>

\* renameat NOREPLACE from the hidden area to a free public name; the cleanup
\* guard follows the name (a write has none).
Publish(o) ==
    /\ pc[o] = "staged"
    /\ ~Replaces(o)
    /\ \/ /\ Target(o) = None
          /\ dir' = [dir EXCEPT ![TargetOf[o]] = staged[o]]
          /\ hidden' = [hidden EXCEPT ![AreaOf(o)] = @ \ {staged[o]}]
          /\ published' = published \cup {o}
          /\ Goto(o, "moved")
          /\ UNCHANGED <<data, maker, lockVars, seen, staged, retained, outside>>
       \/ Fail(o)

\* A replacement looks at its target once more.
Recheck(o) ==
    /\ pc[o] = "staged"
    /\ Replaces(o)
    /\ \/ /\ Identity(Target(o)) = seen[o]
          /\ Goto(o, "checked")
          /\ UNCHANGED <<fsVars, lockVars, seen, staged, retained, published, outside>>
       \/ End(o, "failed")

\* Mutant: the result of the rename is not looked at.
ExchangeUnguarded(o) ==
    /\ pc[o] = "checked"
    /\ dir' = [dir EXCEPT ![TargetOf[o]] = staged[o]]
    /\ hidden' = [hidden EXCEPT !["write"] = (@ \ {staged[o]}) \cup {Target(o)}]
    /\ retained' = [retained EXCEPT ![o] = Target(o)]
    /\ Goto(o, "moved")
    /\ UNCHANGED <<data, maker, lockVars, seen, staged, published, outside>>

\* Mutant: a plain rename over the target instead of an exchange.
ExchangeDiscards(o) ==
    /\ pc[o] = "checked"
    /\ dir' = [dir EXCEPT ![TargetOf[o]] = staged[o]]
    /\ hidden' = [hidden EXCEPT !["write"] = @ \ {staged[o]}]
    /\ retained' = [retained EXCEPT ![o] = Target(o)]
    /\ Goto(o, "moved")
    /\ UNCHANGED <<data, maker, lockVars, seen, staged, published, outside>>

\* renameat EXCHANGE: whatever has the name by now goes to the quarantine.
Exchange(o) ==
    /\ pc[o] = "checked"
    /\ \/ /\ Target(o) # None
          /\ dir' = [dir EXCEPT ![TargetOf[o]] = staged[o]]
          /\ hidden' = [hidden EXCEPT !["write"] = (@ \ {staged[o]}) \cup {Target(o)}]
          /\ retained' = [retained EXCEPT ![o] = Target(o)]
          /\ Goto(o, "moved")
          /\ UNCHANGED <<data, maker, lockVars, seen, staged, published, outside>>
       \/ End(o, "failed")

\* renameat NOREPLACE of the public name into the trash quarantine.
MoveToTrash(o) ==
    /\ pc[o] = "opened"
    /\ KindOf[o] = "trash"
    /\ \/ /\ Target(o) # None
          /\ dir' = [dir EXCEPT ![TargetOf[o]] = None]
          /\ hidden' = [hidden EXCEPT !["trash"] = @ \cup {Target(o)}]
          /\ retained' = [retained EXCEPT ![o] = Target(o)]
          /\ Goto(o, "moved")
          /\ UNCHANGED <<data, maker, lockVars, seen, staged, published, outside>>
       \/ End(o, "failed")

\* Mutant: only the public name is checked.
VerifiedNameOnly(o) == Target(o) = IF KindOf[o] = "trash" THEN None ELSE staged[o]

\* After a trash: the name is free, the retained object is the bound one with
\* the bound contents.
TrashVerified(o) ==
    /\ Target(o) = None
    /\ retained[o] = seen[o].inode
    /\ data[retained[o]] = seen[o].data

\* After an exchange: the displaced inode is the bound one, whatever its
\* contents are by now, and the name has the staged one.
ReplaceVerified(o) == retained[o] = seen[o].inode /\ Target(o) = staged[o]

\* The checks after the rename: the public name and the retained object are
\* the expected ones.
Verified(o) ==
    \/ KindOf[o] = "trash" /\ TrashVerified(o)
    \/ Replaces(o) /\ ReplaceVerified(o)
    \/ KindOf[o] # "trash" /\ ~Replaces(o) /\ Target(o) = staged[o]

\* Verification, the syncs of both directories and the bounds of the
\* quarantine decide the result.  A trash has nothing to clean up.
Verify(o) ==
    /\ pc[o] = "moved"
    /\ \/ /\ Verified(o)
          /\ Cardinality(hidden[AreaOf(o)]) <= MaxArtifacts
          /\ End(o, "ok")
       \/ Fail(o)

\* Drop of the cleanup guards: statat compares the name with the identity...
CleanupStat(o) ==
    /\ pc[o] = "failing"
    /\ \/ /\ IF o \in published THEN Target(o) = staged[o]
                                ELSE staged[o] \in hidden[AreaOf(o)]
          /\ Goto(o, "unlinking")
          /\ UNCHANGED <<fsVars, lockVars, seen, staged, retained, published, outside>>
       \/ End(o, "failed")

\* ... and unlinkat removes what has the name by then: a file for a copy, an
\* empty directory for a create_directory.
CleanupUnlink(o) ==
    /\ pc[o] = "unlinking"
    /\ Goto(o, "failed")
    /\ Unlock(o)
    /\ \/ UNCHANGED <<dir, hidden>>
       \/ /\ o \in published
          /\ Target(o) # None
          /\ data[Target(o)] = "directory" <=> KindOf[o] = "mkdir"
          /\ dir' = [dir EXCEPT ![TargetOf[o]] = None]
          /\ UNCHANGED hidden
       \/ /\ o \notin published
          /\ hidden' = [hidden EXCEPT ![AreaOf(o)] = @ \ {staged[o]}]
          /\ UNCHANGED dir
    /\ UNCHANGED <<data, maker, seen, staged, retained, published, outside>>

\* The process is killed: its locks go, what it did to the directory stays.
Kill(p) ==
    LET mine == {o \in Ops : ProcessOf[o] = p} IN
    /\ \E o \in mine : pc[o] \notin {"start", "ok", "failed", "killed"}
    /\ pc' = [o \in Ops |-> IF o \in mine /\ pc[o] \notin {"ok", "failed"}
                            THEN "killed" ELSE pc[o]]
    /\ publication' = [publication EXCEPT ![p] = None]
    /\ flock' = [a \in Areas |-> IF flock[a] \in mine THEN None ELSE flock[a]]
    /\ UNCHANGED <<fsVars, seen, staged, retained, published, outside>>

Next ==
    \/ \E n \in Names, i \in Inodes : OutsideWrite(n, i)
    \/ \E p \in Processes : Kill(p)
    \/ \E o \in Ops :
        \/ Prepare(o) \/ LockPublication(o) \/ Revalidate(o) \/ Authorize(o)
        \/ OpenQuarantine(o) \/ (\E i \in Inodes : Stage(o, i)) \/ StageFails(o)
        \/ Fill(o) \/ Publish(o) \/ Recheck(o) \/ Exchange(o) \/ MoveToTrash(o)
        \/ Verify(o) \/ CleanupStat(o) \/ CleanupUnlink(o)

Spec == Init /\ [][Next]_vars

-----------------------------------------------------------------------------
(* Properties.                                                             *)

\* The inodes that still have a name.
Linked == {dir[n] : n \in {m \in Names : dir[m] # None}} \cup UNION {hidden[a] : a \in Areas}

\* A step loses an inode that nobody outside removed only in a cleanup: what
\* the operation staged itself or, in the place of a directory it made, an
\* empty directory that another process put there since statat.
LosesOnlyCleanups ==
    outside' = outside =>
        \A i \in Linked \ Linked' :
            \E o \in Ops : /\ pc[o] = "unlinking"
                           /\ maker[i] = o \/ (KindOf[o] = "mkdir" /\ data[i] = "directory")

\* No operation, failed or killed at any call, loses a file it did not create
\* itself: copies and creates never overwrite, a replaced or trashed file moves
\* to a quarantine, and cleanup takes only its own staging, or an empty directory
\* that has come to the place of the one it made.
NothingLost == [][LosesOnlyCleanups]_vars

RenamesKeep ==
    outside' = outside /\ (\A o \in Ops : pc[o] = "unlinking" => pc'[o] = "unlinking") =>
        Linked \subseteq Linked'

\* Whoever is outside, everything but the cleanup after a failure loses
\* nothing, even when the name changes hands right before a rename.
RenamesLoseNothing == [][RenamesKeep]_vars

\* What the operators' documents say of the cleanup: whoever changes names
\* meanwhile, it removes nothing but the object it staged itself.
CleanupPreservesForeign ==
    [][\A o \in Ops : pc[o] = "unlinking" /\ pc'[o] = "failed" =>
         \A i \in Linked \ Linked' : maker[i] = o]_vars

\* Readers of the directory never see a staged file before its contents are
\* complete, also not after a crash.
PublicNeverPartial ==
    \A n \in Names : dir[n] # None => data[dir[n]] \notin {"free", "partial"}

\* A success is reported only for the very file the grant was bound to, and
\* that file can be recovered from then on: the replaced inode from the write
\* quarantine, the trashed one with the bound contents from the trash.
RecoveryRetained ==
    \A o \in Ops : pc[o] = "ok" =>
        /\ Replaces(o) => seen[o].inode \in hidden["write"]
        /\ KindOf[o] = "trash" =>
              seen[o].inode \in hidden["trash"] /\ data[seen[o].inode] = seen[o].data

\* Two processes that check the room of a quarantine before and after taking
\* its lock never overfill it, whatever is left behind by failures and kills.
QuarantinesBounded ==
    \A a \in {"write", "trash"} : Cardinality(hidden[a]) <= MaxArtifacts

-----------------------------------------------------------------------------
(* The inductive invariant behind the publication *)

\* Every inode in use has one place: one public name or one hidden area.
Placed ==
    /\ \A i \in Inodes : data[i] = "free" =>
          (\A n \in Names : dir[n] # i) /\ \A a \in Areas : i \notin hidden[a]
    /\ \A m, n \in Names : dir[m] = dir[n] /\ dir[m] # None => m = n
    /\ \A a \in Areas : \A i \in hidden[a] :
          (\A n \in Names : dir[n] # i) /\ \A b \in Areas : i \in hidden[b] => a = b

\* What operation o staged has not been published.
Unpublished(o) ==
    \/ pc[o] \in {"created", "staged", "checked"}
    \/ pc[o] \in {"failing", "unlinking"} /\ o \notin published

\* It is hidden, nobody else's, complete once it was filled, and no operation
\* retains it.
StagingKept(o) ==
    /\ staged[o] # None => data[staged[o]] # "free" /\ maker[staged[o]] = o
    /\ Unpublished(o) =>
          /\ staged[o] \in hidden[AreaOf(o)]
          /\ pc[o] \in {"staged", "checked"} => data[staged[o]] # "partial"
          /\ KindOf[o] = "mkdir" => data[staged[o]] = "directory"
          /\ \A q \in Ops : retained[q] # staged[o]

\* What is moved to a quarantine stays there, and a success is reported for the
\* inode of the grant only.
RetentionKept(o) ==
    /\ retained[o] # None => retained[o] \in hidden[AreaOf(o)]
    /\ pc[o] \in {"moved", "ok"} /\ KindOf[o] = "trash" => retained[o] # None
    /\ pc[o] = "ok" /\ (Replaces(o) \/ KindOf[o] = "trash") => retained[o] = seen[o].inode
    /\ pc[o] = "ok" /\ KindOf[o] = "trash" => data[retained[o]] = seen[o].data

Locking == {"opened", "created", "staged", "checked", "moved", "failing", "unlinking"}

\* The lock of a quarantine is held from its opening to the end, and the room
\* found then is still there when it is taken.
LockKept(o) ==
    /\ pc[o] \in Locking /\ KindOf[o] # "mkdir" => flock[AreaOf(o)] = o
    /\ pc[o] = "opened" => KindOf[o] # "mkdir" /\ Cardinality(hidden[AreaOf(o)]) < MaxArtifacts

\* The steps that only some tools take.
KindKept(o) ==
    /\ pc[o] = "checked" => KindOf[o] = "write" /\ Replaces(o)
    /\ pc[o] \in {"failing", "unlinking"} => KindOf[o] \in {"mkdir", "copy"}
    /\ pc[o] = "moved" /\ KindOf[o] \in {"mkdir", "copy"} => o \in published
    /\ pc[o] \in {"created", "staged"} => KindOf[o] # "trash"

OpInv(o) == StagingKept(o) /\ RetentionKept(o) /\ LockKept(o) /\ KindKept(o)

IInv ==
    /\ TypeOK /\ Placed
    /\ \A a \in Areas : IsFiniteSet(hidden[a])
    /\ QuarantinesBounded /\ PublicNeverPartial
    /\ \A o \in Ops : OpInv(o)

\* With nobody outside, the name a copy published has its file as long as the
\* copy can still clean it up, or is free, or a directory took its place: the
\* lock of the write quarantine keeps every other file away.
NameKept(o) ==
    /\ KindOf[o] = "copy" /\ o \in published /\ pc[o] \in {"moved", "failing", "unlinking"}
    /\ Target(o) # None
    => Target(o) = staged[o] \/ data[Target(o)] = "directory"

NamesKept == MaxOutside = 0 => \A o \in Ops : NameKept(o)

\* A cleanup guard follows a public name only after the rename.
GuardsKept ==
    \A o \in published : pc[o] \in {"moved", "failing", "unlinking", "ok", "failed", "killed"}

CleanupInv == IInv /\ GuardsKept /\ NamesKept
=============================================================================
